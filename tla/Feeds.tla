------------------------------- MODULE Feeds -------------------------------
(***************************************************************************)
(* One client of one exchange, from the user's calls to the streams that   *)
(* the server sends and the events they become.  BasicClient.tla has the   *)
(* life of the sockets; here one socket is enough, and the subject is      *)
(* whether what the class of the exchange sends keeps the server's streams *)
(* in step with the subscription maps.                                     *)
(***************************************************************************)
EXTENDS Naturals, Sequences, FiniteSets

CONSTANTS
    Table,        \* exchange -> its record, see Exchange.tla
    Market,
    AllMarkets,   \* the "market" of a shared stream
    MaxKinds,     \* bound: kinds of feed that one user subscribes to
    MaxFeeds,     \* bound: feeds subscribed at a time
    MaxPending,   \* bound: messages, timers and batched streams that wait at a call
    MaxChannels   \* bound: entries in the table of channels

ASSUME MarketAssumption == AllMarkets \notin Market /\ Market # {}

VARIABLES
    exchange,     \* the class under consideration
    uses,         \* the kinds of feed the user is going to subscribe to
    subs,         \* the six subscription maps: <<kind, market>>
    conn,         \* none, closing, fetching, retrying, opening, login, open
    remote,       \* what the server sends: <<stream, market>>
    queue,        \* _sendMessage: messages in the throttle
    batch,        \* _batchSub, _batchUnsub: in the order their timers were armed
    timers,       \* debounced calls: <<"wait" | "sub" | "unsub", kind>>
    memo,         \* feeds behind a flag or a count that says a stream was asked for
    channels,     \* Bitfinex _channels: <<feed, "live" | "stale">>
    awaited,      \* REST snapshots under way
    synced,       \* feeds that have had a snapshot on this connection
    orphan,       \* the client let go of a socket while it was to retry
    crashed       \* an exception in a timer or an event handler

vars == <<exchange, uses, subs, conn, remote, queue, batch, timers, memo, channels,
          awaited, synced, orphan, crashed>>

user == <<exchange, uses>>           \* chosen at the start
pending == <<queue, batch, timers>>   \* not yet with the server

ex == Table[exchange]
Kind == DOMAIN ex.asks
Feed == uses \X (IF ex.single THEN {CHOOSE m \in Market : TRUE} ELSE Market)

Init ==
    /\ exchange \in DOMAIN Table
    /\ uses \in {ks \in SUBSET Kind : Cardinality(ks) = MaxKinds \/ (ks = Kind /\ Cardinality(ks) < MaxKinds)}
    /\ subs = {} /\ remote = {} /\ memo = {} /\ channels = {} /\ awaited = {} /\ synced = {}
    /\ conn = "none"
    /\ queue = <<>> /\ batch = <<>> /\ timers = {}
    /\ orphan = FALSE
    /\ crashed = FALSE

----------------------------------------------------------------------------
(* Messages. *)

Streams(names, m) ==
    {<<s, IF s \in ex.shared THEN AllMarkets ELSE m>> : s \in names}

Asked(feeds) == UNION {Streams(ex.asks[f[1]], f[2]) : f \in feeds}
Ambient == Streams(ex.ambient, AllMarkets)

Of(k, feeds) == {f \in feeds : f[1] = k}
Via(feeds, via) == {f \in feeds : ex.sub[f[1]][2] = via}
Form(feeds, form) == {f \in feeds : ex.sub[f[1]][1] = form}
Everything(k) == UNION {Streams(ex.drops[k], m) : m \in Market}

HasSocket == conn \in {"retrying", "opening", "login", "open"}
IsConnected == conn \in {"login", "open"}

\* _connect: what comes first.
Connecting == IF ex.fetches THEN "fetching" ELSE "opening"

\* A debounced call takes the place of the one that waits under its key.
Armed(calls, op, kinds) ==
    (IF ex.oneTimer THEN {c \in calls : c[2] \notin kinds} ELSE calls)
      \cup {<<op, k>> : k \in kinds}

\* Batch.add arms the timer of its batch again, so that it is the last to fire; there is
\* one batch for each operation.
Batched(op, streams) ==
    LET same == {i \in DOMAIN batch : batch[i].op = op}
        other == {i \in DOMAIN batch : batch[i].op # op}
    IN  IF streams = {} THEN batch
        ELSE Append(IF other = {} THEN <<>> ELSE <<batch[CHOOSE i \in other : TRUE]>>,
                    [op |-> op, streams |-> streams \cup UNION {batch[i].streams : i \in same}])

Queued(add, drop) ==
    IF add = {} /\ drop = {} THEN queue ELSE Append(queue, [add |-> add, drop |-> drop])

\* Is a message written for feed f?  A flag is set by the first feed of its kind, which
\* is "first" when several are asked for in a row; a count is kept for each market.
Due(f, known, first) ==
    CASE ex.sub[f[1]][1] = "once"    -> f = first /\ Of(f[1], known) = {}
      [] ex.sub[f[1]][1] = "counted" -> \A g \in Form(known, "counted") : g[2] # f[2]
      [] ex.sub[f[1]][1] = "each"    -> TRUE
      [] OTHER                       -> FALSE

\* The _sendSub... functions, called for these feeds on a connected socket that has
\* the streams "base"; "known" is the memo.  Before an authentication the server takes
\* nothing.
SendSub(feeds, base, known) ==
    \E first \in IF Form(feeds, "once") = {} THEN {<<>>} ELSE Form(feeds, "once") :
      LET due == {f \in feeds : Due(f, known, first)}
          lists == Form(feeds, "list")
      IN  /\ remote' = IF conn' = "open" THEN base \cup Asked(Via(due, "now")) ELSE base
          /\ queue' = Queued(Asked(Via(due, "queued")), {})
          /\ batch' = Batched("add", Asked(Via(due, "batched")))
          /\ timers' = Armed(timers \cup {<<"wait", f[1]>> : f \in Via(lists, "delayed")},
                             "sub", {f[1] : f \in Via(lists, "debounced")})
          /\ memo' = known \cup (due \cap Form(feeds, "once")) \cup Form(feeds, "counted")
          /\ awaited' = awaited \cup {f \in feeds \ lists : f[1] \in ex.rest}

\* The streams an unsubscription of f gives up, when "left" are the feeds that remain
\* and the table of channels has a "found" entry for f.
GivenUp(f, left, found) ==
    LET k == f[1]
        mine == Streams({s \in ex.drops[k] :
                           ~ \E r \in ex.spares : r[1] = k /\ r[2] = s /\ <<r[3], f[2]>> \in left},
                        f[2])
    IN  CASE ex.unsub[k][1] = "each"    -> mine
          [] ex.unsub[k][1] = "last"    -> IF Cardinality(Of(k, left)) > ex.floor THEN {} ELSE mine
          [] ex.unsub[k][1] = "counted" -> IF \E g \in Form(memo, "counted") \ {f} : g[2] = f[2]
                                           THEN {} ELSE mine
          [] ex.unsub[k][1] = "acked"   -> IF found = "live" THEN mine ELSE {}
          [] ex.unsub[k][1] = "kind"    -> Everything(k)
          [] OTHER                      -> {}

Forgotten(f, left) ==
    CASE ex.unsub[f[1]][1] = "last" ->
           IF Cardinality(Of(f[1], left)) > ex.floor THEN {} ELSE Of(f[1], memo)
      [] ex.unsub[f[1]][1] = "counted" -> {f}
      [] OTHER                         -> {}

\* _findChannel: the entry of f with the lowest id, whichever that is.
FindChannel(f) ==
    LET entries == {c[2] : c \in {d \in channels : d[1] = f}}
    IN  IF entries = {} THEN {"none"} ELSE entries

\* The _sendUnsub... function of f, on a connected socket.
SendUnsub(f, left) ==
    \E found \in FindChannel(f) :
      LET via == ex.unsub[f[1]][2]
          streams == GivenUp(f, left, found)
      IN  /\ remote' = IF via = "now" THEN remote \ streams ELSE remote
          /\ queue' = IF via = "queued" THEN Queued({}, streams) ELSE queue
          /\ batch' = IF via = "batched" THEN Batched("drop", streams) ELSE batch
          /\ timers' = IF via = "debounced" THEN Armed(timers, "unsub", {f[1]}) ELSE timers
          /\ memo' = memo \ Forgotten(f, left)
          /\ channels' = IF ex.unsub[f[1]][1] = "acked" /\ streams # {}
                         THEN (channels \ {<<f, "live">>}) \cup {<<f, "stale">>}
                         ELSE channels

----------------------------------------------------------------------------
(* The calls of the user. *)

\* Bound: a call is made when less than MaxPending waits; a stream that waits in a batch
\* counts once, whatever the calls about it.
Waiting == UNION {batch[i].streams : i \in DOMAIN batch}
HasRoom == Len(queue) + Cardinality(Waiting) + Cardinality(timers) < MaxPending

Subscribe(f) ==
    /\ f \notin subs
    /\ Cardinality(subs) < MaxFeeds /\ HasRoom
    /\ subs' = subs \cup {f}
    /\ conn' = IF conn \in {"none", "closing"} THEN Connecting ELSE conn
    /\ IF IsConnected
       THEN SendSub({f}, remote, memo)
       ELSE UNCHANGED <<remote, queue, batch, timers, memo, awaited>>
    /\ UNCHANGED <<user, channels, synced, orphan, crashed>>

\* The entry goes first; then, without a socket, the call throws to the user.  A class
\* that has no _sendUnsub... function throws before, and the feed stays.
Unsubscribe(f) ==
    /\ f \in subs
    /\ ex.unsub[f[1]][1] # "missing"
    /\ HasRoom
    /\ subs' = subs \ {f}
    /\ synced' = synced \ {f}
    /\ IF IsConnected
       THEN SendUnsub(f, subs \ {f})
       ELSE UNCHANGED <<remote, queue, batch, timers, memo, channels>>
    /\ UNCHANGED <<user, conn, awaited, orphan, crashed>>

\* What the end of a connection does to the state that belongs to it.
Disconnected ==
    /\ remote' = {}
    /\ channels' = {<<c[1], "stale">> : c \in channels}
    /\ synced' = {}

\* _beforeClose and _onClosing: the throttles and the batches are emptied; a snapshot
\* whose request has gone out still comes.
Cancelled ==
    /\ queue' = <<>>
    /\ batch' = <<>>
    /\ memo' = IF ex.forgets = "closing" THEN {} ELSE memo
    /\ awaited' \in IF ex.cancels THEN SUBSET awaited ELSE {awaited}

\* Mutant: the socket is forgotten and not closed, so that its streams go on.
ReleasedUnclosed ==
    /\ orphan' = (orphan \/ conn = "retrying")
    /\ UNCHANGED <<remote, channels, synced>>
    /\ Cancelled

\* The client closes its socket and forgets it.  No timer is cancelled: one that waits to
\* retry will connect, again and again, with the handlers of the client.
Released ==
    /\ orphan' = (orphan \/ conn = "retrying")
    /\ Disconnected
    /\ Cancelled

\* close(): on a placeholder it throws, after _beforeClose; without a socket there is
\* _beforeClose alone.
Close ==
    /\ \/ HasSocket /\ conn' = "none" /\ Released
       \/ conn = "fetching" /\ Cancelled /\ UNCHANGED <<conn, remote, channels, synced, orphan>>
       \/ /\ conn \in {"none", "closing"} /\ ex.early
          /\ Cancelled
          /\ UNCHANGED <<conn, remote, channels, synced, orphan>>
    /\ UNCHANGED <<user, subs, timers, crashed>>

\* reconnect(): connect at once, or close now and connect again at "closed", which a socket
\* that waits to retry never says; on a placeholder it throws.
Reconnect ==
    /\ \/ /\ HasSocket
          /\ conn' = IF conn = "retrying" THEN "none" ELSE "closing"
          /\ Released
       \/ /\ conn \in {"none", "closing"}
          /\ conn' = Connecting
          /\ UNCHANGED <<remote, queue, batch, memo, channels, awaited, synced, orphan>>
    /\ UNCHANGED <<user, subs, timers, crashed>>

\* "closed"
Resume ==
    /\ conn = "closing"
    /\ conn' = Connecting
    /\ UNCHANGED <<user, subs, remote, pending, memo, channels, awaited, synced, orphan, crashed>>

----------------------------------------------------------------------------
(* The network and the server. *)

\* _connectAsync has its answer; it does not look whether it is still wanted.
Fetched ==
    /\ conn = "fetching"
    /\ conn' = "opening"
    /\ UNCHANGED <<user, subs, remote, pending, memo, channels, awaited, synced, orphan, crashed>>

\* What a class remembers when it hears of a connection.
Remembered == IF ex.forgets = "opened" THEN {} ELSE memo

\* BasicClient._onConnected: every feed is asked for.
Resubscribe ==
    /\ HasRoom
    /\ conn' = "open"
    /\ SendSub(subs, Ambient, Remembered)
    /\ UNCHANGED <<user, subs, channels, synced, orphan, crashed>>

Opened ==
    /\ conn = "opening"
    /\ \/ ~ex.login /\ Resubscribe
       \/ /\ ex.login
          /\ conn' = "login"
          /\ UNCHANGED <<user, subs, remote, pending, memo, channels, awaited, synced, orphan, crashed>>

\* AuthenticationResult
LoggedIn == conn = "login" /\ Resubscribe

\* The connection is lost, or is not made, and the socket is going to try again.
Lost ==
    /\ conn \in {"opening", "login", "open"} /\ ~ex.gives
    /\ conn' = "retrying"
    /\ Disconnected
    /\ UNCHANGED <<user, subs, pending, memo, awaited, orphan, crashed>>

\* The socket waits longer before it connects again (15 s) than any timer that is armed
\* and the messages that wait (1 s each at most), but for those of an orphan.
Retry ==
    /\ conn = "retrying"
    /\ ~orphan => queue = <<>> /\ batch = <<>> /\ timers = {}
    /\ conn' = "opening"
    /\ UNCHANGED <<user, subs, remote, pending, memo, channels, awaited, synced, orphan, crashed>>

\* The same when the handler of "disconnected" closes the client: the socket is not
\* connected yet, so its own timer survives.
LostAndClosed ==
    /\ conn \in {"opening", "open"} /\ ex.gives
    /\ orphan' = TRUE
    /\ conn' = "none"
    /\ Disconnected
    /\ Cancelled
    /\ UNCHANGED <<user, subs, timers, crashed>>

\* Something is written as soon as a connection is heard of.
Writes ==
    \/ ex.greets
    \/ \E f \in Via(subs, "now") : /\ ~(Asked({f}) \subseteq Ambient)
                                  /\ \E first \in subs : Due(f, Remembered, first)

\* An orphan connects: its handlers ask for every feed, on the socket that has taken its
\* place if there is one.  (An authentication that is repeated changes nothing.)
OrphanOpens ==
    /\ orphan /\ HasRoom
    /\ crashed' = (~HasSocket /\ Writes)
    /\ UNCHANGED <<conn, orphan>>
    /\ IF ex.login THEN UNCHANGED <<remote, pending, memo, awaited>>
                   ELSE SendSub(subs, remote, Remembered)
    /\ UNCHANGED <<user, subs, channels, synced>>

\* It is lost in its turn, or does not connect: KuCoin's handler closes the client again,
\* after _beforeClose, and throws when it finds a placeholder.
OrphanLost ==
    /\ orphan /\ ex.gives
    /\ Cancelled
    /\ IF HasSocket
       THEN conn' = "none" /\ Disconnected
       ELSE UNCHANGED <<conn, remote, channels, synced>>
    /\ crashed' = (conn = "fetching")
    /\ UNCHANGED <<user, subs, timers, orphan>>

\* A message of the throttle is written; a socket that is not connected drops it, and
\* without a socket the timer throws.
Flush ==
    /\ queue # <<>>
    /\ queue' = Tail(queue)
    /\ remote' = IF conn = "open"
                 THEN (remote \ Head(queue).drop) \cup Head(queue).add
                 ELSE remote
    /\ crashed' = ~HasSocket
    /\ UNCHANGED <<user, subs, conn, batch, timers, memo, channels, awaited, synced, orphan>>

BatchFires ==
    /\ batch # <<>>
    /\ batch' = Tail(batch)
    /\ queue' = IF Head(batch).op = "add" THEN Queued(Head(batch).streams, {})
                                          ELSE Queued({}, Head(batch).streams)
    /\ UNCHANGED <<user, subs, conn, remote, timers, memo, channels, awaited, synced, orphan, crashed>>

\* What the server sends after a debounced message about kind k, when feeds of k are left.
After(op, k) ==
    LET form == ex.unsub[k][1]
        list == Asked(Of(k, subs))
    IN  CASE form = "resend"                 -> (remote \ Everything(k)) \cup list
          [] form # "resend" /\ op = "sub"   -> remote \cup list
          [] form = "rest"   /\ op = "unsub" -> remote \ list
          [] form = "kind"   /\ op = "unsub" -> remote \ Everything(k)
          [] OTHER                           -> remote

\* A debounced call: the list is that of the maps now.
TimerFires(op, k) ==
    /\ <<op, k>> \in timers
    /\ timers' = IF op = "wait" THEN Armed(timers \ {<<op, k>>}, "sub", {k})
                                ELSE timers \ {<<op, k>>}
    /\ crashed' = (op # "wait" /\ ~HasSocket /\ ~ex.guarded)
    /\ remote' = IF op # "wait" /\ conn = "open" THEN After(op, k) ELSE remote
    /\ awaited' = IF op = "sub" /\ conn = "open" /\ k \in ex.rest
                  THEN awaited \cup Of(k, subs) ELSE awaited
    /\ UNCHANGED <<user, subs, conn, queue, batch, memo, channels, synced, orphan>>

\* The interval timer of a constructor that does not look for a socket; the one of KuCoin,
\* which the socket that was let go leaves armed, and which takes a placeholder for a
\* socket; and the answer to a heartbeat that came on such a socket.
PingFires ==
    /\ \/ ex.pings /\ ~HasSocket
       \/ ex.gives /\ orphan /\ conn = "fetching"
       \/ ex.answers /\ orphan /\ ~HasSocket
    /\ crashed' = TRUE
    /\ UNCHANGED <<user, subs, conn, remote, pending, memo, channels, awaited, synced, orphan>>

\* "subscribed": the id of the channel enters the table, from which nothing is removed.
Acked(f) ==
    /\ conn = "open"
    /\ ex.unsub[f[1]][1] = "acked" /\ Asked({f}) \subseteq remote
    /\ <<f, "live">> \notin channels /\ Cardinality(channels) < MaxChannels
    /\ channels' = channels \cup {<<f, "live">>}
    /\ UNCHANGED <<user, subs, conn, remote, pending, memo, awaited, synced, orphan, crashed>>

\* The answer is emitted whether or not its market is still subscribed.
SnapshotArrives(f) ==
    /\ f \in awaited
    /\ awaited' = awaited \ {f}
    /\ synced' = IF conn = "open" THEN synced \cup ({f} \cap subs) ELSE synced
    /\ UNCHANGED <<user, subs, conn, remote, pending, memo, channels, orphan, crashed>>

SnapshotFails(f) ==
    /\ f \in awaited
    /\ awaited' = IF ex.retries THEN awaited ELSE awaited \ {f}
    /\ UNCHANGED <<user, subs, conn, remote, pending, memo, channels, synced, orphan, crashed>>

----------------------------------------------------------------------------
(* Specification.  The process goes down with the first exception nobody catches. *)

Calls == \/ \E f \in Feed : Subscribe(f) \/ Unsubscribe(f)
         \/ Close \/ Reconnect

Server == Opened \/ LoggedIn \/ Fetched \/ Lost \/ Retry \/ LostAndClosed \/ OrphanOpens \/ OrphanLost

Timers ==
    \/ Flush \/ BatchFires \/ PingFires \/ Resume
    \/ \E op \in {"wait", "sub", "unsub"}, k \in Kind : TimerFires(op, k)

Replies == \E f \in Feed : Acked(f) \/ SnapshotArrives(f) \/ SnapshotFails(f)

Next == ~crashed /\ (Calls \/ Server \/ Timers \/ Replies)

\* Timers fire, also the debounced ones: the user's calls leave them the time.  A request
\* over REST that is made again and again is answered.
Fairness ==
    /\ WF_vars(~crashed /\ (Flush \/ BatchFires))
    /\ \A op \in {"wait", "sub", "unsub"}, k \in UNION {DOMAIN Table[e].asks : e \in DOMAIN Table} :
          WF_vars(~crashed /\ TimerFires(op, k))
    /\ \A k \in {"l2update", "l3update"}, m \in Market :
          WF_vars(~crashed /\ SnapshotArrives(<<k, m>>))

Spec == Init /\ [][Next]_vars /\ Fairness

----------------------------------------------------------------------------
\* Type invariant; and a socket that the client has let go of sends it no stream any more,
\* as close() ends the connection before it is forgotten (basic-client.js:44-47).
TypeOK ==
    /\ subs \subseteq Feed /\ synced \subseteq subs
    /\ conn \in {"none", "closing", "fetching", "retrying", "opening", "login", "open"}
    /\ conn # "open" => remote = {} /\ synced = {}

----------------------------------------------------------------------------
(* What the user is promised. *)

\* Nothing is on its way to the server.
Quiet == conn = "open" /\ queue = <<>> /\ batch = <<>> /\ timers = {}

\* The server sends every stream of the feed, and its messages become the event.
Served(f) ==
    /\ Asked({f}) # {}
    /\ Asked({f}) \subseteq remote
    /\ \A s \in ex.asks[f[1]] :
          \E r \in ex.routes : r[1] = s /\ r[3] = f[1] /\ <<r[2], f[2]>> \in subs

\* Its book has a snapshot to start from.
Started(f) == f[1] \in ex.rest => f \in synced

\* The events that a message of a stream can be emitted as.
Emits ==
    {<<p[1][3], p[2]>> : p \in
       {q \in ex.routes \X Market : /\ Streams({q[1][1]}, q[2]) \subseteq remote
                                  /\ <<q[1][2], q[2]>> \in subs}}

\* Updates begin with a snapshot.
Entitled(event) ==
    CASE event = "l2snapshot" -> {"l2snapshot", "l2update"}
      [] event = "l3snapshot" -> {"l3update"}
      [] OTHER                -> {event}
=============================================================================
