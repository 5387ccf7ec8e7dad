---------------------------- MODULE FeedsProofs ----------------------------
(***************************************************************************)
(* Theorems about Feeds, for every table of exchanges and every set of     *)
(* markets.                                                                *)
(***************************************************************************)
EXTENDS MCFeeds, TLAPS, FiniteSetTheorems

\* A subscription message adds streams on an open connection only.
LEMMA SentWhenOpen ==
    ASSUME NEW feeds, NEW base, NEW known, SendSub(feeds, base, known), conn' # "open"
    PROVE  remote' = base
  BY DEF SendSub

\* The feeds of a client do not change.
LEMMA SameFeeds == UNCHANGED user => Feed' = Feed /\ ex' = ex
  BY DEF Feed, ex, user

LEMMA UserStep == [Next]_vars => UNCHANGED user
  BY DEF Next, Calls, Server, Timers, Replies, vars, user, Subscribe, Unsubscribe, Close, Reconnect,
         Opened, LoggedIn, Resubscribe, Fetched, Lost, Retry, LostAndClosed, OrphanOpens, OrphanLost,
         Flush, BatchFires, PingFires, Resume, TimerFires, Acked, SnapshotArrives, SnapshotFails

\* The type invariant is inductive.
LEMMA TypeStep == TypeOK /\ [Next]_vars => TypeOK'
<1> SUFFICES ASSUME TypeOK, [Next]_vars PROVE TypeOK'
  OBVIOUS
<1> USE SameFeeds DEF TypeOK, IsConnected, HasSocket, Connecting
<1>1. ASSUME NEW f \in Feed, Subscribe(f) PROVE TypeOK'
  BY <1>1, SentWhenOpen DEF Subscribe
<1>2. ASSUME NEW f \in Feed, Unsubscribe(f) PROVE TypeOK'
  BY <1>2 DEF Unsubscribe, SendUnsub
<1>3. CASE Close
  BY <1>3 DEF Close, Released, Disconnected
<1>4. CASE Reconnect
  BY <1>4 DEF Reconnect, Released, Disconnected
<1>5. CASE Resubscribe
  BY <1>5 DEF Resubscribe
<1>6. CASE Opened
  BY <1>5, <1>6 DEF Opened
<1>7. CASE Fetched \/ Retry \/ Resume
  BY <1>7 DEF Fetched, Retry, Resume
<1>8. CASE Lost \/ LostAndClosed
  BY <1>8 DEF Lost, LostAndClosed, Disconnected
<1>9. CASE OrphanOpens
  BY <1>9, SentWhenOpen DEF OrphanOpens
<1>10. CASE OrphanLost
  BY <1>10 DEF OrphanLost, Disconnected
<1>11. CASE Flush \/ BatchFires \/ PingFires
  BY <1>11 DEF Flush, BatchFires, PingFires
<1>12. ASSUME NEW op, NEW k, TimerFires(op, k) PROVE TypeOK'
  BY <1>12 DEF TimerFires
<1>13. ASSUME NEW f \in Feed, Acked(f) \/ SnapshotArrives(f) \/ SnapshotFails(f) PROVE TypeOK'
  BY <1>13 DEF Acked, SnapshotArrives, SnapshotFails
<1>14. CASE UNCHANGED vars
  BY <1>14 DEF vars, user
<1> QED
  BY <1>1, <1>2, <1>3, <1>4, <1>5, <1>6, <1>7, <1>8, <1>9, <1>10, <1>11, <1>12, <1>13, <1>14
     DEF Next, Calls, Server, Timers, Replies, LoggedIn

\* Nothing that the server sent on one connection, and no snapshot, is taken to be there on
\* the next one; and snapshots belong to subscribed feeds (basic-client.js:213-267).
THEOREM FeedsTypeCorrect == Spec => []TypeOK
<1>1. Init => TypeOK
  BY DEF Init, TypeOK
<1> QED
  BY <1>1, TypeStep, PTL DEF Spec

----------------------------------------------------------------------------
(* The classes that write one message for each call, at once.               *)

\* Such a class, with streams of its own for every kind of feed and every market.
Direct(c) ==
    /\ \A k \in DOMAIN c.asks : /\ c.sub[k] = <<"each", "now">>
                                /\ c.unsub[k] = <<"each", "now">>
                                /\ c.drops[k] = c.asks[k]
    /\ \A k, l \in DOMAIN c.asks : k # l => c.asks[k] \cap c.asks[l] = {}
    /\ c.spares = {} /\ c.shared = {} /\ c.ambient = {}

Idle == queue = <<>> /\ batch = <<>> /\ timers = {}
InStep == conn = "open" => remote = Asked(subs)

DirectInv ==
    /\ uses \subseteq Kind
    /\ subs \subseteq Feed
    /\ Direct(ex) => Idle /\ InStep

\* A feed is a kind of its class and a market.
LEMMA FeedOf == ASSUME NEW f \in Feed, uses \subseteq Kind
                PROVE  f = <<f[1], f[2]>> /\ f[1] \in DOMAIN ex.asks /\ f[2] \in Market
  BY MarketAssumption DEF Feed, Kind

LEMMA AskedIs ==
    ASSUME Direct(ex), NEW feeds
    PROVE  Asked(feeds) = UNION {{<<s, f[2]>> : s \in ex.asks[f[1]]} : f \in feeds}
  BY DEF Asked, Streams, Direct

\* The streams of several feeds are those of each of them.
LEMMA AskedOfMore ==
    ASSUME Direct(ex), NEW feeds, NEW f
    PROVE  Asked(feeds \cup {f}) = Asked(feeds) \cup Asked({f})
  BY AskedIs

LEMMA AskedOfFewer ==
    ASSUME Direct(ex), uses \subseteq Kind, NEW feeds, feeds \subseteq Feed, NEW f \in feeds
    PROVE  Asked(feeds \ {f}) = Asked(feeds) \ Asked({f})
<1> DEFINE Own(g) == {<<s, g[2]>> : s \in ex.asks[g[1]]}
<1>1. ASSUME NEW g \in feeds, g # f PROVE Own(g) \cap Own(f) = {}
  <2>1. g = <<g[1], g[2]>> /\ f = <<f[1], f[2]>> /\ g[1] \in DOMAIN ex.asks /\ f[1] \in DOMAIN ex.asks
    BY FeedOf
  <2>2. g[2] # f[2] \/ g[1] # f[1]
    BY <1>1, <2>1
  <2>3. g[1] # f[1] => ex.asks[g[1]] \cap ex.asks[f[1]] = {}
    BY <2>1 DEF Direct
  <2> QED
    BY <2>2, <2>3
<1>2. /\ Asked(feeds) = UNION {Own(g) : g \in feeds}
      /\ Asked(feeds \ {f}) = UNION {Own(g) : g \in feeds \ {f}}
      /\ Asked({f}) = Own(f)
  BY AskedIs
<1>3. Own(f) \subseteq UNION {Own(g) : g \in feeds}
  OBVIOUS
<1> HIDE DEF Own
<1>4. ASSUME NEW x PROVE x \in UNION {Own(g) : g \in feeds \ {f}}
                            <=> x \in UNION {Own(g) : g \in feeds} /\ x \notin Own(f)
  BY <1>1
<1> QED
  BY <1>2, <1>4

\* What the two functions write for such a class.
LEMMA DirectSub ==
    ASSUME Direct(ex), Idle, uses \subseteq Kind, NEW feeds, feeds \subseteq Feed, NEW base, NEW known,
           SendSub(feeds, base, known)
    PROVE  Idle' /\ (conn' = "open" => remote' = base \cup Asked(feeds))
<1>1. \A f \in feeds : ex.sub[f[1]] = <<"each", "now">>
  BY FeedOf DEF Direct
<1>a. \A f \in feeds : ex.sub[f[1]][1] = "each" /\ ex.sub[f[1]][2] = "now"
  BY <1>1
<1>2. Form(feeds, "once") = {} /\ Form(feeds, "list") = {}
  BY <1>a DEF Form
<1>3. {f \in feeds : Due(f, known, <<>>)} = feeds
  <2>1. \A f \in feeds : ex.sub[f[1]][1] = "each"
    BY <1>a
  <2>2. ASSUME NEW f, ex.sub[f[1]][1] = "each" PROVE Due(f, known, <<>>)
    BY <2>2, Zenon DEF Due
  <2> QED
    BY <2>1, <2>2, Zenon
<1>4. Via(feeds, "now") = feeds /\ Via(feeds, "queued") = {} /\ Via(feeds, "batched") = {}
  BY <1>a DEF Via
<1>5. Via({}, "delayed") = {} /\ Via({}, "debounced") = {} /\ Asked({}) = {}
  BY DEF Via, Asked
<1>6. Queued({}, {}) = <<>> /\ Batched("add", {}) = <<>>
  BY DEF Queued, Batched, Idle
<1>7. Armed({}, "sub", {}) = {}
  BY DEF Armed
<1>8. /\ remote' = IF conn' = "open" THEN base \cup Asked(feeds) ELSE base
      /\ queue' = <<>> /\ batch' = <<>>
  BY <1>2, <1>3, <1>4, <1>5, <1>6 DEF SendSub
<1>9. timers' = {}
  BY <1>2, <1>5, <1>7 DEF SendSub, Idle
<1> QED
  BY <1>8, <1>9 DEF Idle

LEMMA DirectUnsub ==
    ASSUME Direct(ex), Idle, uses \subseteq Kind, NEW f \in Feed, NEW left, SendUnsub(f, left)
    PROVE  Idle' /\ remote' = remote \ Asked({f})
<1>1. /\ ex.unsub[f[1]] = <<"each", "now">>
      /\ ex.drops[f[1]] = ex.asks[f[1]]
      /\ ex.spares = {}
  BY FeedOf DEF Direct
<1>2. Asked({f}) = Streams(ex.asks[f[1]], f[2])
  BY DEF Asked
<1> DEFINE Mine == {s \in ex.drops[f[1]] :
                      ~ \E r \in ex.spares : r[1] = f[1] /\ r[2] = s /\ <<r[3], f[2]>> \in left}
<1>3. Mine = ex.asks[f[1]]
  BY <1>1
<1>4. ASSUME NEW found PROVE GivenUp(f, left, found) = Asked({f})
  <2>1. ex.unsub[f[1]][1] = "each"
    BY <1>1
  <2>2. GivenUp(f, left, found) = Streams(Mine, f[2])
    BY <2>1, Zenon DEF GivenUp
  <2> QED
    BY <1>2, <1>3, <2>2, Zenon
<1>5. PICK found \in FindChannel(f) :
        /\ remote' = remote \ GivenUp(f, left, found)
        /\ queue' = queue /\ batch' = batch /\ timers' = timers
  BY <1>1 DEF SendUnsub
<1> QED
  BY <1>4, <1>5 DEF Idle

LEMMA SameStreams == UNCHANGED user /\ Direct(ex) => Asked(subs)' = Asked(subs')
<1> SUFFICES ASSUME UNCHANGED user, Direct(ex) PROVE Asked(subs)' = Asked(subs')
  OBVIOUS
<1>1. ex' = ex
  BY DEF ex, user
<1>2. Asked(subs') = UNION {{<<s, f[2]>> : s \in ex.asks[f[1]]} : f \in subs'}
  BY AskedIs
<1>3. Asked(subs)' = UNION {{<<s, f[2]>> : s \in ex.asks[f[1]]} : f \in subs'}
  BY <1>1 DEF Asked, Streams, Direct
<1> QED
  BY <1>2, <1>3, Zenon

\* A connection that opens is asked for every feed, and has nothing else.
LEMMA DirectOpens ==
    ASSUME Direct(ex), Idle, uses \subseteq Kind, subs \subseteq Feed, Resubscribe
    PROVE  UNCHANGED <<user, subs>> /\ Idle' /\ remote' = Asked(subs)
<1>1. PICK known : SendSub(subs, Ambient, known)
  BY DEF Resubscribe
<1>2. Ambient = {}
  BY DEF Ambient, Streams, Direct
<1>3. conn' = "open" /\ UNCHANGED <<user, subs>>
  BY DEF Resubscribe
<1> QED
  BY <1>1, <1>2, <1>3, DirectSub

LEMMA DirectStep == DirectInv /\ [Next]_vars => DirectInv'
<1> SUFFICES ASSUME DirectInv, [Next]_vars PROVE DirectInv'
  OBVIOUS
<1>a. UNCHANGED user
  BY UserStep
<1>b. ex' = ex /\ Kind' = Kind /\ Feed' = Feed /\ uses' = uses
  BY <1>a DEF ex, Kind, Feed, user
<1>c. uses \subseteq Kind /\ subs \subseteq Feed
  BY DEF DirectInv
<1>d. subs' \subseteq Feed
  BY <1>c DEF Next, Calls, Server, Timers, Replies, vars, Subscribe, Unsubscribe, Close, Reconnect,
         Opened, LoggedIn, Resubscribe, Fetched, Lost, Retry, LostAndClosed, OrphanOpens, OrphanLost,
         Flush, BatchFires, PingFires, Resume, TimerFires, Acked, SnapshotArrives, SnapshotFails
<1>e. SUFFICES ASSUME Direct(ex) PROVE Idle' /\ (conn' = "open" => remote' = Asked(subs'))
  BY <1>a, <1>b, <1>c, <1>d, SameStreams DEF DirectInv, InStep
<1>f. Idle /\ InStep
  BY <1>e DEF DirectInv
<1>1. ASSUME NEW f \in Feed, Subscribe(f) PROVE Idle' /\ (conn' = "open" => remote' = Asked(subs'))
  <2>1. subs' = subs \cup {f} /\ (conn' = "open" => conn = "open")
    BY <1>1 DEF Subscribe, Connecting
  <2>2. CASE IsConnected
    <3>1. SendSub({f}, remote, memo)
      BY <1>1, <2>2 DEF Subscribe
    <3>2. Idle' /\ (conn' = "open" => remote' = remote \cup Asked({f}))
      BY <1>c, <1>e, <1>f, <3>1, DirectSub
    <3> QED
      BY <1>e, <1>f, <2>1, <3>2, AskedOfMore DEF InStep
  <2>3. CASE ~IsConnected
    BY <1>1, <1>f, <2>1, <2>3 DEF Subscribe, Idle, IsConnected
  <2> QED
    BY <2>2, <2>3
<1>2. ASSUME NEW f \in Feed, Unsubscribe(f) PROVE Idle' /\ (conn' = "open" => remote' = Asked(subs'))
  <2>1. f \in subs /\ subs' = subs \ {f} /\ conn' = conn
    BY <1>2 DEF Unsubscribe
  <2>2. CASE IsConnected
    <3>1. SendUnsub(f, subs \ {f})
      BY <1>2, <2>2 DEF Unsubscribe
    <3>2. Idle' /\ remote' = remote \ Asked({f})
      BY <1>c, <1>e, <1>f, <3>1, DirectUnsub
    <3> QED
      BY <1>c, <1>e, <1>f, <2>1, <3>2, AskedOfFewer DEF InStep
  <2>3. CASE ~IsConnected
    BY <1>2, <1>f, <2>1, <2>3 DEF Unsubscribe, Idle, IsConnected
  <2> QED
    BY <2>2, <2>3
<1>3. CASE Close \/ Reconnect \/ Resume
  BY <1>3, <1>f DEF Close, Reconnect, Released, Resume, Disconnected, Cancelled, Connecting, Idle, InStep, pending, HasSocket
<1>4. CASE Opened \/ LoggedIn
  <2>1. CASE Resubscribe
    BY <1>c, <1>e, <1>f, <2>1, DirectOpens
  <2>2. CASE ~Resubscribe
    BY <1>4, <1>f, <2>2 DEF Opened, LoggedIn, Idle, pending
  <2> QED
    BY <2>1, <2>2
<1>5. CASE Fetched \/ Lost \/ Retry \/ LostAndClosed
  BY <1>5, <1>f DEF Fetched, Lost, Retry, LostAndClosed, Disconnected, Cancelled, Idle, pending
<1>6. CASE OrphanOpens
  <2>1. subs' = subs /\ conn' = conn
    BY <1>6 DEF OrphanOpens
  <2>2. CASE ~ex.login
    <3>1. SendSub(subs, remote, Remembered)
      BY <1>6, <2>2 DEF OrphanOpens
    <3>2. Idle' /\ (conn' = "open" => remote' = remote \cup Asked(subs))
      BY <1>c, <1>e, <1>f, <3>1, DirectSub
    <3> QED
      BY <1>f, <2>1, <3>2 DEF InStep
  <2>3. CASE ex.login
    BY <1>6, <1>f, <2>1, <2>3 DEF OrphanOpens, Idle, InStep, pending
  <2> QED
    BY <2>2, <2>3
<1>7. CASE OrphanLost
  BY <1>7, <1>f DEF OrphanLost, Disconnected, Cancelled, Idle, InStep
<1>8. CASE Flush \/ BatchFires \/ PingFires
  BY <1>8, <1>f DEF Flush, BatchFires, PingFires, Idle, InStep, pending
<1>9. ASSUME NEW op, NEW k, TimerFires(op, k) PROVE FALSE
  BY <1>9, <1>f DEF TimerFires, Idle
<1>10. ASSUME NEW f \in Feed, Acked(f) \/ SnapshotArrives(f) \/ SnapshotFails(f)
       PROVE Idle' /\ (conn' = "open" => remote' = Asked(subs'))
  BY <1>10, <1>f DEF Acked, SnapshotArrives, SnapshotFails, Idle, InStep, pending
<1>11. CASE UNCHANGED vars
  BY <1>11, <1>f DEF vars, Idle, InStep
<1> QED
  BY <1>1, <1>2, <1>3, <1>4, <1>5, <1>6, <1>7, <1>8, <1>9, <1>10, <1>11
     DEF Next, Calls, Server, Timers, Replies

\* A class that writes one message for each call keeps the server in step with the
\* subscription maps: on every connection, after any calls, losses and reconnections, the
\* server sends the streams of the subscribed feeds and nothing else
\* (basic-client.js:232-267, zb-client.js:59-160).
THEOREM DirectAgrees == Spec => [](Direct(ex) /\ conn = "open" => remote = Asked(subs))
<1>1. Init => DirectInv
  BY DEF Init, DirectInv, Idle, InStep
<1>2. DirectInv => (Direct(ex) /\ conn = "open" => remote = Asked(subs))
  BY DEF DirectInv, InStep
<1> QED
  BY <1>1, <1>2, DirectStep, PTL DEF Spec

----------------------------------------------------------------------------
(* The process stays up.                                                     *)

\* The classes that can bring the process down whatever their user does: an interval timer
\* or a debounced call that looks for no socket, or a socket that is let go of while it is
\* to retry.
Fragile(e) == Table[e].pings \/ ~Table[e].guarded \/ Table[e].gives

\* A class that writes nothing of itself, nor through a throttle, when it hears of a
\* connection or a heartbeat.
Mute(c) ==
    /\ c.greets = FALSE /\ c.answers = FALSE
    /\ \A k \in DOMAIN c.asks :
          /\ c.sub[k][2] \notin {"queued", "batched"}
          /\ c.unsub[k][2] \notin {"queued", "batched"}
          /\ c.sub[k][2] = "now" => c.asks[k] \subseteq c.ambient \cap c.shared

UpInv ==
    /\ Mute(ex) \/ (~orphan /\ ~HasSocket) => queue = <<>> /\ batch = <<>>
    /\ crashed => Fragile(exchange) \/ (orphan /\ ~Mute(ex))

LEMMA MuteSub ==
    ASSUME Mute(ex), uses \subseteq Kind, NEW feeds, feeds \subseteq Feed, NEW base, NEW known,
           SendSub(feeds, base, known), queue = <<>>, batch = <<>>
    PROVE  queue' = <<>> /\ batch' = <<>>
<1>1. PICK first :
        LET due == {f \in feeds : Due(f, known, first)}
        IN  /\ queue' = Queued(Asked(Via(due, "queued")), {})
            /\ batch' = Batched("add", Asked(Via(due, "batched")))
  BY DEF SendSub
<1> DEFINE due == {f \in feeds : Due(f, known, first)}
<1>2. \A f \in due : ex.sub[f[1]][2] \notin {"queued", "batched"}
  BY FeedOf DEF Mute
<1>3. Via(due, "queued") = {} /\ Via(due, "batched") = {}
  BY <1>2 DEF Via
<1>4. Asked({}) = {}
  BY DEF Asked
<1> QED
  BY <1>1, <1>3, <1>4 DEF Queued, Batched

LEMMA MuteUnsub ==
    ASSUME Mute(ex), uses \subseteq Kind, NEW f \in Feed, NEW left, SendUnsub(f, left)
    PROVE  queue' = queue /\ batch' = batch
  BY FeedOf DEF Mute, SendUnsub

LEMMA MuteWrites ==
    ASSUME Mute(ex), uses \subseteq Kind, subs \subseteq Feed
    PROVE  ~Writes
<1>1. ASSUME NEW f \in Via(subs, "now") PROVE Asked({f}) \subseteq Ambient
  <2>1. f[1] \in DOMAIN ex.asks /\ ex.sub[f[1]][2] = "now"
    BY FeedOf DEF Via
  <2>2. ex.asks[f[1]] \subseteq ex.ambient \cap ex.shared
    BY <2>1 DEF Mute
  <2> QED
    BY <2>2 DEF Asked, Ambient, Streams
<1> QED
  BY <1>1 DEF Writes, Mute

LEMMA UpStep == UpInv /\ uses \subseteq Kind /\ subs \subseteq Feed /\ [Next]_vars => UpInv'
<1> SUFFICES ASSUME UpInv, uses \subseteq Kind, subs \subseteq Feed, [Next]_vars PROVE UpInv'
  OBVIOUS
<1>c. CASE UNCHANGED vars
  BY <1>c DEF vars, UpInv, ex, HasSocket, Mute, Fragile
<1> SUFFICES ASSUME Next PROVE UpInv'
  BY <1>c
<1>u. exchange' = exchange /\ Mute(ex)' = Mute(ex) /\ Fragile(exchange)' = Fragile(exchange)
  BY UserStep DEF user, ex, Mute, Fragile
<1>n. ~crashed
  BY DEF Next
<1> DEFINE Empty == queue = <<>> /\ batch = <<>>
           Pass == /\ Mute(ex) \/ (~orphan' /\ ~HasSocket') => Empty'
                   /\ crashed' => Fragile(exchange) \/ (orphan' /\ ~Mute(ex))
<1> SUFFICES Pass
  BY <1>u DEF UpInv
<1>e. Mute(ex) \/ (~orphan /\ ~HasSocket) => Empty
  BY DEF UpInv
<1> USE DEF HasSocket
<1>1. ASSUME NEW f \in Feed, Subscribe(f) PROVE Pass
  <2>1. CASE IsConnected
    <3>1. SendSub({f}, remote, memo) /\ HasSocket' /\ UNCHANGED <<orphan, crashed>>
      BY <1>1, <2>1 DEF Subscribe, IsConnected
    <3> QED
      BY <1>e, <1>n, <3>1, MuteSub
  <2>2. CASE ~IsConnected
    BY <1>1, <1>e, <1>n, <2>2 DEF Subscribe, Connecting
  <2> QED
    BY <2>1, <2>2
<1>2. ASSUME NEW f \in Feed, Unsubscribe(f) PROVE Pass
  <2>1. CASE IsConnected
    <3>1. SendUnsub(f, subs \ {f}) /\ HasSocket' /\ UNCHANGED <<orphan, crashed>>
      BY <1>2, <2>1 DEF Unsubscribe, IsConnected
    <3> QED
      BY <1>e, <1>n, <3>1, MuteUnsub
  <2>2. CASE ~IsConnected
    BY <1>2, <1>e, <1>n, <2>2 DEF Unsubscribe
  <2> QED
    BY <2>1, <2>2
<1>3. CASE Close \/ Reconnect
  BY <1>3, <1>e, <1>n DEF Close, Reconnect, Released, Cancelled, Connecting
<1>4. CASE Resubscribe
  BY <1>4, <1>e, <1>n, MuteSub DEF Resubscribe
<1>5. CASE Opened \/ LoggedIn
  BY <1>4, <1>5, <1>e, <1>n DEF Opened, LoggedIn, pending
<1>6. CASE Fetched \/ Resume \/ Lost \/ Retry
  BY <1>6, <1>e, <1>n DEF Fetched, Resume, Lost, Retry, pending, Connecting
<1>7. CASE LostAndClosed
  BY <1>7, <1>n DEF LostAndClosed, Cancelled
<1>8. CASE OrphanOpens
  <2>1. orphan' /\ (crashed' => Writes)
    BY <1>8 DEF OrphanOpens
  <2>2. ASSUME Mute(ex) PROVE Empty' /\ ~crashed'
    <3>1. ~Writes /\ Empty
      BY <1>e, <2>2, MuteWrites
    <3>2. Empty'
      BY <1>8, <2>2, <3>1, MuteSub DEF OrphanOpens, pending
    <3> QED
      BY <2>1, <3>1, <3>2
  <2> QED
    BY <2>1, <2>2
<1>9. CASE OrphanLost
  BY <1>9 DEF OrphanLost, Cancelled, Fragile, ex
<1>10. CASE Flush
  BY <1>10, <1>e DEF Flush
<1>11. CASE BatchFires
  BY <1>11, <1>e, <1>n DEF BatchFires
<1>12. CASE PingFires
  <2>1. Empty' = Empty /\ UNCHANGED <<orphan, conn>>
    BY <1>12 DEF PingFires, pending
  <2>2. Fragile(exchange) \/ (orphan /\ ~Mute(ex))
    BY <1>12 DEF PingFires, Fragile, Mute, ex
  <2> QED
    BY <1>e, <2>1, <2>2
<1>13. ASSUME NEW op, NEW k, TimerFires(op, k) PROVE Pass
  BY <1>13, <1>e DEF TimerFires, Fragile, ex
<1>14. ASSUME NEW f \in Feed, Acked(f) \/ SnapshotArrives(f) \/ SnapshotFails(f) PROVE Pass
  BY <1>14, <1>e, <1>n DEF Acked, SnapshotArrives, SnapshotFails, pending
<1> QED
  BY <1>1, <1>2, <1>3, <1>5, <1>6, <1>7, <1>8, <1>9, <1>10, <1>11, <1>12, <1>13, <1>14
     DEF Next, Calls, Server, Timers, Replies

\* A class whose timers look for a socket and that does not let go of one itself stays up
\* under every order of calls, losses, timers and answers, unless its user closes or
\* reconnects it while the socket waits to retry and it writes when that socket connects
\* (kraken-client.js:118-130, smart-wss.js:29-40).
THEOREM StaysUp == Spec => [](crashed => Fragile(exchange) \/ (orphan /\ ~Mute(ex)))
<1>1. Init => UpInv /\ DirectInv
  BY DEF Init, UpInv, DirectInv, Idle, InStep, Kind
<1>2. UpInv => (crashed => Fragile(exchange) \/ (orphan /\ ~Mute(ex)))
  BY DEF UpInv
<1>3. DirectInv => uses \subseteq Kind /\ subs \subseteq Feed
  BY DEF DirectInv
<1> QED
  BY <1>1, <1>2, <1>3, UpStep, DirectStep, PTL DEF Spec

----------------------------------------------------------------------------
(* The table of classes.                                                    *)

\* No timer of the class writes without looking for a socket, and no socket is let go.
Steady(c) == c.pings = FALSE /\ c.guarded = TRUE /\ c.gives = FALSE

\* A message of the class becomes an event of a kind whose map was looked into.
Fitting(r) == r[2] \in Entitled(r[3])

LEMMA SteadyClasses == \A e \in DOMAIN MCTable \ GoesDown : Steady(MCTable[e])
<1> USE DEF Steady, Plain
<1>1. Steady(MCTable.bitmex)
  BY DEF MCTable, Bitmex
<1>2. Steady(MCTable.coinbasepro)
  BY DEF MCTable, CoinbasePro
<1>3. Steady(MCTable.bitstamp)
  BY DEF MCTable, Bitstamp
<1>4. Steady(MCTable.bitflyer)
  BY DEF MCTable, Bitflyer
<1>5. Steady(MCTable.zb)
  BY DEF MCTable, Zb
<1>6. Steady(MCTable.bequant)
  BY DEF MCTable, Bequant
<1>7. Steady(MCTable.fmfw)
  BY DEF MCTable, Fmfw
<1>8. Steady(MCTable.aax)
  BY DEF MCTable, Aax
<1>9. Steady(MCTable.ftx)
  BY DEF MCTable, FtxBase
<1>10. Steady(MCTable.huobi)
  BY DEF MCTable, HuobiBase
<1>11. Steady(MCTable.huobi_futures)
  BY DEF MCTable, HuobiFutures
<1>12. Steady(MCTable.crypto)
  BY DEF MCTable, Crypto
<1>13. Steady(MCTable.zt)
  BY DEF MCTable, Zt, Listed, ZtGuarded
<1>14. Steady(MCTable.coinflex)
  BY DEF MCTable, Coinflex, Listed
<1>15. Steady(MCTable.kraken)
  BY DEF MCTable, Kraken, Listed
<1>16. Steady(MCTable.okex)
  BY DEF MCTable, Okex, Throttled
<1>17. Steady(MCTable.deribit)
  BY DEF MCTable, Deribit, Throttled
<1>18. Steady(MCTable.hitbtc)
  BY DEF MCTable, Hitbtc, Throttled
<1>19. Steady(MCTable.binance)
  BY DEF MCTable, Binance
<1>20. Steady(MCTable.poloniex)
  BY DEF MCTable, Poloniex
<1>21. Steady(MCTable.bitfinex)
  BY DEF MCTable, Bitfinex
<1>22. Steady(MCTable.ethfinex)
  BY DEF MCTable, Ethfinex
<1>23. Steady(MCTable.liquid)
  BY DEF MCTable, Liquid
<1>24. Steady(MCTable.coinex)
  BY DEF MCTable, Coinex
<1>25. Steady(MCTable.cex)
  BY DEF MCTable, Cex
<1>26. Steady(MCTable.erisx)
  BY DEF MCTable, Erisx
<1>27. Steady(MCTable.ledgerx)
  BY DEF MCTable, Ledgerx
<1>28. Steady(MCTable.bittrex)
  BY DEF MCTable, Bittrex
<1> HIDE DEF Steady
<1> QED
  BY <1>1, <1>2, <1>3, <1>4, <1>5, <1>6, <1>7, <1>8, <1>9, <1>10, <1>11, <1>12, <1>13, <1>14, <1>15, <1>16, <1>17, <1>18, <1>19, <1>20, <1>21, <1>22, <1>23, <1>24, <1>25, <1>26, <1>27, <1>28 DEF MCTable, GoesDown

LEMMA MuteClasses == \A e \in Outlives : e \in DOMAIN MCTable /\ Mute(MCTable[e])
<1> USE DEF Mute, Plain, All
<1>1. Mute(Zt)
  BY DEF Zt, Listed, ZtAsks
<1>2. Mute(Coinflex)
  BY DEF Coinflex, Listed, CoinflexAsks
<1>3. Mute(Kraken)
  BY DEF Kraken, Listed, KrakenAsks
<1>4. Mute(Ledgerx)
  BY DEF Ledgerx, LedgerxAsks
<1> HIDE DEF Mute
<1> QED
  BY <1>1, <1>2, <1>3, <1>4 DEF MCTable, Outlives

\* What a kind of feed may be emitted as.
LEMMA EntitledTo ==
    /\ \A k \in {"ticker", "trade", "candle", "l2update", "l3update"} : k \in Entitled(k)
    /\ "l2snapshot" \in Entitled("l2snapshot") /\ "l2update" \in Entitled("l2snapshot")
    /\ "l3update" \in Entitled("l3snapshot")
  BY DEF Entitled

\* BeQuant's tickers are looked up among the trades, but come only when they are asked for.
Detour == <<"ticker/3s", "trade", "ticker">>

LEMMA FittingClasses ==
    \A e \in DOMAIN MCTable : \A r \in MCTable[e].routes :
        Fitting(r) \/ <<e, r[3]>> \in Misrouted \/ (e = "bequant" /\ r = Detour)
<1> DEFINE Fits(e) == \A r \in MCTable[e].routes :
                         Fitting(r) \/ <<e, r[3]>> \in Misrouted \/ (e = "bequant" /\ r = Detour)
<1>a. \A s : \A k \in {"ticker", "trade", "candle", "l2update", "l3update", "l2snapshot"} : Fitting(<<s, k, k>>)
  BY EntitledTo DEF Fitting
<1>b. \A s : Fitting(<<s, "l2update", "l2snapshot">>) /\ Fitting(<<s, "l3update", "l3snapshot">>)
  BY EntitledTo DEF Fitting
<1> USE EntitledTo DEF Plain, Detour, Fitting
<1>1. Fits("bitmex")
  <2>1. MCTable.bitmex.routes = BitmexRoutes
    BY DEF MCTable, Bitmex
  <2> QED
    BY <2>1 DEF BitmexRoutes
<1>2. Fits("coinbasepro")
  <2>1. MCTable.coinbasepro.routes = CoinbaseProRoutes
    BY DEF MCTable, CoinbasePro
  <2> QED
    BY <2>1 DEF CoinbaseProRoutes
<1>3. Fits("bitstamp")
  <2>1. MCTable.bitstamp.routes = BitstampRoutes
    BY DEF MCTable, Bitstamp
  <2> QED
    BY <2>1 DEF BitstampRoutes
<1>4. Fits("bitflyer")
  <2>1. MCTable.bitflyer.routes = BitflyerRoutes
    BY DEF MCTable, Bitflyer
  <2> QED
    BY <2>1 DEF BitflyerRoutes
<1>5. Fits("digifinex")
  <2>1. MCTable.digifinex.routes = DigifinexRoutes
    BY DEF MCTable, Digifinex
  <2> QED
    BY <2>1 DEF DigifinexRoutes
<1>6. Fits("zb")
  <2>1. MCTable.zb.routes = ZbRoutes
    BY DEF MCTable, Zb
  <2> QED
    BY <2>1 DEF ZbRoutes
<1>7. Fits("bitrue")
  <2>1. MCTable.bitrue.routes = BitrueRoutes
    BY DEF MCTable, Bitrue
  <2> QED
    BY <2>1 DEF BitrueRoutes
<1>8. Fits("lbank")
  <2>1. MCTable.lbank.routes = LbankRoutes
    BY DEF MCTable, Lbank
  <2> QED
    BY <2>1 DEF LbankRoutes
<1>9. Fits("bequant")
  <2>1. MCTable.bequant.routes = BequantRoutes
    BY DEF MCTable, Bequant
  <2> QED
    BY <2>1 DEF BequantRoutes
<1>10. Fits("fmfw")
  <2>1. MCTable.fmfw.routes = FmfwRoutes
    BY DEF MCTable, Fmfw
  <2> QED
    BY <2>1 DEF FmfwRoutes
<1>11. Fits("aax")
  <2>1. MCTable.aax.routes = AaxRoutes
    BY DEF MCTable, Aax
  <2> QED
    BY <2>1 DEF AaxRoutes, Misrouted
<1>12. Fits("ftx")
  <2>1. MCTable.ftx.routes = FtxBaseRoutes
    BY DEF MCTable, FtxBase
  <2> QED
    BY <2>1 DEF FtxBaseRoutes
<1>13. Fits("bitforex")
  <2>1. MCTable.bitforex.routes = TradesRoutes("trade")
    BY DEF MCTable, Bitforex, TradesOnly
  <2> QED
    BY <2>1 DEF TradesRoutes
<1>14. Fits("ascendex")
  <2>1. MCTable.ascendex.routes = TradesRoutes("trades")
    BY DEF MCTable, Ascendex, TradesOnly
  <2> QED
    BY <2>1 DEF TradesRoutes
<1>15. Fits("bybit")
  <2>1. MCTable.bybit.routes = TradesRoutes("trade")
    BY DEF MCTable, Bybit, TradesOnly
  <2> QED
    BY <2>1 DEF TradesRoutes
<1>16. Fits("mexc")
  <2>1. MCTable.mexc.routes = TradesRoutes("deal")
    BY DEF MCTable, Mexc, TradesOnly
  <2> QED
    BY <2>1 DEF TradesRoutes
<1>17. Fits("huobi")
  <2>1. MCTable.huobi.routes = HuobiBaseRoutes
    BY DEF MCTable, HuobiBase
  <2> QED
    BY <2>1 DEF HuobiBaseRoutes
<1>18. Fits("huobi_futures")
  <2>1. MCTable.huobi_futures.routes = HuobiBaseRoutes
    BY DEF MCTable, HuobiFutures
  <2> QED
    BY <2>1 DEF HuobiBaseRoutes
<1>19. Fits("gateio")
  <2>1. MCTable.gateio.routes = GateioRoutes
    BY DEF MCTable, Gateio, Listed
  <2> QED
    BY <2>1 DEF GateioRoutes
<1>20. Fits("bithumb")
  <2>1. MCTable.bithumb.routes = BithumbRoutes
    BY DEF MCTable, Bithumb, Listed
  <2> QED
    BY <2>1 DEF BithumbRoutes
<1>21. Fits("upbit")
  <2>1. MCTable.upbit.routes = UpbitRoutes
    BY DEF MCTable, Upbit, Listed
  <2> QED
    BY <2>1 DEF UpbitRoutes
<1>22. Fits("crypto")
  <2>1. MCTable.crypto.routes = CryptoRoutes
    BY DEF MCTable, Crypto
  <2> QED
    BY <2>1 DEF CryptoRoutes
<1>23. Fits("zt")
  <2>1. MCTable.zt.routes = ZtRoutes
    BY DEF MCTable, Zt, Listed, ZtGuarded
  <2> QED
    BY <2>1 DEF ZtRoutes
<1>24. Fits("coinflex")
  <2>1. MCTable.coinflex.routes = CoinflexRoutes
    BY DEF MCTable, Coinflex, Listed
  <2> QED
    BY <2>1 DEF CoinflexRoutes, Misrouted
<1>25. Fits("bitmart")
  <2>1. MCTable.bitmart.routes = BitmartRoutes
    BY DEF MCTable, Bitmart
  <2> QED
    BY <2>1 DEF BitmartRoutes
<1>26. Fits("kraken")
  <2>1. MCTable.kraken.routes = KrakenRoutes
    BY DEF MCTable, Kraken, Listed
  <2> QED
    BY <2>1 DEF KrakenRoutes
<1>27. Fits("okex")
  <2>1. MCTable.okex.routes = OkexRoutes
    BY DEF MCTable, Okex, Throttled
  <2> QED
    BY <2>1 DEF OkexRoutes
<1>28. Fits("deribit")
  <2>1. MCTable.deribit.routes = DeribitRoutes
    BY DEF MCTable, Deribit, Throttled
  <2> QED
    BY <2>1 DEF DeribitRoutes
<1>29. Fits("hitbtc")
  <2>1. MCTable.hitbtc.routes = HitbtcRoutes
    BY DEF MCTable, Hitbtc, Throttled
  <2> QED
    BY <2>1 DEF HitbtcRoutes
<1>30. Fits("binance")
  <2>1. MCTable.binance.routes = BinanceRoutes
    BY DEF MCTable, Binance
  <2> QED
    BY <2>1 DEF BinanceRoutes
<1>31. Fits("poloniex")
  <2>1. MCTable.poloniex.routes = PoloniexRoutes
    BY DEF MCTable, Poloniex
  <2> QED
    BY <2>1 DEF PoloniexRoutes
<1>32. Fits("bitfinex")
  <2>1. MCTable.bitfinex.routes = BitfinexRoutes
    BY DEF MCTable, Bitfinex
  <2> HIDE DEF Fitting
  <2> QED
    BY <2>1, <1>a, <1>b, Zenon DEF BitfinexRoutes
<1>33. Fits("ethfinex")
  <2>1. MCTable.ethfinex.routes = EthfinexRoutes
    BY DEF MCTable, Ethfinex
  <2> HIDE DEF Fitting
  <2> QED
    BY <2>1, <1>a, <1>b, Zenon DEF EthfinexRoutes, BitfinexRoutes
<1>34. Fits("liquid")
  <2>1. MCTable.liquid.routes = LiquidRoutes
    BY DEF MCTable, Liquid
  <2> QED
    BY <2>1 DEF LiquidRoutes
<1>35. Fits("coinex")
  <2>1. MCTable.coinex.routes = CoinexRoutes
    BY DEF MCTable, Coinex
  <2> QED
    BY <2>1 DEF CoinexRoutes
<1>36. Fits("cex")
  <2>1. MCTable.cex.routes = CexRoutes
    BY DEF MCTable, Cex
  <2> QED
    BY <2>1 DEF CexRoutes
<1>37. Fits("erisx")
  <2>1. MCTable.erisx.routes = ErisxRoutes
    BY DEF MCTable, Erisx
  <2> HIDE DEF Fitting
  <2> QED
    BY <2>1, <1>a, <1>b, Zenon DEF ErisxRoutes
<1>38. Fits("ledgerx")
  <2>1. MCTable.ledgerx.routes = LedgerxRoutes
    BY DEF MCTable, Ledgerx
  <2> QED
    BY <2>1 DEF LedgerxRoutes
<1>39. Fits("kucoin")
  <2>1. MCTable.kucoin.routes = KucoinRoutes
    BY DEF MCTable, Kucoin
  <2> QED
    BY <2>1 DEF KucoinRoutes
<1>40. Fits("bittrex")
  <2>1. MCTable.bittrex.routes = BittrexRoutes
    BY DEF MCTable, Bittrex
  <2> QED
    BY <2>1 DEF BittrexRoutes
<1> HIDE DEF Fits
<1>0. \A e \in DOMAIN MCTable : Fits(e)
  BY <1>1, <1>2, <1>3, <1>4, <1>5, <1>6, <1>7, <1>8, <1>9, <1>10, <1>11, <1>12, <1>13, <1>14, <1>15, <1>16, <1>17, <1>18, <1>19, <1>20, <1>21, <1>22, <1>23, <1>24, <1>25, <1>26, <1>27, <1>28, <1>29, <1>30, <1>31, <1>32, <1>33, <1>34, <1>35, <1>36, <1>37, <1>38, <1>39, <1>40 DEF MCTable
<1> QED
  BY <1>0 DEF Fits

\* The classes of the table that write one message for each call.
DirectClasses ==
    {"coinbasepro", "bitstamp", "bitflyer", "digifinex", "zb", "bitrue", "lbank", "bequant", "fmfw",
     "bitforex", "ascendex", "bybit", "mexc", "huobi", "huobi_futures"}

\* What is left of Plain in the class of an exchange.
Likewise(c, asks, routes) ==
    /\ c.asks = asks /\ c.drops = asks /\ c.routes = routes
    /\ c.sub = All(DOMAIN asks, "each", "now") /\ c.unsub = All(DOMAIN asks, "each", "now")
    /\ c.spares = {} /\ c.shared = {} /\ c.ambient = {}
    /\ c.oneTimer = FALSE /\ c.login = FALSE

Apart(asks) == \A k, l \in DOMAIN asks : k # l => asks[k] \cap asks[l] = {}

\* A message of every stream that a kind asks for becomes an event of the kind.
Reaches(asks, routes, k) == asks[k] # {} /\ \A s \in asks[k] : <<s, k, k>> \in routes

LEMMA LikewiseDirect ==
    ASSUME NEW c, NEW asks, NEW routes, Likewise(c, asks, routes), Apart(asks)
    PROVE  Direct(c)
  BY DEF Likewise, Apart, Direct, All

LEMMA DirectOfTable ==
    \A e \in DirectClasses :
       /\ e \in DOMAIN MCTable
       /\ Direct(MCTable[e]) /\ MCTable[e].oneTimer = FALSE /\ MCTable[e].login = FALSE
       /\ \A k \in DOMAIN MCTable[e].asks :
             Reaches(MCTable[e].asks, MCTable[e].routes, k) \/ <<e, k>> \in Starved
<1> DEFINE Good(e) == /\ Direct(MCTable[e])
                      /\ MCTable[e].oneTimer = FALSE /\ MCTable[e].login = FALSE
                      /\ \A k \in DOMAIN MCTable[e].asks :
                            Reaches(MCTable[e].asks, MCTable[e].routes, k) \/ <<e, k>> \in Starved
<1>a. ASSUME NEW e, NEW asks, NEW routes, Likewise(MCTable[e], asks, routes), Apart(asks),
             \A k \in DOMAIN asks : Reaches(asks, routes, k) \/ <<e, k>> \in Starved
      PROVE  Good(e)
  BY <1>a, LikewiseDirect DEF Likewise
<1> HIDE DEF Good
<1>1. Good("coinbasepro")
  <2>1. Likewise(MCTable.coinbasepro, CoinbaseProAsks, CoinbaseProRoutes)
    BY DEF Likewise, MCTable, Plain, CoinbasePro
  <2>2. Apart(CoinbaseProAsks)
    BY DEF Apart, CoinbaseProAsks
  <2>3. \A k \in DOMAIN CoinbaseProAsks : Reaches(CoinbaseProAsks, CoinbaseProRoutes, k) \/ <<"coinbasepro", k>> \in Starved
    BY DEF Reaches, CoinbaseProAsks, CoinbaseProRoutes
  <2> QED
    BY <1>a, <2>1, <2>2, <2>3
<1>2. Good("bitstamp")
  <2>1. Likewise(MCTable.bitstamp, BitstampAsks, BitstampRoutes)
    BY DEF Likewise, MCTable, Plain, Bitstamp
  <2>2. Apart(BitstampAsks)
    BY DEF Apart, BitstampAsks
  <2>3. \A k \in DOMAIN BitstampAsks : Reaches(BitstampAsks, BitstampRoutes, k) \/ <<"bitstamp", k>> \in Starved
    BY DEF Reaches, BitstampAsks, BitstampRoutes
  <2> QED
    BY <1>a, <2>1, <2>2, <2>3
<1>3. Good("bitflyer")
  <2>1. Likewise(MCTable.bitflyer, BitflyerAsks, BitflyerRoutes)
    BY DEF Likewise, MCTable, Plain, Bitflyer
  <2>2. Apart(BitflyerAsks)
    BY DEF Apart, BitflyerAsks
  <2>3. \A k \in DOMAIN BitflyerAsks : Reaches(BitflyerAsks, BitflyerRoutes, k) \/ <<"bitflyer", k>> \in Starved
    BY DEF Reaches, BitflyerAsks, BitflyerRoutes
  <2> QED
    BY <1>a, <2>1, <2>2, <2>3
<1>4. Good("digifinex")
  <2>1. Likewise(MCTable.digifinex, DigifinexAsks, DigifinexRoutes)
    BY DEF Likewise, MCTable, Plain, Digifinex
  <2>2. Apart(DigifinexAsks)
    BY DEF Apart, DigifinexAsks
  <2>3. \A k \in DOMAIN DigifinexAsks : Reaches(DigifinexAsks, DigifinexRoutes, k) \/ <<"digifinex", k>> \in Starved
    BY DEF Reaches, DigifinexAsks, DigifinexRoutes
  <2> QED
    BY <1>a, <2>1, <2>2, <2>3
<1>5. Good("zb")
  <2>1. Likewise(MCTable.zb, ZbAsks, ZbRoutes)
    BY DEF Likewise, MCTable, Plain, Zb
  <2>2. Apart(ZbAsks)
    BY DEF Apart, ZbAsks
  <2>3. \A k \in DOMAIN ZbAsks : Reaches(ZbAsks, ZbRoutes, k) \/ <<"zb", k>> \in Starved
    BY DEF Reaches, ZbAsks, ZbRoutes
  <2> QED
    BY <1>a, <2>1, <2>2, <2>3
<1>6. Good("bitrue")
  <2>1. Likewise(MCTable.bitrue, BitrueAsks, BitrueRoutes)
    BY DEF Likewise, MCTable, Plain, Bitrue
  <2>2. Apart(BitrueAsks)
    BY DEF Apart, BitrueAsks
  <2>3. \A k \in DOMAIN BitrueAsks : Reaches(BitrueAsks, BitrueRoutes, k) \/ <<"bitrue", k>> \in Starved
    BY DEF Reaches, BitrueAsks, BitrueRoutes
  <2> QED
    BY <1>a, <2>1, <2>2, <2>3
<1>7. Good("lbank")
  <2>1. Likewise(MCTable.lbank, LbankAsks, LbankRoutes)
    BY DEF Likewise, MCTable, Plain, Lbank
  <2>2. Apart(LbankAsks)
    BY DEF Apart, LbankAsks
  <2>3. \A k \in DOMAIN LbankAsks : Reaches(LbankAsks, LbankRoutes, k) \/ <<"lbank", k>> \in Starved
    BY DEF Reaches, LbankAsks, LbankRoutes
  <2> QED
    BY <1>a, <2>1, <2>2, <2>3
<1>8. Good("bequant")
  <2>1. Likewise(MCTable.bequant, BequantAsks, BequantRoutes)
    BY DEF Likewise, MCTable, Plain, Bequant
  <2>2. Apart(BequantAsks)
    BY DEF Apart, BequantAsks
  <2>3. \A k \in DOMAIN BequantAsks : Reaches(BequantAsks, BequantRoutes, k) \/ <<"bequant", k>> \in Starved
    BY DEF Reaches, BequantAsks, BequantRoutes, Starved
  <2> QED
    BY <1>a, <2>1, <2>2, <2>3
<1>9. Good("fmfw")
  <2>1. Likewise(MCTable.fmfw, FmfwAsks, FmfwRoutes)
    BY DEF Likewise, MCTable, Plain, Fmfw
  <2>2. Apart(FmfwAsks)
    BY DEF Apart, FmfwAsks
  <2>3. \A k \in DOMAIN FmfwAsks : Reaches(FmfwAsks, FmfwRoutes, k) \/ <<"fmfw", k>> \in Starved
    BY DEF Reaches, FmfwAsks, FmfwRoutes
  <2> QED
    BY <1>a, <2>1, <2>2, <2>3
<1>10. Good("bitforex")
  <2>1. Likewise(MCTable.bitforex, TradesAsks("trade"), TradesRoutes("trade"))
    BY DEF Likewise, MCTable, Plain, Bitforex, TradesOnly
  <2>2. Apart(TradesAsks("trade"))
    BY DEF Apart, TradesAsks
  <2>3. \A k \in DOMAIN TradesAsks("trade") : Reaches(TradesAsks("trade"), TradesRoutes("trade"), k) \/ <<"bitforex", k>> \in Starved
    BY DEF Reaches, TradesAsks, TradesRoutes
  <2> QED
    BY <1>a, <2>1, <2>2, <2>3
<1>11. Good("ascendex")
  <2>1. Likewise(MCTable.ascendex, TradesAsks("trades"), TradesRoutes("trades"))
    BY DEF Likewise, MCTable, Plain, Ascendex, TradesOnly
  <2>2. Apart(TradesAsks("trades"))
    BY DEF Apart, TradesAsks
  <2>3. \A k \in DOMAIN TradesAsks("trades") : Reaches(TradesAsks("trades"), TradesRoutes("trades"), k) \/ <<"ascendex", k>> \in Starved
    BY DEF Reaches, TradesAsks, TradesRoutes
  <2> QED
    BY <1>a, <2>1, <2>2, <2>3
<1>12. Good("bybit")
  <2>1. Likewise(MCTable.bybit, TradesAsks("trade"), TradesRoutes("trade"))
    BY DEF Likewise, MCTable, Plain, Bybit, TradesOnly
  <2>2. Apart(TradesAsks("trade"))
    BY DEF Apart, TradesAsks
  <2>3. \A k \in DOMAIN TradesAsks("trade") : Reaches(TradesAsks("trade"), TradesRoutes("trade"), k) \/ <<"bybit", k>> \in Starved
    BY DEF Reaches, TradesAsks, TradesRoutes
  <2> QED
    BY <1>a, <2>1, <2>2, <2>3
<1>13. Good("mexc")
  <2>1. Likewise(MCTable.mexc, TradesAsks("deal"), TradesRoutes("deal"))
    BY DEF Likewise, MCTable, Plain, Mexc, TradesOnly
  <2>2. Apart(TradesAsks("deal"))
    BY DEF Apart, TradesAsks
  <2>3. \A k \in DOMAIN TradesAsks("deal") : Reaches(TradesAsks("deal"), TradesRoutes("deal"), k) \/ <<"mexc", k>> \in Starved
    BY DEF Reaches, TradesAsks, TradesRoutes
  <2> QED
    BY <1>a, <2>1, <2>2, <2>3
<1>14. Good("huobi")
  <2> DEFINE asks == [j \in DOMAIN HuobiBaseAsks \ {"l2update"} |-> HuobiBaseAsks[j]]
  <2>1. Likewise(MCTable.huobi, asks, HuobiBaseRoutes)
    BY DEF Likewise, MCTable, Plain, HuobiBase, HuobiBaseAsks
  <2>2. Apart(asks)
    BY DEF Apart, HuobiBaseAsks
  <2>3. \A k \in DOMAIN asks : Reaches(asks, HuobiBaseRoutes, k) \/ <<"huobi", k>> \in Starved
    BY DEF Reaches, HuobiBaseAsks, HuobiBaseRoutes
  <2> QED
    BY <1>a, <2>1, <2>2, <2>3
<1>15. Good("huobi_futures")
  <2>1. Likewise(MCTable.huobi_futures, HuobiBaseAsks, HuobiBaseRoutes)
    BY DEF Likewise, MCTable, Plain, HuobiFutures
  <2>2. Apart(HuobiBaseAsks)
    BY DEF Apart, HuobiBaseAsks
  <2>3. \A k \in DOMAIN HuobiBaseAsks : Reaches(HuobiBaseAsks, HuobiBaseRoutes, k) \/ <<"huobi_futures", k>> \in Starved
    BY DEF Reaches, HuobiBaseAsks, HuobiBaseRoutes
  <2> QED
    BY <1>a, <2>1, <2>2, <2>3
<1>0. \A e \in DirectClasses : Good(e) /\ e \in DOMAIN MCTable
  BY <1>1, <1>2, <1>3, <1>4, <1>5, <1>6, <1>7, <1>8, <1>9, <1>10, <1>11, <1>12, <1>13, <1>14, <1>15 DEF DirectClasses, MCTable
<1> QED
  BY <1>0 DEF Good

----------------------------------------------------------------------------
(* The clients of the table.                                                *)

LEMMA InTable == Spec => [](exchange \in DOMAIN Table)
<1>1. Init => exchange \in DOMAIN Table
  BY DEF Init
<1>2. exchange \in DOMAIN Table /\ [Next]_vars => (exchange \in DOMAIN Table)'
  BY UserStep DEF user
<1> QED
  BY <1>1, <1>2, PTL DEF Spec

\* No timer and no handler of a client in the table finds the client without its socket,
\* but for the twelve classes of GoesDown, and for those that write when a socket connects
\* which their user closed or reconnected as it waited to retry; Kraken, CoinFLEX, ZT and
\* LedgerX stay up whatever their user does (kraken-client.js:118-130, smart-wss.js:29-40).
THEOREM StandsUp ==
    ASSUME Table = MCTable
    PROVE  Spec => []NoCrash
<1>1. exchange \in DOMAIN Table /\ (crashed => Fragile(exchange) \/ (orphan /\ ~Mute(ex))) => NoCrash
  BY SteadyClasses, MuteClasses DEF NoCrash, Fragile, Steady, ex
<1> QED
  BY <1>1, InTable, StaysUp, PTL

LEMMA OnlyWantedIs ==
    ASSUME Table = MCTable, exchange \in DOMAIN Table, TypeOK, DirectInv
    PROVE  OnlyWanted
<1> SUFFICES ASSUME NEW e \in Emits
             PROVE  (\E k \in Entitled(e[1]) : <<k, e[2]>> \in subs) \/ <<exchange, e[1]>> \in Misrouted
  BY DEF OnlyWanted
<1>1. PICK q \in ex.routes \X Market :
        /\ Streams({q[1][1]}, q[2]) \subseteq remote
        /\ <<q[1][2], q[2]>> \in subs
        /\ e = <<q[1][3], q[2]>>
  BY DEF Emits
<1>2. e[1] = q[1][3] /\ e[2] = q[2] /\ q[1] \in ex.routes
  BY <1>1
<1>3. CASE Fitting(q[1])
  BY <1>1, <1>2, <1>3 DEF Fitting
<1>4. CASE <<exchange, q[1][3]>> \in Misrouted
  BY <1>2, <1>4
<1>5. CASE exchange = "bequant" /\ q[1] = Detour
  <2>1. Direct(ex) /\ ex = Bequant
    BY <1>5, DirectOfTable DEF ex, DirectClasses, MCTable
  <2>2. <<"ticker/3s", q[2]>> \in remote
    BY <1>1, <1>5, <2>1 DEF Streams, Detour, Direct
  <2>3. remote = Asked(subs)
    BY <2>1, <2>2 DEF TypeOK, DirectInv, InStep
  <2>4. PICK f \in subs : f[2] = q[2] /\ "ticker/3s" \in ex.asks[f[1]]
    BY <2>1, <2>2, <2>3, AskedIs
  <2>5. f = <<f[1], f[2]>> /\ f[1] \in DOMAIN ex.asks
    BY FeedOf DEF DirectInv
  <2>6. ex.asks = BequantAsks
    BY <2>1 DEF Bequant, Plain
  <2>7. f[1] = "ticker"
    BY <2>4, <2>5, <2>6 DEF BequantAsks
  <2>8. "ticker" \in Entitled("ticker")
    BY DEF Entitled
  <2> QED
    BY <1>2, <1>5, <2>4, <2>5, <2>7, <2>8 DEF Detour
<1> QED
  BY <1>2, <1>3, <1>4, <1>5, FittingClasses DEF ex

\* A message becomes an event of a feed its user has subscribed to, whatever streams the
\* server still sends: but for AAX and CoinFLEX, no class looks a market up in the map of
\* another kind without the stream telling the kinds apart (bequant-client.js:39).
THEOREM EventsAreWanted ==
    ASSUME Table = MCTable
    PROVE  Spec => []OnlyWanted
<1>1. Init => DirectInv
  BY DEF Init, DirectInv, Idle, InStep
<1> QED
  BY <1>1, InTable, FeedsTypeCorrect, DirectStep, OnlyWantedIs, PTL DEF Spec

----------------------------------------------------------------------------
(* What a class must be like for its feeds to be served and for nothing to be left *)
(* over.  Each condition is about one kind of feed, or one stream of it.           *)

\* Streams whose subscriptions wait in a throttle, and classes where nothing does.
Slow(c) == UNION {c.asks[k] : k \in {l \in DOMAIN c.asks : c.sub[l][2] \in {"queued", "batched"}}}
Prompt(c) ==
    \A k \in DOMAIN c.asks : c.sub[k][2] \notin {"queued", "batched"} /\ c.unsub[k][2] \notin {"queued", "batched"}
Unbatched(c) ==
    \A k \in DOMAIN c.asks : c.sub[k][2] # "batched" /\ c.unsub[k][2] # "batched"

\* The end of a feed of kind k ends its stream s when no other feed asks for s: at once,
\* after the messages that wait, or after the debounce.
EndsNow(c, k, s) ==
    /\ c.unsub[k][2] = "now" /\ s \notin Slow(c)
    /\ \/ c.unsub[k][1] \in {"each", "kind"}
       \/ c.unsub[k][1] = "last" /\ s \in c.shared /\ c.floor \in Nat
       \/ /\ c.unsub[k][1] = "counted" /\ c.forgets = "opened"
          /\ \A l \in DOMAIN c.asks : c.sub[l][1] = "counted" => s \in c.asks[l]
EndsQueued(c, k) == c.unsub[k][2] = "queued" /\ c.unsub[k][1] = "each" /\ Unbatched(c)
EndsLater(c, k, s) ==
    /\ c.unsub[k][2] = "debounced" /\ s \notin Slow(c) /\ c.oneTimer = FALSE
    /\ c.unsub[k][1] \in {"kind", "resend"}
Ends(c, k, s) ==
    \/ c.unsub[k][1] = "missing"
    \/ s \in c.ambient /\ s \in c.shared
    \/ /\ EndsNow(c, k, s) \/ EndsQueued(c, k) \/ EndsLater(c, k, s)
       /\ s \in c.drops[k]
       /\ \A r \in c.spares :
             r[1] = k /\ r[2] = s => r[3] \in DOMAIN c.asks /\ s \in c.asks[r[3]]

\* The end of a feed of kind l leaves its stream s to the feeds of kind k.
Leaves(c, l, s, k) ==
    /\ c.unsub[l][1] \in {"each", "acked"} => s \notin c.shared /\ (<<l, s, k>> \in c.spares \/ l = k)
    /\ c.unsub[l][1] = "last" => l = k /\ c.floor = 0
    /\ c.unsub[l][1] = "counted" => s \notin c.shared /\ c.sub[k][1] = "counted"
    /\ c.unsub[l][1] = "kind" => c.unsub[l][2] = "now" /\ l = k /\ c.single = TRUE
    /\ c.unsub[l][1] = "resend" => l = k

\* A subscription of kind k asks for all its streams: with a message of its own, with the
\* list of its kind, or once for all of them.
Once(c, k) ==
    /\ c.sub[k][1] = "once" /\ c.unsub[k][1] = "last" /\ c.unsub[k][2] = "now"
    /\ c.drops[k] = c.asks[k] /\ c.asks[k] \subseteq c.shared /\ c.floor = 0
    /\ \A l \in DOMAIN c.asks : l # k => c.sub[l][1] # "once" /\ c.asks[k] \cap c.drops[l] = {}
Counted(c, k) ==
    /\ c.sub[k][1] = "counted"
    /\ \A l \in DOMAIN c.asks : c.sub[l][1] = "counted" => c.asks[l] = c.asks[k]
Requests(c, k) ==
    \/ c.sub[k][1] = "each" /\ c.sub[k][2] = "queued"
    \/ Prompt(c) /\ c.sub[k][1] = "each" /\ c.sub[k][2] = "now"
    \/ Prompt(c) /\ c.sub[k][1] = "list" /\ c.sub[k][2] = "debounced"
    \/ /\ Once(c, k) \/ Counted(c, k)
       /\ Prompt(c) /\ c.sub[k][2] = "now" /\ c.forgets = "opened" /\ c.login = FALSE

Supplies(c, k) ==
    /\ Reaches(c.asks, c.routes, k)
    /\ Requests(c, k) /\ Unbatched(c) /\ c.oneTimer = FALSE
    /\ \A l \in DOMAIN c.asks :
          c.unsub[l][1] # "rest" /\ \A s \in c.asks[k] \cap c.drops[l] : Leaves(c, l, s, k)

\* What holds of every class of the table.
Sound(e, c) ==
    /\ \A k \in DOMAIN c.asks : <<e, k>> \in Starved \/ Supplies(c, k)
    /\ \A k \in DOMAIN c.asks : \A s \in c.asks[k] : <<e, s>> \in Leaking \/ Ends(c, k, s)
    /\ c.login = FALSE \/ Prompt(c)
    /\ Unbatched(c) \/ \A s \in Slow(c) : <<e, s>> \in Leaking
    /\ e \in Late \/ \A s \in Slow(c) : <<e, s>> \in Leaking
    /\ \A k \in DOMAIN c.asks :
          /\ c.sub[k][1] = "counted" <=> c.unsub[k][1] = "counted"
          /\ c.sub[k][1] = "counted" => <<e, k>> \notin Starved

----------------------------------------------------------------------------
(* The streams that are on their way.                                       *)

\* f asks for x; the server sends x unasked; an unsubscription of kind k names x.
Wants(c, f, x) == \E s \in c.asks[f[1]] : x = <<s, IF s \in c.shared THEN AllMarkets ELSE f[2]>>
Unasked(c, x) == \E s \in c.ambient : x = <<s, AllMarkets>>
Named(c, k, x) == \E s \in c.drops[k], m \in Market : x = <<s, IF s \in c.shared THEN AllMarkets ELSE m>>

\* Every message of q that adds x is followed by one that drops it, and the reverse.
Undone(q, x) ==
    \A i \in DOMAIN q : x \in q[i].add => \E j \in DOMAIN q : j > i /\ x \in q[j].drop
Redone(q, x) ==
    \A i \in DOMAIN q : x \in q[i].drop => \E j \in DOMAIN q : j > i /\ x \in q[j].add
Dropping(q, x) == \E i \in DOMAIN q : x \in q[i].drop
Adding(q, x) == \E i \in DOMAIN q : x \in q[i].add

\* A debounced unsubscription is going to end x.
Ending(c, calls, x) ==
    \E k \in DOMAIN c.asks : /\ <<"unsub", k>> \in calls /\ c.oneTimer = FALSE
                             /\ c.unsub[k][1] \in {"kind", "resend"} /\ Named(c, k, x)

Name(c) == UNION {c.asks[k] \cup c.drops[k] : k \in DOMAIN c.asks}
Stream(c) == Name(c) \X (Market \cup {AllMarkets})
Message(c) == [add : SUBSET Stream(c), drop : SUBSET Stream(c)]
Collected(c) == [op : {"add", "drop"}, streams : SUBSET Stream(c)]

\* The maps and the memo hold feeds of the class.
FeedInv == uses \subseteq Kind /\ subs \subseteq Feed /\ memo \subseteq Feed /\ IsFiniteSet(subs)

\* What waits: subscriptions to the streams of Slow, and unsubscriptions.
QueueOK(c, q) ==
    /\ q \in Seq(Message(c)) /\ (Prompt(c) => q = <<>>)
    /\ \A i \in DOMAIN q : \A x \in q[i].add : x[1] \in Slow(c)
BatchOK(c, b) ==
    /\ b \in Seq(Collected(c)) /\ (Unbatched(c) => b = <<>>)
    /\ \A i \in DOMAIN b : b[i].op = "add" => \A x \in b[i].streams : x[1] \in Slow(c)

\* Nothing waits before the connection is open, or once it is closed, but for what a socket
\* asks for that was let go of; a message that needs an authentication does not wait.
PaceInv ==
    /\ QueueOK(ex, queue) /\ BatchOK(ex, batch)
    /\ ~orphan /\ conn \notin {"open", "retrying"} => queue = <<>> /\ batch = <<>>
    /\ conn = "login" => ex.login # FALSE
    /\ \A k : <<"unsub", k>> \in timers => ex.unsub[k][2] = "debounced"

\* The count of the markets agrees with the maps.
CountInv ==
    conn = "open" /\ ex.forgets = "opened" =>
      \A f \in Feed : ex.sub[f[1]][1] = "counted" => (f \in memo <=> f \in subs)

\* Every stream that nobody asks for is going to be dropped; what a socket that was let go
\* of has put into the throttle may be asked for too late.
LeftInv ==
    conn = "open" =>
      \A x : \/ \E f \in subs : Wants(ex, f, x)
             \/ Unasked(ex, x) \/ <<exchange, x[1]>> \in Leaking
             \/ orphan /\ x[1] \in Slow(ex)
             \/ /\ x \in remote => Dropping(queue, x) \/ Ending(ex, timers, x)
                /\ Undone(queue, x)

\* Every stream of a feed is with the server or on its way, and what a flag or a count
\* stands for is with the server.
ServeInv ==
    conn = "open" =>
      /\ \A f \in subs : <<exchange, f[1]>> \in Starved \/
            \A x : Wants(ex, f, x) =>
               /\ x \in remote \/ Adding(queue, x) \/ <<"sub", f[1]>> \in timers
               /\ Redone(queue, x)
      /\ \A f \in memo : <<exchange, f[1]>> \in Starved \/
            \A x : Wants(ex, f, x) /\ ex.sub[f[1]][1] \in {"once", "counted"} => x \in remote

----------------------------------------------------------------------------
(* Messages that wait.                                                      *)

\* A message that adds streams goes to the end of the queue, or one that drops them.
WithAdd(q, A) == Append(q, [add |-> A, drop |-> {}])
WithDrop(q, D) == Append(q, [add |-> {}, drop |-> D])

\* What it adds is coming; it undoes nothing else.
LEMMA AddedLast ==
    ASSUME NEW c, NEW q \in Seq(Message(c)), NEW A \in SUBSET Stream(c), NEW x
    PROVE  /\ WithAdd(q, A) \in Seq(Message(c))
           /\ Adding(q, x) => Adding(WithAdd(q, A), x)
           /\ Dropping(q, x) => Dropping(WithAdd(q, A), x)
           /\ Redone(q, x) => Redone(WithAdd(q, A), x)
           /\ x \in A => Adding(WithAdd(q, A), x) /\ Redone(WithAdd(q, A), x)
           /\ x \notin A /\ Undone(q, x) => Undone(WithAdd(q, A), x)
<1> DEFINE m == [add |-> A, drop |-> {}]
           r == WithAdd(q, A)
           n == Len(q)
<1>1. m \in Message(c) /\ m.add = A /\ m.drop = {} /\ r = Append(q, m)
  BY DEF Message, WithAdd
<1> HIDE DEF m, r
<1>2. /\ r \in Seq(Message(c))
      /\ n \in Nat /\ DOMAIN q = 1 .. n /\ DOMAIN r = 1 .. n + 1
      /\ \A i \in 1 .. n : r[i] = q[i]
      /\ r[n + 1] = m
  BY <1>1
<1> HIDE DEF n
<1>3. (Adding(q, x) => Adding(r, x)) /\ (Dropping(q, x) => Dropping(r, x))
  BY <1>2 DEF Adding, Dropping
<1>4. Redone(q, x) => Redone(r, x)
  BY <1>1, <1>2 DEF Redone
<1>5. x \in A => Adding(r, x) /\ Redone(r, x)
  BY <1>1, <1>2 DEF Adding, Redone
<1>6. x \notin A /\ Undone(q, x) => Undone(r, x)
  BY <1>1, <1>2 DEF Undone
<1> QED
  BY <1>2, <1>3, <1>4, <1>5, <1>6 DEF r

\* What it drops is leaving; it takes nothing else.
LEMMA DroppedLast ==
    ASSUME NEW c, NEW q \in Seq(Message(c)), NEW D \in SUBSET Stream(c), NEW x
    PROVE  /\ WithDrop(q, D) \in Seq(Message(c))
           /\ Adding(q, x) => Adding(WithDrop(q, D), x)
           /\ Dropping(q, x) => Dropping(WithDrop(q, D), x)
           /\ Undone(q, x) => Undone(WithDrop(q, D), x)
           /\ x \in D => Dropping(WithDrop(q, D), x) /\ Undone(WithDrop(q, D), x)
           /\ x \notin D /\ Redone(q, x) => Redone(WithDrop(q, D), x)
<1> DEFINE m == [add |-> {}, drop |-> D]
           r == WithDrop(q, D)
           n == Len(q)
<1>1. m \in Message(c) /\ m.add = {} /\ m.drop = D /\ r = Append(q, m)
  BY DEF Message, WithDrop
<1> HIDE DEF m, r
<1>2. /\ r \in Seq(Message(c))
      /\ n \in Nat /\ DOMAIN q = 1 .. n /\ DOMAIN r = 1 .. n + 1
      /\ \A i \in 1 .. n : r[i] = q[i]
      /\ r[n + 1] = m
  BY <1>1
<1> HIDE DEF n
<1>3. (Adding(q, x) => Adding(r, x)) /\ (Dropping(q, x) => Dropping(r, x))
  BY <1>2 DEF Adding, Dropping
<1>4. Undone(q, x) => Undone(r, x)
  BY <1>1, <1>2 DEF Undone
<1>5. x \in D => Dropping(r, x) /\ Undone(r, x)
  BY <1>1, <1>2 DEF Dropping, Undone
<1>6. x \notin D /\ Redone(q, x) => Redone(r, x)
  BY <1>1, <1>2 DEF Redone
<1> QED
  BY <1>2, <1>3, <1>4, <1>5, <1>6 DEF r

\* The first message is written.
LEMMA Written ==
    ASSUME NEW c, NEW q \in Seq(Message(c)), q # <<>>, NEW base, NEW x
    PROVE  LET next == (base \ Head(q).drop) \cup Head(q).add
           IN  /\ Tail(q) \in Seq(Message(c))
               /\ Undone(q, x) => Undone(Tail(q), x)
               /\ Redone(q, x) => Redone(Tail(q), x)
               /\ Undone(q, x) /\ (x \in base => Dropping(q, x)) /\ x \in next => Dropping(Tail(q), x)
               /\ Redone(q, x) /\ (x \in base \/ Adding(q, x)) => x \in next \/ Adding(Tail(q), x)
<1> DEFINE r == Tail(q)
           n == Len(q)
<1>1. /\ r \in Seq(Message(c))
      /\ n \in Nat /\ DOMAIN q = 1 .. n /\ DOMAIN r = 1 .. n - 1
      /\ n > 0 /\ Head(q) = q[1]
      /\ \A i \in 1 .. n - 1 : r[i] = q[i + 1]
  OBVIOUS
<1> HIDE DEF r, n
<1>a. \A j \in 2 .. n : j - 1 \in 1 .. n - 1 /\ r[j - 1] = q[j]
  BY <1>1
<1>2. ASSUME Undone(q, x) PROVE Undone(r, x)
  <2> SUFFICES ASSUME NEW i \in 1 .. n - 1, x \in r[i].add
               PROVE  \E j \in 1 .. n - 1 : j > i /\ x \in r[j].drop
    BY <1>1 DEF Undone
  <2>1. i + 1 \in 1 .. n /\ x \in q[i + 1].add
    BY <1>1
  <2>2. PICK j \in 1 .. n : j > i + 1 /\ x \in q[j].drop
    BY <1>1, <1>2, <2>1 DEF Undone
  <2> QED
    BY <1>a, <2>2
<1>3. ASSUME Redone(q, x) PROVE Redone(r, x)
  <2> SUFFICES ASSUME NEW i \in 1 .. n - 1, x \in r[i].drop
               PROVE  \E j \in 1 .. n - 1 : j > i /\ x \in r[j].add
    BY <1>1 DEF Redone
  <2>1. i + 1 \in 1 .. n /\ x \in q[i + 1].drop
    BY <1>1
  <2>2. PICK j \in 1 .. n : j > i + 1 /\ x \in q[j].add
    BY <1>1, <1>3, <2>1 DEF Redone
  <2> QED
    BY <1>a, <2>2
<1>4. ASSUME Undone(q, x), x \in base => Dropping(q, x), x \in (base \ q[1].drop) \cup q[1].add
      PROVE  Dropping(r, x)
  <2>1. PICK j \in 2 .. n : x \in q[j].drop
    <3>1. CASE x \in q[1].add
      BY <1>1, <1>4, <3>1 DEF Undone
    <3>2. CASE x \notin q[1].add
      BY <1>1, <1>4, <3>2 DEF Dropping
    <3> QED
      BY <3>1, <3>2
  <2> QED
    BY <1>1, <1>a, <2>1 DEF Dropping
<1>5. ASSUME Redone(q, x), x \in base \/ Adding(q, x), x \notin (base \ q[1].drop) \cup q[1].add
      PROVE  Adding(r, x)
  <2>1. PICK j \in 2 .. n : x \in q[j].add
    <3>1. CASE x \in q[1].drop
      BY <1>1, <1>5, <3>1 DEF Redone
    <3>2. CASE x \notin q[1].drop
      BY <1>1, <1>5, <3>2 DEF Adding
    <3> QED
      BY <3>1, <3>2
  <2> QED
    BY <1>1, <1>a, <2>1 DEF Adding
<1> QED
  BY <1>1, <1>2, <1>3, <1>4, <1>5 DEF r

----------------------------------------------------------------------------
(* What the functions of a class write.                                     *)

\* The streams of some feeds are those that one of them wants.
LEMMA AskedWants == \A feeds, x : x \in Asked(feeds) <=> \E f \in feeds : Wants(ex, f, x)
  BY DEF Asked, Streams, Wants

\* They are streams of the class, of a market or of all.
LEMMA AskedTyped ==
    ASSUME uses \subseteq Kind, NEW feeds, feeds \subseteq Feed
    PROVE  Asked(feeds) \subseteq Stream(ex)
<1> SUFFICES ASSUME NEW f \in feeds, NEW s \in ex.asks[f[1]]
             PROVE  <<s, IF s \in ex.shared THEN AllMarkets ELSE f[2]>> \in Stream(ex)
  BY DEF Asked, Streams
<1>1. f[1] \in DOMAIN ex.asks /\ f[2] \in Market
  BY FeedOf
<1> QED
  BY <1>1 DEF Stream, Name

\* The streams the server sends unasked.
LEMMA UnaskedIs == \A x : x \in Ambient <=> Unasked(ex, x)
  BY DEF Ambient, Unasked, Streams

\* The streams of a kind, in every market.
LEMMA NamedIs == \A k, x : x \in Everything(k) <=> Named(ex, k, x)
  BY DEF Everything, Named, Streams

\* A subscription message of a throttle is about streams of Slow.
LEMMA SlowAsked ==
    ASSUME uses \subseteq Kind, NEW feeds, feeds \subseteq Feed, NEW via \in {"queued", "batched"},
           NEW x \in Asked(Via(feeds, via))
    PROVE  /\ x[1] \in Slow(ex) /\ ~Prompt(ex) /\ (via = "batched" => ~Unbatched(ex))
           /\ \E f \in feeds : Wants(ex, f, x)
<1>1. PICK f \in Via(feeds, via) : Wants(ex, f, x)
  BY AskedWants
<1>2. f \in feeds /\ ex.sub[f[1]][2] = via
  BY <1>1 DEF Via
<1>3. f[1] \in DOMAIN ex.asks
  BY <1>2, FeedOf
<1>4. x[1] \in ex.asks[f[1]]
  BY <1>1 DEF Wants
<1> QED
  BY <1>1, <1>2, <1>3, <1>4 DEF Slow, Prompt, Unbatched

\* The effect of a subscription on what is pending.
Requested(feeds, base, known, A, B) ==
    /\ queue' = IF A = {} THEN queue ELSE WithAdd(queue, A)
    /\ batch' = Batched("add", B)
    /\ \A x \in A \cup B : x[1] \in Slow(ex) /\ \E f \in feeds : Wants(ex, f, x)
    /\ (Prompt(ex) => A = {} /\ B = {}) /\ (Unbatched(ex) => B = {})
    /\ base \subseteq remote'
    /\ \A x \in remote' : x \in base \/ \E f \in feeds : Wants(ex, f, x)
    /\ \A k : <<"unsub", k>> \in timers' => <<"unsub", k>> \in timers
    /\ ex.oneTimer = FALSE => timers \subseteq timers'
    /\ \A f : /\ f \in memo' => f \in known \/ f \in feeds
              /\ ex.sub[f[1]][1] = "counted" => (f \in memo' <=> f \in known \/ f \in feeds)
              /\ f \in known => f \in memo'

LEMMA SubWrites ==
    ASSUME uses \subseteq Kind, NEW feeds, feeds \subseteq Feed, NEW base, NEW known,
           SendSub(feeds, base, known)
    PROVE  \E A, B \in SUBSET Stream(ex) : Requested(feeds, base, known, A, B)
<1>1. PICK first \in IF Form(feeds, "once") = {} THEN {<<>>} ELSE Form(feeds, "once") :
        LET due == {f \in feeds : Due(f, known, first)}
            lists == Form(feeds, "list")
        IN  /\ remote' = IF conn' = "open" THEN base \cup Asked(Via(due, "now")) ELSE base
            /\ queue' = Queued(Asked(Via(due, "queued")), {})
            /\ batch' = Batched("add", Asked(Via(due, "batched")))
            /\ timers' = Armed(timers \cup {<<"wait", f[1]>> : f \in Via(lists, "delayed")},
                               "sub", {f[1] : f \in Via(lists, "debounced")})
            /\ memo' = known \cup (due \cap Form(feeds, "once")) \cup Form(feeds, "counted")
  BY Zenon DEF SendSub
<1> DEFINE due == {f \in feeds : Due(f, known, first)}
           lists == Form(feeds, "list")
           A == Asked(Via(due, "queued"))
           B == Asked(Via(due, "batched"))
<1>2. due \subseteq feeds
  OBVIOUS
<1>3. remote' = (IF conn' = "open" THEN base \cup Asked(Via(due, "now")) ELSE base)
  BY <1>1
<1>4. queue' = Queued(A, {}) /\ batch' = Batched("add", B)
  BY <1>1
<1>5. timers' = Armed(timers \cup {<<"wait", f[1]>> : f \in Via(lists, "delayed")},
                      "sub", {f[1] : f \in Via(lists, "debounced")})
  BY <1>1
<1>6. memo' = known \cup (due \cap Form(feeds, "once")) \cup Form(feeds, "counted")
  BY <1>1
<1> HIDE DEF due
<1>7. A \in SUBSET Stream(ex) /\ B \in SUBSET Stream(ex)
  BY <1>2, AskedTyped DEF Via
<1>8. \A x \in A \cup B : /\ x[1] \in Slow(ex) /\ ~Prompt(ex) /\ \E f \in feeds : Wants(ex, f, x)
  BY <1>2, SlowAsked
<1>9. Unbatched(ex) => B = {}
  BY <1>2, SlowAsked
<1>10. \A x \in remote' : x \in base \/ \E f \in feeds : Wants(ex, f, x)
  BY <1>2, <1>3, AskedWants DEF Via
<1>11. base \subseteq remote'
  BY <1>3
<1>12. queue' = IF A = {} THEN queue ELSE WithAdd(queue, A)
  BY <1>4 DEF Queued, WithAdd, WithDrop
<1>13. \A k : <<"unsub", k>> \in timers' => <<"unsub", k>> \in timers
  BY <1>5 DEF Armed
<1>14. ex.oneTimer = FALSE => timers \subseteq timers'
  BY <1>5 DEF Armed
<1>15. \A f : /\ f \in memo' => f \in known \/ f \in feeds
              /\ ex.sub[f[1]][1] = "counted" => (f \in memo' <=> f \in known \/ f \in feeds)
              /\ f \in known => f \in memo'
  BY <1>2, <1>6 DEF Form
<1> HIDE DEF A, B
<1>16. Prompt(ex) => A = {} /\ B = {}
  BY <1>8
<1>17. Requested(feeds, base, known, A, B)
  BY <1>4, <1>8, <1>9, <1>10, <1>11, <1>12, <1>13, <1>14, <1>15, <1>16 DEF Requested
<1> QED
  BY <1>7, <1>17

\* A subscription of a feed that is to be served sends for all its streams.  What is
\* known to have been asked for is with the server.
LEMMA SubServes ==
    ASSUME uses \subseteq Kind, NEW feeds, feeds \subseteq Feed, NEW base, NEW known,
           known \subseteq Feed, SendSub(feeds, base, known), conn' = "open",
           queue \in Seq(Message(ex)), Prompt(ex) => queue = <<>>,
           Sound(exchange, ex),
           \A g \in known : <<exchange, g[1]>> \in Starved \/
              \A x : Wants(ex, g, x) /\ ex.sub[g[1]][1] \in {"once", "counted"} => x \in base,
           NEW f \in feeds, <<exchange, f[1]>> \notin Starved, NEW x, Wants(ex, f, x)
    PROVE  /\ x \in remote' \/ Adding(queue', x) \/ <<"sub", f[1]>> \in timers'
           /\ ex.sub[f[1]][1] \in {"once", "counted"} => x \in remote'
           /\ Redone(queue', x)
<1> DEFINE k == f[1]
<1>1. PICK first \in IF Form(feeds, "once") = {} THEN {<<>>} ELSE Form(feeds, "once") :
        LET due == {g \in feeds : Due(g, known, first)}
            lists == Form(feeds, "list")
        IN  /\ remote' = IF conn' = "open" THEN base \cup Asked(Via(due, "now")) ELSE base
            /\ queue' = Queued(Asked(Via(due, "queued")), {})
            /\ timers' = Armed(timers \cup {<<"wait", g[1]>> : g \in Via(lists, "delayed")},
                               "sub", {g[1] : g \in Via(lists, "debounced")})
  BY Zenon DEF SendSub
<1> DEFINE due == {g \in feeds : Due(g, known, first)}
           lists == Form(feeds, "list")
           A == Asked(Via(due, "queued"))
<1>2. /\ remote' = base \cup Asked(Via(due, "now"))
      /\ queue' = Queued(A, {})
      /\ timers' = Armed(timers \cup {<<"wait", g[1]>> : g \in Via(lists, "delayed")},
                         "sub", {g[1] : g \in Via(lists, "debounced")})
  BY <1>1
<1>3. k \in DOMAIN ex.asks /\ f = <<f[1], f[2]>>
  BY FeedOf
<1>4. Supplies(ex, k)
  BY <1>3 DEF Sound
<1>5. Requests(ex, k)
  BY <1>4 DEF Supplies
<1>6. A \in SUBSET Stream(ex)
  BY AskedTyped DEF Via
<1>7. Prompt(ex) => A = {}
  <2>1. \A y \in A : ~Prompt(ex)
    <3>1. due \subseteq feeds
      OBVIOUS
    <3> QED
      BY <3>1, SlowAsked
  <2> QED
    BY <2>1
<1>8. Prompt(ex) => queue' = <<>> /\ Redone(queue', x)
  BY <1>2, <1>7 DEF Queued, Redone
<1>9. ASSUME NEW g \in due, ex.sub[g[1]][2] = "now", Wants(ex, g, x)
      PROVE  x \in remote'
  BY <1>2, <1>9, AskedWants DEF Via
<1>10. CASE ex.sub[k][1] = "each" /\ ex.sub[k][2] = "queued"
  <2>1. Due(f, known, first)
    BY <1>10, Zenon DEF Due
  <2>2. x \in A
    BY <1>10, <2>1, AskedWants DEF Via
  <2>3. queue' = WithAdd(queue, A)
    BY <1>2, <2>2 DEF Queued, WithAdd, WithDrop
  <2> HIDE DEF A
  <2>4. Adding(queue', x) /\ Redone(queue', x)
    BY <1>6, <2>2, <2>3, AddedLast
  <2> QED
    BY <1>10, <2>4
<1>11. CASE Prompt(ex) /\ ex.sub[k][1] = "each" /\ ex.sub[k][2] = "now"
  <2>1. Due(f, known, first)
    BY <1>11, Zenon DEF Due
  <2> QED
    BY <1>8, <1>9, <1>11, <2>1
<1>12. CASE Prompt(ex) /\ ex.sub[k][1] = "list" /\ ex.sub[k][2] = "debounced"
  <2>1. f \in Via(lists, "debounced")
    BY <1>12 DEF Via, Form
  <2>2. <<"sub", f[1]>> \in timers'
    BY <1>2, <2>1 DEF Armed
  <2> QED
    BY <1>8, <1>12, <2>2
<1>13. CASE Once(ex, k) /\ Prompt(ex) /\ ex.sub[k][2] = "now"
  <2>1. ex.sub[k][1] = "once" /\ ex.asks[k] \subseteq ex.shared
    BY <1>13 DEF Once
  <2>2. f \in Form(feeds, "once")
    BY <2>1 DEF Form
  <2>3. first \in feeds /\ ex.sub[first[1]][1] = "once"
    BY <2>2 DEF Form
  <2>4. first[1] = k
    BY <1>13, <2>3, FeedOf DEF Once
  <2>5. \A g : g[1] = k => Wants(ex, g, x)
    BY <2>1 DEF Wants
  <2>6. CASE Of(k, known) = {}
    <3>1. Due(first, known, first)
      BY <2>3, <2>4, <2>6, Zenon DEF Due
    <3> QED
      BY <1>8, <1>9, <1>13, <2>3, <2>4, <2>5, <3>1
  <2>7. CASE Of(k, known) # {}
    <3>1. PICK g \in known : g[1] = k
      BY <2>7 DEF Of
    <3>2. x \in base
      BY <2>1, <2>5, <3>1
    <3> QED
      BY <1>2, <1>8, <1>13, <3>2
  <2> QED
    BY <2>6, <2>7
<1>14. CASE Counted(ex, k) /\ Prompt(ex) /\ ex.sub[k][2] = "now"
  <2>1. ex.sub[k][1] = "counted"
    BY <1>14 DEF Counted
  <2>2. CASE \A g \in Form(known, "counted") : g[2] # f[2]
    <3>1. Due(f, known, first)
      BY <2>1, <2>2, Zenon DEF Due
    <3> QED
      BY <1>8, <1>9, <1>14, <3>1
  <2>3. ASSUME NEW g \in Form(known, "counted"), g[2] = f[2]
        PROVE  x \in remote'
    <3>1. g \in known /\ ex.sub[g[1]][1] = "counted" /\ g[1] \in DOMAIN ex.asks
      BY FeedOf DEF Form
    <3>2. <<exchange, g[1]>> \notin Starved
      BY <3>1 DEF Sound
    <3>3. ex.asks[g[1]] = ex.asks[k]
      BY <1>14, <3>1 DEF Counted
    <3>4. Wants(ex, g, x)
      BY <2>3, <3>3 DEF Wants
    <3> QED
      BY <1>2, <3>1, <3>2, <3>4
  <2> QED
    BY <1>8, <1>14, <2>2, <2>3
<1> QED
  BY <1>5, <1>10, <1>11, <1>12, <1>13, <1>14 DEF Requests

----------------------------------------------------------------------------
(* What an unsubscription writes.                                           *)

\* The streams of f that no feed of left keeps up.
Mine(f, left) ==
    Streams({s \in ex.drops[f[1]] :
               ~ \E r \in ex.spares : r[1] = f[1] /\ r[2] = s /\ <<r[3], f[2]>> \in left}, f[2])

LEMMA MineIs ==
    \A f, left, x : x \in Mine(f, left) <=>
      \E s \in ex.drops[f[1]] :
         /\ ~ \E r \in ex.spares : r[1] = f[1] /\ r[2] = s /\ <<r[3], f[2]>> \in left
         /\ x = <<s, IF s \in ex.shared THEN AllMarkets ELSE f[2]>>
  BY DEF Mine, Streams

\* The streams that are given up, form by form.
LEMMA GivenUpIs ==
    ASSUME NEW f, NEW left, NEW found
    PROVE  LET form == ex.unsub[f[1]][1]
               G == GivenUp(f, left, found)
           IN  /\ form = "each" => G = Mine(f, left)
               /\ form = "last" => G = IF Cardinality(Of(f[1], left)) > ex.floor THEN {} ELSE Mine(f, left)
               /\ form = "counted" => G = IF \E g \in Form(memo, "counted") \ {f} : g[2] = f[2]
                                          THEN {} ELSE Mine(f, left)
               /\ form = "acked" => G = Mine(f, left) \/ G = {}
               /\ form = "kind" => G = Everything(f[1])
               /\ form \notin {"each", "last", "counted", "acked", "kind"} => G = {}
<1> DEFINE form == ex.unsub[f[1]][1]
           G == GivenUp(f, left, found)
<1>1. ASSUME form = "each" PROVE G = Mine(f, left)
  BY <1>1, Zenon DEF GivenUp, Mine
<1>2. ASSUME form = "last"
      PROVE  G = IF Cardinality(Of(f[1], left)) > ex.floor THEN {} ELSE Mine(f, left)
  BY <1>2, Zenon DEF GivenUp, Mine
<1>3. ASSUME form = "counted"
      PROVE  G = IF \E g \in Form(memo, "counted") \ {f} : g[2] = f[2] THEN {} ELSE Mine(f, left)
  BY <1>3, Zenon DEF GivenUp, Mine
<1>4. ASSUME form = "acked" PROVE G = IF found = "live" THEN Mine(f, left) ELSE {}
  BY <1>4, Zenon DEF GivenUp, Mine
<1>5. ASSUME form = "kind" PROVE G = Everything(f[1])
  BY <1>5, Zenon DEF GivenUp
<1>6. ASSUME form \notin {"each", "last", "counted", "acked", "kind"} PROVE G = {}
  <2>1. form # "each" /\ form # "last" /\ form # "counted" /\ form # "acked" /\ form # "kind"
    BY <1>6
  <2> QED
    BY <2>1, Zenon DEF GivenUp
<1>7. form = "acked" => G = Mine(f, left) \/ G = {}
  BY <1>4, Zenon
<1> HIDE DEF form, G
<1>8. /\ form = "each" => G = Mine(f, left)
      /\ form = "last" => G = IF Cardinality(Of(f[1], left)) > ex.floor THEN {} ELSE Mine(f, left)
      /\ form = "counted" => G = IF \E g \in Form(memo, "counted") \ {f} : g[2] = f[2]
                                 THEN {} ELSE Mine(f, left)
      /\ form = "acked" => G = Mine(f, left) \/ G = {}
      /\ form = "kind" => G = Everything(f[1])
      /\ form \notin {"each", "last", "counted", "acked", "kind"} => G = {}
  BY <1>1, <1>2, <1>3, <1>5, <1>6, <1>7, Zenon
<1> QED
  BY <1>8, Zenon DEF form, G

\* They too are streams of the class.
LEMMA GivenUpTyped ==
    ASSUME uses \subseteq Kind, NEW f \in Feed, NEW left, NEW found
    PROVE  GivenUp(f, left, found) \in SUBSET Stream(ex)
<1>1. f[1] \in DOMAIN ex.asks /\ f[2] \in Market
  BY FeedOf
<1>2. Mine(f, left) \subseteq Stream(ex)
  BY <1>1, MineIs DEF Stream, Name
<1>3. Everything(f[1]) \subseteq Stream(ex)
  BY <1>1, NamedIs DEF Stream, Name, Named
<1>4. \/ GivenUp(f, left, found) = {}
      \/ GivenUp(f, left, found) = Mine(f, left)
      \/ GivenUp(f, left, found) = Everything(f[1])
  BY GivenUpIs, Zenon
<1> QED
  BY <1>2, <1>3, <1>4

\* The effect of an unsubscription on what is pending.
Freed(f, left, G) ==
    LET via == ex.unsub[f[1]][2]
    IN  /\ remote' = IF via = "now" THEN remote \ G ELSE remote
        /\ queue' = IF via = "queued" /\ G # {} THEN WithDrop(queue, G) ELSE queue
        /\ batch' = IF via = "batched" THEN Batched("drop", G) ELSE batch
        /\ \A k : <<"unsub", k>> \in timers => <<"unsub", k>> \in timers'
        /\ \A k : <<"unsub", k>> \in timers' => <<"unsub", k>> \in timers \/ (via = "debounced" /\ k = f[1])
        /\ via = "debounced" => <<"unsub", f[1]>> \in timers'
        /\ ex.oneTimer = FALSE => timers \subseteq timers'
        /\ memo' = memo \ Forgotten(f, left)

LEMMA UnsubWrites ==
    ASSUME uses \subseteq Kind, NEW f \in Feed, NEW left, SendUnsub(f, left)
    PROVE  \E found : Freed(f, left, GivenUp(f, left, found))
<1>1. PICK found \in FindChannel(f) :
        LET via == ex.unsub[f[1]][2]
            streams == GivenUp(f, left, found)
        IN  /\ remote' = IF via = "now" THEN remote \ streams ELSE remote
            /\ queue' = IF via = "queued" THEN Queued({}, streams) ELSE queue
            /\ batch' = IF via = "batched" THEN Batched("drop", streams) ELSE batch
            /\ timers' = IF via = "debounced" THEN Armed(timers, "unsub", {f[1]}) ELSE timers
            /\ memo' = memo \ Forgotten(f, left)
  BY Zenon DEF SendUnsub
<1> DEFINE via == ex.unsub[f[1]][2]
           G == GivenUp(f, left, found)
<1>2. /\ remote' = IF via = "now" THEN remote \ G ELSE remote
      /\ queue' = IF via = "queued" THEN Queued({}, G) ELSE queue
      /\ batch' = IF via = "batched" THEN Batched("drop", G) ELSE batch
      /\ timers' = IF via = "debounced" THEN Armed(timers, "unsub", {f[1]}) ELSE timers
      /\ memo' = memo \ Forgotten(f, left)
  BY <1>1
<1> HIDE DEF via, G
<1>3. queue' = IF via = "queued" /\ G # {} THEN WithDrop(queue, G) ELSE queue
  BY <1>2 DEF Queued, WithAdd, WithDrop
<1>4. /\ \A k : <<"unsub", k>> \in timers => <<"unsub", k>> \in timers'
      /\ \A k : <<"unsub", k>> \in timers' => <<"unsub", k>> \in timers \/ (via = "debounced" /\ k = f[1])
      /\ via = "debounced" => <<"unsub", f[1]>> \in timers'
      /\ ex.oneTimer = FALSE => timers \subseteq timers'
  BY <1>2 DEF Armed
<1>5. Freed(f, left, G)
  BY <1>2, <1>3, <1>4 DEF Freed, via
<1> QED
  BY <1>5 DEF G

\* The end of the last feed that asks for x gives x up.
LEMMA LastGivesUp ==
    ASSUME uses \subseteq Kind, subs \subseteq Feed, memo \subseteq Feed, CountInv, conn = "open",
           NEW f \in subs, NEW x, Wants(ex, f, x), NEW found,
           \A g \in subs \ {f} : ~Wants(ex, g, x),
           ~Unasked(ex, x), ex.unsub[f[1]][1] # "missing", Ends(ex, f[1], x[1])
    PROVE  \/ EndsNow(ex, f[1], x[1]) /\ x \in GivenUp(f, subs \ {f}, found)
           \/ EndsQueued(ex, f[1]) /\ x \in GivenUp(f, subs \ {f}, found)
           \/ EndsLater(ex, f[1], x[1]) /\ Named(ex, f[1], x)
<1> DEFINE left == subs \ {f}
           k == f[1]
           s == x[1]
           G == GivenUp(f, left, found)
<1>1. s \in ex.asks[k] /\ x = <<s, IF s \in ex.shared THEN AllMarkets ELSE f[2]>>
  BY DEF Wants
<1>2. f \in Feed /\ f = <<k, f[2]>> /\ k \in DOMAIN ex.asks /\ f[2] \in Market
  BY FeedOf
<1>3. ~(s \in ex.ambient /\ s \in ex.shared)
  BY <1>1 DEF Unasked
<1>4. /\ EndsNow(ex, k, s) \/ EndsQueued(ex, k) \/ EndsLater(ex, k, s)
      /\ s \in ex.drops[k]
      /\ \A r \in ex.spares : r[1] = k /\ r[2] = s => r[3] \in DOMAIN ex.asks /\ s \in ex.asks[r[3]]
  BY <1>3 DEF Ends
<1>5. ASSUME NEW g \in left, s \in ex.asks[g[1]], s \in ex.shared \/ g[2] = f[2]
      PROVE  FALSE
  <2>1. Wants(ex, g, x)
    BY <1>1, <1>5 DEF Wants
  <2> QED
    BY <2>1
<1>6. ~ \E r \in ex.spares : r[1] = k /\ r[2] = s /\ <<r[3], f[2]>> \in left
  <2> SUFFICES ASSUME NEW r \in ex.spares, r[1] = k, r[2] = s, <<r[3], f[2]>> \in left
               PROVE  FALSE
    OBVIOUS
  <2>1. s \in ex.asks[r[3]]
    BY <1>4
  <2> QED
    BY <1>5, <2>1
<1>7. x \in Mine(f, left)
  BY <1>1, <1>4, <1>6, MineIs
<1>8. Named(ex, k, x)
  BY <1>1, <1>2, <1>4 DEF Named
<1> HIDE DEF left, G
<1>9. CASE EndsLater(ex, k, s)
  BY <1>8, <1>9
<1>10. CASE EndsQueued(ex, k)
  <2>1. ex.unsub[k][1] = "each"
    BY <1>10 DEF EndsQueued
  <2>2. G = Mine(f, left)
    BY <2>1, GivenUpIs, Zenon DEF G
  <2> QED
    BY <1>7, <1>10, <2>2 DEF G, left
<1>11. CASE EndsNow(ex, k, s)
  <2>1. CASE ex.unsub[k][1] = "each"
    <3>1. G = Mine(f, left)
      BY <2>1, GivenUpIs, Zenon DEF G
    <3> QED
      BY <1>7, <1>11, <3>1 DEF G, left
  <2>2. CASE ex.unsub[k][1] = "kind"
    <3>1. G = Everything(k)
      BY <2>2, GivenUpIs, Zenon DEF G
    <3> QED
      BY <1>8, <1>11, <3>1, NamedIs DEF G, left
  <2>3. CASE ex.unsub[k][1] = "last" /\ s \in ex.shared /\ ex.floor \in Nat
    <3>1. Of(k, left) = {}
      BY <1>1, <1>5, <2>3 DEF Of
    <3>2. Cardinality(Of(k, left)) = 0
      BY <3>1, FS_EmptySet
    <3>3. G = IF Cardinality(Of(k, left)) > ex.floor THEN {} ELSE Mine(f, left)
      BY <2>3, GivenUpIs, Zenon DEF G
    <3>4. G = Mine(f, left)
      BY <2>3, <3>2, <3>3
    <3> QED
      BY <1>7, <1>11, <3>4 DEF G, left
  <2>4. CASE /\ ex.unsub[k][1] = "counted" /\ ex.forgets = "opened"
             /\ \A l \in DOMAIN ex.asks : ex.sub[l][1] = "counted" => s \in ex.asks[l]
    <3>1. ~ \E g \in Form(memo, "counted") \ {f} : g[2] = f[2]
      <4> SUFFICES ASSUME NEW g \in Form(memo, "counted") \ {f}, g[2] = f[2], g \in Feed
                   PROVE  FALSE
        BY DEF Form
      <4>1. ex.sub[g[1]][1] = "counted" /\ g \in memo
        BY DEF Form
      <4>2. g \in subs
        BY <2>4, <4>1 DEF CountInv
      <4>3. s \in ex.asks[g[1]]
        BY <2>4, <4>1, FeedOf
      <4> QED
        BY <1>5, <4>2, <4>3 DEF left
    <3>2. G = IF \E g \in Form(memo, "counted") \ {f} : g[2] = f[2] THEN {} ELSE Mine(f, left)
      BY <2>4, GivenUpIs, Zenon DEF G
    <3>3. G = Mine(f, left)
      BY <3>1, <3>2
    <3> QED
      BY <1>7, <1>11, <3>3 DEF G, left
  <2> QED
    BY <1>11, <2>1, <2>2, <2>3, <2>4 DEF EndsNow
<1> QED
  BY <1>4, <1>9, <1>10, <1>11

\* The end of g takes no stream of a feed f that is to be served.
LEMMA GivesUpNoOther ==
    ASSUME uses \subseteq Kind, memo \subseteq Feed, NEW g \in Feed, NEW left, left \subseteq Feed,
           IsFiniteSet(left), g \notin left,
           NEW f \in Feed, f # g, Supplies(ex, f[1]), NEW x, Wants(ex, f, x),
           f \in left \/ Once(ex, f[1]),
           ex.sub[f[1]][1] = "counted" => f \in memo,
           ex.unsub[g[1]][1] = "last" /\ g[1] = f[1] => Of(f[1], left) # {},
           NEW found
    PROVE  x \notin GivenUp(g, left, found)
<1> DEFINE k == f[1]
           l == g[1]
           s == x[1]
           G == GivenUp(g, left, found)
<1>1. s \in ex.asks[k] /\ x = <<s, IF s \in ex.shared THEN AllMarkets ELSE f[2]>>
  BY DEF Wants
<1>2. /\ f = <<k, f[2]>> /\ k \in DOMAIN ex.asks
      /\ g = <<l, g[2]>> /\ l \in DOMAIN ex.asks /\ f[2] \in Market /\ g[2] \in Market
  BY FeedOf
<1> HIDE DEF G
<1>3. CASE s \notin ex.drops[l]
  <2>1. x \notin Mine(g, left)
    BY <1>1, <1>3, MineIs
  <2>2. x \notin Everything(l)
    BY <1>1, <1>3, NamedIs DEF Named
  <2>3. G = {} \/ G = Mine(g, left) \/ G = Everything(l)
    BY GivenUpIs, Zenon DEF G
  <2> QED
    BY <2>1, <2>2, <2>3 DEF G
<1>4. CASE s \in ex.drops[l]
  <2>1. Leaves(ex, l, s, k)
    BY <1>1, <1>2, <1>4 DEF Supplies
  <2>2. x \in Mine(g, left) => /\ s \in ex.shared \/ f[2] = g[2]
                               /\ ~ \E r \in ex.spares : r[1] = l /\ r[2] = s /\ <<r[3], g[2]>> \in left
    BY <1>1, MineIs, MarketAssumption
  <2>3. CASE ex.unsub[l][1] \in {"each", "acked"}
    <3>1. G = {} \/ G = Mine(g, left)
      BY <2>3, GivenUpIs, Zenon DEF G
    <3>a. s \notin ex.shared /\ (<<l, s, k>> \in ex.spares \/ l = k)
      BY <2>1, <2>3 DEF Leaves
    <3>b. x \in Mine(g, left) => f[2] = g[2]
      BY <2>2, <3>a
    <3>2. CASE l = k
      BY <1>2, <3>1, <3>2, <3>b DEF G
    <3>3. CASE <<l, s, k>> \in ex.spares /\ f \in left
      <4>1. f[2] = g[2] => <<l, s, k>>[1] = l /\ <<l, s, k>>[2] = s /\ <<(<<l, s, k>>)[3], g[2]>> \in left
        BY <1>2, <3>3
      <4>2. x \notin Mine(g, left)
        BY <2>2, <3>3, <3>b, <4>1
      <4> QED
        BY <3>1, <4>2 DEF G
    <3>4. CASE Once(ex, k) /\ l # k
      BY <1>1, <1>2, <1>4, <3>4 DEF Once
    <3> QED
      BY <3>2, <3>3, <3>4, <3>a
  <2>4. CASE ex.unsub[l][1] = "last"
    <3>1. l = k /\ ex.floor = 0
      BY <2>1, <2>4 DEF Leaves
    <3>2. Of(k, left) # {} /\ IsFiniteSet(Of(k, left))
      BY <2>4, <3>1, FS_Subset DEF Of
    <3>3. Cardinality(Of(k, left)) > 0
      BY <3>2, FS_CardinalityType, FS_EmptySet
    <3>4. G = IF Cardinality(Of(l, left)) > ex.floor THEN {} ELSE Mine(g, left)
      BY <2>4, GivenUpIs, Zenon DEF G
    <3> QED
      BY <3>1, <3>3, <3>4 DEF G
  <2>5. CASE ex.unsub[l][1] = "counted"
    <3>1. s \notin ex.shared /\ ex.sub[k][1] = "counted"
      BY <2>1, <2>5 DEF Leaves
    <3>2. f \in Form(memo, "counted") \ {g}
      BY <3>1 DEF Form
    <3>3. G = IF \E h \in Form(memo, "counted") \ {g} : h[2] = g[2] THEN {} ELSE Mine(g, left)
      BY <2>5, GivenUpIs, Zenon DEF G
    <3>4. x \in Mine(g, left) => f[2] = g[2]
      BY <2>2, <3>1
    <3> QED
      BY <3>2, <3>3, <3>4 DEF G
  <2>6. CASE ex.unsub[l][1] = "kind"
    <3>1. l = k /\ ex.single = TRUE
      BY <2>1, <2>6 DEF Leaves
    <3>2. f[2] = g[2]
      BY <3>1 DEF Feed
    <3> QED
      BY <1>2, <3>1, <3>2
  <2>7. CASE ex.unsub[l][1] \notin {"each", "last", "counted", "acked", "kind"}
    <3>1. G = {}
      BY <2>7, GivenUpIs, Zenon DEF G
    <3> QED
      BY <3>1 DEF G
  <2> QED
    BY <2>3, <2>4, <2>5, <2>6, <2>7
<1> QED
  BY <1>3, <1>4

----------------------------------------------------------------------------
(* The invariants, action by action.                                        *)

\* A step keeps the class of the client.
LEMMA SameClass == [Next]_vars => exchange' = exchange /\ ex' = ex /\ Feed' = Feed /\ Kind' = Kind /\ uses' = uses
  BY UserStep DEF user, ex, Feed, Kind

\* The maps and the memo hold feeds, and only finitely many are subscribed.
LEMMA FeedStep == FeedInv /\ [Next]_vars => FeedInv'
<1> SUFFICES ASSUME FeedInv, [Next]_vars PROVE FeedInv'
  OBVIOUS
<1>a. Feed' = Feed /\ Kind' = Kind /\ uses' = uses
  BY SameClass
<1>b. uses \subseteq Kind /\ subs \subseteq Feed /\ memo \subseteq Feed /\ IsFiniteSet(subs)
  BY DEF FeedInv
<1> SUFFICES subs' \subseteq Feed /\ memo' \subseteq Feed /\ IsFiniteSet(subs')
  BY <1>a, <1>b DEF FeedInv
<1>c. ASSUME NEW feeds, feeds \subseteq Feed, NEW base, NEW known, known \subseteq Feed, SendSub(feeds, base, known)
      PROVE  memo' \subseteq Feed
  <2>1. PICK A, B \in SUBSET Stream(ex) : Requested(feeds, base, known, A, B)
    BY <1>b, <1>c, SubWrites
  <2> QED
    BY <1>b, <1>c, <2>1 DEF Requested
<1>1. ASSUME NEW f \in Feed, Subscribe(f) PROVE subs' \subseteq Feed /\ memo' \subseteq Feed /\ IsFiniteSet(subs')
  BY <1>1, <1>b, <1>c, FS_AddElement DEF Subscribe
<1>2. ASSUME NEW f \in Feed, Unsubscribe(f) PROVE subs' \subseteq Feed /\ memo' \subseteq Feed /\ IsFiniteSet(subs')
  BY <1>2, <1>b, FS_RemoveElement DEF Unsubscribe, SendUnsub
<1>3. CASE Close \/ Reconnect \/ Resume \/ Lost \/ LostAndClosed \/ OrphanLost
  BY <1>3, <1>b DEF Close, Reconnect, Released, Resume, Lost, LostAndClosed, OrphanLost, Cancelled
<1>4. CASE Resubscribe
  BY <1>4, <1>b, <1>c DEF Resubscribe, Remembered
<1>5. CASE Opened \/ LoggedIn
  BY <1>5, <1>4, <1>b DEF Opened, LoggedIn
<1>6. CASE OrphanOpens
  BY <1>6, <1>b, <1>c DEF OrphanOpens, Remembered
<1>7. CASE Fetched \/ Retry \/ Flush \/ BatchFires \/ PingFires
  BY <1>7, <1>b DEF Fetched, Retry, Flush, BatchFires, PingFires
<1>8. ASSUME NEW op, NEW k, TimerFires(op, k) PROVE subs' \subseteq Feed /\ memo' \subseteq Feed /\ IsFiniteSet(subs')
  BY <1>8, <1>b DEF TimerFires
<1>9. ASSUME NEW f \in Feed, Acked(f) \/ SnapshotArrives(f) \/ SnapshotFails(f)
      PROVE  subs' \subseteq Feed /\ memo' \subseteq Feed /\ IsFiniteSet(subs')
  BY <1>9, <1>b DEF Acked, SnapshotArrives, SnapshotFails
<1>10. CASE UNCHANGED vars
  BY <1>10, <1>b DEF vars
<1> QED
  BY <1>1, <1>2, <1>3, <1>5, <1>6, <1>7, <1>8, <1>9, <1>10 DEF Next, Calls, Server, Timers, Replies

\* What a subscription and an unsubscription put into a batch.
LEMMA BatchedTyped ==
    ASSUME batch \in Seq(Collected(ex)), NEW op \in {"add", "drop"}, NEW B \in SUBSET Stream(ex)
    PROVE  /\ Batched(op, B) \in Seq(Collected(ex))
           /\ B = {} => Batched(op, B) = batch
           /\ \A i \in DOMAIN Batched(op, B) :
                 \/ \E j \in DOMAIN batch : Batched(op, B)[i] = batch[j]
                 \/ /\ Batched(op, B)[i].op = op
                    /\ \A x \in Batched(op, B)[i].streams :
                          x \in B \/ \E j \in DOMAIN batch : batch[j].op = op /\ x \in batch[j].streams
<1> DEFINE same == {i \in DOMAIN batch : batch[i].op = op}
           other == {i \in DOMAIN batch : batch[i].op # op}
           first == IF other = {} THEN <<>> ELSE <<batch[CHOOSE i \in other : TRUE]>>
           U == B \cup UNION {batch[i].streams : i \in same}
           r == [op |-> op, streams |-> U]
<1>1. Batched(op, B) = IF B = {} THEN batch ELSE Append(first, r)
  BY DEF Batched
<1>a. \A j \in DOMAIN batch : batch[j] \in Collected(ex)
  OBVIOUS
<1>2. \A j \in DOMAIN batch : batch[j] \in Collected(ex) /\ batch[j].streams \in SUBSET Stream(ex)
  BY <1>a DEF Collected
<1>3. U \in SUBSET Stream(ex)
  BY <1>2
<1>4. r \in Collected(ex) /\ r.op = op /\ r.streams = U
  BY <1>3 DEF Collected
<1>5. other # {} => (CHOOSE i \in other : TRUE) \in DOMAIN batch
  OBVIOUS
<1>6. \A x \in U : x \in B \/ \E j \in DOMAIN batch : batch[j].op = op /\ x \in batch[j].streams
  OBVIOUS
<1> DEFINE c == CHOOSE i \in other : TRUE
<1>7. first = <<>> \/ (c \in DOMAIN batch /\ first = <<batch[c]>>)
  BY <1>5
<1> HIDE DEF r, U, other, c, first
<1>8. first \in Seq(Collected(ex)) /\ \A i \in DOMAIN first : \E j \in DOMAIN batch : first[i] = batch[j]
  <2>1. CASE first = <<>>
    BY <2>1
  <2>2. ASSUME NEW b, c \in DOMAIN batch, b = batch[c], first = <<b>>
        PROVE  /\ first \in Seq(Collected(ex))
               /\ \A i \in DOMAIN first : first[i] = b
    BY <1>2, <2>2
  <2> QED
    BY <1>7, <2>1, <2>2
<1>9. /\ Append(first, r) \in Seq(Collected(ex))
      /\ \A i \in DOMAIN Append(first, r) : Append(first, r)[i] = r \/ \E j \in DOMAIN batch : Append(first, r)[i] = batch[j]
  BY <1>4, <1>8
<1>10. CASE B = {}
  BY <1>1, <1>10
<1>11. CASE B # {}
  BY <1>1, <1>4, <1>6, <1>9, <1>11
<1> QED
  BY <1>10, <1>11

\* An empty queue and no batch are in order.
LEMMA NothingWaits == ASSUME NEW c PROVE QueueOK(c, <<>>) /\ BatchOK(c, <<>>)
  BY DEF QueueOK, BatchOK

LEMMA QueueGrowsBy ==
    ASSUME NEW c, NEW q, QueueOK(c, q), ~Prompt(c), NEW A \in SUBSET Stream(c), NEW D \in SUBSET Stream(c),
           \A x \in A : x[1] \in Slow(c)
    PROVE  QueueOK(c, Append(q, [add |-> A, drop |-> D]))
<1> DEFINE m == [add |-> A, drop |-> D]
<1>1. m \in Message(c) /\ m.add = A
  BY DEF Message
<1> HIDE DEF m
<1>2. q \in Seq(Message(c)) /\ \A i \in DOMAIN q : \A x \in q[i].add : x[1] \in Slow(c)
  BY DEF QueueOK
<1>3. /\ Append(q, m) \in Seq(Message(c))
      /\ \A i \in DOMAIN Append(q, m) : Append(q, m)[i] = m \/ (i \in DOMAIN q /\ Append(q, m)[i] = q[i])
  BY <1>1, <1>2
<1>4. \A i \in DOMAIN Append(q, m) : \A x \in Append(q, m)[i].add : x[1] \in Slow(c)
  BY <1>1, <1>2, <1>3
<1>5. QueueOK(c, Append(q, m))
  BY <1>3, <1>4 DEF QueueOK
<1> QED
  BY <1>5 DEF m

\* A queue stays in order when a message about streams of Slow, or that drops, is added.
LEMMA QueueGrows ==
    ASSUME NEW c, NEW q, QueueOK(c, q), ~Prompt(c), NEW A \in SUBSET Stream(c)
    PROVE  /\ (\A x \in A : x[1] \in Slow(c)) => QueueOK(c, WithAdd(q, A))
           /\ QueueOK(c, WithDrop(q, A))
  BY QueueGrowsBy DEF WithAdd, WithDrop

\* A subscription leaves what waits in order, and adds nothing in a prompt class.
LEMMA SubWaits ==
    ASSUME uses \subseteq Kind, NEW feeds, feeds \subseteq Feed, NEW base, NEW known,
           SendSub(feeds, base, known), QueueOK(ex, queue), BatchOK(ex, batch)
    PROVE  /\ QueueOK(ex, queue') /\ BatchOK(ex, batch')
           /\ Prompt(ex) => queue' = queue /\ batch' = batch
<1>1. PICK A, B \in SUBSET Stream(ex) : Requested(feeds, base, known, A, B)
  BY SubWrites
<1>2. /\ queue' = IF A = {} THEN queue ELSE WithAdd(queue, A)
      /\ batch' = Batched("add", B)
      /\ \A x \in A \cup B : x[1] \in Slow(ex)
      /\ (Prompt(ex) => A = {} /\ B = {}) /\ (Unbatched(ex) => B = {})
  BY <1>1 DEF Requested
<1>3. batch \in Seq(Collected(ex))
  BY DEF BatchOK
<1>4. Prompt(ex) => queue' = queue /\ batch' = batch
  BY <1>2, <1>3, BatchedTyped
<1>5. QueueOK(ex, queue')
  <2>1. CASE A = {}
    BY <1>2, <2>1
  <2>2. CASE A # {}
    BY <1>2, <2>2, QueueGrows
  <2> QED
    BY <2>1, <2>2
<1>6. BatchOK(ex, batch')
  BY <1>2, <1>3, BatchedTyped DEF BatchOK
<1> QED
  BY <1>4, <1>5, <1>6

\* So does an unsubscription.
LEMMA UnsubWaits ==
    ASSUME uses \subseteq Kind, NEW f \in Feed, NEW left, SendUnsub(f, left),
           QueueOK(ex, queue), BatchOK(ex, batch)
    PROVE  /\ QueueOK(ex, queue') /\ BatchOK(ex, batch')
           /\ Prompt(ex) => queue' = queue /\ batch' = batch
<1>1. PICK found : Freed(f, left, GivenUp(f, left, found))
  BY UnsubWrites
<1> DEFINE G == GivenUp(f, left, found)
           via == ex.unsub[f[1]][2]
<1>2. /\ queue' = IF via = "queued" /\ G # {} THEN WithDrop(queue, G) ELSE queue
      /\ batch' = IF via = "batched" THEN Batched("drop", G) ELSE batch
  BY <1>1 DEF Freed
<1>3. G \in SUBSET Stream(ex) /\ f[1] \in DOMAIN ex.asks
  BY GivenUpTyped, FeedOf
<1> HIDE DEF G
<1>4. (Prompt(ex) => via \notin {"queued", "batched"}) /\ (Unbatched(ex) => via # "batched")
  BY <1>3 DEF Prompt, Unbatched
<1>5. QueueOK(ex, queue')
  <2>1. CASE via = "queued" /\ G # {}
    BY <1>2, <1>3, <1>4, <2>1, QueueGrows
  <2>2. CASE ~(via = "queued" /\ G # {})
    BY <1>2, <2>2
  <2> QED
    BY <2>1, <2>2
<1>6. BatchOK(ex, batch')
  <2>1. batch \in Seq(Collected(ex))
    BY DEF BatchOK
  <2>2. CASE via = "batched"
    BY <1>2, <1>3, <1>4, <2>1, <2>2, BatchedTyped DEF BatchOK
  <2>3. CASE via # "batched"
    BY <1>2, <2>3
  <2> QED
    BY <2>2, <2>3
<1> QED
  BY <1>2, <1>4, <1>5, <1>6

\* So does the first message of the queue when it is written.
LEMMA FlushWaits ==
    ASSUME QueueOK(ex, queue), queue # <<>> PROVE QueueOK(ex, Tail(queue))
<1>1. queue \in Seq(Message(ex))
  BY DEF QueueOK
<1>2. Tail(queue) \in Seq(Message(ex)) /\ \A i \in DOMAIN Tail(queue) : i + 1 \in DOMAIN queue /\ Tail(queue)[i] = queue[i + 1]
  BY <1>1
<1> QED
  BY <1>2 DEF QueueOK

\* A batch that fires adds one message, in a class that has batches.
LEMMA BatchWaits ==
    ASSUME QueueOK(ex, queue), BatchOK(ex, batch), BatchFires
    PROVE  /\ QueueOK(ex, queue') /\ BatchOK(ex, batch') /\ ~Unbatched(ex) /\ ~Prompt(ex)
           /\ \/ queue' = queue
              \/ \E A \in SUBSET Stream(ex) : /\ \A x \in A : x[1] \in Slow(ex)
                                              /\ queue' = WithAdd(queue, A)
              \/ \E D \in SUBSET Stream(ex) : queue' = WithDrop(queue, D)
<1>1. batch # <<>> /\ batch \in Seq(Collected(ex)) /\ batch' = Tail(batch)
  BY DEF BatchFires, BatchOK
<1>2. ~Unbatched(ex) /\ ~Prompt(ex)
  BY <1>1 DEF BatchOK, Unbatched, Prompt
<1>3. /\ Tail(batch) \in Seq(Collected(ex))
      /\ \A i \in DOMAIN Tail(batch) : i + 1 \in DOMAIN batch /\ Tail(batch)[i] = batch[i + 1]
      /\ 1 \in DOMAIN batch /\ Head(batch) = batch[1] /\ batch[1] \in Collected(ex)
  BY <1>1
<1>4. BatchOK(ex, batch')
  BY <1>1, <1>2, <1>3 DEF BatchOK
<1> DEFINE S == Head(batch).streams
<1>5. S \in SUBSET Stream(ex) /\ (Head(batch).op = "add" => \A x \in S : x[1] \in Slow(ex))
  BY <1>3 DEF BatchOK, Collected
<1>6. queue' = IF Head(batch).op = "add" THEN Queued(S, {}) ELSE Queued({}, S)
  BY DEF BatchFires
<1> HIDE DEF S
<1>7. \/ queue' = queue
      \/ Head(batch).op = "add" /\ queue' = WithAdd(queue, S)
      \/ queue' = WithDrop(queue, S)
  BY <1>6 DEF Queued, WithAdd, WithDrop
<1>8. QueueOK(ex, queue')
  BY <1>2, <1>5, <1>7, QueueGrows
<1> QED
  BY <1>2, <1>4, <1>5, <1>7, <1>8

\* The queue and the batches stay in order, and are empty while the client connects.
LEMMA PaceStep == Sound(exchange, ex) /\ FeedInv /\ PaceInv /\ [Next]_vars => PaceInv'
<1> SUFFICES ASSUME Sound(exchange, ex), FeedInv, PaceInv, [Next]_vars PROVE PaceInv'
  OBVIOUS
<1>a. ex' = ex
  BY SameClass
<1>b. /\ QueueOK(ex, queue) /\ BatchOK(ex, batch)
      /\ ~orphan /\ conn \notin {"open", "retrying"} => queue = <<>> /\ batch = <<>>
      /\ conn = "login" => ex.login # FALSE
      /\ \A k : <<"unsub", k>> \in timers => ex.unsub[k][2] = "debounced"
      /\ ex.login = FALSE \/ Prompt(ex)
      /\ uses \subseteq Kind /\ subs \subseteq Feed
  BY DEF PaceInv, Sound, FeedInv
<1> DEFINE Kept == /\ QueueOK(ex, queue') /\ BatchOK(ex, batch')
                   /\ ~orphan' /\ conn' \notin {"open", "retrying"} => queue' = <<>> /\ batch' = <<>>
                   /\ conn' = "login" => ex.login # FALSE
                   /\ \A k : <<"unsub", k>> \in timers' => ex.unsub[k][2] = "debounced"
<1> SUFFICES Kept
  BY <1>a DEF PaceInv
<1>c. ASSUME NEW feeds, feeds \subseteq Feed, NEW base, NEW known, SendSub(feeds, base, known)
      PROVE  /\ QueueOK(ex, queue') /\ BatchOK(ex, batch')
             /\ Prompt(ex) => queue' = queue /\ batch' = batch
             /\ \A k : <<"unsub", k>> \in timers' => ex.unsub[k][2] = "debounced"
  <2>1. \A k : <<"unsub", k>> \in timers' => <<"unsub", k>> \in timers
    <3>1. PICK A, B \in SUBSET Stream(ex) : Requested(feeds, base, known, A, B)
      BY <1>b, <1>c, SubWrites
    <3> QED
      BY <3>1 DEF Requested
  <2> QED
    BY <1>b, <1>c, <2>1, SubWaits
<1>d. QueueOK(ex, <<>>) /\ BatchOK(ex, <<>>)
  BY NothingWaits
<1>1. ASSUME NEW f \in Feed, Subscribe(f) PROVE Kept
  <2>1. CASE IsConnected
    BY <1>1, <1>b, <1>c, <2>1 DEF Subscribe, IsConnected
  <2>2. CASE ~IsConnected
    BY <1>1, <1>b, <2>2 DEF Subscribe, IsConnected, Connecting
  <2> QED
    BY <2>1, <2>2
<1>2. ASSUME NEW f \in Feed, Unsubscribe(f) PROVE Kept
  <2>1. CASE IsConnected
    <3>1. SendUnsub(f, subs \ {f}) /\ conn' = conn /\ orphan' = orphan
      BY <1>2, <2>1 DEF Unsubscribe
    <3>2. \A k : <<"unsub", k>> \in timers' => ex.unsub[k][2] = "debounced"
      BY <1>b, <3>1, UnsubWrites DEF Freed
    <3> QED
      BY <1>b, <2>1, <3>1, <3>2, UnsubWaits DEF IsConnected
  <2>2. CASE ~IsConnected
    BY <1>2, <1>b, <2>2 DEF Unsubscribe
  <2> QED
    BY <2>1, <2>2
<1>3. CASE Close \/ Reconnect \/ Resume
  BY <1>3, <1>b, <1>d DEF Close, Reconnect, Released, Resume, Cancelled, Connecting, pending
<1>4. CASE Resubscribe
  BY <1>4, <1>b, <1>c DEF Resubscribe
<1>5. CASE Opened \/ LoggedIn
  BY <1>5, <1>4, <1>b DEF Opened, LoggedIn, pending
<1>6. CASE Fetched \/ Lost \/ Retry \/ LostAndClosed
  BY <1>6, <1>b, <1>d DEF Fetched, Lost, Retry, LostAndClosed, Cancelled, pending
<1>7. CASE OrphanOpens
  <2>1. CASE ~ex.login
    BY <1>7, <1>b, <1>c, <2>1 DEF OrphanOpens
  <2>2. CASE ex.login
    BY <1>7, <1>b, <2>2 DEF OrphanOpens, pending
  <2> QED
    BY <2>1, <2>2
<1>8. CASE OrphanLost
  BY <1>8, <1>b, <1>d DEF OrphanLost, Cancelled
<1>9. CASE Flush
  BY <1>9, <1>b, FlushWaits DEF Flush
<1>10. CASE BatchFires
  <2>1. conn' = conn /\ timers' = timers /\ orphan' = orphan /\ batch # <<>>
    BY <1>10 DEF BatchFires
  <2>2. QueueOK(ex, queue') /\ BatchOK(ex, batch')
    BY <1>10, <1>b, BatchWaits
  <2> QED
    BY <1>b, <2>1, <2>2
<1>11. ASSUME NEW op, NEW k, TimerFires(op, k) PROVE Kept
  BY <1>11, <1>b DEF TimerFires, Armed
<1>12. ASSUME NEW f \in Feed, Acked(f) \/ SnapshotArrives(f) \/ SnapshotFails(f) PROVE Kept
  BY <1>12, <1>b DEF Acked, SnapshotArrives, SnapshotFails, pending
<1>13. CASE PingFires \/ UNCHANGED vars
  BY <1>13, <1>b DEF PingFires, vars, pending
<1> HIDE DEF Kept
<1> QED
  BY <1>1, <1>2, <1>3, <1>5, <1>6, <1>7, <1>8, <1>9, <1>10, <1>11, <1>12, <1>13
     DEF Next, Calls, Server, Timers, Replies

\* What the client has let go of is not taken back.
LEMMA OrphanStays == orphan /\ [Next]_vars => orphan'
  BY DEF Next, Calls, Server, Timers, Replies, vars, Subscribe, Unsubscribe, Close, Reconnect, Released,
         Opened, LoggedIn, Resubscribe, Fetched, Lost, Retry, LostAndClosed, OrphanOpens, OrphanLost,
         Flush, BatchFires, PingFires, Resume, TimerFires, Acked, SnapshotArrives, SnapshotFails

\* The count of the markets keeps in step with the maps.
LEMMA CountStep == Sound(exchange, ex) /\ FeedInv /\ CountInv /\ [Next]_vars => CountInv'
<1> SUFFICES ASSUME Sound(exchange, ex), FeedInv, CountInv, [Next]_vars PROVE CountInv'
  OBVIOUS
<1>a. ex' = ex /\ Feed' = Feed
  BY SameClass
<1>b. uses \subseteq Kind /\ subs \subseteq Feed
  BY DEF FeedInv
<1> DEFINE Agrees(m, S) == \A f \in Feed : ex.sub[f[1]][1] = "counted" => (f \in m <=> f \in S)
           Kept == conn' = "open" /\ ex.forgets = "opened" => Agrees(memo', subs')
<1> SUFFICES Kept
  BY <1>a DEF CountInv
<1>c. conn = "open" /\ ex.forgets = "opened" => Agrees(memo, subs)
  BY DEF CountInv
<1>d. ASSUME NEW feeds, feeds \subseteq Feed, NEW base, NEW known, SendSub(feeds, base, known)
      PROVE  \A f \in Feed : ex.sub[f[1]][1] = "counted" => (f \in memo' <=> f \in known \/ f \in feeds)
  <2>1. PICK A, B \in SUBSET Stream(ex) : Requested(feeds, base, known, A, B)
    BY <1>b, <1>d, SubWrites
  <2> QED
    BY <2>1 DEF Requested
<1>1. ASSUME NEW f \in Feed, Subscribe(f) PROVE Kept
  <2>1. CASE IsConnected
    <3>1. subs' = subs \cup {f} /\ SendSub({f}, remote, memo)
      BY <1>1, <2>1 DEF Subscribe
    <3> QED
      BY <1>1, <1>c, <1>d, <2>1, <3>1 DEF Subscribe, IsConnected
  <2>2. CASE ~IsConnected
    BY <1>1, <2>2 DEF Subscribe, IsConnected, Connecting
  <2> QED
    BY <2>1, <2>2
<1>2. ASSUME NEW f \in Feed, Unsubscribe(f) PROVE Kept
  <2>1. CASE IsConnected
    <3>1. subs' = subs \ {f} /\ memo' = memo \ Forgotten(f, subs \ {f})
      BY <1>2, <2>1 DEF Unsubscribe, SendUnsub
    <3>2. ASSUME NEW g \in Feed, ex.sub[g[1]][1] = "counted"
          PROVE  g \in Forgotten(f, subs \ {f}) <=> g = f
      <4>1. ex.unsub[g[1]][1] = "counted" /\ (ex.unsub[f[1]][1] = "counted" <=> ex.sub[f[1]][1] = "counted")
        BY <1>b, <3>2, FeedOf DEF Sound
      <4>2. CASE ex.unsub[f[1]][1] = "counted"
        <5>1. Forgotten(f, subs \ {f}) = {f}
          BY <4>2, Zenon DEF Forgotten
        <5> QED
          BY <5>1
      <4>3. CASE ex.unsub[f[1]][1] = "last"
        <5>1. Forgotten(f, subs \ {f}) = IF Cardinality(Of(f[1], subs \ {f})) > ex.floor THEN {} ELSE Of(f[1], memo)
          BY <4>3, Zenon DEF Forgotten
        <5>2. Forgotten(f, subs \ {f}) = {} \/ Forgotten(f, subs \ {f}) = Of(f[1], memo)
          BY <5>1, Zenon
        <5>3. g[1] # f[1]
          BY <4>1, <4>3
        <5> QED
          BY <5>2, <5>3 DEF Of
      <4>4. CASE ex.unsub[f[1]][1] # "counted" /\ ex.unsub[f[1]][1] # "last"
        <5>1. Forgotten(f, subs \ {f}) = {}
          BY <4>4, Zenon DEF Forgotten
        <5> QED
          BY <3>2, <4>1, <4>4, <5>1
      <4> QED
        BY <4>2, <4>3, <4>4
    <3> QED
      BY <1>2, <1>c, <2>1, <3>1, <3>2 DEF Unsubscribe, IsConnected
  <2>2. CASE ~IsConnected
    BY <1>2, <2>2 DEF Unsubscribe, IsConnected
  <2> QED
    BY <2>1, <2>2
<1>3. CASE Close \/ Reconnect \/ Resume
  BY <1>3, <1>c DEF Close, Reconnect, Resume, Connecting, IsConnected, HasSocket
<1>4. CASE Resubscribe
  BY <1>4, <1>b, <1>d DEF Resubscribe, Remembered
<1>5. CASE Opened
  <2>1. CASE Resubscribe
    BY <1>4, <2>1
  <2>2. CASE ~Resubscribe
    BY <1>5, <2>2 DEF Opened
  <2> QED
    BY <2>1, <2>2
<1>6. CASE LoggedIn
  BY <1>4, <1>6 DEF LoggedIn
<1>7. CASE Fetched \/ Lost \/ Retry \/ LostAndClosed
  BY <1>7, <1>c DEF Fetched, Lost, Retry, LostAndClosed, IsConnected
<1>8. CASE OrphanOpens
  <2>1. CASE ~ex.login
    <3>1. SendSub(subs, remote, Remembered) /\ subs' = subs
      BY <1>8, <2>1 DEF OrphanOpens
    <3>2. \A f \in Feed : ex.sub[f[1]][1] = "counted" => (f \in memo' <=> f \in Remembered \/ f \in subs)
      BY <1>b, <1>d, <3>1
    <3> QED
      BY <3>1, <3>2 DEF Remembered
  <2>2. CASE ex.login
    BY <1>8, <1>c, <2>2 DEF OrphanOpens
  <2> QED
    BY <2>1, <2>2
<1>9. CASE OrphanLost
  BY <1>9, <1>c DEF OrphanLost, IsConnected, HasSocket
<1>10. CASE Flush \/ BatchFires \/ PingFires
  BY <1>10, <1>c DEF Flush, BatchFires, PingFires, IsConnected
<1>11. ASSUME NEW op, NEW k, TimerFires(op, k) PROVE Kept
  BY <1>11, <1>c DEF TimerFires, IsConnected
<1>12. ASSUME NEW f \in Feed, Acked(f) \/ SnapshotArrives(f) \/ SnapshotFails(f) PROVE Kept
  BY <1>12, <1>c DEF Acked, SnapshotArrives, SnapshotFails, IsConnected
<1>13. CASE UNCHANGED vars
  BY <1>13, <1>c DEF vars, IsConnected
<1> HIDE DEF Kept
<1> QED
  BY <1>1, <1>2, <1>3, <1>5, <1>6, <1>7, <1>8, <1>9, <1>10, <1>11, <1>12, <1>13
     DEF Next, Calls, Server, Timers, Replies

\* What a debounced message leaves, form by form.
LEMMA AfterIs ==
    ASSUME NEW op \in {"sub", "unsub"}, NEW k
    PROVE  LET form == ex.unsub[k][1]
               list == Asked(Of(k, subs))
           IN  /\ form = "resend" => After(op, k) = (remote \ Everything(k)) \cup list
               /\ form # "resend" /\ op = "sub" => After(op, k) = remote \cup list
               /\ form = "rest" /\ op = "unsub" => After(op, k) = remote \ list
               /\ form = "kind" /\ op = "unsub" => After(op, k) = remote \ Everything(k)
               /\ form \notin {"resend", "rest", "kind"} /\ op = "unsub" => After(op, k) = remote
<1> DEFINE form == ex.unsub[k][1]
           list == Asked(Of(k, subs))
<1>1. ASSUME form = "resend" PROVE After(op, k) = (remote \ Everything(k)) \cup list
  BY <1>1, Zenon DEF After
<1>2. ASSUME form # "resend", op = "sub" PROVE After(op, k) = remote \cup list
  BY <1>2, Zenon DEF After
<1>3. ASSUME form = "rest", op = "unsub" PROVE After(op, k) = remote \ list
  BY <1>3, Zenon DEF After
<1>4. ASSUME form = "kind", op = "unsub" PROVE After(op, k) = remote \ Everything(k)
  BY <1>4, Zenon DEF After
<1>5. ASSUME form \notin {"resend", "rest", "kind"}, op = "unsub" PROVE After(op, k) = remote
  <2>1. form # "resend" /\ form # "rest" /\ form # "kind" /\ op # "sub"
    BY <1>5
  <2> QED
    BY <2>1, Zenon DEF After
<1> QED
  BY <1>1, <1>2, <1>3, <1>4, <1>5, Zenon

\* Nothing that waits adds a stream whose subscriptions do not wait.
LEMMA NeverAdded ==
    ASSUME QueueOK(ex, queue), NEW x, x[1] \notin Slow(ex)
    PROVE  Undone(queue, x)
  BY DEF QueueOK, Undone

\* x is going to be dropped, if the server sends it.
Leaving(r, q, t, x) == (x \in r => Dropping(q, x) \/ Ending(ex, t, x)) /\ Undone(q, x)

\* A debounced unsubscription is not lost while its timer is armed.
LEMMA EndingStays ==
    ASSUME NEW t, NEW u, NEW x, Ending(ex, t, x),
           ex.oneTimer = FALSE => \A k : <<"unsub", k>> \in t => <<"unsub", k>> \in u
    PROVE  Ending(ex, u, x)
  BY DEF Ending

\* A subscription of other feeds does not stop x from leaving.
LEMMA LeavingSent ==
    ASSUME uses \subseteq Kind, NEW feeds, feeds \subseteq Feed, NEW base, NEW known,
           SendSub(feeds, base, known), QueueOK(ex, queue),
           NEW x, \A f \in feeds : ~Wants(ex, f, x), Leaving(base, queue, timers, x)
    PROVE  Leaving(remote', queue', timers', x)
<1>1. PICK A, B \in SUBSET Stream(ex) : Requested(feeds, base, known, A, B)
  BY SubWrites
<1>2. /\ queue' = IF A = {} THEN queue ELSE WithAdd(queue, A)
      /\ x \notin A
      /\ x \in remote' => x \in base
      /\ ex.oneTimer = FALSE => timers \subseteq timers'
  BY <1>1 DEF Requested
<1>3. queue \in Seq(Message(ex))
  BY DEF QueueOK
<1>4. (Dropping(queue, x) => Dropping(queue', x)) /\ (Undone(queue, x) => Undone(queue', x))
  <2>1. CASE A = {}
    BY <1>2, <2>1
  <2>2. CASE A # {}
    BY <1>2, <1>3, <2>2, AddedLast
  <2> QED
    BY <2>1, <2>2
<1>5. Ending(ex, timers, x) => Ending(ex, timers', x)
  BY <1>2, EndingStays
<1> QED
  BY <1>2, <1>4, <1>5 DEF Leaving

\* An unsubscription makes the streams leave that no feed asks for any more, and stops none from leaving.
LEMMA LeavingUnsent ==
    ASSUME uses \subseteq Kind, subs \subseteq Feed, memo \subseteq Feed, CountInv, conn = "open",
           QueueOK(ex, queue), NEW f \in subs, SendUnsub(f, subs \ {f}), ex.unsub[f[1]][1] # "missing",
           NEW x, \A g \in subs \ {f} : ~Wants(ex, g, x), ~Unasked(ex, x),
           Wants(ex, f, x) => Ends(ex, f[1], x[1]),
           ~Wants(ex, f, x) => Leaving(remote, queue, timers, x)
    PROVE  Leaving(remote', queue', timers', x)
<1>1. PICK found : Freed(f, subs \ {f}, GivenUp(f, subs \ {f}, found))
  BY UnsubWrites
<1> DEFINE G == GivenUp(f, subs \ {f}, found)
           k == f[1]
           via == ex.unsub[f[1]][2]
<1>2. /\ remote' = IF via = "now" THEN remote \ G ELSE remote
      /\ queue' = IF via = "queued" /\ G # {} THEN WithDrop(queue, G) ELSE queue
      /\ \A l : <<"unsub", l>> \in timers => <<"unsub", l>> \in timers'
      /\ via = "debounced" => <<"unsub", f[1]>> \in timers'
  BY <1>1 DEF Freed
<1>3. queue \in Seq(Message(ex))
  BY DEF QueueOK
<1>4. G \in SUBSET Stream(ex) /\ f[1] \in DOMAIN ex.asks
  BY GivenUpTyped, FeedOf
<1>5. ASSUME Wants(ex, f, x)
      PROVE  \/ EndsNow(ex, k, x[1]) /\ x \in G
             \/ EndsQueued(ex, k) /\ x \in G
             \/ EndsLater(ex, k, x[1]) /\ Named(ex, k, x)
  BY <1>5, LastGivesUp
<1> HIDE DEF G
<1>6. CASE ~Wants(ex, f, x)
  <2>1. (Dropping(queue, x) => Dropping(queue', x)) /\ (Undone(queue, x) => Undone(queue', x))
    <3>1. CASE via = "queued" /\ G # {}
      BY <1>2, <1>3, <1>4, <3>1, DroppedLast
    <3>2. CASE ~(via = "queued" /\ G # {})
      BY <1>2, <3>2
    <3> QED
      BY <3>1, <3>2
  <2>2. Ending(ex, timers, x) => Ending(ex, timers', x)
    BY <1>2, EndingStays
  <2>3. x \in remote' => x \in remote
    BY <1>2
  <2> QED
    BY <1>6, <2>1, <2>2, <2>3 DEF Leaving
<1>7. CASE EndsNow(ex, k, x[1]) /\ x \in G
  <2>1. via = "now" /\ x[1] \notin Slow(ex)
    BY <1>7 DEF EndsNow
  <2>2. x \notin remote' /\ queue' = queue
    BY <1>2, <1>7, <2>1
  <2> QED
    BY <2>1, <2>2, NeverAdded DEF Leaving
<1>8. CASE EndsQueued(ex, k) /\ x \in G
  <2>1. queue' = WithDrop(queue, G)
    BY <1>2, <1>8 DEF EndsQueued
  <2>2. Dropping(queue', x) /\ Undone(queue', x)
    BY <1>3, <1>4, <1>8, <2>1, DroppedLast
  <2> QED
    BY <2>2 DEF Leaving
<1>9. CASE EndsLater(ex, k, x[1]) /\ Named(ex, k, x)
  <2>1. via = "debounced" /\ x[1] \notin Slow(ex) /\ ex.oneTimer = FALSE /\ ex.unsub[k][1] \in {"kind", "resend"}
    BY <1>9 DEF EndsLater
  <2>2. queue' = queue /\ <<"unsub", k>> \in timers'
    BY <1>2, <2>1
  <2>3. Ending(ex, timers', x)
    BY <1>4, <1>9, <2>1, <2>2 DEF Ending
  <2> QED
    BY <2>1, <2>2, <2>3, NeverAdded DEF Leaving
<1> QED
  BY <1>5, <1>6, <1>7, <1>8, <1>9

\* No step leaves a stream behind that nobody asks for: what it gives up it drops, now, from
\* the queue or after the debounce, and what it asks for somebody wants.
LEMMA LeftStep ==
    Sound(exchange, ex) /\ FeedInv /\ PaceInv /\ CountInv /\ LeftInv /\ [Next]_vars => LeftInv'
<1> SUFFICES ASSUME Sound(exchange, ex), FeedInv, PaceInv, CountInv, LeftInv, [Next]_vars,
                    conn' = "open", NEW x,
                    \A f \in subs' : ~Wants(ex, f, x), ~Unasked(ex, x), <<exchange, x[1]>> \notin Leaking,
                    ~(orphan' /\ x[1] \in Slow(ex))
             PROVE  Leaving(remote', queue', timers', x)
  BY SameClass DEF LeftInv, Leaving
<1>a. ex' = ex
  BY SameClass
<1>b. /\ QueueOK(ex, queue) /\ BatchOK(ex, batch)
      /\ ~orphan /\ conn \notin {"open", "retrying"} => queue = <<>> /\ batch = <<>>
      /\ uses \subseteq Kind /\ subs \subseteq Feed /\ memo \subseteq Feed
  BY DEF PaceInv, FeedInv
<1>l. ~(orphan /\ x[1] \in Slow(ex))
  <2>1. orphan => orphan'
    BY OrphanStays
  <2> QED
    BY <2>1
<1>c. ASSUME conn = "open", \A f \in subs : ~Wants(ex, f, x) PROVE Leaving(remote, queue, timers, x)
  BY <1>c, <1>l DEF LeftInv, Leaving
<1>d. ASSUME conn' = conn, subs' = subs, remote' = remote, queue' = queue, timers' = timers
      PROVE  Leaving(remote', queue', timers', x)
  BY <1>c, <1>d
<1>1. ASSUME NEW f \in Feed, Subscribe(f) PROVE Leaving(remote', queue', timers', x)
  <2>1. conn = "open" /\ subs' = subs \cup {f} /\ SendSub({f}, remote, memo)
    BY <1>1 DEF Subscribe, Connecting, IsConnected
  <2>2. Leaving(remote, queue, timers, x)
    BY <1>c, <2>1
  <2> QED
    BY <1>b, <2>1, <2>2, LeavingSent
<1>2. ASSUME NEW f \in Feed, Unsubscribe(f) PROVE Leaving(remote', queue', timers', x)
  <2>1. /\ conn = "open" /\ f \in subs /\ subs' = subs \ {f} /\ SendUnsub(f, subs \ {f})
        /\ ex.unsub[f[1]][1] # "missing"
    BY <1>2 DEF Unsubscribe, IsConnected
  <2>2. ~Wants(ex, f, x) => Leaving(remote, queue, timers, x)
    BY <1>c, <2>1
  <2>3. Wants(ex, f, x) => Ends(ex, f[1], x[1])
    <3>1. Wants(ex, f, x) => x[1] \in ex.asks[f[1]]
      BY DEF Wants
    <3> QED
      BY <1>b, <3>1, FeedOf DEF Sound
  <2> QED
    BY <1>b, <2>1, <2>2, <2>3, LeavingUnsent
<1>3. CASE Close \/ Reconnect \/ Resume
  BY <1>3, <1>d DEF Close, Reconnect, Resume, Connecting
<1>4. ASSUME Resubscribe, conn # "open", conn # "retrying" PROVE Leaving(remote', queue', timers', x)
  <2>1. subs' = subs /\ SendSub(subs, Ambient, Remembered)
    BY <1>4 DEF Resubscribe
  <2>2. Undone(queue, x)
    BY <1>b, <1>l, <1>4, NeverAdded DEF Undone
  <2>3. Leaving(Ambient, queue, timers, x)
    BY <2>2, UnaskedIs DEF Leaving
  <2> QED
    BY <1>b, <2>1, <2>3, LeavingSent
<1>5. CASE Opened \/ LoggedIn
  BY <1>4, <1>5 DEF Opened, LoggedIn
<1>6. CASE Fetched \/ Lost \/ Retry \/ LostAndClosed
  BY <1>6 DEF Fetched, Lost, Retry, LostAndClosed
<1>7. CASE OrphanOpens
  <2>1. conn = "open" /\ subs' = subs
    BY <1>7 DEF OrphanOpens
  <2>2. Leaving(remote, queue, timers, x)
    BY <1>c, <2>1
  <2>3. CASE ~ex.login
    <3>1. SendSub(subs, remote, Remembered)
      BY <1>7, <2>3 DEF OrphanOpens
    <3> QED
      BY <1>b, <2>1, <2>2, <3>1, LeavingSent
  <2>4. CASE ex.login
    BY <1>7, <2>2, <2>4 DEF OrphanOpens, pending
  <2> QED
    BY <2>3, <2>4
<1>8. CASE OrphanLost
  BY <1>8, <1>d DEF OrphanLost, HasSocket
<1>9. CASE Flush
  <2>1. /\ conn = "open" /\ subs' = subs /\ timers' = timers
        /\ queue # <<>> /\ queue' = Tail(queue)
        /\ remote' = (remote \ Head(queue).drop) \cup Head(queue).add
    BY <1>9 DEF Flush
  <2>2. Leaving(remote, queue, timers, x)
    BY <1>c, <2>1
  <2>3. CASE Ending(ex, timers, x)
    BY <1>b, <2>1, <2>2, <2>3, Written DEF Leaving, QueueOK
  <2>4. CASE ~Ending(ex, timers, x)
    BY <1>b, <2>1, <2>2, <2>4, Written DEF Leaving, QueueOK
  <2> QED
    BY <2>3, <2>4
<1>10. CASE BatchFires
  <2>1. conn = "open" /\ subs' = subs /\ remote' = remote /\ timers' = timers
    BY <1>10 DEF BatchFires
  <2>2. Leaving(remote, queue, timers, x)
    BY <1>c, <2>1
  <2>3. /\ ~Unbatched(ex)
        /\ \/ queue' = queue
           \/ \E A \in SUBSET Stream(ex) : /\ \A y \in A : y[1] \in Slow(ex)
                                           /\ queue' = WithAdd(queue, A)
           \/ \E D \in SUBSET Stream(ex) : queue' = WithDrop(queue, D)
    BY <1>10, <1>b, BatchWaits
  <2>4. x[1] \notin Slow(ex)
    BY <2>3 DEF Sound
  <2>5. queue \in Seq(Message(ex))
    BY <1>b DEF QueueOK
  <2>6. (Dropping(queue, x) => Dropping(queue', x)) /\ (Undone(queue, x) => Undone(queue', x))
    <3>1. ASSUME NEW A \in SUBSET Stream(ex), \A y \in A : y[1] \in Slow(ex),
                 queue' = WithAdd(queue, A)
          PROVE  (Dropping(queue, x) => Dropping(queue', x)) /\ (Undone(queue, x) => Undone(queue', x))
      BY <2>4, <2>5, <3>1, AddedLast
    <3>2. ASSUME NEW D \in SUBSET Stream(ex), queue' = WithDrop(queue, D)
          PROVE  (Dropping(queue, x) => Dropping(queue', x)) /\ (Undone(queue, x) => Undone(queue', x))
      BY <2>5, <3>2, DroppedLast
    <3> QED
      BY <2>3, <3>1, <3>2
  <2> QED
    BY <2>1, <2>2, <2>6 DEF Leaving
<1>11. ASSUME NEW op \in {"wait", "sub", "unsub"}, NEW k, TimerFires(op, k)
       PROVE  Leaving(remote', queue', timers', x)
  <2>1. /\ conn = "open" /\ subs' = subs /\ queue' = queue
        /\ remote' = IF op # "wait" THEN After(op, k) ELSE remote
        /\ timers' = IF op = "wait" THEN Armed(timers \ {<<op, k>>}, "sub", {k}) ELSE timers \ {<<op, k>>}
    BY <1>11 DEF TimerFires
  <2>2. Leaving(remote, queue, timers, x)
    BY <1>c, <2>1
  <2>3. ex.oneTimer = FALSE => \A l : <<"unsub", l>> \in timers => <<"unsub", l>> \in timers' \/ (op = "unsub" /\ l = k)
    BY <2>1 DEF Armed
  <2>4. CASE op = "wait"
    BY <2>1, <2>2, <2>3, <2>4, EndingStays DEF Leaving
  <2>5. CASE op # "wait"
    <3>1. x \notin Asked(Of(k, subs))
      BY <2>1, AskedWants DEF Of
    <3>2. /\ x \in remote' => x \in remote
          /\ x \in remote' /\ op = "unsub" /\ ex.unsub[k][1] \in {"kind", "resend"} => ~Named(ex, k, x)
      BY <2>1, <2>5, <3>1, AfterIs, NamedIs
    <3>3. ASSUME x \in remote', Ending(ex, timers, x) PROVE Ending(ex, timers', x)
      BY <2>3, <3>2, <3>3 DEF Ending
    <3> QED
      BY <2>1, <2>2, <3>2, <3>3 DEF Leaving
  <2> QED
    BY <2>4, <2>5
<1>12. ASSUME NEW f \in Feed, Acked(f) \/ SnapshotArrives(f) \/ SnapshotFails(f)
       PROVE  Leaving(remote', queue', timers', x)
  BY <1>12, <1>d DEF Acked, SnapshotArrives, SnapshotFails, pending
<1>13. CASE PingFires \/ UNCHANGED vars
  BY <1>13, <1>d DEF PingFires, vars, pending
<1> QED
  BY <1>1, <1>2, <1>3, <1>5, <1>6, <1>7, <1>8, <1>9, <1>10, <1>11, <1>12, <1>13
     DEF Next, Calls, Server, Timers, Replies

\* x is with the server, or on its way.
Coming(r, q, t, k, x) == (x \in r \/ Adding(q, x) \/ <<"sub", k>> \in t) /\ Redone(q, x)
Flagged(c, k) == c.sub[k][1] \in {"once", "counted"}

\* A stream that is sent for once, or is counted, is so by a class that keeps up.
LEMMA FlaggedIs ==
    ASSUME NEW c, NEW k, Supplies(c, k), Flagged(c, k)
    PROVE  /\ Prompt(c) /\ c.forgets = "opened"
           /\ c.sub[k][1] = "once" => Once(c, k)
           /\ c.unsub[k][1] # "resend" \/ c.sub[k][1] = "counted"
  BY DEF Supplies, Flagged, Requests, Once, Counted

\* A stream that is coming comes, whatever else is asked for.
LEMMA ComingSent ==
    ASSUME uses \subseteq Kind, NEW feeds, feeds \subseteq Feed, NEW base, NEW known,
           SendSub(feeds, base, known), QueueOK(ex, queue), ex.oneTimer = FALSE,
           NEW k, NEW x, Coming(base, queue, timers, k, x)
    PROVE  Coming(remote', queue', timers', k, x)
<1>1. PICK A, B \in SUBSET Stream(ex) : Requested(feeds, base, known, A, B)
  BY SubWrites
<1>2. /\ queue' = IF A = {} THEN queue ELSE WithAdd(queue, A)
      /\ base \subseteq remote'
      /\ timers \subseteq timers'
  BY <1>1 DEF Requested
<1>3. queue \in Seq(Message(ex))
  BY DEF QueueOK
<1>4. (Adding(queue, x) => Adding(queue', x)) /\ (Redone(queue, x) => Redone(queue', x))
  <2>1. CASE A = {}
    BY <1>2, <2>1
  <2>2. CASE A # {}
    BY <1>2, <1>3, <2>2, AddedLast
  <2> QED
    BY <2>1, <2>2
<1> QED
  BY <1>2, <1>4 DEF Coming

\* The end of a feed leaves the streams of the others.
LEMMA ComingUnsent ==
    ASSUME uses \subseteq Kind, QueueOK(ex, queue), ex.oneTimer = FALSE, Unbatched(ex),
           NEW g \in Feed, NEW left, NEW found, NEW x,
           Freed(g, left, GivenUp(g, left, found)), x \notin GivenUp(g, left, found)
    PROVE  /\ x \in remote => x \in remote'
           /\ \A k : Coming(remote, queue, timers, k, x) => Coming(remote', queue', timers', k, x)
<1> DEFINE G == GivenUp(g, left, found)
           via == ex.unsub[g[1]][2]
<1>1. /\ remote' = IF via = "now" THEN remote \ G ELSE remote
      /\ queue' = IF via = "queued" /\ G # {} THEN WithDrop(queue, G) ELSE queue
      /\ timers \subseteq timers'
  BY DEF Freed
<1>2. queue \in Seq(Message(ex))
  BY DEF QueueOK
<1>3. G \in SUBSET Stream(ex) /\ x \notin G
  BY GivenUpTyped
<1> HIDE DEF G
<1>4. (Adding(queue, x) => Adding(queue', x)) /\ (Redone(queue, x) => Redone(queue', x))
  <2>1. CASE via = "queued" /\ G # {}
    BY <1>1, <1>2, <1>3, <2>1, DroppedLast
  <2>2. CASE ~(via = "queued" /\ G # {})
    BY <1>1, <2>2
  <2> QED
    BY <2>1, <2>2
<1> QED
  BY <1>1, <1>3, <1>4 DEF Coming

\* A list that is sent again, or the end of a kind, leaves the streams of the others.
LEMMA ComingListed ==
    ASSUME uses \subseteq Kind, NEW op \in {"sub", "unsub"}, NEW k \in Kind,
           op = "unsub" => ex.unsub[k][2] = "debounced",
           NEW f \in Feed, Supplies(ex, f[1]), NEW x, Wants(ex, f, x)
    PROVE  /\ op = "sub" /\ f \in subs /\ f[1] = k => x \in After(op, k)
           /\ x \in remote => x \in After(op, k) \/ (f[1] = k /\ ex.unsub[k][1] = "resend")
           /\ f \in subs /\ f[1] = k /\ ex.unsub[k][1] = "resend" => x \in After(op, k)
<1>1. f[1] = k /\ f \in subs => x \in Asked(Of(k, subs))
  BY AskedWants DEF Of
<1>2. x[1] \in ex.asks[f[1]] /\ k \in DOMAIN ex.asks
  BY DEF Wants, Kind
<1>3. ex.unsub[k][1] # "rest"
  BY <1>2 DEF Supplies
<1>4. x \in Everything(k) => Leaves(ex, k, x[1], f[1])
  BY <1>2, NamedIs DEF Named, Supplies
<1>5. /\ x \in Everything(k) /\ ex.unsub[k][1] = "resend" => k = f[1]
      /\ x \in Everything(k) /\ ex.unsub[k][1] = "kind" => op = "sub"
  BY <1>4 DEF Leaves
<1>6. CASE ex.unsub[k][1] = "resend"
  <2>1. After(op, k) = (remote \ Everything(k)) \cup Asked(Of(k, subs))
    BY <1>6, AfterIs
  <2> QED
    BY <1>1, <1>5, <1>6, <2>1
<1>7. CASE ex.unsub[k][1] # "resend" /\ op = "sub"
  <2>1. After(op, k) = remote \cup Asked(Of(k, subs))
    BY <1>7, AfterIs
  <2> QED
    BY <1>1, <1>7, <2>1
<1>8. CASE ex.unsub[k][1] = "kind" /\ op = "unsub"
  <2>1. After(op, k) = remote \ Everything(k)
    BY <1>8, AfterIs
  <2> QED
    BY <1>5, <1>8, <2>1
<1>9. CASE ex.unsub[k][1] \notin {"resend", "kind"} /\ op = "unsub"
  <2>1. After(op, k) = remote
    BY <1>3, <1>9, AfterIs
  <2> QED
    BY <1>9, <2>1
<1> QED
  BY <1>6, <1>7, <1>8, <1>9

\* No step takes a stream that a subscribed feed asks for: the other feeds keep it, or it is
\* asked for again after.
LEMMA ServeStep ==
    Sound(exchange, ex) /\ FeedInv /\ PaceInv /\ CountInv /\ ServeInv /\ [Next]_vars => ServeInv'
<1> SUFFICES ASSUME Sound(exchange, ex), FeedInv, PaceInv, CountInv, ServeInv, [Next]_vars
             PROVE  ServeInv'
  OBVIOUS
<1> SUFFICES ASSUME conn' = "open", NEW f \in Feed, <<exchange, f[1]>> \notin Starved, NEW x, Wants(ex, f, x)
             PROVE  /\ f \in subs' => Coming(remote', queue', timers', f[1], x)
                    /\ f \in memo' /\ Flagged(ex, f[1]) => x \in remote'
  <2>1. subs' \subseteq Feed /\ memo' \subseteq Feed /\ ex' = ex /\ exchange' = exchange
    BY FeedStep, SameClass DEF FeedInv
  <2> QED
    BY <2>1 DEF ServeInv, Coming, Flagged
<1> DEFINE Kept == /\ f \in subs' => Coming(remote', queue', timers', f[1], x)
                   /\ f \in memo' /\ Flagged(ex, f[1]) => x \in remote'
<1> SUFFICES Kept
  OBVIOUS
<1>a. /\ QueueOK(ex, queue) /\ BatchOK(ex, batch)
      /\ \A k : <<"unsub", k>> \in timers => ex.unsub[k][2] = "debounced"
      /\ uses \subseteq Kind /\ subs \subseteq Feed /\ memo \subseteq Feed /\ IsFiniteSet(subs)
  BY DEF PaceInv, FeedInv
<1>b. /\ queue \in Seq(Message(ex)) /\ (Prompt(ex) => queue = <<>>)
  BY <1>a DEF QueueOK
<1>c. f[1] \in DOMAIN ex.asks
  BY <1>a, FeedOf
<1>d. Supplies(ex, f[1])
  BY <1>c DEF Sound
<1>e. Unbatched(ex) /\ ex.oneTimer = FALSE
  BY <1>d DEF Supplies
<1>f. /\ conn = "open" /\ f \in subs => Coming(remote, queue, timers, f[1], x)
      /\ conn = "open" /\ f \in memo /\ Flagged(ex, f[1]) => x \in remote
  BY DEF ServeInv, Coming, Flagged
<1>g. ASSUME conn' = conn, subs' = subs, memo' = memo, remote' = remote, queue' = queue, timers' = timers
      PROVE  Kept
  BY <1>f, <1>g
<1>h. ASSUME NEW feeds, feeds \subseteq Feed, NEW base, NEW known, known \subseteq Feed,
             SendSub(feeds, base, known),
             \A g \in known : <<exchange, g[1]>> \in Starved \/
                \A y : Wants(ex, g, y) /\ Flagged(ex, g[1]) => y \in base
      PROVE  /\ f \in feeds => Coming(remote', queue', timers', f[1], x)
             /\ f \in memo' /\ Flagged(ex, f[1]) => x \in remote'
             /\ Coming(base, queue, timers, f[1], x) => Coming(remote', queue', timers', f[1], x)
  <2>1. \A g \in known : <<exchange, g[1]>> \in Starved \/
           \A y : Wants(ex, g, y) /\ ex.sub[g[1]][1] \in {"once", "counted"} => y \in base
    BY <1>h DEF Flagged
  <2>2. f \in feeds => /\ Coming(remote', queue', timers', f[1], x)
                       /\ Flagged(ex, f[1]) => x \in remote'
    BY <1>a, <1>b, <1>h, <2>1, SubServes DEF Coming, Flagged
  <2>3. base \subseteq remote' /\ (f \in memo' => f \in known \/ f \in feeds)
    <3>1. PICK A, B \in SUBSET Stream(ex) : Requested(feeds, base, known, A, B)
      BY <1>a, <1>h, SubWrites
    <3> QED
      BY <3>1 DEF Requested
  <2>4. f \in memo' /\ Flagged(ex, f[1]) => x \in remote'
    BY <1>h, <2>2, <2>3
  <2>5. Coming(base, queue, timers, f[1], x) => Coming(remote', queue', timers', f[1], x)
    BY <1>a, <1>e, <1>h, ComingSent
  <2> QED
    BY <2>2, <2>4, <2>5
<1>i. conn = "open" => \A g \in memo : <<exchange, g[1]>> \in Starved \/
                          \A y : Wants(ex, g, y) /\ Flagged(ex, g[1]) => y \in remote
  BY DEF ServeInv, Flagged
<1>1. ASSUME NEW g \in Feed, Subscribe(g) PROVE Kept
  <2>1. conn = "open" /\ subs' = subs \cup {g} /\ SendSub({g}, remote, memo)
    BY <1>1 DEF Subscribe, Connecting, IsConnected
  <2> QED
    BY <1>a, <1>f, <1>h, <1>i, <2>1
<1>2. ASSUME NEW g \in Feed, Unsubscribe(g) PROVE Kept
  <2> DEFINE left == subs \ {g}
  <2>1. conn = "open" /\ subs' = left /\ SendUnsub(g, left)
    BY <1>2 DEF Unsubscribe, IsConnected
  <2>2. PICK found : Freed(g, left, GivenUp(g, left, found))
    BY <1>a, <2>1, UnsubWrites
  <2>3. /\ left \subseteq Feed /\ g \notin left /\ IsFiniteSet(left)
    BY <1>a, FS_RemoveElement
  <2>4. memo' = memo \ Forgotten(g, left)
    BY <2>2 DEF Freed
  <2> HIDE DEF left
  <2>5. ASSUME x \notin GivenUp(g, left, found)
        PROVE  /\ x \in remote => x \in remote'
               /\ Coming(remote, queue, timers, f[1], x) => Coming(remote', queue', timers', f[1], x)
    BY <1>a, <1>e, <2>2, <2>5, ComingUnsent
  <2>6. CASE f \in subs'
    <3>1. f \in left /\ f # g /\ f \in subs
      BY <2>1, <2>3, <2>6 DEF left
    <3>2. ex.sub[f[1]][1] = "counted" => f \in memo
      BY <1>d, <2>1, <3>1, FlaggedIs DEF CountInv, Flagged
    <3>3. Of(f[1], left) # {}
      BY <3>1 DEF Of
    <3>4. x \notin GivenUp(g, left, found)
      BY <1>a, <1>d, <2>3, <3>1, <3>2, <3>3, GivesUpNoOther
    <3> QED
      BY <1>f, <2>1, <2>4, <2>5, <3>1, <3>4
  <2>7. CASE f \in memo' /\ Flagged(ex, f[1]) /\ f \notin subs'
    <3>1. f \in memo /\ f \notin Forgotten(g, left) /\ x \in remote
      BY <1>f, <2>1, <2>4, <2>7
    <3>2. ex.sub[f[1]][1] = "once"
      <4> SUFFICES ASSUME ex.sub[f[1]][1] = "counted" PROVE FALSE
        BY <2>7 DEF Flagged
      <4>1. f \in subs
        BY <1>d, <2>1, <2>7, <3>1, FlaggedIs DEF CountInv
      <4>2. f = g /\ ex.unsub[g[1]][1] = "counted"
        BY <1>c, <2>1, <2>7, <4>1 DEF left, Sound
      <4>3. Forgotten(g, left) = {g}
        BY <4>2, Zenon DEF Forgotten
      <4> QED
        BY <3>1, <4>2, <4>3
    <3>3. Once(ex, f[1])
      BY <1>d, <2>7, <3>2, FlaggedIs
    <3>4. x \notin GivenUp(g, left, found)
      <4>1. CASE g[1] = f[1]
        <5>1. ex.unsub[g[1]][1] = "last"
          BY <3>3, <4>1 DEF Once
        <5>2. Forgotten(g, left) = IF Cardinality(Of(g[1], left)) > ex.floor THEN {} ELSE Of(g[1], memo)
          BY <5>1, Zenon DEF Forgotten
        <5>3. Cardinality(Of(g[1], left)) > ex.floor
          BY <3>1, <4>1, <5>2 DEF Of
        <5>4. GivenUp(g, left, found)
                = IF Cardinality(Of(g[1], left)) > ex.floor THEN {} ELSE Mine(g, left)
          BY <5>1, GivenUpIs, Zenon
        <5> QED
          BY <5>3, <5>4
      <4>2. CASE g[1] # f[1]
        <5>1. f # g
          BY <4>2
        <5> QED
          BY <1>a, <1>d, <2>3, <3>1, <3>3, <4>2, <5>1, GivesUpNoOther
      <4> QED
        BY <4>1, <4>2
    <3> QED
      BY <2>5, <2>7, <3>1, <3>4
  <2> QED
    BY <2>6, <2>7
<1>3. CASE Close \/ Reconnect \/ Resume
  BY <1>3, <1>g DEF Close, Reconnect, Resume, Connecting
<1>r. /\ Remembered \subseteq Feed
      /\ \A g \in Remembered : <<exchange, g[1]>> \in Starved \/ ~Flagged(ex, g[1])
  <2>1. Remembered \subseteq Feed
    BY <1>a DEF Remembered
  <2>2. ASSUME NEW g \in Remembered, <<exchange, g[1]>> \notin Starved, Flagged(ex, g[1])
        PROVE  FALSE
    <3>1. g \in Feed /\ ex.forgets # "opened"
      BY <2>1, <2>2 DEF Remembered
    <3>2. Supplies(ex, g[1])
      BY <1>a, <2>2, <3>1, FeedOf DEF Sound
    <3> QED
      BY <2>2, <3>1, <3>2, FlaggedIs
  <2> QED
    BY <2>1, <2>2
<1>4. CASE Resubscribe
  <2>1. subs' = subs /\ SendSub(subs, Ambient, Remembered)
    BY <1>4 DEF Resubscribe
  <2> QED
    BY <1>a, <1>h, <1>r, <2>1
<1>5. CASE Opened \/ LoggedIn
  BY <1>4, <1>5 DEF Opened, LoggedIn
<1>6. CASE Fetched \/ Lost \/ Retry \/ LostAndClosed
  BY <1>6 DEF Fetched, Lost, Retry, LostAndClosed
<1>7. CASE OrphanOpens
  <2>1. conn' = conn /\ subs' = subs
    BY <1>7 DEF OrphanOpens
  <2>2. CASE ~ex.login
    <3>1. SendSub(subs, remote, Remembered)
      BY <1>7, <2>2 DEF OrphanOpens
    <3> QED
      BY <1>a, <1>h, <1>r, <2>1, <3>1
  <2>3. CASE ex.login
    BY <1>7, <1>g, <2>1, <2>3 DEF OrphanOpens, pending
  <2> QED
    BY <2>2, <2>3
<1>8. CASE OrphanLost
  BY <1>8, <1>g DEF OrphanLost, HasSocket
<1>9. CASE Flush
  <2>1. /\ conn = "open" /\ subs' = subs /\ timers' = timers /\ memo' = memo
        /\ queue # <<>> /\ queue' = Tail(queue)
        /\ remote' = (remote \ Head(queue).drop) \cup Head(queue).add
    BY <1>9 DEF Flush
  <2>2. Redone(queue, x) => Redone(queue', x)
    BY <1>b, <2>1, Written
  <2>3. Redone(queue, x) /\ (x \in remote \/ Adding(queue, x)) => x \in remote' \/ Adding(queue', x)
    BY <1>b, <2>1, Written
  <2>4. ~Flagged(ex, f[1])
    BY <1>b, <1>d, <2>1, FlaggedIs
  <2> QED
    BY <1>f, <2>1, <2>2, <2>3, <2>4 DEF Coming
<1>10. CASE BatchFires
  BY <1>10, <1>a, <1>e, BatchWaits
<1>11. ASSUME NEW op \in {"wait", "sub", "unsub"}, NEW k \in Kind, TimerFires(op, k)
       PROVE  Kept
  <2>1. /\ conn = "open" /\ subs' = subs /\ queue' = queue /\ memo' = memo
        /\ <<op, k>> \in timers
        /\ remote' = IF op # "wait" THEN After(op, k) ELSE remote
        /\ timers' = IF op = "wait" THEN Armed(timers \ {<<op, k>>}, "sub", {k}) ELSE timers \ {<<op, k>>}
    BY <1>11 DEF TimerFires
  <2>2. <<"sub", f[1]>> \in timers => <<"sub", f[1]>> \in timers' \/ (op = "sub" /\ f[1] = k)
    BY <1>e, <2>1 DEF Armed
  <2>3. CASE op = "wait"
    BY <1>f, <2>1, <2>2, <2>3 DEF Coming
  <2>4. CASE op # "wait"
    <3>1. /\ op = "sub" /\ f \in subs /\ f[1] = k => x \in remote'
          /\ x \in remote => x \in remote' \/ (f[1] = k /\ ex.unsub[k][1] = "resend")
          /\ f \in subs /\ f[1] = k /\ ex.unsub[k][1] = "resend" => x \in remote'
      BY <1>a, <1>d, <2>1, <2>4, ComingListed
    <3>2. Flagged(ex, f[1]) => ex.unsub[f[1]][1] # "resend"
      BY <1>c, <1>d, FlaggedIs DEF Sound
    <3> QED
      BY <1>f, <2>1, <2>2, <3>1, <3>2 DEF Coming
  <2> QED
    BY <2>3, <2>4
<1>12. ASSUME NEW g \in Feed, Acked(g) \/ SnapshotArrives(g) \/ SnapshotFails(g)
       PROVE  Kept
  BY <1>12, <1>g DEF Acked, SnapshotArrives, SnapshotFails, pending
<1>13. CASE PingFires \/ UNCHANGED vars
  BY <1>13, <1>g DEF PingFires, vars, pending
<1> HIDE DEF Kept
<1> QED
  BY <1>1, <1>2, <1>3, <1>5, <1>6, <1>7, <1>8, <1>9, <1>10, <1>11, <1>12, <1>13
     DEF Next, Calls, Server, Timers, Replies

----------------------------------------------------------------------------
(* The classes of the table are sound.                                      *)

\* A class that writes one message for each call needs no more than a route for each kind.
LEMMA DirectSound ==
    ASSUME NEW e, NEW c, Direct(c), c.oneTimer = FALSE, c.login = FALSE,
           \A k \in DOMAIN c.asks : Reaches(c.asks, c.routes, k) \/ <<e, k>> \in Starved
    PROVE  Sound(e, c)
<1>1. \A k \in DOMAIN c.asks :
         /\ c.sub[k][1] = "each" /\ c.sub[k][2] = "now"
         /\ c.unsub[k][1] = "each" /\ c.unsub[k][2] = "now"
         /\ c.drops[k] = c.asks[k]
         /\ \A l \in DOMAIN c.asks : k # l => c.asks[k] \cap c.asks[l] = {}
  BY DEF Direct
<1>2. c.spares = {} /\ c.shared = {}
  BY DEF Direct
<1>3. Prompt(c) /\ Unbatched(c) /\ Slow(c) = {}
  BY <1>1 DEF Prompt, Unbatched, Slow
<1>4. \A k \in DOMAIN c.asks : <<e, k>> \in Starved \/ Supplies(c, k)
  BY <1>1, <1>2, <1>3 DEF Supplies, Requests, Leaves
<1>5. \A k \in DOMAIN c.asks : \A s \in c.asks[k] : Ends(c, k, s)
  BY <1>1, <1>2, <1>3 DEF Ends, EndsNow
<1> QED
  BY <1>1, <1>3, <1>4, <1>5 DEF Sound

\* Every class of the table is sound, with the exceptions that Starved and Leaking name.
LEMMA SoundClasses == \A e \in DOMAIN MCTable : Sound(e, MCTable[e])
<1>1. Sound("bitmex", MCTable.bitmex)
  <2> SUFFICES ASSUME NEW c, c = MCTable.bitmex PROVE Sound("bitmex", c)
    OBVIOUS
  <2>1. /\ c.asks = BitmexAsks /\ c.drops = BitmexAsks /\ c.routes = BitmexRoutes
        /\ c.spares = BitmexSpares /\ c.shared = {} /\ c.ambient = {} /\ c.floor = 0
        /\ c.sub = All(DOMAIN BitmexAsks, "each", "now")
        /\ c.unsub = All(DOMAIN BitmexAsks, "each", "now") /\ c.oneTimer = FALSE /\ c.login = FALSE
    BY DEF MCTable, Bitmex, Plain
  <2>2. Prompt(c) /\ Unbatched(c) /\ Slow(c) = {}
    BY <2>1 DEF Prompt, Unbatched, Slow, BitmexAsks, All, BitmexSpares
  <2>3. \A k \in DOMAIN c.asks : <<"bitmex", k>> \in Starved \/ Supplies(c, k)
    BY <2>1, <2>2 DEF Supplies, Reaches, Requests, Once, Counted, Leaves, Starved,
       BitmexRoutes, BitmexAsks, All, BitmexSpares
  <2>4. \A k \in DOMAIN c.asks : \A s \in c.asks[k] : <<"bitmex", s>> \in Leaking \/ Ends(c, k, s)
    BY <2>1, <2>2 DEF Ends, EndsNow, EndsQueued, EndsLater, Leaking, BitmexAsks, All,
       BitmexSpares
  <2>5. \A k \in DOMAIN c.asks : c.sub[k][1] # "counted" /\ c.unsub[k][1] # "counted"
    BY <2>1 DEF BitmexAsks, All, BitmexSpares
  <2> QED
    BY <2>1, <2>2, <2>3, <2>4, <2>5 DEF Sound
<1>2. Sound("aax", MCTable.aax)
  <2> SUFFICES ASSUME NEW c, c = MCTable.aax PROVE Sound("aax", c)
    OBVIOUS
  <2>1. /\ c.asks = AaxAsks /\ c.drops = AaxAsks /\ c.routes = AaxRoutes /\ c.shared = {"tickers"}
        /\ c.spares = {} /\ c.ambient = {} /\ c.floor = 0
        /\ c.sub = All(DOMAIN AaxAsks, "each", "now")
        /\ c.unsub = All(DOMAIN AaxAsks, "each", "now") /\ c.oneTimer = FALSE /\ c.login = FALSE
    BY DEF MCTable, Aax, Plain
  <2>2. Prompt(c) /\ Unbatched(c) /\ Slow(c) = {}
    BY <2>1 DEF Prompt, Unbatched, Slow, AaxAsks, All
  <2>3. \A k \in DOMAIN c.asks : <<"aax", k>> \in Starved \/ Supplies(c, k)
    BY <2>1, <2>2 DEF Supplies, Reaches, Requests, Once, Counted, Leaves, Starved, AaxRoutes,
       AaxAsks, All
  <2>4. \A k \in DOMAIN c.asks : \A s \in c.asks[k] : <<"aax", s>> \in Leaking \/ Ends(c, k, s)
    BY <2>1, <2>2 DEF Ends, EndsNow, EndsQueued, EndsLater, Leaking, AaxAsks, All
  <2>5. \A k \in DOMAIN c.asks : c.sub[k][1] # "counted" /\ c.unsub[k][1] # "counted"
    BY <2>1 DEF AaxAsks, All
  <2> QED
    BY <2>1, <2>2, <2>3, <2>4, <2>5 DEF Sound
<1>3. Sound("ftx", MCTable.ftx)
  <2> SUFFICES ASSUME NEW c, c = MCTable.ftx PROVE Sound("ftx", c)
    OBVIOUS
  <2>1. /\ c.asks = FtxBaseAsks /\ c.drops = FtxBaseDrops /\ c.routes = FtxBaseRoutes
        /\ c.spares = {} /\ c.shared = {} /\ c.ambient = {} /\ c.floor = 0
        /\ c.sub = All(DOMAIN FtxBaseAsks, "each", "now")
        /\ c.unsub = All(DOMAIN FtxBaseAsks, "each", "now") /\ c.oneTimer = FALSE
        /\ c.login = FALSE
    BY DEF MCTable, FtxBase, Plain
  <2>2. Prompt(c) /\ Unbatched(c) /\ Slow(c) = {}
    BY <2>1 DEF Prompt, Unbatched, Slow, FtxBaseAsks, FtxBaseDrops, All
  <2>3. \A k \in DOMAIN c.asks : <<"ftx", k>> \in Starved \/ Supplies(c, k)
    BY <2>1, <2>2 DEF Supplies, Reaches, Requests, Once, Counted, Leaves, Starved,
       FtxBaseRoutes, FtxBaseAsks, FtxBaseDrops, All
  <2>4. \A k \in DOMAIN c.asks : \A s \in c.asks[k] : <<"ftx", s>> \in Leaking \/ Ends(c, k, s)
    BY <2>1, <2>2 DEF Ends, EndsNow, EndsQueued, EndsLater, Leaking, FtxBaseAsks,
       FtxBaseDrops, All
  <2>5. \A k \in DOMAIN c.asks : c.sub[k][1] # "counted" /\ c.unsub[k][1] # "counted"
    BY <2>1 DEF FtxBaseAsks, FtxBaseDrops, All
  <2> QED
    BY <2>1, <2>2, <2>3, <2>4, <2>5 DEF Sound
<1>4. Sound("gateio", MCTable.gateio)
  <2> SUFFICES ASSUME NEW c, c = MCTable.gateio PROVE Sound("gateio", c)
    OBVIOUS
  <2>1. /\ c.asks = GateioAsks /\ c.drops = GateioAsks /\ c.routes = GateioRoutes
        /\ c.sub = All(DOMAIN GateioAsks, "list", "debounced")
        /\ c.unsub = All(DOMAIN GateioAsks, "kind", "now") /\ c.spares = {} /\ c.shared = {}
        /\ c.ambient = {} /\ c.floor = 0 /\ c.oneTimer = FALSE /\ c.login = FALSE
    BY DEF MCTable, Gateio, Plain, Listed
  <2>2. Prompt(c) /\ Unbatched(c) /\ Slow(c) = {}
    BY <2>1 DEF Prompt, Unbatched, Slow, GateioAsks, All
  <2>3. \A k \in DOMAIN c.asks : <<"gateio", k>> \in Starved \/ Supplies(c, k)
    BY <2>1, <2>2 DEF Supplies, Reaches, Requests, Once, Counted, Leaves, Starved,
       GateioRoutes, GateioAsks, All
  <2>4. \A k \in DOMAIN c.asks : \A s \in c.asks[k] : <<"gateio", s>> \in Leaking \/ Ends(c, k, s)
    BY <2>1, <2>2 DEF Ends, EndsNow, EndsQueued, EndsLater, Leaking, GateioAsks, All
  <2>5. \A k \in DOMAIN c.asks : c.sub[k][1] # "counted" /\ c.unsub[k][1] # "counted"
    BY <2>1 DEF GateioAsks, All
  <2> QED
    BY <2>1, <2>2, <2>3, <2>4, <2>5 DEF Sound
<1>5. Sound("bithumb", MCTable.bithumb)
  <2> SUFFICES ASSUME NEW c, c = MCTable.bithumb PROVE Sound("bithumb", c)
    OBVIOUS
  <2>1. /\ c.asks = BithumbAsks /\ c.drops = BithumbAsks /\ c.routes = BithumbRoutes
        /\ c.sub = All(DOMAIN BithumbAsks, "list", "debounced")
        /\ c.unsub = All(DOMAIN BithumbAsks, "nothing", "now") /\ c.spares = {} /\ c.shared = {}
        /\ c.ambient = {} /\ c.floor = 0 /\ c.oneTimer = FALSE /\ c.login = FALSE
    BY DEF MCTable, Bithumb, Plain, Listed
  <2>2. Prompt(c) /\ Unbatched(c) /\ Slow(c) = {}
    BY <2>1 DEF Prompt, Unbatched, Slow, BithumbAsks, All
  <2>3. \A k \in DOMAIN c.asks : <<"bithumb", k>> \in Starved \/ Supplies(c, k)
    BY <2>1, <2>2 DEF Supplies, Reaches, Requests, Once, Counted, Leaves, Starved,
       BithumbRoutes, BithumbAsks, All
  <2>4. \A k \in DOMAIN c.asks : \A s \in c.asks[k] : <<"bithumb", s>> \in Leaking \/ Ends(c, k, s)
    BY <2>1, <2>2 DEF Ends, EndsNow, EndsQueued, EndsLater, Leaking, BithumbAsks, All
  <2>5. \A k \in DOMAIN c.asks : c.sub[k][1] # "counted" /\ c.unsub[k][1] # "counted"
    BY <2>1 DEF BithumbAsks, All
  <2> QED
    BY <2>1, <2>2, <2>3, <2>4, <2>5 DEF Sound
<1>6. Sound("upbit", MCTable.upbit)
  <2> SUFFICES ASSUME NEW c, c = MCTable.upbit PROVE Sound("upbit", c)
    OBVIOUS
  <2>1. /\ c.asks = UpbitAsks /\ c.drops = UpbitAsks /\ c.routes = UpbitRoutes
        /\ c.sub = All(DOMAIN UpbitAsks, "list", "debounced") /\ c.unsub = UpbitUnsub
        /\ c.spares = {} /\ c.shared = {} /\ c.ambient = {} /\ c.floor = 0 /\ c.oneTimer = FALSE
        /\ c.login = FALSE
    BY DEF MCTable, Upbit, Plain, Listed
  <2>2. Prompt(c) /\ Unbatched(c) /\ Slow(c) = {}
    BY <2>1 DEF Prompt, Unbatched, Slow, UpbitAsks, All, UpbitUnsub
  <2>3. \A k \in DOMAIN c.asks : <<"upbit", k>> \in Starved \/ Supplies(c, k)
    BY <2>1, <2>2 DEF Supplies, Reaches, Requests, Once, Counted, Leaves, Starved,
       UpbitRoutes, UpbitAsks, All, UpbitUnsub
  <2>4. \A k \in DOMAIN c.asks : \A s \in c.asks[k] : <<"upbit", s>> \in Leaking \/ Ends(c, k, s)
    BY <2>1, <2>2 DEF Ends, EndsNow, EndsQueued, EndsLater, Leaking, UpbitAsks, All,
       UpbitUnsub
  <2>5. \A k \in DOMAIN c.asks : c.sub[k][1] # "counted" /\ c.unsub[k][1] # "counted"
    BY <2>1 DEF UpbitAsks, All, UpbitUnsub
  <2> QED
    BY <2>1, <2>2, <2>3, <2>4, <2>5 DEF Sound
<1>7. Sound("crypto", MCTable.crypto)
  <2> SUFFICES ASSUME NEW c, c = MCTable.crypto PROVE Sound("crypto", c)
    OBVIOUS
  <2>1. /\ c.asks = CryptoAsks /\ c.drops = CryptoAsks /\ c.routes = CryptoRoutes
        /\ c.sub = All(DOMAIN CryptoAsks, "list", "delayed")
        /\ c.unsub = All(DOMAIN CryptoAsks, "kind", "debounced") /\ c.spares = {} /\ c.shared = {}
        /\ c.ambient = {} /\ c.floor = 0 /\ c.login = FALSE
    BY DEF MCTable, Crypto, Plain
  <2>2. Prompt(c) /\ Unbatched(c) /\ Slow(c) = {}
    BY <2>1 DEF Prompt, Unbatched, Slow, CryptoAsks, All
  <2>3. \A k \in DOMAIN c.asks : <<"crypto", k>> \in Starved \/ Supplies(c, k)
    BY <2>1, <2>2 DEF Supplies, Reaches, Requests, Once, Counted, Leaves, Starved,
       CryptoRoutes, CryptoAsks, All
  <2>4. \A k \in DOMAIN c.asks : \A s \in c.asks[k] : <<"crypto", s>> \in Leaking \/ Ends(c, k, s)
    BY <2>1, <2>2 DEF Ends, EndsNow, EndsQueued, EndsLater, Leaking, CryptoAsks, All
  <2>5. \A k \in DOMAIN c.asks : c.sub[k][1] # "counted" /\ c.unsub[k][1] # "counted"
    BY <2>1 DEF CryptoAsks, All
  <2> QED
    BY <2>1, <2>2, <2>3, <2>4, <2>5 DEF Sound
<1>8. Sound("zt", MCTable.zt)
  <2> SUFFICES ASSUME NEW c, c = MCTable.zt PROVE Sound("zt", c)
    OBVIOUS
  <2>1. /\ c.asks = ZtAsks /\ c.drops = ZtAsks /\ c.routes = ZtRoutes
        /\ c.sub = All(DOMAIN ZtAsks, "list", "debounced")
        /\ c.unsub = All(DOMAIN ZtAsks, "kind", "debounced") /\ c.spares = {} /\ c.shared = {}
        /\ c.ambient = {} /\ c.floor = 0 /\ c.oneTimer = FALSE /\ c.login = FALSE
    BY DEF MCTable, Zt, Plain, Listed
  <2>2. Prompt(c) /\ Unbatched(c) /\ Slow(c) = {}
    BY <2>1 DEF Prompt, Unbatched, Slow, ZtAsks, All
  <2>3. \A k \in DOMAIN c.asks : <<"zt", k>> \in Starved \/ Supplies(c, k)
    BY <2>1, <2>2 DEF Supplies, Reaches, Requests, Once, Counted, Leaves, Starved, ZtRoutes,
       ZtAsks, All
  <2>4. \A k \in DOMAIN c.asks : \A s \in c.asks[k] : <<"zt", s>> \in Leaking \/ Ends(c, k, s)
    BY <2>1, <2>2 DEF Ends, EndsNow, EndsQueued, EndsLater, Leaking, ZtAsks, All
  <2>5. \A k \in DOMAIN c.asks : c.sub[k][1] # "counted" /\ c.unsub[k][1] # "counted"
    BY <2>1 DEF ZtAsks, All
  <2> QED
    BY <2>1, <2>2, <2>3, <2>4, <2>5 DEF Sound
<1>9. Sound("coinflex", MCTable.coinflex)
  <2> SUFFICES ASSUME NEW c, c = MCTable.coinflex PROVE Sound("coinflex", c)
    OBVIOUS
  <2>1. /\ c.asks = CoinflexAsks /\ c.drops = CoinflexAsks /\ c.routes = CoinflexRoutes
        /\ c.sub = All(DOMAIN CoinflexAsks, "list", "debounced")
        /\ c.unsub = All(DOMAIN CoinflexAsks, "kind", "debounced") /\ c.spares = {}
        /\ c.shared = {} /\ c.ambient = {} /\ c.floor = 0 /\ c.login = FALSE
    BY DEF MCTable, Coinflex, Plain, Listed
  <2>2. Prompt(c) /\ Unbatched(c) /\ Slow(c) = {}
    BY <2>1 DEF Prompt, Unbatched, Slow, CoinflexAsks, All
  <2>3. \A k \in DOMAIN c.asks : <<"coinflex", k>> \in Starved \/ Supplies(c, k)
    BY <2>1, <2>2 DEF Supplies, Reaches, Requests, Once, Counted, Leaves, Starved,
       CoinflexRoutes, CoinflexAsks, All
  <2>4. \A k \in DOMAIN c.asks : \A s \in c.asks[k] : <<"coinflex", s>> \in Leaking \/ Ends(c, k, s)
    BY <2>1, <2>2 DEF Ends, EndsNow, EndsQueued, EndsLater, Leaking, CoinflexAsks, All
  <2>5. \A k \in DOMAIN c.asks : c.sub[k][1] # "counted" /\ c.unsub[k][1] # "counted"
    BY <2>1 DEF CoinflexAsks, All
  <2> QED
    BY <2>1, <2>2, <2>3, <2>4, <2>5 DEF Sound
<1>10. Sound("bitmart", MCTable.bitmart)
  <2> SUFFICES ASSUME NEW c, c = MCTable.bitmart PROVE Sound("bitmart", c)
    OBVIOUS
  <2>1. /\ c.asks = BitmartAsks /\ c.drops = BitmartAsks /\ c.routes = BitmartRoutes
        /\ c.sub = [All(DOMAIN BitmartAsks, "each", "now") EXCEPT !.trade = <<"list", "debounced">>]
        /\ c.unsub = [All(DOMAIN BitmartAsks, "each", "now") EXCEPT !.trade = <<"rest", "debounced">>]
        /\ c.spares = {} /\ c.shared = {} /\ c.ambient = {} /\ c.floor = 0 /\ c.login = FALSE
    BY DEF MCTable, Bitmart, Plain
  <2>2. Prompt(c) /\ Unbatched(c) /\ Slow(c) = {}
    BY <2>1 DEF Prompt, Unbatched, Slow, BitmartAsks, All
  <2>3. \A k \in DOMAIN c.asks : <<"bitmart", k>> \in Starved \/ Supplies(c, k)
    BY <2>1, <2>2 DEF Supplies, Reaches, Requests, Once, Counted, Leaves, Starved,
       BitmartRoutes, BitmartAsks, All
  <2>4. \A k \in DOMAIN c.asks : \A s \in c.asks[k] : <<"bitmart", s>> \in Leaking \/ Ends(c, k, s)
    BY <2>1, <2>2 DEF Ends, EndsNow, EndsQueued, EndsLater, Leaking, BitmartAsks, All
  <2>5. \A k \in DOMAIN c.asks : c.sub[k][1] # "counted" /\ c.unsub[k][1] # "counted"
    BY <2>1 DEF BitmartAsks, All
  <2> QED
    BY <2>1, <2>2, <2>3, <2>4, <2>5 DEF Sound
<1>11. Sound("kraken", MCTable.kraken)
  <2> SUFFICES ASSUME NEW c, c = MCTable.kraken PROVE Sound("kraken", c)
    OBVIOUS
  <2>1. /\ c.asks = KrakenAsks /\ c.drops = KrakenAsks /\ c.routes = KrakenRoutes
        /\ c.sub = All(DOMAIN KrakenAsks, "list", "debounced")
        /\ c.unsub = All(DOMAIN KrakenAsks, "rest", "debounced") /\ c.spares = {} /\ c.shared = {}
        /\ c.ambient = {} /\ c.floor = 0 /\ c.oneTimer = FALSE /\ c.login = FALSE
    BY DEF MCTable, Kraken, Plain, Listed
  <2>2. Prompt(c) /\ Unbatched(c) /\ Slow(c) = {}
    BY <2>1 DEF Prompt, Unbatched, Slow, KrakenAsks, All
  <2>3. \A k \in DOMAIN c.asks : <<"kraken", k>> \in Starved \/ Supplies(c, k)
    BY <2>1, <2>2 DEF Supplies, Reaches, Requests, Once, Counted, Leaves, Starved,
       KrakenRoutes, KrakenAsks, All
  <2>4. \A k \in DOMAIN c.asks : \A s \in c.asks[k] : <<"kraken", s>> \in Leaking \/ Ends(c, k, s)
    BY <2>1, <2>2 DEF Ends, EndsNow, EndsQueued, EndsLater, Leaking, KrakenAsks, All
  <2>5. \A k \in DOMAIN c.asks : c.sub[k][1] # "counted" /\ c.unsub[k][1] # "counted"
    BY <2>1 DEF KrakenAsks, All
  <2> QED
    BY <2>1, <2>2, <2>3, <2>4, <2>5 DEF Sound
<1>12. Sound("okex", MCTable.okex)
  <2> SUFFICES ASSUME NEW c, c = MCTable.okex PROVE Sound("okex", c)
    OBVIOUS
  <2>1. /\ c.asks = OkexAsks /\ c.drops = OkexAsks /\ c.routes = OkexRoutes
        /\ c.sub = All(DOMAIN OkexAsks, "each", "queued")
        /\ c.unsub = All(DOMAIN OkexAsks, "each", "queued") /\ c.spares = {} /\ c.shared = {}
        /\ c.ambient = {} /\ c.floor = 0 /\ c.oneTimer = FALSE /\ c.login = FALSE
    BY DEF MCTable, Okex, Plain, Throttled
  <2>2. Slow(c) = UNION {c.asks[k] : k \in DOMAIN c.asks} /\ Unbatched(c)
    BY <2>1 DEF Prompt, Unbatched, Slow, OkexAsks, All
  <2>3. \A k \in DOMAIN c.asks : <<"okex", k>> \in Starved \/ Supplies(c, k)
    BY <2>1, <2>2 DEF Supplies, Reaches, Requests, Once, Counted, Leaves, Starved,
       OkexRoutes, OkexAsks, All
  <2>4. \A k \in DOMAIN c.asks : \A s \in c.asks[k] : <<"okex", s>> \in Leaking \/ Ends(c, k, s)
    BY <2>1, <2>2 DEF Ends, EndsNow, EndsQueued, EndsLater, Leaking, OkexAsks, All
  <2>5. \A k \in DOMAIN c.asks : c.sub[k][1] # "counted" /\ c.unsub[k][1] # "counted"
    BY <2>1 DEF OkexAsks, All
  <2> QED
    BY <2>1, <2>2, <2>3, <2>4, <2>5 DEF Sound, Late
<1>13. Sound("deribit", MCTable.deribit)
  <2> SUFFICES ASSUME NEW c, c = MCTable.deribit PROVE Sound("deribit", c)
    OBVIOUS
  <2>1. /\ c.asks = DeribitAsks /\ c.drops = DeribitAsks /\ c.routes = DeribitRoutes
        /\ c.sub = All(DOMAIN DeribitAsks, "each", "queued")
        /\ c.unsub = [All(DOMAIN DeribitAsks, "each", "queued") EXCEPT !.l2update = <<"each", "now">>]
        /\ c.spares = {} /\ c.shared = {} /\ c.ambient = {} /\ c.floor = 0 /\ c.oneTimer = FALSE
        /\ c.login = FALSE
    BY DEF MCTable, Deribit, Plain, Throttled
  <2>2. Slow(c) = UNION {c.asks[k] : k \in DOMAIN c.asks} /\ Unbatched(c)
    BY <2>1 DEF Prompt, Unbatched, Slow, DeribitAsks, All
  <2>3. \A k \in DOMAIN c.asks : <<"deribit", k>> \in Starved \/ Supplies(c, k)
    BY <2>1, <2>2 DEF Supplies, Reaches, Requests, Once, Counted, Leaves, Starved,
       DeribitRoutes, DeribitAsks, All
  <2>4. \A k \in DOMAIN c.asks : \A s \in c.asks[k] : <<"deribit", s>> \in Leaking \/ Ends(c, k, s)
    BY <2>1, <2>2 DEF Ends, EndsNow, EndsQueued, EndsLater, Leaking, DeribitAsks, All
  <2>5. \A k \in DOMAIN c.asks : c.sub[k][1] # "counted" /\ c.unsub[k][1] # "counted"
    BY <2>1 DEF DeribitAsks, All
  <2> QED
    BY <2>1, <2>2, <2>3, <2>4, <2>5 DEF Sound, Late
<1>14. Sound("hitbtc", MCTable.hitbtc)
  <2> SUFFICES ASSUME NEW c, c = MCTable.hitbtc PROVE Sound("hitbtc", c)
    OBVIOUS
  <2>1. /\ c.asks = HitbtcAsks /\ c.drops = HitbtcDrops /\ c.routes = HitbtcRoutes
        /\ c.sub = All(DOMAIN HitbtcAsks, "each", "queued")
        /\ c.unsub = All(DOMAIN HitbtcAsks, "each", "queued") /\ c.spares = {} /\ c.shared = {}
        /\ c.ambient = {} /\ c.floor = 0 /\ c.oneTimer = FALSE /\ c.login = FALSE
    BY DEF MCTable, Hitbtc, Plain, Throttled
  <2>2. Slow(c) = UNION {c.asks[k] : k \in DOMAIN c.asks} /\ Unbatched(c)
    BY <2>1 DEF Prompt, Unbatched, Slow, HitbtcAsks, HitbtcDrops, All
  <2>3. \A k \in DOMAIN c.asks : <<"hitbtc", k>> \in Starved \/ Supplies(c, k)
    BY <2>1, <2>2 DEF Supplies, Reaches, Requests, Once, Counted, Leaves, Starved,
       HitbtcRoutes, HitbtcAsks, HitbtcDrops, All
  <2>4. \A k \in DOMAIN c.asks : \A s \in c.asks[k] : <<"hitbtc", s>> \in Leaking \/ Ends(c, k, s)
    BY <2>1, <2>2 DEF Ends, EndsNow, EndsQueued, EndsLater, Leaking, HitbtcAsks, HitbtcDrops,
       All
  <2>5. \A k \in DOMAIN c.asks : c.sub[k][1] # "counted" /\ c.unsub[k][1] # "counted"
    BY <2>1 DEF HitbtcAsks, HitbtcDrops, All
  <2> QED
    BY <2>1, <2>2, <2>3, <2>4, <2>5 DEF Sound, Late
<1>15. Sound("binance", MCTable.binance)
  <2> SUFFICES ASSUME NEW c, c = MCTable.binance PROVE Sound("binance", c)
    OBVIOUS
  <2>1. /\ c.asks = BinanceAsks /\ c.drops = BinanceAsks /\ c.routes = BinanceRoutes
        /\ c.shared = {"!ticker@arr"} /\ c.floor = 1 /\ c.forgets = "closing"
        /\ c.sub = [All(DOMAIN BinanceAsks, "each", "batched") EXCEPT !.ticker = <<"once", "now">>]
        /\ c.unsub = [All(DOMAIN BinanceAsks, "each", "batched") EXCEPT !.ticker = <<"last", "now">>]
        /\ c.spares = {} /\ c.ambient = {} /\ c.oneTimer = FALSE /\ c.login = FALSE
    BY DEF MCTable, Binance, Plain, BinanceTickers
  <2>2. Slow(c) = {"@trade", "@kline", "@depth20", "@depth"}
    BY <2>1 DEF Prompt, Unbatched, Slow, BinanceAsks, All
  <2>3. \A k \in DOMAIN c.asks : <<"binance", k>> \in Starved \/ Supplies(c, k)
    BY <2>1, <2>2 DEF Supplies, Reaches, Requests, Once, Counted, Leaves, Starved,
       BinanceRoutes, BinanceAsks, All
  <2>4. \A k \in DOMAIN c.asks : \A s \in c.asks[k] : <<"binance", s>> \in Leaking \/ Ends(c, k, s)
    BY <2>1, <2>2 DEF Ends, EndsNow, EndsQueued, EndsLater, Leaking, BinanceAsks, All
  <2>5. \A k \in DOMAIN c.asks : c.sub[k][1] # "counted" /\ c.unsub[k][1] # "counted"
    BY <2>1 DEF BinanceAsks, All
  <2> QED
    BY <2>1, <2>2, <2>3, <2>4, <2>5 DEF Sound, Leaking
<1>16. Sound("poloniex", MCTable.poloniex)
  <2> SUFFICES ASSUME NEW c, c = MCTable.poloniex PROVE Sound("poloniex", c)
    OBVIOUS
  <2>1. /\ c.asks = PoloniexAsks /\ c.drops = PoloniexAsks /\ c.routes = PoloniexRoutes
        /\ c.shared = {"1002"} /\ c.forgets = "opened" /\ c.sub = PoloniexSub
        /\ c.unsub = PoloniexUnsub /\ c.spares = {} /\ c.ambient = {} /\ c.floor = 0
        /\ c.oneTimer = FALSE /\ c.login = FALSE
    BY DEF MCTable, Poloniex, Plain, PoloniexForgets
  <2>2. Prompt(c) /\ Unbatched(c) /\ Slow(c) = {}
    BY <2>1 DEF Prompt, Unbatched, Slow, PoloniexAsks, PoloniexSub, PoloniexUnsub
  <2>3. \A k \in DOMAIN c.asks : <<"poloniex", k>> \in Starved \/ Supplies(c, k)
    <3>1. \A k \in DOMAIN c.asks : Reaches(c.asks, c.routes, k)
      BY <2>1 DEF Reaches, PoloniexAsks, PoloniexRoutes
    <3>2. \A k \in DOMAIN c.asks : Requests(c, k)
      BY <2>1, <2>2 DEF Requests, Once, Counted, PoloniexAsks, PoloniexSub, PoloniexUnsub
    <3>3. \A k, l \in DOMAIN c.asks :
             c.unsub[l][1] # "rest" /\ \A s \in c.asks[k] \cap c.drops[l] : Leaves(c, l, s, k)
      BY <2>1 DEF Leaves, PoloniexAsks, PoloniexSub, PoloniexUnsub
    <3> QED
      BY <2>1, <2>2, <3>1, <3>2, <3>3 DEF Supplies
  <2>4. \A k \in DOMAIN c.asks : \A s \in c.asks[k] : <<"poloniex", s>> \in Leaking \/ Ends(c, k, s)
    BY <2>1, <2>2 DEF Ends, EndsNow, EndsQueued, EndsLater, Leaking, PoloniexAsks,
       PoloniexSub, PoloniexUnsub
  <2>5. \A k \in DOMAIN c.asks :
          /\ c.sub[k][1] = "counted" <=> c.unsub[k][1] = "counted"
          /\ c.sub[k][1] = "counted" => <<"poloniex", k>> \notin Starved
    BY <2>1 DEF Starved, PoloniexAsks, PoloniexSub, PoloniexUnsub
  <2> QED
    BY <2>1, <2>2, <2>3, <2>4, <2>5 DEF Sound
<1>17. Sound("bitfinex", MCTable.bitfinex)
  <2> SUFFICES ASSUME NEW c, c = MCTable.bitfinex PROVE Sound("bitfinex", c)
    OBVIOUS
  <2>1. /\ c.asks = BitfinexAsks /\ c.drops = BitfinexAsks /\ c.routes = BitfinexRoutes
        /\ c.unsub = ByChannelId(DOMAIN BitfinexAsks) /\ c.spares = {} /\ c.shared = {}
        /\ c.ambient = {} /\ c.floor = 0 /\ c.sub = All(DOMAIN BitfinexAsks, "each", "now")
        /\ c.oneTimer = FALSE /\ c.login = FALSE
    BY DEF MCTable, Bitfinex, Plain
  <2>2. Prompt(c) /\ Unbatched(c) /\ Slow(c) = {}
    BY <2>1 DEF Prompt, Unbatched, Slow, BitfinexAsks, All, ByChannelId
  <2>3. \A k \in DOMAIN c.asks : <<"bitfinex", k>> \in Starved \/ Supplies(c, k)
    BY <2>1, <2>2 DEF Supplies, Reaches, Requests, Once, Counted, Leaves, Starved,
       BitfinexRoutes, BitfinexAsks, All, ByChannelId
  <2>4. \A k \in DOMAIN c.asks : \A s \in c.asks[k] : <<"bitfinex", s>> \in Leaking \/ Ends(c, k, s)
    BY <2>1, <2>2 DEF Ends, EndsNow, EndsQueued, EndsLater, Leaking, BitfinexAsks, All,
       ByChannelId
  <2>5. \A k \in DOMAIN c.asks : c.sub[k][1] # "counted" /\ c.unsub[k][1] # "counted"
    BY <2>1 DEF BitfinexAsks, All, ByChannelId
  <2> QED
    BY <2>1, <2>2, <2>3, <2>4, <2>5 DEF Sound
<1>18. Sound("ethfinex", MCTable.ethfinex)
  <2> SUFFICES ASSUME NEW c, c = MCTable.ethfinex PROVE Sound("ethfinex", c)
    OBVIOUS
  <2>1. /\ c.asks = BitfinexAsks /\ c.drops = BitfinexAsks /\ c.routes = BitfinexRoutes
        /\ c.unsub = ByChannelId(DOMAIN BitfinexAsks) /\ c.spares = {} /\ c.shared = {}
        /\ c.ambient = {} /\ c.floor = 0 /\ c.sub = All(DOMAIN BitfinexAsks, "each", "now")
        /\ c.oneTimer = FALSE /\ c.login = FALSE
    BY DEF MCTable, Ethfinex, Plain, EthfinexAsks, EthfinexRoutes
  <2>2. Prompt(c) /\ Unbatched(c) /\ Slow(c) = {}
    BY <2>1 DEF Prompt, Unbatched, Slow, BitfinexAsks, All, ByChannelId
  <2>3. \A k \in DOMAIN c.asks : <<"ethfinex", k>> \in Starved \/ Supplies(c, k)
    BY <2>1, <2>2 DEF Supplies, Reaches, Requests, Once, Counted, Leaves, Starved,
       BitfinexRoutes, BitfinexAsks, All, ByChannelId
  <2>4. \A k \in DOMAIN c.asks : \A s \in c.asks[k] : <<"ethfinex", s>> \in Leaking \/ Ends(c, k, s)
    BY <2>1, <2>2 DEF Ends, EndsNow, EndsQueued, EndsLater, Leaking, BitfinexAsks, All,
       ByChannelId
  <2>5. \A k \in DOMAIN c.asks : c.sub[k][1] # "counted" /\ c.unsub[k][1] # "counted"
    BY <2>1 DEF BitfinexAsks, All, ByChannelId
  <2> QED
    BY <2>1, <2>2, <2>3, <2>4, <2>5 DEF Sound
<1>19. Sound("liquid", MCTable.liquid)
  <2> SUFFICES ASSUME NEW c, c = MCTable.liquid PROVE Sound("liquid", c)
    OBVIOUS
  <2>1. /\ c.asks = LiquidAsks /\ c.drops = LiquidDrops /\ c.routes = LiquidRoutes /\ c.spares = {}
        /\ c.shared = {} /\ c.ambient = {} /\ c.floor = 0
        /\ c.sub = All(DOMAIN LiquidAsks, "each", "now")
        /\ c.unsub = All(DOMAIN LiquidAsks, "each", "now") /\ c.oneTimer = FALSE /\ c.login = FALSE
    BY DEF MCTable, Liquid, Plain
  <2>2. Prompt(c) /\ Unbatched(c) /\ Slow(c) = {}
    BY <2>1 DEF Prompt, Unbatched, Slow, LiquidAsks, LiquidDrops, All
  <2>3. \A k \in DOMAIN c.asks : <<"liquid", k>> \in Starved \/ Supplies(c, k)
    BY <2>1, <2>2 DEF Supplies, Reaches, Requests, Once, Counted, Leaves, Starved,
       LiquidRoutes, LiquidAsks, LiquidDrops, All
  <2>4. \A k \in DOMAIN c.asks : \A s \in c.asks[k] : <<"liquid", s>> \in Leaking \/ Ends(c, k, s)
    BY <2>1, <2>2 DEF Ends, EndsNow, EndsQueued, EndsLater, Leaking, LiquidAsks, LiquidDrops,
       All
  <2>5. \A k \in DOMAIN c.asks : c.sub[k][1] # "counted" /\ c.unsub[k][1] # "counted"
    BY <2>1 DEF LiquidAsks, LiquidDrops, All
  <2> QED
    BY <2>1, <2>2, <2>3, <2>4, <2>5 DEF Sound
<1>20. Sound("coinex", MCTable.coinex)
  <2> SUFFICES ASSUME NEW c, c = MCTable.coinex PROVE Sound("coinex", c)
    OBVIOUS
  <2>1. /\ c.asks = CoinexAsks /\ c.drops = CoinexAsks /\ c.routes = CoinexRoutes
        /\ c.single = TRUE /\ c.unsub = All(DOMAIN CoinexAsks, "kind", "now") /\ c.spares = {}
        /\ c.shared = {} /\ c.ambient = {} /\ c.floor = 0
        /\ c.sub = All(DOMAIN CoinexAsks, "each", "now") /\ c.oneTimer = FALSE /\ c.login = FALSE
    BY DEF MCTable, Coinex, Plain, CoinexSingle
  <2>2. Prompt(c) /\ Unbatched(c) /\ Slow(c) = {}
    BY <2>1 DEF Prompt, Unbatched, Slow, CoinexAsks, All
  <2>3. \A k \in DOMAIN c.asks : <<"coinex", k>> \in Starved \/ Supplies(c, k)
    BY <2>1, <2>2 DEF Supplies, Reaches, Requests, Once, Counted, Leaves, Starved,
       CoinexRoutes, CoinexAsks, All
  <2>4. \A k \in DOMAIN c.asks : \A s \in c.asks[k] : <<"coinex", s>> \in Leaking \/ Ends(c, k, s)
    BY <2>1, <2>2 DEF Ends, EndsNow, EndsQueued, EndsLater, Leaking, CoinexAsks, All
  <2>5. \A k \in DOMAIN c.asks : c.sub[k][1] # "counted" /\ c.unsub[k][1] # "counted"
    BY <2>1 DEF CoinexAsks, All
  <2> QED
    BY <2>1, <2>2, <2>3, <2>4, <2>5 DEF Sound
<1>21. Sound("cex", MCTable.cex)
  <2> SUFFICES ASSUME NEW c, c = MCTable.cex PROVE Sound("cex", c)
    OBVIOUS
  <2>1. /\ c.asks = CexAsks /\ c.drops = [k \in DOMAIN CexAsks |-> {}] /\ c.routes = CexRoutes
        /\ c.shared = {"tickers"} /\ c.spares = {} /\ c.ambient = {} /\ c.floor = 0
        /\ c.sub = All(DOMAIN CexAsks, "each", "now")
        /\ c.unsub = All(DOMAIN CexAsks, "each", "now") /\ c.oneTimer = FALSE /\ c.login = FALSE
    BY DEF MCTable, Cex, Plain
  <2>2. Prompt(c) /\ Unbatched(c) /\ Slow(c) = {}
    BY <2>1 DEF Prompt, Unbatched, Slow, CexAsks, All
  <2>3. \A k \in DOMAIN c.asks : <<"cex", k>> \in Starved \/ Supplies(c, k)
    BY <2>1, <2>2 DEF Supplies, Reaches, Requests, Once, Counted, Leaves, Starved, CexRoutes,
       CexAsks, All
  <2>4. \A k \in DOMAIN c.asks : \A s \in c.asks[k] : <<"cex", s>> \in Leaking \/ Ends(c, k, s)
    BY <2>1, <2>2 DEF Ends, EndsNow, EndsQueued, EndsLater, Leaking, CexAsks, All
  <2>5. \A k \in DOMAIN c.asks : c.sub[k][1] # "counted" /\ c.unsub[k][1] # "counted"
    BY <2>1 DEF CexAsks, All
  <2> QED
    BY <2>1, <2>2, <2>3, <2>4, <2>5 DEF Sound
<1>22. Sound("erisx", MCTable.erisx)
  <2> SUFFICES ASSUME NEW c, c = MCTable.erisx PROVE Sound("erisx", c)
    OBVIOUS
  <2>1. /\ c.asks = ErisxAsks /\ c.drops = ErisxAsks /\ c.routes = ErisxRoutes
        /\ c.unsub = [All(DOMAIN ErisxAsks, "each", "now") EXCEPT !.l3update = <<"missing", "now">>]
        /\ c.spares = {} /\ c.shared = {} /\ c.ambient = {} /\ c.floor = 0
        /\ c.sub = All(DOMAIN ErisxAsks, "each", "now") /\ c.oneTimer = FALSE
    BY DEF MCTable, Erisx, Plain
  <2>2. Prompt(c) /\ Unbatched(c) /\ Slow(c) = {}
    BY <2>1 DEF Prompt, Unbatched, Slow, ErisxAsks, All
  <2>3. \A k \in DOMAIN c.asks : <<"erisx", k>> \in Starved \/ Supplies(c, k)
    BY <2>1, <2>2 DEF Supplies, Reaches, Requests, Once, Counted, Leaves, Starved,
       ErisxRoutes, ErisxAsks, All
  <2>4. \A k \in DOMAIN c.asks : \A s \in c.asks[k] : <<"erisx", s>> \in Leaking \/ Ends(c, k, s)
    BY <2>1, <2>2 DEF Ends, EndsNow, EndsQueued, EndsLater, Leaking, ErisxAsks, All
  <2>5. \A k \in DOMAIN c.asks : c.sub[k][1] # "counted" /\ c.unsub[k][1] # "counted"
    BY <2>1 DEF ErisxAsks, All
  <2> QED
    BY <2>1, <2>2, <2>3, <2>4, <2>5 DEF Sound
<1>23. Sound("ledgerx", MCTable.ledgerx)
  <2> SUFFICES ASSUME NEW c, c = MCTable.ledgerx PROVE Sound("ledgerx", c)
    OBVIOUS
  <2>1. /\ c.asks = LedgerxAsks /\ c.drops = [k \in DOMAIN LedgerxAsks |-> {}]
        /\ c.routes = LedgerxRoutes /\ c.shared = {"action_report"}
        /\ c.ambient = {"action_report"}
        /\ c.unsub = [All(DOMAIN LedgerxAsks, "each", "now") EXCEPT !.l3update = <<"missing", "now">>]
        /\ c.spares = {} /\ c.floor = 0 /\ c.sub = All(DOMAIN LedgerxAsks, "each", "now")
        /\ c.oneTimer = FALSE /\ c.login = FALSE
    BY DEF MCTable, Ledgerx, Plain
  <2>2. Prompt(c) /\ Unbatched(c) /\ Slow(c) = {}
    BY <2>1 DEF Prompt, Unbatched, Slow, LedgerxAsks, All
  <2>3. \A k \in DOMAIN c.asks : <<"ledgerx", k>> \in Starved \/ Supplies(c, k)
    BY <2>1, <2>2 DEF Supplies, Reaches, Requests, Once, Counted, Leaves, Starved,
       LedgerxRoutes, LedgerxAsks, All
  <2>4. \A k \in DOMAIN c.asks : \A s \in c.asks[k] : <<"ledgerx", s>> \in Leaking \/ Ends(c, k, s)
    BY <2>1, <2>2 DEF Ends, EndsNow, EndsQueued, EndsLater, Leaking, LedgerxAsks, All
  <2>5. \A k \in DOMAIN c.asks : c.sub[k][1] # "counted" /\ c.unsub[k][1] # "counted"
    BY <2>1 DEF LedgerxAsks, All
  <2> QED
    BY <2>1, <2>2, <2>3, <2>4, <2>5 DEF Sound
<1>24. Sound("kucoin", MCTable.kucoin)
  <2> SUFFICES ASSUME NEW c, c = MCTable.kucoin PROVE Sound("kucoin", c)
    OBVIOUS
  <2>1. /\ c.asks = KucoinAsks /\ c.drops = KucoinAsks /\ c.routes = KucoinRoutes /\ c.spares = {}
        /\ c.shared = {} /\ c.ambient = {} /\ c.floor = 0
        /\ c.sub = All(DOMAIN KucoinAsks, "each", "now")
        /\ c.unsub = All(DOMAIN KucoinAsks, "each", "now") /\ c.oneTimer = FALSE /\ c.login = FALSE
    BY DEF MCTable, Kucoin, Plain
  <2>2. Prompt(c) /\ Unbatched(c) /\ Slow(c) = {}
    BY <2>1 DEF Prompt, Unbatched, Slow, KucoinAsks, All
  <2>3. \A k \in DOMAIN c.asks : <<"kucoin", k>> \in Starved \/ Supplies(c, k)
    BY <2>1, <2>2 DEF Supplies, Reaches, Requests, Once, Counted, Leaves, Starved,
       KucoinRoutes, KucoinAsks, All
  <2>4. \A k \in DOMAIN c.asks : \A s \in c.asks[k] : <<"kucoin", s>> \in Leaking \/ Ends(c, k, s)
    BY <2>1, <2>2 DEF Ends, EndsNow, EndsQueued, EndsLater, Leaking, KucoinAsks, All
  <2>5. \A k \in DOMAIN c.asks : c.sub[k][1] # "counted" /\ c.unsub[k][1] # "counted"
    BY <2>1 DEF KucoinAsks, All
  <2> QED
    BY <2>1, <2>2, <2>3, <2>4, <2>5 DEF Sound
<1>25. Sound("bittrex", MCTable.bittrex)
  <2> SUFFICES ASSUME NEW c, c = MCTable.bittrex PROVE Sound("bittrex", c)
    OBVIOUS
  <2>1. /\ c.asks = BittrexAsks /\ c.drops = BittrexDrops /\ c.routes = BittrexRoutes
        /\ c.forgets = "closing"
        /\ c.sub = [All(DOMAIN BittrexAsks, "each", "now") EXCEPT !.ticker = <<"once", "now">>]
        /\ c.spares = {} /\ c.shared = {} /\ c.ambient = {} /\ c.floor = 0
        /\ c.unsub = All(DOMAIN BittrexAsks, "each", "now") /\ c.oneTimer = FALSE
        /\ c.login = FALSE
    BY DEF MCTable, Bittrex, Plain
  <2>2. Prompt(c) /\ Unbatched(c) /\ Slow(c) = {}
    BY <2>1 DEF Prompt, Unbatched, Slow, BittrexAsks, BittrexDrops, All
  <2>3. \A k \in DOMAIN c.asks : <<"bittrex", k>> \in Starved \/ Supplies(c, k)
    BY <2>1, <2>2 DEF Supplies, Reaches, Requests, Once, Counted, Leaves, Starved,
       BittrexRoutes, BittrexAsks, BittrexDrops, All
  <2>4. \A k \in DOMAIN c.asks : \A s \in c.asks[k] : <<"bittrex", s>> \in Leaking \/ Ends(c, k, s)
    BY <2>1, <2>2 DEF Ends, EndsNow, EndsQueued, EndsLater, Leaking, BittrexAsks,
       BittrexDrops, All
  <2>5. \A k \in DOMAIN c.asks : c.sub[k][1] # "counted" /\ c.unsub[k][1] # "counted"
    BY <2>1 DEF BittrexAsks, BittrexDrops, All
  <2> QED
    BY <2>1, <2>2, <2>3, <2>4, <2>5 DEF Sound
<1>26. \A e \in DirectClasses : Sound(e, MCTable[e])
  BY DirectOfTable, DirectSound
<1> QED
  BY <1>1, <1>2, <1>3, <1>4, <1>5, <1>6, <1>7, <1>8, <1>9, <1>10, <1>11, <1>12, <1>13, <1>14, <1>15, <1>16, <1>17, <1>18, <1>19, <1>20, <1>21, <1>22, <1>23, <1>24, <1>25, <1>26 DEF MCTable, DirectClasses

----------------------------------------------------------------------------
(* The theorems.                                                            *)

\* The inductive invariant: the five parts that a step of any action preserves together.
FeedsInv ==
    /\ exchange \in DOMAIN Table
    /\ FeedInv /\ PaceInv /\ CountInv /\ LeftInv /\ ServeInv

\* The inductive invariant holds at the start.
LEMMA FeedsStart == Init => FeedsInv
<1> SUFFICES ASSUME Init PROVE FeedsInv
  OBVIOUS
<1>1. /\ conn = "none" /\ queue = <<>> /\ batch = <<>> /\ timers = {}
      /\ subs = {} /\ memo = {} /\ uses \subseteq Kind /\ exchange \in DOMAIN Table
  BY DEF Init
<1>2. FeedInv
  BY <1>1, FS_EmptySet DEF FeedInv
<1>3. PaceInv
  BY <1>1, NothingWaits DEF PaceInv
<1> QED
  BY <1>1, <1>2, <1>3 DEF FeedsInv, CountInv, LeftInv, ServeInv

\* And every step preserves it, if the classes are sound.
LEMMA FeedsStep ==
    ASSUME \A e \in DOMAIN Table : Sound(e, Table[e])
    PROVE  FeedsInv /\ [Next]_vars => FeedsInv'
<1> SUFFICES ASSUME FeedsInv, [Next]_vars PROVE FeedsInv'
  OBVIOUS
<1>1. Sound(exchange, ex) /\ FeedInv /\ PaceInv /\ CountInv /\ LeftInv /\ ServeInv
  BY DEF FeedsInv, ex
<1>2. exchange' \in DOMAIN Table
  BY SameClass DEF FeedsInv
<1> QED
  BY <1>1, <1>2, FeedStep, PaceStep, CountStep, LeftStep, ServeStep DEF FeedsInv

\* With nothing on its way, what is to come has come.
LEMMA ServedAtRest ==
    ASSUME \A e \in DOMAIN Table : Sound(e, Table[e]), FeedsInv
    PROVE  Quiet => \A f \in subs : Served(f) \/ <<exchange, f[1]>> \in Starved
<1> SUFFICES ASSUME Quiet, NEW f \in subs, <<exchange, f[1]>> \notin Starved PROVE Served(f)
  OBVIOUS
<1>1. /\ conn = "open" /\ queue = <<>> /\ timers = {}
      /\ uses \subseteq Kind /\ f \in Feed /\ Sound(exchange, ex) /\ ServeInv
  BY DEF Quiet, FeedsInv, FeedInv, ex
<1>2. f = <<f[1], f[2]>> /\ f[1] \in DOMAIN ex.asks
  BY <1>1, FeedOf
<1>3. Reaches(ex.asks, ex.routes, f[1])
  BY <1>1, <1>2 DEF Sound, Supplies
<1>4. \A x : Wants(ex, f, x) => x \in remote
  BY <1>1 DEF ServeInv, Adding
<1>5. Asked({f}) \subseteq remote
  BY <1>4, AskedWants
<1>6. Asked({f}) # {}
  <2>1. PICK s \in ex.asks[f[1]] : TRUE
    BY <1>3 DEF Reaches
  <2>2. Wants(ex, f, <<s, IF s \in ex.shared THEN AllMarkets ELSE f[2]>>)
    BY <2>1 DEF Wants
  <2> QED
    BY <2>2, AskedWants
<1>7. ASSUME NEW s \in ex.asks[f[1]]
      PROVE  \E r \in ex.routes : r[1] = s /\ r[3] = f[1] /\ <<r[2], f[2]>> \in subs
  <2>1. <<s, f[1], f[1]>> \in ex.routes
    BY <1>3 DEF Reaches
  <2> QED
    BY <1>2, <2>1
<1> QED
  BY <1>5, <1>6, <1>7 DEF Served

\* With nothing on its way, what nobody asks for has gone.
LEMMA NothingAtRest ==
    ASSUME \A e \in DOMAIN Table : Sound(e, Table[e]), FeedsInv
    PROVE  Quiet => \A x \in remote : \/ x \in Asked(subs) \cup Ambient
                                      \/ <<exchange, x[1]>> \in Leaking
                                      \/ orphan /\ exchange \in Late
<1> SUFFICES ASSUME Quiet, NEW x \in remote, <<exchange, x[1]>> \notin Leaking,
                    ~(orphan /\ exchange \in Late)
             PROVE  x \in Asked(subs) \cup Ambient
  OBVIOUS
<1>1. conn = "open" /\ queue = <<>> /\ timers = {} /\ LeftInv /\ Sound(exchange, ex)
  BY DEF Quiet, FeedsInv, ex
<1>2. ~Dropping(queue, x) /\ ~Ending(ex, timers, x)
  BY <1>1 DEF Dropping, Ending
<1>3. ~(orphan /\ x[1] \in Slow(ex))
  BY <1>1 DEF Sound
<1>4. (\E f \in subs : Wants(ex, f, x)) \/ Unasked(ex, x)
  BY <1>1, <1>2, <1>3 DEF LeftInv
<1> QED
  BY <1>4, AskedWants, UnaskedIs

\* A table of sound classes keeps both promises of the subscription methods, whatever its
\* classes are: the end of a feed takes nothing from the others and leaves nothing of its
\* own, also across throttles, debounces, flags, counts, losses and reconnections
\* (basic-client.js:79-267).
THEOREM SoundKeepsUp ==
    ASSUME \A e \in DOMAIN Table : Sound(e, Table[e])
    PROVE  Spec => [](FeedsServed /\ NothingLeftOver)
<1>1. FeedsInv => FeedsServed /\ NothingLeftOver
  BY ServedAtRest, NothingAtRest DEF FeedsServed, NothingLeftOver
<1> QED
  BY <1>1, FeedsStart, FeedsStep, PTL DEF Spec

\* With any number of markets, of feeds and of calls: once nothing is on its way, every
\* subscribed feed of every class has its streams on the server and messages that reach
\* the user, but for the kinds of Starved (README.md: a subscription "will cause the client
\* to emit"; basic-client.js:232-267).
THEOREM FeedsAreServed ==
    ASSUME Table = MCTable
    PROVE  Spec => []FeedsServed
<1>1. \A e \in DOMAIN Table : Sound(e, Table[e])
  BY SoundClasses
<1>2. Spec => [](FeedsServed /\ NothingLeftOver)
  BY <1>1, SoundKeepsUp
<1> QED
  BY <1>2, PTL

\* And the server sends no stream that no subscribed feed asks for, but for those of Leaking
\* (the _sendUnsub... functions of src/exchanges; basic-client.js:168-210).
THEOREM NothingIsLeftOver ==
    ASSUME Table = MCTable
    PROVE  Spec => []NothingLeftOver
<1>1. \A e \in DOMAIN Table : Sound(e, Table[e])
  BY SoundClasses
<1>2. Spec => [](FeedsServed /\ NothingLeftOver)
  BY <1>1, SoundKeepsUp
<1> QED
  BY <1>2, PTL
=============================================================================
