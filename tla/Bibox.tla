------------------------------- MODULE Bibox -------------------------------
(***************************************************************************)
(* src/exchanges/bibox-client.js: a pool of clients with up to             *)
(* subsPerClient feeds each.  A subscription goes through a throttle and   *)
(* is then given to a client; which one it was stays in a map for good.    *)
(*                                                                         *)
(* Of each BasicClient one socket is kept.  A socket that its client lets  *)
(* go of while it waits to retry connects later, and takes the process     *)
(* down if the client has no other by then, see Feeds.tla; what is said    *)
(* here is of a process that stays up.                                     *)
(***************************************************************************)
EXTENDS Naturals, Sequences, FiniteSets, SequencesExt

CONSTANTS
    Feed,         \* the keys of _subClients: market and type
    Client,       \* bound: the clients that are made, at most one for each feed
    PerClient,    \* subsPerClient
    MaxCount,     \* bound: subCount, which every connection adds to
    NoClient      \* undefined

BiboxAssumption ==
    /\ PerClient \in Nat \ {0} /\ MaxCount \in Nat
    /\ IsFiniteSet(Feed)
    /\ NoClient \notin Client

VARIABLES
    queue, armed, \* the throttle of _subscribe: the calls, and its timer
    owner,        \* _subClients
    list,         \* _clients
    subs,         \* of each client: its subscription maps
    conn,         \* none, closing, opening, open, retrying
    count,        \* subCount
    remote,       \* what the server sends
    unchecked     \* history: clients given a feed while subCount did not cover what
                  \* they have, or by the map although it was at the limit

vars == <<queue, armed, owner, list, subs, conn, count, remote, unchecked>>

Init ==
    /\ queue = <<>> /\ armed = FALSE
    /\ owner = [k \in Feed |-> NoClient]
    /\ list = <<>>
    /\ subs = [c \in Client |-> {}] /\ remote = subs
    /\ conn = [c \in Client |-> "none"]
    /\ count = [c \in Client |-> 0]
    /\ unchecked = {}

HasSocket(c) == conn[c] \in {"opening", "open", "retrying"}
Unused == {c \in Client : \A k \in Feed : owner[k] # c}

\* Bound: a connection ends while subCount has room for what the next one adds.
HasRoom(c) == count[c] + Cardinality(Feed) <= MaxCount

----------------------------------------------------------------------------
\* Mutant: one more than the limit.
FirstFreeByOne == SelectInSeq(list, LAMBDA c : count[c] <= PerClient)

\* The first client of the list with less than subsPerClient feeds, 0 if there is none.
FirstFree == SelectInSeq(list, LAMBDA c : count[c] < PerClient)

\* subscribeX of client c: connect if need be, and send if connected.
Give(k, c) ==
    /\ owner' = [owner EXCEPT ![k] = c]
    /\ subs' = [subs EXCEPT ![c] = @ \cup {k}]
    /\ conn' = [conn EXCEPT ![c] = IF HasSocket(c) THEN @ ELSE "opening"]
    /\ IF conn[c] = "open" /\ k \notin subs[c]
       THEN /\ count' = [count EXCEPT ![c] = @ + 1]
            /\ remote' = [remote EXCEPT ![c] = @ \cup {k}]
       ELSE UNCHANGED <<count, remote>>
    /\ unchecked' = IF \/ count[c] < Cardinality(subs[c])
                       \/ owner[k] = c /\ count[c] >= PerClient
                    THEN unchecked \cup {c} ELSE unchecked

\* _subscribe, when the throttle calls it.
Assign(k) ==
    \/ /\ owner[k] # NoClient
       /\ Give(k, owner[k]) /\ UNCHANGED list
    \/ /\ owner[k] = NoClient /\ FirstFree # 0
       /\ Give(k, list[FirstFree]) /\ UNCHANGED list
    \/ /\ owner[k] = NoClient /\ FirstFree = 0
       /\ Unused # {}
       /\ LET c == CHOOSE c \in Unused : TRUE IN Give(k, c) /\ list' = Append(list, c)

\* subscribeTicker and the like: the first call is made at once.
Subscribe(k) ==
    /\ ~ \E i \in DOMAIN queue : queue[i] = k
    /\ \/ ~armed /\ Assign(k) /\ armed' = TRUE /\ UNCHANGED queue
       \/ /\ armed
          /\ queue' = Append(queue, k)
          /\ UNCHANGED <<armed, owner, list, subs, conn, count, remote, unchecked>>

\* Mutant: the timer is not armed again.
FireOnce ==
    /\ armed /\ armed' = FALSE
    /\ \/ queue # <<>> /\ Assign(Head(queue)) /\ queue' = Tail(queue)
       \/ queue = <<>> /\ UNCHANGED <<queue, owner, list, subs, conn, count, remote, unchecked>>

\* The timer of the throttle.
Fire ==
    /\ armed
    /\ \/ queue # <<>> /\ Assign(Head(queue)) /\ queue' = Tail(queue) /\ UNCHANGED armed
       \/ /\ queue = <<>> /\ armed' = FALSE
          /\ UNCHANGED <<queue, owner, list, subs, conn, count, remote, unchecked>>

\* client.close(); a listener of a reconnection is not taken away.
Closed(cs) ==
    /\ conn' = [c \in Client |-> IF c \in cs /\ HasSocket(c) THEN "none" ELSE conn[c]]
    /\ remote' = [c \in Client |-> IF c \in cs THEN {} ELSE remote[c]]

\* splice(indexOf(client), 1): a client that is not in the list takes the last one's place.
Spliced(c) ==
    LET i == SelectInSeq(list, LAMBDA d : d = c)
    IN  IF i # 0 THEN RemoveAt(list, i) ELSE IF list = <<>> THEN list ELSE Front(list)

\* _unsubscribe, not throttled: a call that still waits in the throttle is not known yet.
Unsubscribe(k) ==
    /\ owner[k] # NoClient
    /\ LET c == owner[k]
           sent == conn[c] = "open" /\ k \in subs[c]
           left == IF sent THEN count[c] - 1 ELSE count[c]
       IN  /\ subs' = [subs EXCEPT ![c] = @ \ {k}]
           /\ count' = [count EXCEPT ![c] = left]
           /\ \/ \* without a socket the client throws
                 /\ k \in subs[c] /\ ~HasSocket(c)
                 /\ UNCHANGED <<list, conn, remote>>
              \/ /\ (k \in subs[c] => HasSocket(c)) /\ left = 0
                 /\ Closed({c}) /\ list' = Spliced(c)
              \/ /\ (k \in subs[c] => HasSocket(c)) /\ left # 0
                 /\ remote' = [remote EXCEPT ![c] = @ \ {k}]
                 /\ UNCHANGED <<list, conn>>
    /\ UNCHANGED <<queue, armed, owner, unchecked>>

\* close()
Close ==
    /\ \A c \in Client : HasRoom(c)
    /\ queue' = <<>> /\ armed' = FALSE
    /\ Closed({list[i] : i \in DOMAIN list})
    /\ UNCHANGED <<owner, list, subs, count, unchecked>>

\* reconnect() of a client: a step of the loop of reconnect(), between two of which the
\* list may change, or its watcher, whether it is in the list or was spliced out of it.
Reconnect(c) ==
    /\ conn[c] = "open" \/ \E i \in DOMAIN list : list[i] = c
    /\ HasRoom(c)
    /\ conn' = [conn EXCEPT ![c] = CASE @ \in {"opening", "open"} -> "closing"
                                     [] @ = "retrying"            -> "none"
                                     [] OTHER                     -> "opening"]
    /\ remote' = [remote EXCEPT ![c] = {}]
    /\ UNCHANGED <<queue, armed, owner, list, subs, count, unchecked>>

----------------------------------------------------------------------------
\* _onConnected: every feed is sent, and counted, again.
Opened(c) ==
    /\ conn[c] = "opening"
    /\ conn' = [conn EXCEPT ![c] = "open"]
    /\ count' = [count EXCEPT ![c] = @ + Cardinality(subs[c])]
    /\ remote' = [remote EXCEPT ![c] = subs[c]]
    /\ UNCHANGED <<queue, armed, owner, list, subs, unchecked>>

Lost(c) ==
    /\ conn[c] \in {"opening", "open"} /\ HasRoom(c)
    /\ conn' = [conn EXCEPT ![c] = "retrying"]
    /\ remote' = [remote EXCEPT ![c] = {}]
    /\ UNCHANGED <<queue, armed, owner, list, subs, count, unchecked>>

\* The wait of the socket ends, or the listener of a reconnection runs.
Connects(c) ==
    /\ conn[c] \in {"retrying", "closing"}
    /\ conn' = [conn EXCEPT ![c] = "opening"]
    /\ UNCHANGED <<queue, armed, owner, list, subs, count, remote, unchecked>>

\* _onMessage: the feeds whose messages find their market in a map of the client.
Emitted == UNION {remote[c] \cap subs[c] : c \in Client}

Next ==
    \/ \E k \in Feed : Subscribe(k) \/ Unsubscribe(k)
    \/ Fire \/ Close
    \/ \E c \in Client : Reconnect(c) \/ Opened(c) \/ Lost(c) \/ Connects(c)

\* Timers fire, and a server that is tried again and again answers in the end.
Fairness ==
    /\ WF_vars(Fire)
    /\ \A c \in Client : WF_vars(Connects(c)) /\ SF_vars(Opened(c))

Spec == Init /\ [][Next]_vars /\ Fairness

----------------------------------------------------------------------------
\* "A single socket is only allowed to work for 20 markets" (bibox-client.js:209-210): a
\* client carries more than subsPerClient only if it was given feeds that subCount did not
\* show, whatever losses and reconnections count twice.
WithinLimit == \A c \in Client : Cardinality(remote[c]) <= PerClient \/ c \in unchecked

\* A call leaves the throttle, and a feed in a client that has a socket is carried in the
\* end and its messages are emitted, unless it is given up (bibox-client.js:50, 100-163).
Served == \A k \in Feed :
    LET queued == \E i \in DOMAIN queue : queue[i] = k
        given == \E c \in Client : k \in subs[c] /\ (HasSocket(c) \/ conn[c] = "closing")
    IN  (queued ~> ~queued) /\ (given ~> (k \in Emitted \/ ~given))
=============================================================================
