-------------------------- MODULE BasicMultiClient --------------------------
(***************************************************************************)
(* src/basic-multiclient.js: a client that keeps one connection, a         *)
(* BasicClient, per market.                                                *)
(*                                                                         *)
(* _clients holds a promise per market, resolved when the client of that   *)
(* market has connected for the first time and throttleMs have passed; a   *)
(* semaphore bounds how many are on their way there.  Every call waits for *)
(* the promise and goes on in a later step.  What waits for one promise    *)
(* goes on in the order it began to wait; what waits for different         *)
(* promises, in any order.                                                 *)
(*                                                                         *)
(* Of a BasicClient there is what these calls see: whether it holds a      *)
(* socket, what it has subscribed, and what it has let go of that will     *)
(* connect again: sockets whose `closed` reconnect() listens to, and       *)
(* sockets that were let go while they waited to retry.  The listeners     *)
(* that pass its events on are left out.                                   *)
(***************************************************************************)
EXTENDS Naturals, FiniteSets, Sequences

CONSTANTS
    Market,      \* the markets of the exchange, one connection each
    Type,        \* the types of feed (tickers, trades, ...)
    Capacity,    \* of the semaphore
    MaxCalls     \* bound: the calls of the user

ASSUME CapacityAssumption == Capacity \in Nat \ {0}
ASSUME MaxCallsAssumption == MaxCalls \in Nat

VARIABLES
    clients,     \* the keys of _clients, oldest first
    phase,       \* how far the promise of each market is: none, queued, connecting,
                 \* settling, ready
    created,     \* history: how many clients were made for each market
    current,     \* sem.current: the permits taken
    queue,       \* sem.queue: the markets that wait for a permit
    pending,     \* what waits for the promise of each market, oldest first
    pausing,     \* the reconnect() loops that wait between two clients
    link,        \* whether each market's client holds a socket
    reopen,      \* how many of its old sockets are closing, with the listener of reconnect()
    stray,       \* how many it has let go while they waited to retry: their timers go on
    subs,        \* the types each market's client has subscribed
    missed,      \* history: the clients that had some of these when a close last came
    thrown,      \* the clients whose "connected" handler threw: the process is down
    wanted,      \* history: the types last asked for, per market
    last,        \* history: the last call of the user
    calls        \* history: how many calls there were

sem == <<phase, created, current, queue>>
left == <<reopen, stray, missed, thrown>>
client == <<link, subs, left>>
history == <<wanted, last, calls>>
vars == <<clients, sem, pending, pausing, client, history>>

Init ==
    /\ clients = <<>>
    /\ phase = [m \in Market |-> "none"]
    /\ created = [m \in Market |-> 0]
    /\ current = 0
    /\ queue = <<>>
    /\ pending = [m \in Market |-> <<>>]
    /\ pausing = {}
    /\ link = [m \in Market |-> FALSE]
    /\ reopen = [m \in Market |-> 0]
    /\ stray = [m \in Market |-> 0]
    /\ missed = {}
    /\ thrown = {}
    /\ subs = [m \in Market |-> {}]
    /\ wanted = [m \in Market |-> {}]
    /\ last = "none"
    /\ calls = 0

Known == {clients[i] : i \in 1 .. Len(clients)}

Call(name) ==
    /\ calls < MaxCalls
    /\ calls' = calls + 1
    /\ last' = name

Post(m, op) == pending' = [pending EXCEPT ![m] = Append(@, op)]

\* _createBasicClientThrottled: with a permit, the client is made and connects.
Create(m) ==
    /\ created' = [created EXCEPT ![m] = @ + 1]
    /\ \/ /\ current < Capacity
          /\ current' = current + 1
          /\ phase' = [phase EXCEPT ![m] = "connecting"]
          /\ link' = [link EXCEPT ![m] = TRUE]
          /\ UNCHANGED queue
       \/ /\ current >= Capacity
          /\ queue' = Append(queue, m)
          /\ phase' = [phase EXCEPT ![m] = "queued"]
          /\ UNCHANGED <<current, link>>

\* Mutant: _clients holds the client, not the promise of it.
SubscribeStoresLate(m, t) ==
    /\ Call("subscribe")
    /\ wanted' = [wanted EXCEPT ![m] = @ \cup {t}]
    /\ \/ phase[m] # "ready" /\ Create(m)
       \/ phase[m] = "ready" /\ UNCHANGED <<sem, link>>
    /\ clients' = IF m \in Known THEN clients ELSE Append(clients, m)
    /\ Post(m, [do |-> "subscribe", type |-> t])
    /\ UNCHANGED <<pausing, subs, left>>

\* The subscribe calls, up to where _subscribe waits.
Subscribe(m, t) ==
    /\ Call("subscribe")
    /\ wanted' = [wanted EXCEPT ![m] = @ \cup {t}]
    /\ \/ m \notin Known /\ Create(m) /\ clients' = Append(clients, m)
       \/ m \in Known /\ UNCHANGED <<clients, sem, link>>
    /\ Post(m, [do |-> "subscribe", type |-> t])
    /\ UNCHANGED <<pausing, subs, left>>

\* Mutant: the call does not wait for the promise.
UnsubscribeAtOnce(m, t) ==
    /\ Call("unsubscribe")
    /\ wanted' = [wanted EXCEPT ![m] = @ \ {t}]
    /\ subs' = [subs EXCEPT ![m] = @ \ {t}]
    /\ UNCHANGED <<clients, sem, pending, pausing, link, left>>

\* The unsubscribe calls, up to where they wait; without a client they do nothing.
Unsubscribe(m, t) ==
    /\ Call("unsubscribe")
    /\ wanted' = [wanted EXCEPT ![m] = @ \ {t}]
    /\ \/ m \in Known /\ Post(m, [do |-> "unsubscribe", type |-> t])
       \/ m \notin Known /\ UNCHANGED pending
    /\ UNCHANGED <<clients, sem, pausing, client>>

\* A loop over _clients comes to its i-th client and waits for it, or ends.
Visit(name, loop, i) ==
    \/ i <= Len(clients) /\ Post(clients[i], [do |-> name, loop |-> loop, at |-> i])
    \/ i > Len(clients) /\ UNCHANGED pending

\* close() and reconnect(), up to where they wait for the first client.
StartLoop(name) ==
    /\ Call(name)
    /\ Visit(name, calls, 1)
    /\ UNCHANGED <<clients, sem, pausing, client, wanted>>

\* The client connects for the first time: clearSem is called.
FirstConnected(m) ==
    /\ phase[m] = "connecting"
    /\ phase' = [phase EXCEPT ![m] = "settling"]
    /\ UNCHANGED <<clients, created, current, queue, pending, pausing, client, history>>

\* Mutant: the permit goes to nobody.
SettledOnly(m) ==
    /\ phase[m] = "settling"
    /\ current' = current - 1
    /\ phase' = [phase EXCEPT ![m] = "ready"]
    /\ UNCHANGED <<clients, created, queue, pending, pausing, client, history>>

\* clearSem, after throttleMs: the permit goes to the next in the queue, whose client is
\* made and connects, and the promise is resolved.
Settled(m) ==
    /\ phase[m] = "settling"
    /\ \/ /\ queue = <<>>
          /\ current' = current - 1
          /\ phase' = [phase EXCEPT ![m] = "ready"]
          /\ UNCHANGED <<queue, link>>
       \/ /\ queue # <<>>
          /\ queue' = Tail(queue)
          /\ phase' = [phase EXCEPT ![m] = "ready", ![Head(queue)] = "connecting"]
          /\ link' = [link EXCEPT ![Head(queue)] = TRUE]
          /\ UNCHANGED current
    /\ UNCHANGED <<clients, created, pending, pausing, subs, left, history>>

\* client.subscribe...(): it connects; what it subscribes is forwarded.
GoSubscribe(m, t) ==
    /\ link' = [link EXCEPT ![m] = TRUE]
    /\ subs' = [subs EXCEPT ![m] = @ \cup {t}]
    /\ pending' = [pending EXCEPT ![m] = Tail(@)]
    /\ UNCHANGED <<left, pausing>>

\* client.unsubscribe...(): it forgets the subscription, and throws after that if it has
\* no socket.
GoUnsubscribe(m, t) ==
    /\ subs' = [subs EXCEPT ![m] = @ \ {t}]
    /\ pending' = [pending EXCEPT ![m] = Tail(@)]
    /\ UNCHANGED <<link, left, pausing>>

\* Mutant: the loop ends with its first client.
GoCloseFirst(m, op) ==
    /\ link' = [link EXCEPT ![m] = FALSE]
    /\ pending' = [pending EXCEPT ![m] = Tail(@)]
    /\ UNCHANGED <<subs, left, pausing>>

\* The client drops its socket while that waits to retry.
LetGo(m) == link[m] /\ stray' = [stray EXCEPT ![m] = @ + 1]

\* client.close(), and on to the next client.  It cancels neither a timer nor a
\* reconnection that is under way.
GoClose(m, op) ==
    /\ link' = [link EXCEPT ![m] = FALSE]
    /\ LetGo(m) \/ UNCHANGED stray
    /\ missed' = IF reopen[m] + stray'[m] > 0 THEN missed \cup {m} ELSE missed \ {m}
    /\ LET rest == [pending EXCEPT ![m] = Tail(@)]
       IN  pending' = IF op.at = Len(clients) THEN rest
                      ELSE [rest EXCEPT ![clients[op.at + 1]] =
                                Append(@, [op EXCEPT !.at = @ + 1])]
    /\ UNCHANGED <<reopen, subs, thrown, pausing>>

\* client.reconnect(): without a socket it connects.  With one, it drops it and connects
\* when that is closed; one that waits to retry will not say so.
GoReconnect(m, op) ==
    /\ link' = [link EXCEPT ![m] = ~@]
    /\ \/ ~link[m] /\ UNCHANGED <<reopen, stray>>
       \/ link[m] /\ reopen' = [reopen EXCEPT ![m] = @ + 1] /\ UNCHANGED stray
       \/ LetGo(m) /\ UNCHANGED reopen
    /\ pausing' = pausing \cup {op}
    /\ pending' = [pending EXCEPT ![m] = Tail(@)]
    /\ UNCHANGED <<subs, missed, thrown>>

\* What has waited longest for a promise goes on, once that is resolved.
Resume(m) ==
    /\ phase[m] = "ready"
    /\ pending[m] # <<>>
    /\ LET op == Head(pending[m]) IN
       \/ op.do = "subscribe" /\ GoSubscribe(m, op.type)
       \/ op.do = "unsubscribe" /\ GoUnsubscribe(m, op.type)
       \/ op.do = "close" /\ GoClose(m, op)
       \/ op.do = "reconnect" /\ GoReconnect(m, op)
    /\ UNCHANGED <<clients, sem, history>>

\* reconnect(), after throttleMs: on to the next client.
ReconnectGoesOn(op) ==
    /\ op \in pausing
    /\ pausing' = pausing \ {op}
    /\ Visit("reconnect", op.loop, op.at + 1)
    /\ UNCHANGED <<clients, sem, client, history>>

\* The watcher of a connected client finds it silent: client.reconnect().
WatcherReconnects(m) ==
    /\ phase[m] = "ready" /\ link[m]
    /\ link' = [link EXCEPT ![m] = FALSE]
    /\ reopen' = [reopen EXCEPT ![m] = @ + 1]
    /\ UNCHANGED <<clients, sem, pending, pausing, subs, stray, missed, thrown, history>>

\* The old socket of a client that reconnects is closed: _connect().
OldSocketClosed(m) ==
    /\ reopen[m] > 0
    /\ reopen' = [reopen EXCEPT ![m] = @ - 1]
    /\ link' = [link EXCEPT ![m] = TRUE]
    /\ UNCHANGED <<clients, sem, pending, pausing, subs, stray, missed, thrown, history>>

\* A socket that was let go connects after its timer: _onConnected throws if the client
\* has no socket to ask for its subscriptions on; with nothing to ask for it starts the
\* watcher, which makes the client connect.
StrayConnects(m) ==
    /\ stray[m] > 0
    /\ stray' = [stray EXCEPT ![m] = @ - 1]
    /\ link' = [link EXCEPT ![m] = @ \/ subs[m] = {}]
    /\ thrown' = IF link'[m] THEN thrown ELSE thrown \cup {m}
    /\ UNCHANGED <<clients, sem, pending, pausing, subs, reopen, missed, history>>

Step(m) ==
    \/ FirstConnected(m) \/ Settled(m)
    \/ WatcherReconnects(m) \/ OldSocketClosed(m) \/ StrayConnects(m)

Steps == (\E m \in Market : Step(m)) \/ \E op \in pausing : ReconnectGoesOn(op)

SubscribeOrNot == \E m \in Market, t \in Type : Subscribe(m, t) \/ Unsubscribe(m, t)

\* The loop of reconnect() is under way: it would go on after a close() and connect again
\* what that has closed.
Reconnecting ==
    \/ pausing # {}
    \/ \E m \in Market : \E i \in 1 .. Len(pending[m]) : pending[m][i].do = "reconnect"

\* The process is not down.
Up == thrown = {}

\* The user may do anything but close before a reconnect() is through.
Next ==
    /\ Up
    /\ \/ Steps
       \/ \E m \in Market : Resume(m)
       \/ SubscribeOrNot
       \/ StartLoop("reconnect")
       \/ ~Reconnecting /\ StartLoop("close")

Spec == Init /\ [][Next]_vars

\* As long as the process is up, every market's client connects in the end, timers fire,
\* and promises that are resolved wake those who wait.
LiveSpec ==
    /\ Spec
    /\ \A m \in Market :
          /\ WF_vars(Up /\ FirstConnected(m))
          /\ WF_vars(Up /\ Settled(m))
          /\ WF_vars(Up /\ Resume(m))
    /\ WF_vars(Up /\ \E op \in pausing : ReconnectGoesOn(op))

----------------------------------------------------------------------------
\* "Otherwise we will stack up duplicates" (basic-multiclient.js:133): however many calls
\* come before a market's client is ready, there is one.
OneClientEach == \A m \in Market : created[m] <= 1

\* When nothing waits for a market's client any more, it has subscribed what the user
\* asked for last, in whatever order the promises were resolved
\* (basic-multiclient.js:42-100, 124-190).
LastCallWins == \A m \in Market : pending[m] = <<>> => subs[m] = wanted[m]

\* All that was asked for has been done.
Quiet ==
    /\ pausing = {}
    /\ \A m \in Market : pending[m] = <<>> /\ reopen[m] = 0 /\ stray[m] = 0

\* After close() and no other call, no client holds a socket once all is done
\* (basic-multiclient.js:29-33): the loop reaches the clients that were still to be made.
\* The only ones it misses are those that it finds with an old socket still closing for
\* a reconnection, or waiting to retry, which basic-client.js:39-58 does not cancel.
AllClosed == last = "close" /\ Quiet => \A m \in Market : link[m] => m \in missed

\* Every call is carried out, although clients wait for permits that others hold
\* (basic-multiclient.js:102-122), unless the process goes down before.
AllServed == \A m \in Market : pending[m] # <<>> ~> pending[m] = <<>> \/ ~Up
=============================================================================
