----------------------- MODULE BasicMultiClientProofs -----------------------
(***************************************************************************)
(* A client per market is made once, ends up with the subscriptions that   *)
(* were asked for last, and is closed by the last close(), for any number  *)
(* of markets, of feed types, of permits and of calls.                     *)
(***************************************************************************)
EXTENDS BasicMultiClient, SequenceTheorems, TLAPS

\* What may wait for a promise.
Op == [do : {"subscribe", "unsubscribe"}, type : Type]
      \cup [do : {"close", "reconnect"}, loop : Nat, at : Nat \ {0}]

\* What the clients have let go of.
LeftTypes ==
    /\ reopen \in [Market -> Nat]
    /\ stray \in [Market -> Nat]
    /\ missed \subseteq Market
    /\ thrown \subseteq Market

Types ==
    /\ clients \in Seq(Market)
    /\ phase \in [Market -> {"none", "queued", "connecting", "settling", "ready"}]
    /\ created \in [Market -> Nat]
    /\ queue \in Seq(Market)
    /\ pending \in [Market -> Seq(Op)]
    /\ pausing \in SUBSET Op
    /\ link \in [Market -> BOOLEAN]
    /\ LeftTypes
    /\ subs \in [Market -> SUBSET Type]
    /\ wanted \in [Market -> SUBSET Type]
    /\ calls \in Nat

\* A loop over _clients has not left it.
LoopsInside ==
    /\ \A m \in Market : \A i \in 1 .. Len(pending[m]) :
          pending[m][i].do \in {"close", "reconnect"} => pending[m][i].at <= Len(clients)
    /\ \A op \in pausing : op.do = "reconnect" /\ op.at <= Len(clients)

----------------------------------------------------------------------------
\* The steps of the client, with the whole of Next taken apart.
LEMMA Cases ==
    ASSUME [Next]_vars
    PROVE  \/ \E m \in Market, t \in Type : Subscribe(m, t) \/ Unsubscribe(m, t)
           \/ StartLoop("reconnect")
           \/ ~Reconnecting /\ StartLoop("close")
           \/ \E m \in Market : FirstConnected(m) \/ Settled(m)
           \/ \E m \in Market : WatcherReconnects(m) \/ OldSocketClosed(m) \/ StrayConnects(m)
           \/ \E m \in Market : Resume(m)
           \/ \E op \in pausing : ReconnectGoesOn(op)
           \/ UNCHANGED vars
BY DEF Next, Steps, Step, SubscribeOrNot

\* What waits after one more has come.
LEMMA Posted ==
    ASSUME NEW m \in Market, NEW op \in Op, pending \in [Market -> Seq(Op)], Post(m, op)
    PROVE  /\ pending' \in [Market -> Seq(Op)]
           /\ pending'[m] = Append(pending[m], op)
           /\ \A n \in Market \ {m} : pending'[n] = pending[n]
BY DEF Post

LEMMA VisitTypes ==
    ASSUME NEW name \in {"close", "reconnect"}, NEW loop \in Nat, NEW i \in Nat \ {0},
           pending \in [Market -> Seq(Op)], clients \in Seq(Market), Visit(name, loop, i)
    PROVE  /\ pending' \in [Market -> Seq(Op)]
           /\ \/ UNCHANGED pending
              \/ /\ i <= Len(clients)
                 /\ clients[i] \in Market
                 /\ [do |-> name, loop |-> loop, at |-> i] \in Op
                 /\ pending'[clients[i]] =
                       Append(pending[clients[i]], [do |-> name, loop |-> loop, at |-> i])
                 /\ \A n \in Market \ {clients[i]} : pending'[n] = pending[n]
<1>1. CASE i > Len(clients)
  BY <1>1 DEF Visit
<1>2. CASE i <= Len(clients) /\ Post(clients[i], [do |-> name, loop |-> loop, at |-> i])
  <2>1. clients[i] \in Market
    BY <1>2
  <2>2. [do |-> name, loop |-> loop, at |-> i] \in Op
    BY DEF Op
  <2> QED
    BY <1>2, <2>1, <2>2, Posted
<1> QED
  BY <1>1, <1>2 DEF Visit

\* What waits, after the head of m's queue has gone on.
Shorter(m) == [pending EXCEPT ![m] = Tail(@)]

LEMMA ShorterTypes ==
    ASSUME NEW m \in Market, pending \in [Market -> Seq(Op)], pending[m] # <<>>
    PROVE  /\ Head(pending[m]) \in Op
           /\ Shorter(m) \in [Market -> Seq(Op)]
           /\ Shorter(m)[m] = Tail(pending[m])
           /\ Len(Tail(pending[m])) = Len(pending[m]) - 1
           /\ \A i \in 1 .. Len(Tail(pending[m])) : Tail(pending[m])[i] = pending[m][i + 1]
           /\ \A n \in Market \ {m} : Shorter(m)[n] = pending[n]
BY DEF Shorter

LEMMA CloseTypes ==
    ASSUME Types, LoopsInside, NEW m \in Market, pending[m] # <<>>,
           NEW op, op = Head(pending[m]), op.do = "close", GoClose(m, op)
    PROVE  /\ op \in Op /\ op.at \in Nat \ {0} /\ op.loop \in Nat
           /\ op.at <= Len(clients)
           /\ pending' \in [Market -> Seq(Op)]
           /\ \/ op.at = Len(clients) /\ pending' = Shorter(m)
              \/ /\ op.at < Len(clients) /\ clients[op.at + 1] \in Market
                 /\ [op EXCEPT !.at = @ + 1] \in Op
                 /\ [op EXCEPT !.at = @ + 1].do = "close"
                 /\ [op EXCEPT !.at = @ + 1].at = op.at + 1
                 /\ pending'[clients[op.at + 1]] =
                        Append(Shorter(m)[clients[op.at + 1]], [op EXCEPT !.at = @ + 1])
                 /\ \A n \in Market \ {clients[op.at + 1]} : pending'[n] = Shorter(m)[n]
<1>1. op \in Op /\ Shorter(m) \in [Market -> Seq(Op)]
  BY ShorterTypes DEF Types
<1>2. op \in [do : {"close"}, loop : Nat, at : Nat \ {0}]
  BY <1>1 DEF Op
<1>3. op.at \in Nat \ {0} /\ op.loop \in Nat
  BY <1>2
<1>4. op.at <= Len(clients)
  <2>1. op = pending[m][1] /\ 1 \in 1 .. Len(pending[m])
    BY DEF Types
  <2> QED
    BY <2>1 DEF LoopsInside
<1>5. CASE op.at = Len(clients)
  BY <1>1, <1>3, <1>4, <1>5 DEF GoClose, Shorter
<1>6. CASE op.at # Len(clients)
  <2>1. op.at < Len(clients) /\ clients[op.at + 1] \in Market
    <3>1. clients \in Seq(Market) /\ Len(clients) \in Nat
      BY DEF Types
    <3> QED
      BY <1>3, <1>4, <1>6, <3>1
  <2>2. [op EXCEPT !.at = @ + 1] \in [do : {"close"}, loop : Nat, at : Nat \ {0}]
    BY <1>2
  <2>3. /\ [op EXCEPT !.at = @ + 1] \in Op /\ [op EXCEPT !.at = @ + 1].do = "close"
        /\ [op EXCEPT !.at = @ + 1].at = op.at + 1
    BY <1>2, <2>2 DEF Op
  <2>4. pending' = [Shorter(m) EXCEPT ![clients[op.at + 1]] =
                        Append(@, [op EXCEPT !.at = @ + 1])]
    BY <1>6 DEF GoClose, Shorter
  <2> DEFINE next == [op EXCEPT !.at = @ + 1]
             n == clients[op.at + 1]
  <2>5. pending' = [Shorter(m) EXCEPT ![n] = Append(Shorter(m)[n], next)]
    BY <2>4
  <2>6. next \in Op /\ n \in Market
    BY <2>1, <2>3
  <2> HIDE DEF next, n
  <2>7. /\ pending' \in [Market -> Seq(Op)]
        /\ pending'[n] = Append(Shorter(m)[n], next)
        /\ \A k \in Market \ {n} : pending'[k] = Shorter(m)[k]
    BY <1>1, <2>5, <2>6
  <2> QED
    BY <1>1, <1>3, <1>4, <2>1, <2>3, <2>7 DEF next, n
<1> QED
  BY <1>5, <1>6

\* A step of the head of m's queue, whatever it is.
LEMMA GoCases ==
    ASSUME Types, NEW m \in Market, Resume(m)
    PROVE  /\ phase[m] = "ready" /\ pending[m] # <<>> /\ Head(pending[m]) \in Op
           /\ UNCHANGED <<clients, phase, created, current, queue, wanted, last, calls>>
           /\ \/ Head(pending[m]).do = "subscribe" /\ Head(pending[m]).type \in Type
                 /\ GoSubscribe(m, Head(pending[m]).type)
              \/ Head(pending[m]).do = "unsubscribe" /\ Head(pending[m]).type \in Type
                 /\ GoUnsubscribe(m, Head(pending[m]).type)
              \/ Head(pending[m]).do = "close" /\ GoClose(m, Head(pending[m]))
              \/ Head(pending[m]).do = "reconnect" /\ GoReconnect(m, Head(pending[m]))
<1>1. phase[m] = "ready" /\ pending[m] # <<>> /\ Head(pending[m]) \in Op
  BY ShorterTypes DEF Types, Resume
<1>2. Head(pending[m]).do \in {"subscribe", "unsubscribe"} => Head(pending[m]).type \in Type
  BY <1>1 DEF Op
<1> QED
  BY <1>1, <1>2 DEF Resume, sem, history

\* What Subscribe does to the promises.
LEMMA SubscribeEffect ==
    ASSUME Types, NEW m \in Market, NEW t \in Type, Subscribe(m, t)
    PROVE  /\ clients' \in Seq(Market) /\ queue' \in Seq(Market)
           /\ phase' \in [Market -> {"none", "queued", "connecting", "settling", "ready"}]
           /\ link' \in [Market -> BOOLEAN] /\ created' \in [Market -> Nat]
           /\ \A n \in Market \ {m} :
                 phase'[n] = phase[n] /\ link'[n] = link[n] /\ created'[n] = created[n]
           /\ \/ m \in Known /\ UNCHANGED <<clients, phase, created, queue, link>>
              \/ /\ m \notin Known
                 /\ clients' = Append(clients, m)
                 /\ created'[m] = created[m] + 1
                 /\ \/ queue' = queue
                    \/ queue' = Append(queue, m) /\ phase'[m] = "queued"
<1>1. CASE m \in Known
  BY <1>1 DEF Subscribe, Types, sem
<1>2. CASE m \notin Known
  <2>1. clients' = Append(clients, m) /\ Create(m)
    BY <1>2 DEF Subscribe
  <2>2. clients' \in Seq(Market)
    BY <2>1 DEF Types
  <2>3. /\ created' \in [Market -> Nat] /\ created'[m] = created[m] + 1
        /\ \A n \in Market \ {m} : created'[n] = created[n]
    BY <2>1 DEF Create, Types
  <2>4. CASE /\ phase' = [phase EXCEPT ![m] = "connecting"]
             /\ link' = [link EXCEPT ![m] = TRUE] /\ UNCHANGED queue
    BY <1>2, <2>1, <2>2, <2>3, <2>4 DEF Types
  <2>5. CASE /\ queue' = Append(queue, m) /\ phase' = [phase EXCEPT ![m] = "queued"]
             /\ UNCHANGED link
    <3>1. queue' \in Seq(Market)
      BY <2>5 DEF Types
    <3> QED
      BY <1>2, <2>1, <2>2, <2>3, <2>5, <3>1 DEF Types
  <2> QED
    BY <2>1, <2>4, <2>5 DEF Create
<1> QED
  BY <1>1, <1>2

\* What Settled does to the promises.
LEMMA SettledEffect ==
    ASSUME Types, NEW m \in Market, Settled(m)
    PROVE  /\ queue' \in Seq(Market)
           /\ phase' \in [Market -> {"none", "queued", "connecting", "settling", "ready"}]
           /\ link' \in [Market -> BOOLEAN]
           /\ phase[m] = "settling"
           /\ \/ /\ queue = <<>> /\ queue' = queue /\ link' = link
                 /\ phase' = [phase EXCEPT ![m] = "ready"]
              \/ /\ queue # <<>> /\ queue' = Tail(queue) /\ Head(queue) \in Market
                 /\ link' = [link EXCEPT ![Head(queue)] = TRUE]
                 /\ phase' = [phase EXCEPT ![m] = "ready", ![Head(queue)] = "connecting"]
<1>1. CASE queue = <<>>
  BY <1>1 DEF Settled, Types
<1>2. CASE queue # <<>>
  <2>1. Head(queue) \in Market /\ Tail(queue) \in Seq(Market)
    BY <1>2 DEF Types
  <2>2. /\ queue' = Tail(queue)
        /\ link' = [link EXCEPT ![Head(queue)] = TRUE]
        /\ phase' = [phase EXCEPT ![m] = "ready", ![Head(queue)] = "connecting"]
        /\ phase[m] = "settling"
    BY <1>2 DEF Settled
  <2>3. phase' \in [Market -> {"none", "queued", "connecting", "settling", "ready"}]
    BY <2>1, <2>2 DEF Types
  <2>4. link' \in [Market -> BOOLEAN]
    BY <2>1, <2>2 DEF Types
  <2> QED
    BY <1>2, <2>1, <2>2, <2>3, <2>4
<1> QED
  BY <1>1, <1>2

LEMMA LeftStep == Types /\ [Next]_vars => LeftTypes'
<1> SUFFICES ASSUME Types, [Next]_vars PROVE LeftTypes'
  OBVIOUS
<1>0. LeftTypes
  BY DEF Types
<1>1. ASSUME NEW m \in Market, Resume(m) PROVE LeftTypes'
  <2>1. CASE GoClose(m, Head(pending[m]))
    <3>1. /\ UNCHANGED <<reopen, thrown>>
          /\ UNCHANGED stray \/ stray' = [stray EXCEPT ![m] = @ + 1]
          /\ missed' \in {missed \cup {m}, missed \ {m}}
      BY <2>1 DEF GoClose, LetGo
    <3> QED
      BY <1>0, <3>1 DEF LeftTypes
  <2>2. CASE GoReconnect(m, Head(pending[m]))
    <3>1. /\ UNCHANGED <<missed, thrown>>
          /\ UNCHANGED stray \/ stray' = [stray EXCEPT ![m] = @ + 1]
          /\ UNCHANGED reopen \/ reopen' = [reopen EXCEPT ![m] = @ + 1]
      BY <2>2 DEF GoReconnect, LetGo
    <3> QED
      BY <1>0, <3>1 DEF LeftTypes
  <2>3. CASE UNCHANGED left
    BY <1>0, <2>3 DEF left, LeftTypes
  <2> QED
    BY <1>1, <2>1, <2>2, <2>3, GoCases DEF GoSubscribe, GoUnsubscribe
<1>2. ASSUME NEW m \in Market, WatcherReconnects(m) \/ OldSocketClosed(m) \/ StrayConnects(m)
      PROVE  LeftTypes'
  BY <1>0, <1>2 DEF WatcherReconnects, OldSocketClosed, StrayConnects, LeftTypes
<1>3. CASE UNCHANGED left
  BY <1>0, <1>3 DEF left, LeftTypes
<1> QED
  BY <1>1, <1>2, <1>3, Cases
     DEF Subscribe, Unsubscribe, StartLoop, FirstConnected, Settled, ReconnectGoesOn, client, vars

LEMMA TypesStep == Types /\ LoopsInside /\ [Next]_vars => Types'
<1> SUFFICES ASSUME Types, LoopsInside, [Next]_vars PROVE Types'
  OBVIOUS
<1>0. LeftTypes'
  BY LeftStep
<1> USE <1>0
<1>1. ASSUME NEW m \in Market, NEW t \in Type, Subscribe(m, t) PROVE Types'
  <2>1. [do |-> "subscribe", type |-> t] \in Op
    BY DEF Op
  <2>2. pending' \in [Market -> Seq(Op)]
    BY <1>1, <2>1, Posted DEF Subscribe, Types
  <2>3. /\ clients' \in Seq(Market) /\ queue' \in Seq(Market)
        /\ phase' \in [Market -> {"none", "queued", "connecting", "settling", "ready"}]
        /\ link' \in [Market -> BOOLEAN] /\ created' \in [Market -> Nat]
    BY <1>1, SubscribeEffect
  <2>4. wanted' \in [Market -> SUBSET Type] /\ calls' \in Nat
    BY <1>1 DEF Subscribe, Call, Types
  <2> QED
    BY <1>1, <2>2, <2>3, <2>4 DEF Subscribe, Types
<1>2. ASSUME NEW m \in Market, NEW t \in Type, Unsubscribe(m, t) PROVE Types'
  <2>1. [do |-> "unsubscribe", type |-> t] \in Op
    BY DEF Op
  <2>2. pending' \in [Market -> Seq(Op)]
    BY <1>2, <2>1, Posted DEF Unsubscribe, Types
  <2>3. wanted' \in [Market -> SUBSET Type] /\ calls' \in Nat
    BY <1>2 DEF Unsubscribe, Call, Types
  <2> QED
    BY <1>2, <2>2, <2>3 DEF Unsubscribe, Types, sem, client, left
<1>3. ASSUME NEW name \in {"close", "reconnect"}, StartLoop(name) PROVE Types'
  <2>1. Visit(name, calls, 1) /\ calls \in Nat /\ 1 \in Nat \ {0}
        /\ pending \in [Market -> Seq(Op)] /\ clients \in Seq(Market)
    BY <1>3 DEF StartLoop, Types
  <2>2. pending' \in [Market -> Seq(Op)]
    BY <2>1, VisitTypes
  <2> QED
    BY <1>3, <2>2 DEF StartLoop, Call, Types, sem, client, left
<1>4. ASSUME NEW m \in Market, FirstConnected(m) PROVE Types'
  BY <1>4 DEF FirstConnected, Types, client, left, history
<1>5. ASSUME NEW m \in Market, Settled(m) PROVE Types'
  BY <1>5, SettledEffect DEF Settled, Types, history
<1>6. ASSUME NEW m \in Market, WatcherReconnects(m) \/ OldSocketClosed(m) \/ StrayConnects(m)
      PROVE  Types'
  BY <1>6 DEF WatcherReconnects, OldSocketClosed, StrayConnects, Types, sem, history
<1>7. ASSUME NEW m \in Market, Resume(m) PROVE Types'
  <2> DEFINE op == Head(pending[m])
  <2>1. /\ UNCHANGED <<clients, phase, created, queue, wanted, calls>>
        /\ pending[m] # <<>> /\ op \in Op
        /\ Shorter(m) \in [Market -> Seq(Op)]
    BY <1>7, GoCases, ShorterTypes DEF Types
  <2>2. CASE op.do = "subscribe" /\ op.type \in Type /\ GoSubscribe(m, op.type)
    BY <2>1, <2>2 DEF GoSubscribe, Shorter, Types, left
  <2>3. CASE op.do = "unsubscribe" /\ op.type \in Type /\ GoUnsubscribe(m, op.type)
    BY <2>1, <2>3 DEF GoUnsubscribe, Shorter, Types, left
  <2>4. CASE op.do = "close" /\ GoClose(m, op)
    <3>1. pending' \in [Market -> Seq(Op)]
      BY <2>1, <2>4, CloseTypes
    <3>2. UNCHANGED <<subs, pausing>> /\ link' \in [Market -> BOOLEAN]
      BY <2>4 DEF GoClose, Types
    <3> QED
      BY <2>1, <3>1, <3>2 DEF Types
  <2>5. CASE op.do = "reconnect" /\ GoReconnect(m, op)
    <3>1. pausing' \in SUBSET Op /\ UNCHANGED subs
      BY <2>1, <2>5 DEF GoReconnect, Types
    <3>2. link' \in [Market -> BOOLEAN]
      BY <2>5 DEF GoReconnect, Types
    <3> QED
      BY <2>1, <2>5, <3>1, <3>2 DEF GoReconnect, Shorter, Types
  <2> QED
    BY <1>7, <2>2, <2>3, <2>4, <2>5, GoCases
<1>8. ASSUME NEW op \in pausing, ReconnectGoesOn(op) PROVE Types'
  <2>1. op \in [do : {"reconnect"}, loop : Nat, at : Nat \ {0}]
    BY DEF Types, LoopsInside, Op
  <2>2. op.loop \in Nat /\ op.at + 1 \in Nat \ {0}
    BY <2>1
  <2>3. pending' \in [Market -> Seq(Op)]
    BY <1>8, <2>2, VisitTypes DEF ReconnectGoesOn, Types
  <2> QED
    BY <1>8, <2>3 DEF ReconnectGoesOn, Types, sem, client, left, history
<1>9. CASE UNCHANGED vars
  BY <1>9 DEF vars, Types, sem, client, left, history
<1> QED
  BY <1>1, <1>2, <1>3, <1>4, <1>5, <1>6, <1>7, <1>8, <1>9, Cases

----------------------------------------------------------------------------
\* A queue whose loops are in the first n clients.
Inside(q, n) == \A i \in 1 .. Len(q) : q[i].do \in {"close", "reconnect"} => q[i].at <= n

LEMMA InsideAppend ==
    ASSUME NEW q \in Seq(Op), NEW op \in Op, NEW n \in Nat, Inside(q, n),
           op.do \in {"close", "reconnect"} => op.at <= n
    PROVE  Inside(Append(q, op), n)
<1> SUFFICES ASSUME NEW i \in 1 .. Len(Append(q, op)),
                    Append(q, op)[i].do \in {"close", "reconnect"}
             PROVE  Append(q, op)[i].at <= n
  BY DEF Inside
<1>1. CASE i = Len(q) + 1
  <2>1. Append(q, op)[i] = op
    BY <1>1
  <2> QED
    BY <2>1
<1>2. CASE i # Len(q) + 1
  <2>1. i \in 1 .. Len(q) /\ Append(q, op)[i] = q[i]
    BY <1>2
  <2> QED
    BY <2>1 DEF Inside
<1> QED
  BY <1>1, <1>2

LEMMA InsideTail ==
    ASSUME NEW q \in Seq(Op), q # <<>>, NEW n \in Nat, Inside(q, n)
    PROVE  Inside(Tail(q), n)
BY DEF Inside

LEMMA InsideMore ==
    ASSUME NEW q \in Seq(Op), NEW n \in Nat, NEW k \in Nat, n <= k, Inside(q, n)
    PROVE  Inside(q, k)
<1> SUFFICES ASSUME NEW i \in 1 .. Len(q), q[i].do \in {"close", "reconnect"}
             PROVE  q[i].at <= k
  BY DEF Inside
<1>1. q[i] \in [do : {"close", "reconnect"}, loop : Nat, at : Nat \ {0}]
  BY DEF Op
<1>2. q[i].at <= n /\ q[i].at \in Nat
  BY <1>1 DEF Inside
<1> QED
  BY <1>2

LEMMA LoopsInsideDef ==
    LoopsInside <=> /\ \A m \in Market : Inside(pending[m], Len(clients))
                    /\ \A op \in pausing : op.do = "reconnect" /\ op.at <= Len(clients)
BY DEF LoopsInside, Inside

LEMMA LoopsStep == Types /\ LoopsInside /\ [Next]_vars => LoopsInside'
<1> SUFFICES ASSUME Types, LoopsInside, [Next]_vars PROVE LoopsInside'
  OBVIOUS
<1>0. /\ \A m \in Market : pending[m] \in Seq(Op) /\ Inside(pending[m], Len(clients))
      /\ \A op \in pausing : op.do = "reconnect" /\ op.at <= Len(clients)
      /\ Len(clients) \in Nat
  BY LoopsInsideDef DEF Types
<1> SUFFICES /\ \A m \in Market : Inside(pending'[m], Len(clients'))
             /\ \A op \in pausing' : op.do = "reconnect" /\ op.at <= Len(clients')
  BY DEF LoopsInside, Inside
<1>1. ASSUME NEW m \in Market, NEW t \in Type, Subscribe(m, t)
      PROVE  /\ \A n \in Market : Inside(pending'[n], Len(clients'))
             /\ \A op \in pausing' : op.do = "reconnect" /\ op.at <= Len(clients')
  <2> DEFINE op == [do |-> "subscribe", type |-> t]
  <2>1. op \in Op /\ op.do \notin {"close", "reconnect"} /\ UNCHANGED pausing
    BY <1>1 DEF Op, Subscribe
  <2>2. /\ pending'[m] = Append(pending[m], op)
        /\ \A n \in Market \ {m} : pending'[n] = pending[n]
    BY <1>1, <2>1, Posted DEF Subscribe, Types
  <2>3. \A n \in Market : Inside(pending'[n], Len(clients)) /\ pending'[n] \in Seq(Op)
    <3> HIDE DEF op
    <3>1. Inside(Append(pending[m], op), Len(clients)) /\ Append(pending[m], op) \in Seq(Op)
      BY <1>0, <2>1, InsideAppend
    <3> QED
      BY <1>0, <2>2, <3>1
  <2>4. Len(clients') \in Nat /\ Len(clients) <= Len(clients')
    <3>1. clients' = clients \/ clients' = Append(clients, m)
      BY <1>1 DEF Subscribe
    <3> QED
      BY <1>0, <3>1 DEF Types
  <2>5. \A n \in Market : Inside(pending'[n], Len(clients'))
    BY <1>0, <2>3, <2>4, InsideMore
  <2>6. \A x \in pausing' : x.do = "reconnect" /\ x.at <= Len(clients')
    <3> SUFFICES ASSUME NEW x \in pausing PROVE x.do = "reconnect" /\ x.at <= Len(clients')
      BY <2>1
    <3>1. x \in [do : {"reconnect"}, loop : Nat, at : Nat \ {0}]
      BY <1>0 DEF Types, Op
    <3> QED
      BY <1>0, <2>4, <3>1
  <2> QED
    BY <2>5, <2>6
<1>2. ASSUME NEW m \in Market, NEW t \in Type, Unsubscribe(m, t)
      PROVE  /\ \A n \in Market : Inside(pending'[n], Len(clients'))
             /\ \A op \in pausing' : op.do = "reconnect" /\ op.at <= Len(clients')
  <2> DEFINE op == [do |-> "unsubscribe", type |-> t]
  <2>1. op \in Op /\ op.do \notin {"close", "reconnect"} /\ UNCHANGED <<pausing, clients>>
    BY <1>2 DEF Op, Unsubscribe
  <2>2. CASE Post(m, op)
    <3>1. /\ pending'[m] = Append(pending[m], op)
          /\ \A n \in Market \ {m} : pending'[n] = pending[n]
      BY <2>1, <2>2, Posted DEF Types
    <3>2. \A n \in Market : Inside(pending'[n], Len(clients))
      BY <1>0, <2>1, <3>1, InsideAppend
    <3> QED
      BY <1>0, <2>1, <3>2
  <2>3. CASE UNCHANGED pending
    BY <1>0, <2>1, <2>3
  <2> QED
    BY <1>2, <2>2, <2>3 DEF Unsubscribe
<1>3. ASSUME NEW name \in {"close", "reconnect"}, NEW loop \in Nat, NEW i \in Nat \ {0},
             Visit(name, loop, i), UNCHANGED clients,
             \A op \in pausing' : op \in pausing
      PROVE  /\ \A n \in Market : Inside(pending'[n], Len(clients'))
             /\ \A op \in pausing' : op.do = "reconnect" /\ op.at <= Len(clients')
  <2> DEFINE op == [do |-> name, loop |-> loop, at |-> i]
  <2>1. CASE UNCHANGED pending
    BY <1>0, <1>3, <2>1
  <2>2. CASE /\ i <= Len(clients) /\ clients[i] \in Market /\ op \in Op
             /\ pending'[clients[i]] = Append(pending[clients[i]], op)
             /\ \A n \in Market \ {clients[i]} : pending'[n] = pending[n]
    <3>1. Inside(Append(pending[clients[i]], op), Len(clients))
      BY <1>0, <2>2, InsideAppend
    <3> QED
      BY <1>0, <1>3, <2>2, <3>1
  <2>3. pending \in [Market -> Seq(Op)] /\ clients \in Seq(Market)
    BY DEF Types
  <2>4. \/ UNCHANGED pending
        \/ /\ i <= Len(clients) /\ clients[i] \in Market /\ op \in Op
           /\ pending'[clients[i]] = Append(pending[clients[i]], op)
           /\ \A n \in Market \ {clients[i]} : pending'[n] = pending[n]
    BY <1>3, <2>3, VisitTypes
  <2> QED
    BY <2>1, <2>2, <2>4
<1>4. ASSUME NEW m \in Market, FirstConnected(m) \/ Settled(m) \/ WatcherReconnects(m)
                               \/ OldSocketClosed(m) \/ StrayConnects(m)
      PROVE  UNCHANGED <<clients, pending, pausing>>
  BY <1>4 DEF FirstConnected, Settled, WatcherReconnects, OldSocketClosed, StrayConnects
<1>5. ASSUME NEW m \in Market, Resume(m)
      PROVE  /\ \A n \in Market : Inside(pending'[n], Len(clients'))
             /\ \A op \in pausing' : op.do = "reconnect" /\ op.at <= Len(clients')
  <2> DEFINE op == Head(pending[m])
  <2>1. /\ UNCHANGED clients /\ pending[m] # <<>> /\ op \in Op
        /\ op.do \in {"close", "reconnect"} => op.at <= Len(clients)
    <3>1. UNCHANGED clients /\ pending[m] # <<>> /\ op \in Op
      BY <1>5, GoCases
    <3>2. op = pending[m][1] /\ 1 \in 1 .. Len(pending[m])
      BY <1>0, <3>1
    <3>3. pending[m][1].do \in {"close", "reconnect"} => pending[m][1].at <= Len(clients)
      BY <1>0, <3>2 DEF Inside
    <3> HIDE DEF op
    <3> QED
      BY <3>1, <3>2, <3>3
  <2>2. \A n \in Market : Inside(Shorter(m)[n], Len(clients)) /\ Shorter(m)[n] \in Seq(Op)
    <3>1. /\ Shorter(m) \in [Market -> Seq(Op)] /\ Shorter(m)[m] = Tail(pending[m])
          /\ \A n \in Market \ {m} : Shorter(m)[n] = pending[n]
      BY <2>1, ShorterTypes DEF Types
    <3>2. Inside(Tail(pending[m]), Len(clients))
      BY <1>0, <2>1, InsideTail DEF Types
    <3> QED
      BY <1>0, <3>1, <3>2
  <2>3. CASE op.do # "close"
    <3>1. pending' = Shorter(m)
      BY <1>5, <2>3, GoCases DEF GoSubscribe, GoUnsubscribe, GoReconnect, Shorter
    <3>2. CASE op.do = "reconnect"
      <4>1. pausing' = pausing \cup {op}
        BY <1>5, <3>2, GoCases DEF GoReconnect
      <4> QED
        BY <1>0, <2>1, <2>2, <3>1, <3>2, <4>1
    <3>3. CASE op.do # "reconnect"
      <4>1. pausing' = pausing
        BY <1>5, <2>3, <3>3, GoCases DEF GoSubscribe, GoUnsubscribe
      <4> QED
        BY <1>0, <2>1, <2>2, <3>1, <4>1
    <3> QED
      BY <3>2, <3>3
  <2>4. CASE op.do = "close"
    <3>1. GoClose(m, op) /\ UNCHANGED pausing
      BY <1>5, <2>4, GoCases DEF GoClose
    <3>2. CASE pending' = Shorter(m)
      BY <1>0, <2>1, <2>2, <3>1, <3>2
    <3> DEFINE next == [op EXCEPT !.at = @ + 1]
               k == clients[op.at + 1]
    <3>3. CASE /\ op.at < Len(clients) /\ k \in Market /\ next \in Op
               /\ next.at = op.at + 1 /\ op.at \in Nat
               /\ pending'[k] = Append(Shorter(m)[k], next)
               /\ \A n \in Market \ {k} : pending'[n] = Shorter(m)[n]
      <4> HIDE DEF next, k
      <4>1. next.at <= Len(clients)
        BY <1>0, <3>3
      <4>2. Inside(Append(Shorter(m)[k], next), Len(clients))
        BY <1>0, <2>2, <3>3, <4>1, InsideAppend
      <4> QED
        BY <1>0, <2>1, <2>2, <3>1, <3>3, <4>2
    <3> QED
      BY <2>1, <2>4, <3>1, <3>2, <3>3, CloseTypes
  <2> QED
    BY <2>3, <2>4
<1>6. ASSUME NEW op \in pausing, ReconnectGoesOn(op)
      PROVE  /\ \A n \in Market : Inside(pending'[n], Len(clients'))
             /\ \A x \in pausing' : x.do = "reconnect" /\ x.at <= Len(clients')
  <2>1. op \in [do : {"reconnect"}, loop : Nat, at : Nat \ {0}]
    BY <1>0 DEF Types, Op
  <2>2. /\ op.loop \in Nat /\ op.at + 1 \in Nat \ {0} /\ Visit("reconnect", op.loop, op.at + 1)
        /\ UNCHANGED clients /\ \A x \in pausing' : x \in pausing
    BY <1>6, <2>1 DEF ReconnectGoesOn
  <2> QED
    BY <2>2, <1>3
<1>7. ASSUME NEW name \in {"close", "reconnect"}, StartLoop(name)
      PROVE  /\ \A n \in Market : Inside(pending'[n], Len(clients'))
             /\ \A x \in pausing' : x.do = "reconnect" /\ x.at <= Len(clients')
  <2>1. calls \in Nat /\ 1 \in Nat \ {0} /\ Visit(name, calls, 1) /\ UNCHANGED <<clients, pausing>>
    BY <1>7 DEF StartLoop, Types
  <2> QED
    BY <2>1, <1>3
<1>8. CASE UNCHANGED vars
  BY <1>0, <1>8 DEF vars
<1> QED
  BY <1>0, <1>1, <1>2, <1>4, <1>5, <1>6, <1>7, <1>8, Cases

----------------------------------------------------------------------------
\* Nothing was done for a market yet.
Untouched(m) ==
    /\ created[m] = 0 /\ phase[m] = "none" /\ pending[m] = <<>>
    /\ subs[m] = {} /\ wanted[m] = {} /\ ~link[m] /\ reopen[m] = 0 /\ stray[m] = 0

\* The markets with a promise are the ones with a client.
KnownOnce == \A m \in Market : IF m \in Known THEN created[m] = 1 ELSE Untouched(m)

\* A market waits for a permit once.
QueueWaits ==
    /\ \A i \in 1 .. Len(queue) : phase[queue[i]] = "queued"
    /\ \A i, j \in 1 .. Len(queue) : queue[i] = queue[j] => i = j

LEMMA KnownGrows ==
    ASSUME NEW m \in Market, clients \in Seq(Market), clients' = Append(clients, m)
    PROVE  Known' = Known \cup {m}
<1>1. ASSUME NEW x \in Known PROVE x \in Known'
  <2>1. PICK i \in 1 .. Len(clients) : x = clients[i]
    BY DEF Known
  <2>2. i \in 1 .. Len(clients') /\ clients'[i] = x
    BY <2>1
  <2> QED
    BY <2>2 DEF Known
<1>2. m \in Known'
  <2>1. Len(clients) + 1 \in 1 .. Len(clients') /\ clients'[Len(clients) + 1] = m
    OBVIOUS
  <2> QED
    BY <2>1 DEF Known
<1>3. ASSUME NEW x \in Known' PROVE x \in Known \cup {m}
  <2>1. PICK i \in 1 .. Len(clients') : x = clients'[i]
    BY <1>3 DEF Known
  <2>2. (i \in 1 .. Len(clients) /\ clients[i] = x) \/ x = m
    BY <2>1
  <2> QED
    BY <2>2 DEF Known
<1> QED
  BY <1>1, <1>2, <1>3

\* Only markets that have a client are touched by what the user does not call.
LEMMA OthersUntouched ==
    ASSUME Types, LoopsInside, KnownOnce, QueueWaits,
           \/ \E name \in {"close", "reconnect"} : StartLoop(name)
           \/ \E m \in Market : FirstConnected(m) \/ Settled(m)
           \/ \E m \in Market : WatcherReconnects(m) \/ OldSocketClosed(m) \/ StrayConnects(m)
           \/ \E m \in Market : Resume(m)
           \/ \E op \in pausing : ReconnectGoesOn(op)
           \/ UNCHANGED vars
    PROVE  /\ UNCHANGED <<clients, created>>
           /\ \A n \in Market : n \notin Known => Untouched(n)'
<1>0. \A m \in Market : m \notin Known => Untouched(m)
  BY DEF KnownOnce
<1>1. ASSUME NEW name \in {"close", "reconnect"}, NEW loop \in Nat, NEW i \in Nat \ {0},
             Visit(name, loop, i)
      PROVE  \A n \in Market : n \notin Known => pending'[n] = pending[n]
  <2>1. pending \in [Market -> Seq(Op)] /\ clients \in Seq(Market)
    BY DEF Types
  <2>2. CASE i > Len(clients)
    BY <1>1, <2>1, <2>2 DEF Visit
  <2>3. CASE i <= Len(clients)
    <3>1. clients[i] \in Known
      <4>1. Len(clients) \in Nat
        BY <2>1
      <4>2. i \in 1 .. Len(clients)
        BY <1>1, <2>3, <4>1
      <4> QED
        BY <4>2, Zenon DEF Known
    <3>2. \/ UNCHANGED pending
          \/ \A n \in Market \ {clients[i]} : pending'[n] = pending[n]
      BY <1>1, <2>1, VisitTypes
    <3> QED
      BY <3>1, <3>2
  <2> QED
    BY <2>1, <2>2, <2>3
<1>2. ASSUME NEW name \in {"close", "reconnect"}, StartLoop(name)
      PROVE  /\ UNCHANGED <<clients, created>>
             /\ \A n \in Market : n \notin Known => Untouched(n)'
  <2>1. Visit(name, calls, 1) /\ calls \in Nat /\ 1 \in Nat \ {0}
    BY <1>2 DEF StartLoop, Types
  <2>2. \A n \in Market : n \notin Known => pending'[n] = pending[n]
    BY <2>1, <1>1
  <2> QED
    BY <1>0, <1>2, <2>2 DEF StartLoop, sem, client, left, Untouched
<1>3. ASSUME NEW m \in Market, FirstConnected(m)
      PROVE  /\ UNCHANGED <<clients, created>>
             /\ \A n \in Market : n \notin Known => Untouched(n)'
  <2>1. m \in Known
    BY <1>0, <1>3 DEF FirstConnected, Untouched
  <2> QED
    BY <1>0, <1>3, <2>1 DEF FirstConnected, client, left, history, Untouched, Types
<1>4. ASSUME NEW m \in Market, Settled(m)
      PROVE  /\ UNCHANGED <<clients, created>>
             /\ \A n \in Market : n \notin Known => Untouched(n)'
  <2>1. m \in Known
    BY <1>0, <1>4 DEF Settled, Untouched
  <2>2. UNCHANGED <<clients, created, pending, reopen, stray, subs, wanted>>
    BY <1>4 DEF Settled, left, history
  <2>3. CASE queue = <<>>
    BY <1>0, <1>4, <2>1, <2>2, <2>3 DEF Settled, Untouched, Types
  <2>4. CASE queue # <<>>
    <3>1. /\ Head(queue) = queue[1] /\ 1 \in 1 .. Len(queue) /\ Head(queue) \in Market
      BY <2>4 DEF Types
    <3>2. Head(queue) \in Known
      BY <1>0, <3>1 DEF QueueWaits, Untouched
    <3>3. \A n \in Market : n \notin Known => phase'[n] = phase[n] /\ link'[n] = link[n]
      BY <1>4, <2>1, <2>4, <3>1, <3>2 DEF Settled, Types
    <3> QED
      BY <1>0, <2>2, <3>3 DEF Untouched
  <2> QED
    BY <2>3, <2>4
<1>5. ASSUME NEW m \in Market, WatcherReconnects(m) \/ OldSocketClosed(m) \/ StrayConnects(m)
      PROVE  /\ UNCHANGED <<clients, created>>
             /\ \A n \in Market : n \notin Known => Untouched(n)'
  <2>1. m \in Known
    BY <1>0, <1>5 DEF WatcherReconnects, OldSocketClosed, StrayConnects, Untouched
  <2> QED
    BY <1>0, <1>5, <2>1
    DEF WatcherReconnects, OldSocketClosed, StrayConnects, sem, history, Untouched, Types,
        LeftTypes
<1>6. ASSUME NEW m \in Market, Resume(m)
      PROVE  /\ UNCHANGED <<clients, created>>
             /\ \A n \in Market : n \notin Known => Untouched(n)'
  <2> DEFINE op == Head(pending[m])
  <2>1. /\ m \in Known /\ UNCHANGED <<clients, phase, created, wanted>>
        /\ \A n \in Market \ {m} : Shorter(m)[n] = pending[n]
    BY <1>0, <1>6, GoCases, ShorterTypes DEF Untouched, Types
  <2>2. \A n \in Market \ {m} : /\ link'[n] = link[n] /\ reopen'[n] = reopen[n]
                                /\ stray'[n] = stray[n] /\ subs'[n] = subs[n]
    <3>1. /\ \/ UNCHANGED link \/ \E b \in BOOLEAN : link' = [link EXCEPT ![m] = b]
          /\ \/ UNCHANGED reopen \/ reopen' = [reopen EXCEPT ![m] = @ + 1]
          /\ \/ UNCHANGED stray \/ stray' = [stray EXCEPT ![m] = @ + 1]
          /\ \/ UNCHANGED subs \/ \E S \in SUBSET Type : subs' = [subs EXCEPT ![m] = S]
      <4>1. CASE GoSubscribe(m, op.type) /\ op.type \in Type
        BY <4>1 DEF GoSubscribe, Types, left
      <4>2. CASE GoUnsubscribe(m, op.type)
        BY <4>2 DEF GoUnsubscribe, Types, left
      <4>3. CASE GoClose(m, op)
        BY <4>3 DEF GoClose, LetGo, Types, LeftTypes
      <4>4. CASE GoReconnect(m, op)
        BY <4>4 DEF GoReconnect, LetGo, Types, LeftTypes
      <4> QED
        BY <1>6, <4>1, <4>2, <4>3, <4>4, GoCases
    <3> QED
      BY <3>1 DEF Types, LeftTypes
  <2>3. \A n \in Market : n \notin Known => pending'[n] = pending[n]
    <3>1. CASE op.do # "close"
      <4>1. pending' = Shorter(m)
        BY <1>6, <3>1, GoCases DEF GoSubscribe, GoUnsubscribe, GoReconnect, Shorter
      <4> QED
        BY <2>1, <4>1
    <3>2. CASE op.do = "close"
      <4>1. /\ GoClose(m, op) /\ pending[m] # <<>>
        BY <1>6, <3>2, GoCases
      <4>2. CASE pending' = Shorter(m)
        BY <2>1, <4>2
      <4>3. CASE /\ op.at < Len(clients) /\ op.at \in Nat
                 /\ \A n \in Market \ {clients[op.at + 1]} : pending'[n] = Shorter(m)[n]
        <5>0. Len(clients) \in Nat
          BY DEF Types
        <5>1. op.at + 1 \in 1 .. Len(clients)
          <6> HIDE DEF op
          <6> QED
            BY <4>3, <5>0
        <5>2. clients[op.at + 1] \in Known
          BY <5>1 DEF Known
        <5> QED
          BY <2>1, <4>3, <5>2
      <4> QED
        BY <3>2, <4>1, <4>2, <4>3, CloseTypes
    <3> QED
      BY <3>1, <3>2
  <2> QED
    BY <1>0, <2>1, <2>2, <2>3 DEF Untouched
<1>7. ASSUME NEW op \in pausing, ReconnectGoesOn(op)
      PROVE  /\ UNCHANGED <<clients, created>>
             /\ \A n \in Market : n \notin Known => Untouched(n)'
  <2>1. op \in [do : {"reconnect"}, loop : Nat, at : Nat \ {0}]
    BY DEF Types, Op, LoopsInside
  <2>2. op.loop \in Nat /\ op.at + 1 \in Nat \ {0} /\ Visit("reconnect", op.loop, op.at + 1)
    BY <1>7, <2>1 DEF ReconnectGoesOn
  <2>3. \A n \in Market : n \notin Known => pending'[n] = pending[n]
    BY <2>2, <1>1
  <2> QED
    BY <1>0, <1>7, <2>3 DEF ReconnectGoesOn, sem, client, left, history, Untouched
<1>8. CASE UNCHANGED vars
  BY <1>0, <1>8 DEF vars, sem, client, left, history, Untouched
<1> QED
  BY <1>2, <1>3, <1>4, <1>5, <1>6, <1>7, <1>8

LEMMA KnownStep ==
    Types /\ LoopsInside /\ KnownOnce /\ QueueWaits /\ [Next]_vars => KnownOnce'
<1> SUFFICES ASSUME Types, LoopsInside, KnownOnce, QueueWaits, [Next]_vars PROVE KnownOnce'
  OBVIOUS
<1>1. ASSUME NEW m \in Market, NEW t \in Type, Subscribe(m, t) PROVE KnownOnce'
  <2>1. pending' \in [Market -> Seq(Op)] /\ \A n \in Market \ {m} : pending'[n] = pending[n]
    <3>1. [do |-> "subscribe", type |-> t] \in Op
      BY DEF Op
    <3> QED
      BY <1>1, <3>1, Posted DEF Subscribe, Types
  <2>2. /\ \A n \in Market \ {m} : phase'[n] = phase[n] /\ link'[n] = link[n]
                                    /\ created'[n] = created[n]
        /\ \/ m \in Known /\ UNCHANGED <<clients, created>>
           \/ m \notin Known /\ clients' = Append(clients, m) /\ created'[m] = created[m] + 1
    BY <1>1, SubscribeEffect
  <2>3. /\ UNCHANGED <<reopen, stray, subs>>
        /\ \A n \in Market \ {m} : wanted'[n] = wanted[n]
    BY <1>1 DEF Subscribe, Types, left
  <2>4. /\ Known' = Known \cup {m} /\ created'[m] = 1
    <3>1. CASE m \in Known
      BY <2>2, <3>1 DEF KnownOnce, Known
    <3>2. CASE m \notin Known
      BY <2>2, <3>2, KnownGrows DEF KnownOnce, Untouched, Types
    <3> QED
      BY <3>1, <3>2
  <2>5. ASSUME NEW n \in Market \ {m} PROVE IF n \in Known' THEN created'[n] = 1 ELSE Untouched(n)'
    BY <2>1, <2>2, <2>3, <2>4 DEF KnownOnce, Untouched
  <2> QED
    BY <2>4, <2>5 DEF KnownOnce
<1>2. ASSUME NEW m \in Market, NEW t \in Type, Unsubscribe(m, t) PROVE KnownOnce'
  <2>1. /\ UNCHANGED <<clients, created, phase, subs, link, reopen, stray>>
        /\ wanted' = [wanted EXCEPT ![m] = @ \ {t}]
    BY <1>2 DEF Unsubscribe, sem, client, left
  <2>2. \A n \in Market : n \notin Known => wanted'[n] = {}
    BY <2>1 DEF KnownOnce, Untouched, Types
  <2>3. \A n \in Market : n \notin Known => pending'[n] = pending[n]
    BY <1>2 DEF Unsubscribe, Post, Types
  <2>4. Known' = Known
    BY <2>1 DEF Known
  <2> QED
    BY <2>1, <2>2, <2>3, <2>4 DEF KnownOnce, Untouched
<1>3. CASE /\ UNCHANGED <<clients, created>>
           /\ \A n \in Market : n \notin Known => Untouched(n)'
  <2>1. Known' = Known
    BY <1>3 DEF Known
  <2> QED
    BY <1>3, <2>1 DEF KnownOnce
<1> QED
  BY <1>1, <1>2, <1>3, OthersUntouched, Cases

LEMMA QueueStep == Types /\ KnownOnce /\ QueueWaits /\ [Next]_vars => QueueWaits'
<1> SUFFICES ASSUME Types, KnownOnce, QueueWaits, [Next]_vars PROVE QueueWaits'
  OBVIOUS
<1>0. \A i \in 1 .. Len(queue) : queue[i] \in Market
  BY DEF Types
<1>1. ASSUME NEW m \in Market, NEW t \in Type, Subscribe(m, t) PROVE QueueWaits'
  <2>1. /\ \A n \in Market \ {m} : phase'[n] = phase[n]
        /\ \/ UNCHANGED <<phase, queue>>
           \/ m \notin Known /\ queue' = queue
           \/ m \notin Known /\ queue' = Append(queue, m) /\ phase'[m] = "queued"
    BY <1>1, SubscribeEffect
  <2>2. m \notin Known => \A i \in 1 .. Len(queue) : queue[i] # m
    BY <1>0 DEF KnownOnce, Untouched, QueueWaits
  <2>3. CASE UNCHANGED <<phase, queue>>
    BY <2>3 DEF QueueWaits
  <2>4. CASE m \notin Known /\ queue' = queue
    BY <1>0, <2>1, <2>2, <2>4 DEF QueueWaits
  <2>5. CASE m \notin Known /\ queue' = Append(queue, m) /\ phase'[m] = "queued"
    <3>1. /\ Len(queue') = Len(queue) + 1 /\ Len(queue) \in Nat
          /\ queue'[Len(queue) + 1] = m
          /\ \A i \in 1 .. Len(queue) : queue'[i] = queue[i] /\ queue'[i] \in Market \ {m}
      <4>1. queue \in Seq(Market)
        BY DEF Types
      <4> QED
        BY <1>0, <2>2, <2>5, <4>1
    <3>2. \A i \in 1 .. Len(queue') : phase'[queue'[i]] = "queued"
      BY <2>1, <2>5, <3>1 DEF QueueWaits
    <3>3. \A i, j \in 1 .. Len(queue') : queue'[i] = queue'[j] => i = j
      BY <3>1 DEF QueueWaits
    <3> QED
      BY <3>2, <3>3 DEF QueueWaits
  <2> QED
    BY <2>1, <2>3, <2>4, <2>5
<1>2. ASSUME NEW m \in Market, FirstConnected(m) PROVE QueueWaits'
  BY <1>0, <1>2 DEF FirstConnected, QueueWaits, Types
<1>3. ASSUME NEW m \in Market, Settled(m) PROVE QueueWaits'
  <2>1. \A i \in 1 .. Len(queue) : queue[i] # m
    BY <1>3 DEF Settled, QueueWaits
  <2>2. CASE queue = <<>> /\ queue' = queue
    BY <2>2 DEF QueueWaits
  <2>3. CASE /\ queue # <<>> /\ queue' = Tail(queue)
             /\ phase' = [phase EXCEPT ![m] = "ready", ![Head(queue)] = "connecting"]
    <3>1. /\ Head(queue) = queue[1] /\ 1 \in 1 .. Len(queue)
          /\ Len(queue') = Len(queue) - 1 /\ Len(queue) \in Nat
          /\ \A i \in 1 .. Len(queue') : queue'[i] = queue[i + 1] /\ i + 1 \in 1 .. Len(queue)
      BY <2>3 DEF Types
    <3>2. \A i \in 1 .. Len(queue') : queue'[i] \in Market \ {m, Head(queue)}
      BY <1>0, <2>1, <3>1 DEF QueueWaits
    <3>3. \A n \in Market \ {m, Head(queue)} : phase'[n] = phase[n]
      BY <2>3 DEF Types
    <3>4. \A i \in 1 .. Len(queue') : phase'[queue'[i]] = "queued"
      BY <3>1, <3>2, <3>3 DEF QueueWaits
    <3>5. \A i, j \in 1 .. Len(queue') : queue'[i] = queue'[j] => i = j
      <4> SUFFICES ASSUME NEW i \in 1 .. Len(queue'), NEW j \in 1 .. Len(queue'),
                          queue'[i] = queue'[j]
                   PROVE  i = j
        OBVIOUS
      <4>1. i + 1 = j + 1
        BY <3>1 DEF QueueWaits
      <4> QED
        BY <3>1, <4>1
    <3> QED
      BY <3>4, <3>5 DEF QueueWaits
  <2> QED
    BY <1>3, <2>2, <2>3, SettledEffect
<1>4. CASE UNCHANGED <<phase, queue>>
  BY <1>4 DEF QueueWaits
<1>5. ASSUME NEW m \in Market, Resume(m) PROVE UNCHANGED <<phase, queue>>
  BY <1>5, GoCases
<1>6. ASSUME \/ \E m \in Market, t \in Type : Unsubscribe(m, t)
             \/ StartLoop("reconnect") \/ StartLoop("close")
             \/ \E m \in Market : WatcherReconnects(m) \/ OldSocketClosed(m) \/ StrayConnects(m)
             \/ \E op \in pausing : ReconnectGoesOn(op)
             \/ UNCHANGED vars
      PROVE  UNCHANGED <<phase, queue>>
  BY <1>6 DEF Unsubscribe, StartLoop, WatcherReconnects, OldSocketClosed, StrayConnects,
              ReconnectGoesOn, vars, sem
<1> QED
  BY <1>1, <1>2, <1>3, <1>4, <1>5, <1>6, Cases

----------------------------------------------------------------------------
\* A call about feed type t.
About(op, t) == op.do \in {"subscribe", "unsubscribe"} /\ op.type = t

\* The last call about t in the queue q.
LastAbout(q, t, i) ==
    i \in 1 .. Len(q) /\ About(q[i], t) /\ \A j \in i + 1 .. Len(q) : ~About(q[j], t)

NoneAbout(q, t) == \A i \in 1 .. Len(q) : ~About(q[i], t)

\* What is subscribed (S) becomes what is wanted (W) when the calls of q have been carried
\* out: that is, the last one about each type says what is wanted.
Settles(q, S, W) == \A t \in Type :
    /\ NoneAbout(q, t) => (t \in S <=> t \in W)
    /\ \A i \in 1 .. Len(q) : LastAbout(q, t, i) => (q[i].do = "subscribe" <=> t \in W)

AllSettle == \A m \in Market : Settles(pending[m], subs[m], wanted[m])

LEMMA AppendElements ==
    ASSUME NEW q \in Seq(Op), NEW op \in Op
    PROVE  /\ Append(q, op) \in Seq(Op) /\ Len(Append(q, op)) = Len(q) + 1 /\ Len(q) \in Nat
           /\ Append(q, op)[Len(q) + 1] = op
           /\ \A i \in 1 .. Len(q) : Append(q, op)[i] = q[i]
OBVIOUS

\* One more call that is not about t.
LEMMA AppendOther ==
    ASSUME NEW q \in Seq(Op), NEW op \in Op, NEW t, ~About(op, t)
    PROVE  /\ NoneAbout(Append(q, op), t) => NoneAbout(q, t)
           /\ \A i \in 1 .. Len(Append(q, op)) : LastAbout(Append(q, op), t, i) =>
                 /\ LastAbout(q, t, i) /\ i \in 1 .. Len(q)
                 /\ Append(q, op)[i] = q[i]
<1> DEFINE r == Append(q, op)
<1>1. /\ Len(r) = Len(q) + 1 /\ Len(q) \in Nat /\ r[Len(q) + 1] = op
      /\ \A i \in 1 .. Len(q) : r[i] = q[i]
  BY AppendElements
<1> HIDE DEF r
<1>2. NoneAbout(r, t) => NoneAbout(q, t)
  BY <1>1 DEF NoneAbout
<1>3. ASSUME NEW i \in 1 .. Len(r), LastAbout(r, t, i)
      PROVE  LastAbout(q, t, i) /\ i \in 1 .. Len(q) /\ r[i] = q[i]
  <2>1. i # Len(q) + 1
    BY <1>1, <1>3 DEF LastAbout
  <2>2. i \in 1 .. Len(q) /\ r[i] = q[i]
    BY <1>1, <2>1
  <2>3. \A j \in i + 1 .. Len(q) : j \in i + 1 .. Len(r) /\ j \in 1 .. Len(q)
    BY <1>1, <2>2
  <2> QED
    BY <1>1, <1>3, <2>2, <2>3 DEF LastAbout
<1> QED
  BY <1>2, <1>3 DEF r

\* One more call that is about t.
LEMMA AppendAbout ==
    ASSUME NEW q \in Seq(Op), NEW op \in Op, NEW t, About(op, t)
    PROVE  /\ ~NoneAbout(Append(q, op), t)
           /\ \A i \in 1 .. Len(Append(q, op)) :
                 LastAbout(Append(q, op), t, i) => Append(q, op)[i] = op
<1> DEFINE r == Append(q, op)
<1>1. /\ Len(r) = Len(q) + 1 /\ Len(q) \in Nat /\ r[Len(q) + 1] = op
  BY AppendElements
<1> HIDE DEF r
<1>2. ~NoneAbout(r, t)
  BY <1>1 DEF NoneAbout
<1>3. ASSUME NEW i \in 1 .. Len(r), LastAbout(r, t, i) PROVE r[i] = op
  <2>1. i = Len(q) + 1
    <3> SUFFICES ASSUME i # Len(q) + 1 PROVE FALSE
      OBVIOUS
    <3>1. Len(q) + 1 \in i + 1 .. Len(r)
      BY <1>1
    <3> QED
      BY <1>1, <1>3, <3>1 DEF LastAbout
  <2> QED
    BY <1>1, <2>1
<1> QED
  BY <1>2, <1>3 DEF r

\* A call, and what was last asked for.
LEMMA SettlesCall ==
    ASSUME NEW q \in Seq(Op), NEW S, NEW W, NEW V, NEW op \in Op, Settles(q, S, W),
           \A t \in Type : IF About(op, t) THEN t \in V <=> op.do = "subscribe"
                           ELSE t \in V <=> t \in W
    PROVE  Settles(Append(q, op), S, V)
<1> SUFFICES ASSUME NEW t \in Type
             PROVE  /\ NoneAbout(Append(q, op), t) => (t \in S <=> t \in V)
                    /\ \A i \in 1 .. Len(Append(q, op)) : LastAbout(Append(q, op), t, i) =>
                          (Append(q, op)[i].do = "subscribe" <=> t \in V)
  BY DEF Settles
<1>1. CASE About(op, t)
  BY <1>1, AppendAbout
<1>2. CASE ~About(op, t)
  BY <1>2, AppendOther DEF Settles
<1> QED
  BY <1>1, <1>2

\* The oldest call is carried out.
LEMMA SettlesGo ==
    ASSUME NEW q \in Seq(Op), q # <<>>, NEW S, NEW W, NEW Z, Settles(q, S, W),
           \A t \in Type : IF About(Head(q), t) THEN t \in Z <=> Head(q).do = "subscribe"
                           ELSE t \in Z <=> t \in S
    PROVE  Settles(Tail(q), Z, W)
<1> DEFINE r == Tail(q)
<1>1. /\ Len(r) = Len(q) - 1 /\ Len(q) \in Nat /\ q[1] = Head(q) /\ 1 \in 1 .. Len(q)
      /\ \A i \in 1 .. Len(r) : r[i] = q[i + 1] /\ i + 1 \in 1 .. Len(q)
      /\ \A i \in 1 .. Len(q) : i # 1 => i - 1 \in 1 .. Len(r) /\ q[i] = r[i - 1]
  OBVIOUS
<1> HIDE DEF r
<1>2. ASSUME NEW t \in Type, NEW i \in 1 .. Len(r), LastAbout(r, t, i)
      PROVE  r[i].do = "subscribe" <=> t \in W
  <2>1. i + 1 \in 1 .. Len(q) /\ About(q[i + 1], t) /\ q[i + 1] = r[i]
    BY <1>1, <1>2 DEF LastAbout
  <2>2. ASSUME NEW j \in (i + 1) + 1 .. Len(q) PROVE ~About(q[j], t)
    <3>1. j - 1 \in i + 1 .. Len(r) /\ j \in 1 .. Len(q) /\ j # 1
      BY <1>1
    <3> QED
      BY <1>1, <1>2, <3>1 DEF LastAbout
  <2>3. LastAbout(q, t, i + 1)
    BY <2>1, <2>2 DEF LastAbout
  <2> QED
    BY <2>1, <2>3 DEF Settles
<1>3. ASSUME NEW t \in Type, NoneAbout(r, t) PROVE t \in Z <=> t \in W
  <2>1. \A i \in 1 .. Len(q) : i # 1 => ~About(q[i], t)
    BY <1>1, <1>3 DEF NoneAbout
  <2>2. CASE About(Head(q), t)
    <3>1. LastAbout(q, t, 1)
      BY <1>1, <2>1, <2>2 DEF LastAbout
    <3> QED
      BY <1>1, <2>2, <3>1 DEF Settles
  <2>3. CASE ~About(Head(q), t)
    <3>1. NoneAbout(q, t)
      BY <1>1, <2>1, <2>3 DEF NoneAbout
    <3> QED
      BY <2>3, <3>1 DEF Settles
  <2> QED
    BY <2>2, <2>3
<1> QED
  BY <1>2, <1>3 DEF r, Settles

\* A loop is about no type.
LEMMA SettlesLoop ==
    ASSUME NEW q \in Seq(Op), NEW S, NEW W, NEW op \in Op, Settles(q, S, W),
           op.do \in {"close", "reconnect"}
    PROVE  Settles(Append(q, op), S, W)
<1>1. \A t \in Type : ~About(op, t)
  BY DEF About
<1> QED
  BY <1>1, SettlesCall

LEMMA SettlesVisit ==
    ASSUME Types, AllSettle, NEW name \in {"close", "reconnect"}, NEW loop \in Nat,
           NEW i \in Nat \ {0}, Visit(name, loop, i)
    PROVE  \A n \in Market : Settles(pending'[n], subs[n], wanted[n])
<1> DEFINE op == [do |-> name, loop |-> loop, at |-> i]
<1>1. pending \in [Market -> Seq(Op)] /\ clients \in Seq(Market) /\ op.do = name
  BY DEF Types
<1>2. \/ UNCHANGED pending
      \/ /\ clients[i] \in Market /\ op \in Op
         /\ pending'[clients[i]] = Append(pending[clients[i]], op)
         /\ \A n \in Market \ {clients[i]} : pending'[n] = pending[n]
  BY <1>1, VisitTypes
<1> HIDE DEF op
<1>3. CASE UNCHANGED pending
  BY <1>3 DEF AllSettle
<1>4. CASE /\ clients[i] \in Market /\ op \in Op
           /\ pending'[clients[i]] = Append(pending[clients[i]], op)
           /\ \A n \in Market \ {clients[i]} : pending'[n] = pending[n]
  <2>1. Settles(Append(pending[clients[i]], op), subs[clients[i]], wanted[clients[i]])
    BY <1>1, <1>4, SettlesLoop DEF AllSettle
  <2> QED
    BY <1>4, <2>1 DEF AllSettle
<1> QED
  BY <1>2, <1>3, <1>4

LEMMA SettleStep ==
    Types /\ LoopsInside /\ KnownOnce /\ AllSettle /\ [Next]_vars => AllSettle'
<1> SUFFICES ASSUME Types, LoopsInside, KnownOnce, AllSettle, [Next]_vars PROVE AllSettle'
  OBVIOUS
<1>0. \A n \in Market : pending[n] \in Seq(Op) /\ Settles(pending[n], subs[n], wanted[n])
  BY DEF Types, AllSettle
<1>1. ASSUME NEW m \in Market, NEW t \in Type, Subscribe(m, t) PROVE AllSettle'
  <2> DEFINE op == [do |-> "subscribe", type |-> t]
  <2>1. op \in Op /\ op.do = "subscribe" /\ \A u \in Type : About(op, u) <=> u = t
    BY DEF Op, About
  <2>2. /\ pending'[m] = Append(pending[m], op)
        /\ \A n \in Market \ {m} : pending'[n] = pending[n]
    BY <1>1, <2>1, Posted DEF Subscribe, Types
  <2>3. /\ UNCHANGED subs /\ wanted'[m] = wanted[m] \cup {t}
        /\ \A n \in Market \ {m} : wanted'[n] = wanted[n]
    BY <1>1 DEF Subscribe, Types
  <2> HIDE DEF op
  <2>4. \A u \in Type : IF About(op, u) THEN u \in wanted'[m] <=> op.do = "subscribe"
                        ELSE u \in wanted'[m] <=> u \in wanted[m]
    BY <2>1, <2>3
  <2>5. Settles(Append(pending[m], op), subs[m], wanted'[m])
    BY <1>0, <2>1, <2>4, SettlesCall
  <2> QED
    BY <1>0, <2>2, <2>3, <2>5 DEF AllSettle
<1>2. ASSUME NEW m \in Market, NEW t \in Type, Unsubscribe(m, t) PROVE AllSettle'
  <2> DEFINE op == [do |-> "unsubscribe", type |-> t]
  <2>1. op \in Op /\ op.do # "subscribe" /\ \A u \in Type : About(op, u) <=> u = t
    BY DEF Op, About
  <2>2. /\ UNCHANGED subs /\ wanted'[m] = wanted[m] \ {t}
        /\ \A n \in Market \ {m} : wanted'[n] = wanted[n]
    BY <1>2 DEF Unsubscribe, Types, client, left
  <2>3. CASE Post(m, op)
    <3>1. /\ pending'[m] = Append(pending[m], op)
          /\ \A n \in Market \ {m} : pending'[n] = pending[n]
      BY <2>1, <2>3, Posted DEF Types
    <3> HIDE DEF op
    <3>2. \A u \in Type : IF About(op, u) THEN u \in wanted'[m] <=> op.do = "subscribe"
                          ELSE u \in wanted'[m] <=> u \in wanted[m]
      BY <2>1, <2>2
    <3>3. Settles(Append(pending[m], op), subs[m], wanted'[m])
      BY <1>0, <2>1, <3>2, SettlesCall
    <3> QED
      BY <1>0, <2>2, <3>1, <3>3 DEF AllSettle
  <2>4. CASE m \notin Known /\ UNCHANGED pending
    <3>1. wanted[m] = {} /\ wanted'[m] = wanted[m]
      BY <2>2, <2>4 DEF KnownOnce, Untouched
    <3> QED
      BY <1>0, <2>2, <2>4, <3>1 DEF AllSettle
  <2> QED
    BY <1>2, <2>3, <2>4 DEF Unsubscribe
<1>3. ASSUME NEW name \in {"close", "reconnect"}, StartLoop(name) PROVE AllSettle'
  <2>1. Visit(name, calls, 1) /\ calls \in Nat /\ 1 \in Nat \ {0} /\ UNCHANGED <<subs, wanted>>
    BY <1>3 DEF StartLoop, Types, client, left
  <2>2. \A n \in Market : Settles(pending'[n], subs[n], wanted[n])
    BY <2>1, SettlesVisit
  <2> QED
    BY <2>1, <2>2 DEF AllSettle
<1>4. ASSUME NEW op \in pausing, ReconnectGoesOn(op) PROVE AllSettle'
  <2>1. op \in [do : {"reconnect"}, loop : Nat, at : Nat \ {0}]
    BY DEF Types, Op, LoopsInside
  <2>2. op.loop \in Nat /\ op.at + 1 \in Nat \ {0} /\ Visit("reconnect", op.loop, op.at + 1)
        /\ UNCHANGED <<subs, wanted>>
    BY <1>4, <2>1 DEF ReconnectGoesOn, client, left, history
  <2>3. \A n \in Market : Settles(pending'[n], subs[n], wanted[n])
    BY <2>2, SettlesVisit
  <2> QED
    BY <2>2, <2>3 DEF AllSettle
<1>5. ASSUME NEW m \in Market, Resume(m) PROVE AllSettle'
  <2> DEFINE op == Head(pending[m])
             q == pending[m]
  <2>1. /\ q \in Seq(Op) /\ q # <<>> /\ op \in Op /\ UNCHANGED wanted
        /\ Shorter(m)[m] = Tail(q) /\ \A n \in Market \ {m} : Shorter(m)[n] = pending[n]
        /\ Tail(q) \in Seq(Op)
    <3>1. pending \in [Market -> Seq(Op)]
      BY DEF Types
    <3> QED
      BY <1>0, <1>5, <3>1, GoCases, ShorterTypes
  <2>2. /\ subs' \in [Market -> SUBSET Type]
        /\ \A n \in Market \ {m} : subs'[n] = subs[n]
        /\ \A u \in Type : IF About(op, u) THEN u \in subs'[m] <=> op.do = "subscribe"
                           ELSE u \in subs'[m] <=> u \in subs[m]
    <3>1. CASE op.do = "subscribe" /\ op.type \in Type /\ GoSubscribe(m, op.type)
      BY <3>1 DEF GoSubscribe, About, Types
    <3>2. CASE op.do = "unsubscribe" /\ op.type \in Type /\ GoUnsubscribe(m, op.type)
      BY <3>2 DEF GoUnsubscribe, About, Types
    <3>3. CASE op.do \in {"close", "reconnect"} /\ UNCHANGED subs
      BY <3>3 DEF About, Types
    <3> QED
      BY <1>5, <3>1, <3>2, <3>3, GoCases DEF GoClose, GoReconnect
  <2>3. Settles(Shorter(m)[m], subs'[m], wanted[m])
    <3> HIDE DEF q
    <3>1. Settles(Tail(q), subs'[m], wanted[m])
      <4>1. Settles(q, subs[m], wanted[m])
        BY <1>0 DEF q
      <4>2. op = Head(q)
        BY DEF q
      <4> QED
        BY <2>1, <2>2, <4>1, <4>2, SettlesGo
    <3> QED
      BY <2>1, <3>1
  <2>4. \A n \in Market : Settles(Shorter(m)[n], subs'[n], wanted[n])
    BY <1>0, <2>1, <2>2, <2>3
  <2>5. CASE op.do # "close"
    <3>1. pending' = Shorter(m)
      BY <1>5, <2>5, GoCases DEF GoSubscribe, GoUnsubscribe, GoReconnect, Shorter
    <3> QED
      BY <2>1, <2>4, <3>1 DEF AllSettle
  <2>6. CASE op.do = "close"
    <3> DEFINE next == [op EXCEPT !.at = @ + 1]
               k == clients[op.at + 1]
    <3>1. GoClose(m, op)
      BY <1>5, <2>6, GoCases
    <3>2. \/ pending' = Shorter(m)
          \/ /\ k \in Market /\ next \in Op /\ next.do = "close"
             /\ pending'[k] = Append(Shorter(m)[k], next)
             /\ \A n \in Market \ {k} : pending'[n] = Shorter(m)[n]
      BY <2>1, <2>6, <3>1, CloseTypes
    <3> HIDE DEF next, k
    <3>3. CASE pending' = Shorter(m)
      BY <2>1, <2>4, <3>3 DEF AllSettle
    <3>4. CASE /\ k \in Market /\ next \in Op /\ next.do = "close"
               /\ pending'[k] = Append(Shorter(m)[k], next)
               /\ \A n \in Market \ {k} : pending'[n] = Shorter(m)[n]
      <4>1. Shorter(m)[k] \in Seq(Op)
        BY <1>0, <2>1, <3>4
      <4>2. Settles(Append(Shorter(m)[k], next), subs'[k], wanted[k])
        BY <2>4, <3>4, <4>1, SettlesLoop
      <4> QED
        BY <2>1, <2>4, <3>4, <4>2 DEF AllSettle
    <3> QED
      BY <3>2, <3>3, <3>4
  <2> QED
    BY <2>5, <2>6
<1>6. ASSUME \/ \E m \in Market : FirstConnected(m) \/ Settled(m) \/ WatcherReconnects(m)
                                   \/ OldSocketClosed(m) \/ StrayConnects(m)
             \/ UNCHANGED vars
      PROVE  AllSettle'
  <2>1. UNCHANGED <<pending, subs, wanted>>
    BY <1>6 DEF FirstConnected, Settled, WatcherReconnects, OldSocketClosed, StrayConnects, vars, client, left,
                history
  <2> QED
    BY <2>1 DEF AllSettle
<1> QED
  BY <1>1, <1>2, <1>3, <1>4, <1>5, <1>6, Cases

----------------------------------------------------------------------------
\* Nothing but close() waits, from the j-th of the queue q on.
ClosesFrom(q, j) == \A k \in j .. Len(q) : q[k].do = "close"

\* A loop of close() waits in q that came to its i-th client, and nothing else after it.
Ends(q, i) == \E j \in 1 .. Len(q) : ClosesFrom(q, j) /\ q[j].at = i

\* Nothing of the client is left that connects, unless a close has missed some of it.
Still(m) == m \in missed \/ (~link[m] /\ reopen[m] = 0 /\ stray[m] = 0)

\* The client was closed, and there is no other call for it.
Closed(m) ==
    /\ phase[m] = "ready"
    /\ Still(m)
    /\ ClosesFrom(pending[m], 1)

\* A loop of close() has come to the i-th client, or to the end.
ClosedUpTo(i) ==
    /\ \A k \in 1 .. i - 1 : Closed(clients[k])
    /\ i <= Len(clients) => Ends(pending[clients[i]], i)

\* No loop of reconnect() waits in q.
NoReconnect(q) == \A i \in 1 .. Len(q) : q[i].do # "reconnect"

CloseProgress == last = "close" =>
    /\ pausing = {} /\ \A m \in Market : NoReconnect(pending[m])
    /\ \E i \in 1 .. Len(clients) + 1 : ClosedUpTo(i)

LEMMA AppendClose ==
    ASSUME NEW q \in Seq(Op), NEW op \in Op, op.do = "close"
    PROVE  /\ NoReconnect(q) => NoReconnect(Append(q, op))
           /\ ClosesFrom(q, 1) => ClosesFrom(Append(q, op), 1)
           /\ \A i \in Nat : Ends(q, i) => Ends(Append(q, op), i)
           /\ Ends(Append(q, op), op.at)
<1> DEFINE r == Append(q, op)
<1>1. /\ Len(r) = Len(q) + 1 /\ Len(q) \in Nat /\ r[Len(q) + 1] = op
      /\ \A i \in 1 .. Len(q) : r[i] = q[i]
  BY AppendElements
<1> HIDE DEF r
<1>2. NoReconnect(q) => NoReconnect(r)
  <2> SUFFICES ASSUME NoReconnect(q), NEW i \in 1 .. Len(r) PROVE r[i].do # "reconnect"
    BY DEF NoReconnect
  <2>1. i = Len(q) + 1 \/ i \in 1 .. Len(q)
    BY <1>1
  <2> QED
    BY <1>1, <2>1 DEF NoReconnect
<1>3. ASSUME NEW j \in 1 .. Len(q) + 1, ClosesFrom(q, j) PROVE ClosesFrom(r, j)
  <2> SUFFICES ASSUME NEW i \in j .. Len(r) PROVE r[i].do = "close"
    BY DEF ClosesFrom
  <2>1. i = Len(q) + 1 \/ (i \in 1 .. Len(q) /\ i \in j .. Len(q))
    BY <1>1
  <2> QED
    BY <1>1, <1>3, <2>1 DEF ClosesFrom
<1>4. ASSUME NEW i \in Nat, Ends(q, i) PROVE Ends(r, i)
  <2>1. PICK j \in 1 .. Len(q) : ClosesFrom(q, j) /\ q[j].at = i
    BY <1>4 DEF Ends
  <2>2. j \in 1 .. Len(r) /\ j \in 1 .. Len(q) + 1 /\ r[j].at = i
    BY <1>1, <2>1
  <2> QED
    BY <1>3, <2>1, <2>2 DEF Ends
<1>5. Ends(r, op.at)
  <2>1. Len(q) + 1 \in 1 .. Len(r) /\ \A k \in Len(q) + 1 .. Len(r) : k = Len(q) + 1
    BY <1>1
  <2> QED
    BY <1>1, <2>1 DEF Ends, ClosesFrom
<1>6. 1 \in 1 .. Len(q) + 1
  BY <1>1
<1> QED
  BY <1>2, <1>3, <1>4, <1>5, <1>6 DEF r

LEMMA TailCloses ==
    ASSUME NEW q \in Seq(Op), q # <<>>
    PROVE  /\ NoReconnect(q) => NoReconnect(Tail(q)) /\ Head(q).do # "reconnect"
           /\ ClosesFrom(q, 1) => ClosesFrom(Tail(q), 1) /\ Head(q).do = "close"
           /\ \A i \in Nat : Ends(q, i) =>
                 \/ Ends(Tail(q), i)
                 \/ Head(q).do = "close" /\ Head(q).at = i /\ ClosesFrom(Tail(q), 1)
<1> DEFINE r == Tail(q)
<1>1. /\ Len(r) = Len(q) - 1 /\ Len(q) \in Nat /\ q[1] = Head(q) /\ 1 \in 1 .. Len(q)
      /\ \A i \in 1 .. Len(r) : r[i] = q[i + 1] /\ i + 1 \in 1 .. Len(q)
      /\ \A i \in 1 .. Len(q) : i # 1 => i - 1 \in 1 .. Len(r) /\ q[i] = r[i - 1]
  OBVIOUS
<1> HIDE DEF r
<1>2. NoReconnect(q) => NoReconnect(r) /\ Head(q).do # "reconnect"
  BY <1>1 DEF NoReconnect
<1>3. ClosesFrom(q, 1) => ClosesFrom(r, 1) /\ Head(q).do = "close"
  BY <1>1 DEF ClosesFrom
<1>4. ASSUME NEW i \in Nat, Ends(q, i)
      PROVE  \/ Ends(r, i)
             \/ Head(q).do = "close" /\ Head(q).at = i /\ ClosesFrom(r, 1)
  <2>1. PICK j \in 1 .. Len(q) : ClosesFrom(q, j) /\ q[j].at = i
    BY <1>4 DEF Ends
  <2>2. CASE j = 1
    BY <1>1, <1>3, <2>1, <2>2
  <2>3. CASE j # 1
    <3>1. j - 1 \in 1 .. Len(r) /\ r[j - 1].at = i
      BY <1>1, <2>1, <2>3
    <3>2. ASSUME NEW k \in j - 1 .. Len(r) PROVE r[k].do = "close"
      <4>1. k \in 1 .. Len(r) /\ k + 1 \in j .. Len(q)
        BY <1>1, <3>1
      <4> QED
        BY <1>1, <2>1, <4>1 DEF ClosesFrom
    <3> QED
      BY <3>1, <3>2 DEF Ends, ClosesFrom
  <2> QED
    BY <2>2, <2>3
<1> QED
  BY <1>2, <1>3, <1>4 DEF r

LEMMA CloseStills ==
    ASSUME Types, NEW m \in Market, NEW op, GoClose(m, op)
    PROVE  Still(m)'
<1>1. /\ ~link'[m] /\ reopen' = reopen
      /\ missed' = IF reopen[m] + stray'[m] > 0 THEN missed \cup {m} ELSE missed \ {m}
  BY DEF GoClose, Types
<1>2. reopen[m] \in Nat /\ stray'[m] \in Nat
  BY DEF GoClose, LetGo, Types, LeftTypes
<1> QED
  BY <1>1, <1>2 DEF Still

\* A step of m's queue, while only close() has been called last.
LEMMA CloseGoes ==
    ASSUME Types, LoopsInside, NEW m \in Market, Resume(m), last = "close", CloseProgress
    PROVE  CloseProgress'
<1> DEFINE op == Head(pending[m])
           n1 == Shorter(m)
<1>1. /\ pausing = {} /\ \A n \in Market : NoReconnect(pending[n])
      /\ \E i \in 1 .. Len(clients) + 1 : ClosedUpTo(i)
  BY DEF CloseProgress
<1>2. /\ phase[m] = "ready" /\ pending[m] # <<>> /\ op \in Op
      /\ UNCHANGED <<clients, phase, last>>
  BY GoCases
<1>3. /\ \A n \in Market : pending[n] \in Seq(Op)
      /\ n1[m] = Tail(pending[m]) /\ Tail(pending[m]) \in Seq(Op)
      /\ \A n \in Market \ {m} : n1[n] = pending[n]
      /\ n1 \in [Market -> Seq(Op)]
  BY <1>2, ShorterTypes DEF Types
<1>4. op.do # "reconnect"
  BY <1>1, <1>2, <1>3, TailCloses
<1>5. /\ pausing' = {}
      /\ \A n \in Market \ {m} : Still(n) => Still(n)'
  <2>1. CASE GoSubscribe(m, op.type) \/ GoUnsubscribe(m, op.type) \/ GoClose(m, op)
    BY <1>1, <2>1 DEF GoSubscribe, GoUnsubscribe, GoClose, LetGo, Still, Types, LeftTypes, left
  <2> QED
    BY <1>4, <2>1, GoCases
<1>6. \A n \in Market :
         \/ pending'[n] = n1[n]
         \/ \E nx \in Op : nx.do = "close" /\ pending'[n] = Append(n1[n], nx)
  <2>1. CASE op.do # "close"
    <3>1. pending' = n1
      BY <1>4, <2>1, GoCases DEF GoSubscribe, GoUnsubscribe, Shorter
    <3> QED
      BY <3>1
  <2>2. CASE op.do = "close"
    <3> DEFINE next == [op EXCEPT !.at = @ + 1]
               k == clients[op.at + 1]
    <3>1. GoClose(m, op)
      BY <2>2, GoCases
    <3>2. \/ pending' = n1
          \/ /\ next \in Op /\ next.do = "close"
             /\ pending'[k] = Append(n1[k], next)
             /\ \A n \in Market \ {k} : pending'[n] = n1[n]
      BY <1>2, <2>2, <3>1, CloseTypes
    <3> HIDE DEF next, k
    <3> QED
      BY <3>2
  <2> QED
    BY <2>1, <2>2
<1> HIDE DEF op, n1
<1>7. \A n \in Market : NoReconnect(pending'[n])
  <2> SUFFICES ASSUME NEW n \in Market PROVE NoReconnect(pending'[n])
    OBVIOUS
  <2>1. NoReconnect(n1[n]) /\ n1[n] \in Seq(Op)
    BY <1>1, <1>2, <1>3, TailCloses
  <2> QED
    BY <1>6, <2>1, AppendClose
<1>8. \A n \in Market :
         /\ ClosesFrom(n1[n], 1) => ClosesFrom(pending'[n], 1)
         /\ \A i \in Nat : Ends(n1[n], i) => Ends(pending'[n], i)
  <2> SUFFICES ASSUME NEW n \in Market
               PROVE  /\ ClosesFrom(n1[n], 1) => ClosesFrom(pending'[n], 1)
                      /\ \A i \in Nat : Ends(n1[n], i) => Ends(pending'[n], i)
    OBVIOUS
  <2>1. n1[n] \in Seq(Op)
    BY <1>3
  <2>2. CASE pending'[n] = n1[n]
    BY <2>2
  <2>3. ASSUME NEW nx \in Op, nx.do = "close", pending'[n] = Append(n1[n], nx)
        PROVE  /\ ClosesFrom(n1[n], 1) => ClosesFrom(pending'[n], 1)
               /\ \A i \in Nat : Ends(n1[n], i) => Ends(pending'[n], i)
    BY <2>1, <2>3, AppendClose, Zenon
  <2> QED
    BY <1>6, <2>2, <2>3
<1>9. ASSUME NEW n \in Market, Closed(n) PROVE Closed(n)'
  <2>1. CASE n = m
    <3>1. ClosesFrom(n1[n], 1) /\ op.do = "close"
      BY <1>2, <1>3, <1>9, <2>1, TailCloses DEF Closed, op
    <3>2. GoClose(m, op)
      BY <3>1, GoCases DEF op
    <3>3. Still(m)'
      BY <3>2, CloseStills
    <3> QED
      BY <1>2, <1>8, <1>9, <2>1, <3>1, <3>3 DEF Closed
  <2>2. CASE n # m
    BY <1>2, <1>3, <1>5, <1>8, <1>9, <2>2 DEF Closed
  <2> QED
    BY <2>1, <2>2
<1>10. PICK i \in 1 .. Len(clients) + 1 : ClosedUpTo(i)
  BY <1>1
<1>11. /\ \A k \in 1 .. Len(clients) : clients[k] \in Market
       /\ Len(clients) \in Nat
       /\ \A k \in 1 .. i - 1 : k \in 1 .. Len(clients)
  BY <1>10 DEF Types
<1>12. \A k \in 1 .. i - 1 : Closed(clients[k])'
  BY <1>2, <1>9, <1>10, <1>11 DEF ClosedUpTo
<1>13. \E k \in 1 .. Len(clients) + 1 : ClosedUpTo(k)'
  <2>1. CASE i > Len(clients)
    <3>1. ClosedUpTo(i)'
      BY <1>2, <1>11, <1>12, <2>1 DEF ClosedUpTo
    <3> QED
      BY <3>1
  <2>2. CASE i <= Len(clients) /\ Ends(n1[clients[i]], i)
    <3>1. Ends(pending'[clients[i]], i)
      BY <1>8, <1>10, <1>11, <2>2
    <3>2. ClosedUpTo(i)'
      BY <1>2, <1>12, <3>1 DEF ClosedUpTo
    <3> QED
      BY <3>2
  <2>3. CASE i <= Len(clients) /\ ~Ends(n1[clients[i]], i)
    <3>1. Ends(pending[clients[i]], i) /\ i \in 1 .. Len(clients) /\ clients[i] \in Market
      BY <1>10, <1>11, <2>3 DEF ClosedUpTo
    <3>2. clients[i] = m
      BY <1>3, <2>3, <3>1
    <3>3. op.do = "close" /\ op.at = i /\ ClosesFrom(n1[m], 1)
      <4>1. pending[m] \in Seq(Op) /\ pending[m] # <<>> /\ i \in Nat
            /\ Ends(pending[m], i) /\ ~Ends(Tail(pending[m]), i)
        <5>1. i \in Nat
          BY <1>11, <3>1
        <5> QED
          BY <1>2, <1>3, <2>3, <3>1, <3>2, <5>1, Zenon
      <4> QED
        BY <1>3, <4>1, TailCloses, Zenon DEF op
    <3>4. GoClose(m, op)
      BY <3>3, GoCases DEF op
    <3>5. Closed(m)'
      BY <1>2, <1>8, <3>3, <3>4, CloseStills DEF Closed
    <3>6. \A k \in 1 .. i : Closed(clients[k])'
      BY <1>2, <1>11, <1>12, <3>2, <3>5
    <3>7. i + 1 \in 1 .. Len(clients) + 1 /\ (i + 1) - 1 = i
      BY <1>11, <3>1
    <3>8. i + 1 <= Len(clients) => Ends(pending'[clients[i + 1]], i + 1)
      <4> SUFFICES ASSUME i + 1 <= Len(clients) PROVE Ends(pending'[clients[i + 1]], i + 1)
        OBVIOUS
      <4> DEFINE next == [op EXCEPT !.at = @ + 1]
                 k == clients[op.at + 1]
      <4>1. /\ k \in Market /\ next \in Op /\ next.do = "close" /\ next.at = op.at + 1
            /\ pending'[k] = Append(n1[k], next)
        <5>1. op.at # Len(clients)
          BY <1>11, <3>1, <3>3
        <5> QED
          BY <1>2, <3>3, <3>4, <5>1, CloseTypes DEF op, n1
      <4> HIDE DEF next
      <4>2. n1[k] \in Seq(Op)
        BY <1>3, <4>1
      <4>3. Ends(pending'[k], next.at)
        BY <4>1, <4>2, AppendClose
      <4> QED
        BY <3>3, <4>1, <4>3
    <3>9. ClosedUpTo(i + 1)'
      BY <1>2, <3>6, <3>7, <3>8 DEF ClosedUpTo
    <3> QED
      BY <3>7, <3>9
  <2> QED
    BY <1>10, <1>11, <2>1, <2>2, <2>3
<1> QED
  BY <1>2, <1>5, <1>7, <1>13 DEF CloseProgress

LEMMA CloseStep ==
    Types /\ LoopsInside /\ KnownOnce /\ QueueWaits /\ CloseProgress /\ [Next]_vars
        => CloseProgress'
<1> SUFFICES ASSUME Types, LoopsInside, KnownOnce, QueueWaits, CloseProgress, [Next]_vars,
                    last' = "close"
             PROVE  CloseProgress'
  BY DEF CloseProgress
<1>1. ASSUME StartLoop("close"), ~Reconnecting PROVE CloseProgress'
  <2>1. /\ calls \in Nat /\ Visit("close", calls, 1)
        /\ UNCHANGED <<clients, pausing>>
    BY <1>1 DEF StartLoop, Types
  <2>2. /\ pending \in [Market -> Seq(Op)] /\ clients \in Seq(Market)
        /\ Len(clients) \in Nat /\ 1 \in Nat \ {0}
    BY DEF Types
  <2>3. pausing = {} /\ \A n \in Market : NoReconnect(pending[n])
    BY <1>1 DEF Reconnecting, NoReconnect
  <2> DEFINE op == [do |-> "close", loop |-> calls, at |-> 1]
  <2>4. \/ UNCHANGED pending
        \/ /\ 1 <= Len(clients) /\ clients[1] \in Market /\ op \in Op
           /\ pending'[clients[1]] = Append(pending[clients[1]], op)
           /\ \A n \in Market \ {clients[1]} : pending'[n] = pending[n]
    BY <2>1, <2>2, VisitTypes
  <2>5. op.do = "close" /\ op.at = 1
    OBVIOUS
  <2> HIDE DEF op
  <2>6. \A n \in Market : NoReconnect(pending'[n])
    BY <2>2, <2>3, <2>4, <2>5, AppendClose
  <2>7. 1 <= Len(clients) => Ends(pending'[clients[1]], 1)
    <3> SUFFICES ASSUME 1 <= Len(clients) PROVE Ends(pending'[clients[1]], 1)
      OBVIOUS
    <3>1. clients[1] \in Market /\ pending[clients[1]] \in Seq(Op)
      BY <2>2
    <3>2. pending'[clients[1]] = Append(pending[clients[1]], [do |-> "close", loop |-> calls, at |-> 1])
      BY <2>1, <2>2, <3>1 DEF Visit, Post
    <3>3. [do |-> "close", loop |-> calls, at |-> 1] \in Op
      BY <2>1 DEF Op
    <3> QED
      BY <2>5, <3>1, <3>2, <3>3, AppendClose DEF op
  <2>8. ClosedUpTo(1)' /\ 1 \in 1 .. Len(clients') + 1
    BY <2>1, <2>2, <2>7 DEF ClosedUpTo
  <2> QED
    BY <2>1, <2>3, <2>6, <2>8 DEF CloseProgress
<1>2. ASSUME last = "close", UNCHANGED <<clients, pending, pausing>>,
             \A n \in Market : Closed(n) => Closed(n)'
      PROVE  CloseProgress'
  <2>1. PICK i \in 1 .. Len(clients) + 1 : ClosedUpTo(i)
    BY <1>2 DEF CloseProgress
  <2>2. \A k \in 1 .. i - 1 : clients[k] \in Market
    BY <2>1 DEF Types
  <2>3. ClosedUpTo(i)'
    BY <1>2, <2>1, <2>2 DEF ClosedUpTo
  <2> QED
    BY <1>2, <2>3 DEF CloseProgress
<1>3. ASSUME NEW m \in Market, FirstConnected(m) PROVE CloseProgress'
  <2>1. \A n \in Market : Closed(n) => Closed(n)'
    BY <1>3 DEF FirstConnected, Closed, Still, client, left, Types
  <2> QED
    BY <1>2, <1>3, <2>1 DEF FirstConnected, history
<1>4. ASSUME NEW m \in Market, Settled(m) PROVE CloseProgress'
  <2>1. UNCHANGED <<clients, pending, pausing, last, left>>
    BY <1>4 DEF Settled, history
  <2>2. ASSUME NEW n \in Market, Closed(n) PROVE phase'[n] = phase[n] /\ link'[n] = link[n]
    <3>1. phase[n] = "ready" /\ n # m
      BY <1>4, <2>2 DEF Closed, Settled
    <3>2. CASE link' = link /\ phase' = [phase EXCEPT ![m] = "ready"]
      BY <3>1, <3>2 DEF Types
    <3>3. CASE /\ queue # <<>> /\ Head(queue) \in Market
               /\ link' = [link EXCEPT ![Head(queue)] = TRUE]
               /\ phase' = [phase EXCEPT ![m] = "ready", ![Head(queue)] = "connecting"]
      <4>1. Head(queue) = queue[1] /\ 1 \in 1 .. Len(queue)
        BY <3>3 DEF Types
      <4>2. n # Head(queue)
        BY <3>1, <4>1 DEF QueueWaits
      <4> QED
        BY <3>1, <3>3, <4>2 DEF Types
    <3> QED
      BY <1>4, <3>2, <3>3, SettledEffect
  <2>3. \A n \in Market : Closed(n) => Closed(n)'
    BY <2>1, <2>2 DEF Closed, Still, left
  <2> QED
    BY <1>2, <2>1, <2>3
<1>5. ASSUME NEW m \in Market, WatcherReconnects(m) \/ OldSocketClosed(m) \/ StrayConnects(m)
      PROVE  CloseProgress'
  <2>1. UNCHANGED <<clients, phase, pending, pausing, last>>
    BY <1>5 DEF WatcherReconnects, OldSocketClosed, StrayConnects, sem, history
  <2>2. \A n \in Market : Closed(n) => Closed(n)'
    BY <1>5, <2>1 DEF WatcherReconnects, OldSocketClosed, StrayConnects, Closed, Still, Types, LeftTypes
  <2> QED
    BY <1>2, <2>1, <2>2
<1>6. ASSUME NEW m \in Market, Resume(m) PROVE CloseProgress'
  <2>1. last = "close"
    BY <1>6, GoCases
  <2> QED
    BY <1>6, <2>1, CloseGoes
<1>7. ASSUME NEW op \in pausing, ReconnectGoesOn(op) PROVE CloseProgress'
  <2>1. last = "close"
    BY <1>7 DEF ReconnectGoesOn, history
  <2> QED
    BY <2>1 DEF CloseProgress
<1>8. CASE UNCHANGED vars
  <2>1. UNCHANGED <<clients, phase, pending, pausing, last, link, reopen, stray, missed>>
    BY <1>8 DEF vars, sem, client, left, history
  <2>2. \A n \in Market : Closed(n) => Closed(n)'
    BY <2>1 DEF Closed, Still
  <2> QED
    BY <1>2, <2>1, <2>2
<1>9. ASSUME \/ \E m \in Market, t \in Type : Subscribe(m, t) \/ Unsubscribe(m, t)
             \/ StartLoop("reconnect")
      PROVE  FALSE
  BY <1>9 DEF Subscribe, Unsubscribe, StartLoop, Call
<1> QED
  BY <1>1, <1>3, <1>4, <1>5, <1>6, <1>7, <1>8, <1>9, Cases

----------------------------------------------------------------------------
MultiInv ==
    Types /\ LoopsInside /\ KnownOnce /\ QueueWaits /\ AllSettle /\ CloseProgress

LEMMA MultiStarts == Init => MultiInv
<1> SUFFICES ASSUME Init PROVE MultiInv
  OBVIOUS
<1>1. clients = <<>> /\ queue = <<>> /\ clients \in Seq(Market) /\ queue \in Seq(Market)
  BY DEF Init
<1>2. pending \in [Market -> Seq(Op)] /\ \A m \in Market : pending[m] = <<>>
  <2>1. <<>> \in Seq(Op)
    OBVIOUS
  <2> QED
    BY <2>1 DEF Init
<1>3. Types
  BY <1>1, <1>2 DEF Init, Types, LeftTypes
<1>4. LoopsInside
  BY <1>2 DEF Init, LoopsInside
<1>5. KnownOnce
  BY <1>1, <1>2 DEF Init, KnownOnce, Known, Untouched
<1>6. QueueWaits
  BY <1>1 DEF QueueWaits
<1>7. AllSettle
  BY <1>2 DEF Init, AllSettle, Settles, LastAbout, NoneAbout
<1>8. CloseProgress
  BY DEF Init, CloseProgress
<1> QED
  BY <1>3, <1>4, <1>5, <1>6, <1>7, <1>8 DEF MultiInv

LEMMA MultiHolds == Spec => []MultiInv
<1>1. MultiInv /\ [Next]_vars => MultiInv'
  BY TypesStep, LoopsStep, KnownStep, QueueStep, SettleStep, CloseStep DEF MultiInv
<1> QED
  BY <1>1, MultiStarts, PTL DEF Spec

\* The promises, the semaphore, the queues and the loops stay what the code takes them for:
\* a loop over _clients never leaves it.
THEOREM MultiTypeCorrect == Spec => [](Types /\ LoopsInside)
<1>1. MultiInv => Types /\ LoopsInside
  BY DEF MultiInv
<1> QED
  BY <1>1, MultiHolds, PTL

\* However many calls come before the client of a market is ready, one is made
\* (basic-multiclient.js:130-150).
THEOREM MadeOnce == Spec => []OneClientEach
<1>1. MultiInv => OneClientEach
  BY DEF MultiInv, KnownOnce, Untouched, OneClientEach
<1> QED
  BY <1>1, MultiHolds, PTL

\* When nothing waits for a market's client, it has subscribed what was asked for last
\* (basic-multiclient.js:42-100, 124-190).
THEOREM LastWins == Spec => []LastCallWins
<1>1. MultiInv => LastCallWins
  <2> SUFFICES ASSUME MultiInv, NEW m \in Market, pending[m] = <<>> PROVE subs[m] = wanted[m]
    BY DEF LastCallWins
  <2>1. Settles(<<>>, subs[m], wanted[m]) /\ subs[m] \subseteq Type /\ wanted[m] \subseteq Type
    BY DEF MultiInv, AllSettle, Types
  <2>2. \A t \in Type : NoneAbout(<<>>, t)
    BY DEF NoneAbout
  <2> QED
    BY <2>1, <2>2 DEF Settles
<1> QED
  BY <1>1, MultiHolds, PTL

\* After close() and no other call, no client holds a socket once all is done, those that
\* were still to be made included (basic-multiclient.js:29-33), but for those that the close
\* found with an old socket closing for a reconnection or waiting to retry, whose timers and
\* listeners it does not cancel (basic-client.js:39-58).
THEOREM CloseReachesAll == Spec => []AllClosed
<1>1. MultiInv => AllClosed
  <2> SUFFICES ASSUME MultiInv, last = "close", Quiet, NEW m \in Market, link[m]
               PROVE  m \in missed
    BY DEF AllClosed
  <2>1. PICK i \in 1 .. Len(clients) + 1 : ClosedUpTo(i)
    BY DEF MultiInv, CloseProgress
  <2>2. clients \in Seq(Market) /\ Len(clients) \in Nat
    BY DEF MultiInv, Types
  <2>3. ~(i <= Len(clients))
    <3> SUFFICES ASSUME i <= Len(clients) PROVE FALSE
      OBVIOUS
    <3>1. clients[i] \in Market /\ Ends(pending[clients[i]], i)
      BY <2>1, <2>2 DEF ClosedUpTo
    <3>2. pending[clients[i]] = <<>>
      BY <3>1 DEF Quiet
    <3> QED
      BY <3>1, <3>2 DEF Ends
  <2>4. \A k \in 1 .. Len(clients) : ~link[clients[k]] \/ clients[k] \in missed
    BY <2>1, <2>2, <2>3 DEF ClosedUpTo, Closed, Still
  <2>5. CASE m \in Known
    BY <2>4, <2>5 DEF Known
  <2>6. CASE m \notin Known
    BY <2>6 DEF MultiInv, KnownOnce, Untouched
  <2> QED
    BY <2>5, <2>6
<1> QED
  BY <1>1, MultiHolds, PTL
=============================================================================
