----------------------------- MODULE PoolsProofs -----------------------------
(***************************************************************************)
(* A socket of Gemini that works is that of a subscription, for every set  *)
(* of markets and of sockets; and a client of Bibox is given no more than  *)
(* the server allows, for every limit and every set of feeds.              *)
(***************************************************************************)
EXTENDS MCPools, Naturals, Sequences, FiniteSetTheorems, WellFoundedInduction, TLAPS

Subs == [G!Id -> [known : BOOLEAN, modes : SUBSET UNION {G!Modes(i) : i \in G!Id},
                wss : Socket \cup {NoSocket}, watching : BOOLEAN, fresh : BOOLEAN]]

GeminiTypes ==
    /\ sock \in [Socket -> G!S!SocketState]
    /\ id \in [Socket -> G!Id \cup {G!AnyId}]
    /\ sub \in Subs
    /\ resume \subseteq Socket /\ letGo \subseteq Socket
    /\ crashed \in BOOLEAN

\* The socket has an attempt, a connection or a timer.
Working(w) ==
    \/ w.inner \in {"connecting", "open"} /\ ~w.retry
    \/ w.inner = "null" /\ w.retry

\* The socket of a subscription works, and its handlers are bound to that subscription.
Owned == \A i \in G!Id : sub[i].wss # NoSocket =>
    /\ sub[i].known
    /\ sub[i].wss \notin letGo
    /\ Working(sock[sub[i].wss])
    /\ id[sub[i].wss] = i

\* A reconnection that will come to its end does so for a subscription that is in the map,
\* has no other socket and waits for no other one.
Awaited == \A s \in resume \ letGo :
    /\ sock[s].inner = "closing"
    /\ id[s] \in G!Known /\ sub[id[s]].wss = NoSocket
    /\ \A t \in resume \ letGo : id[t] = id[s] => t = s

\* A timer runs without an inner socket only, and a socket that was let go never rests.
Shapes ==
    /\ \A s \in Socket : sock[s].retry => sock[s].inner = "null"
    /\ \A s \in letGo : Working(sock[s])

Watched == letGo = {} => \A i \in G!Id : sub[i].watching => sub[i].wss # NoSocket

GeminiInv == GeminiTypes /\ Owned /\ Awaited /\ Shapes /\ Watched /\ G!NoOrphan

----------------------------------------------------------------------------
\* What is done to one socket keeps the types of its state.
LEMMA SocketTypes ==
    ASSUME NEW w \in G!S!SocketState
    PROVE  /\ G!S!Attempted(w) \in G!S!SocketState /\ G!S!Opened(w) \in G!S!SocketState
           /\ G!S!Lost(w) \in G!S!SocketState /\ G!S!Closing(w) \in G!S!SocketState
           /\ G!S!Constructed \in G!S!SocketState
  BY DEF G!S!SocketState, G!S!Attempted, G!S!Opened, G!S!Lost, G!S!Closing, G!S!Constructed

\* close() leaves a waiting timer alone, and closes what is there.
LEMMA ClosingWorks ==
    ASSUME NEW w \in G!S!SocketState, Working(w)
    PROVE  /\ G!S!Closing(w).retry = w.retry
           /\ w.retry => G!S!Closing(w).inner = "null"
           /\ ~w.retry => G!S!Closing(w).inner = "closing"
  BY DEF G!S!SocketState, G!S!Closing, Working

\* Of the subscriptions ids the socket and the watcher are given up, and nothing else
\* changes that the invariant speaks about.
GivenUp(ids) ==
    /\ sub' \in Subs
    /\ \A i \in G!Id : /\ sub'[i].known = sub[i].known
                       /\ sub'[i].wss = IF i \in ids THEN NoSocket ELSE sub[i].wss
                       /\ sub'[i].watching = IF i \in ids THEN FALSE ELSE sub[i].watching

\* Closing the sockets of some subscriptions, with or without a listener.
LEMMA CloseStep ==
    ASSUME GeminiInv, NEW ids \in SUBSET G!WithSocket, G!Close(ids), GivenUp(ids),
           UNCHANGED <<id, crashed>>,
           resume' = resume \/ resume' = resume \cup G!Sockets(ids)
    PROVE  GeminiInv'
<1> USE DEF GeminiInv
<1>1. \A i \in ids : /\ i \in G!Id /\ sub[i].known /\ sub[i].wss \in Socket
                     /\ sub[i].wss \notin letGo /\ sub[i].wss # NoSocket
                     /\ Working(sock[sub[i].wss]) /\ id[sub[i].wss] = i
  BY DEF GeminiTypes, Subs, Owned, G!WithSocket, G!Known
<1>2. G!Sockets(ids) \subseteq Socket
  BY <1>1 DEF G!Sockets
<1>3. \A i \in G!Id : /\ sub'[i].known = sub[i].known
                      /\ sub'[i].wss = IF i \in ids THEN NoSocket ELSE sub[i].wss
                      /\ sub'[i].watching = IF i \in ids THEN FALSE ELSE sub[i].watching
  BY DEF GivenUp
<1>4. \A s \in Socket :
         /\ s \notin G!Sockets(ids) => sock'[s] = sock[s]
         /\ s \in G!Sockets(ids) => /\ sock'[s].retry = sock[s].retry
                                    /\ sock[s].retry => sock'[s].inner = "null"
                                    /\ ~sock[s].retry => sock'[s].inner = "closing"
  <2>1. \A s \in G!Sockets(ids) : s \in Socket /\ Working(sock[s]) /\ sock[s] \in G!S!SocketState
    BY <1>1 DEF G!Sockets, GeminiTypes, Subs
  <2>2. \A s \in Socket : sock'[s] = IF s \in G!Sockets(ids) THEN G!S!Closing(sock[s]) ELSE sock[s]
    BY DEF G!Close
  <2> QED
    BY <2>1, <2>2, ClosingWorks
<1>5. letGo' = letGo \cup {s \in G!Sockets(ids) : sock[s].retry}
  BY DEF G!Close
<1>6. \A i \in G!Id : sub[i].wss \in G!Sockets(ids) /\ sub[i].wss # NoSocket => i \in ids
  BY <1>1 DEF G!Sockets, Owned
<1>7. GeminiTypes'
  <2>1. sock' \in [Socket -> G!S!SocketState]
    BY SocketTypes DEF GeminiTypes, Subs, G!Close
  <2> QED
    BY <1>2, <1>5, <2>1 DEF GeminiTypes, GivenUp
<1>8. Owned'
  <2>1. SUFFICES ASSUME NEW i \in G!Id, sub'[i].wss # NoSocket
                 PROVE  /\ sub'[i].known
                        /\ sub'[i].wss \notin letGo'
                        /\ Working(sock'[sub'[i].wss])
                        /\ id[sub'[i].wss] = i
    BY DEF Owned
  <2>2. /\ sub'[i].wss = sub[i].wss /\ sub[i].wss \in Socket \ G!Sockets(ids)
        /\ sub'[i].known = sub[i].known
    BY <1>3, <1>6, <2>1 DEF GeminiTypes, Subs
  <2> QED
    BY <1>4, <1>5, <2>1, <2>2 DEF Owned
<1>9. Shapes'
  <2>1. \A s \in Socket : sock'[s].retry => sock'[s].inner = "null"
    BY <1>4 DEF Shapes
  <2>2. \A s \in letGo : s \in Socket \ G!Sockets(ids)
    BY <1>1 DEF G!Sockets, GeminiTypes, Subs
  <2>3. \A s \in letGo' : Working(sock'[s])
    BY <1>2, <1>4, <1>5, <2>2 DEF Shapes, Working
  <2> QED
    BY <2>1, <2>3 DEF Shapes
<1>10. G!Known' = G!Known
  BY <1>3 DEF G!Known
<1>11. Awaited'
  <2>1. SUFFICES ASSUME NEW s \in resume' \ letGo'
                 PROVE  /\ sock'[s].inner = "closing"
                        /\ id[s] \in G!Known /\ sub'[id[s]].wss = NoSocket
                        /\ \A t \in resume' \ letGo' : id[t] = id[s] => t = s
    BY <1>10 DEF Awaited
  <2>2. \A t \in resume' \ letGo' :
            \/ t \in resume \ letGo /\ t \notin G!Sockets(ids)
            \/ t \in G!Sockets(ids) /\ ~sock[t].retry
    BY <1>5
  <2>3. \A t \in G!Sockets(ids) : id[t] \in ids /\ t = sub[id[t]].wss /\ t \in Socket
    BY <1>1 DEF G!Sockets
  <2>4. \A t \in resume \ letGo : id[t] \in G!Id /\ id[t] \notin ids /\ t \in Socket
    BY <1>1 DEF Awaited, G!Known, GeminiTypes, Subs
  <2>5. CASE s \in G!Sockets(ids) /\ ~sock[s].retry
    <3>1. id[s] \in G!Known /\ sub'[id[s]].wss = NoSocket /\ sock'[s].inner = "closing"
      BY <1>1, <1>3, <1>4, <2>3, <2>5 DEF G!Known
    <3>2. \A t \in resume' \ letGo' : id[t] = id[s] => t = s
      BY <2>2, <2>3, <2>4, <2>5
    <3> QED
      BY <3>1, <3>2
  <2>6. CASE s \in resume \ letGo /\ s \notin G!Sockets(ids)
    <3>1. id[s] \in G!Known /\ sub'[id[s]].wss = NoSocket /\ sock'[s].inner = "closing"
      <4>1. id[s] \in G!Known /\ sub[id[s]].wss = NoSocket /\ sock[s].inner = "closing"
        BY <2>6 DEF Awaited
      <4>2. id[s] \in G!Id /\ id[s] \notin ids /\ s \in Socket
        BY <2>4, <2>6
      <4>3. sub'[id[s]].wss = NoSocket
        BY <1>3, <4>1, <4>2
      <4>4. sock'[s].inner = "closing"
        BY <1>4, <2>6, <4>1, <4>2
      <4> QED
        BY <4>1, <4>3, <4>4
    <3>2. \A t \in resume' \ letGo' : id[t] = id[s] => t = s
      BY <2>2, <2>3, <2>4, <2>6 DEF Awaited
    <3> QED
      BY <3>1, <3>2
  <2> QED
    BY <2>2, <2>5, <2>6
<1>12. Watched'
  BY <1>3, <1>5 DEF Watched, GeminiTypes, Subs
<1>13. G!NoOrphan'
  <2>1. \A s \in Socket : sock'[s].inner \in {"connecting", "open"} \/ sock'[s].retry
           => (id[s] \in G!Known' /\ sub'[id[s]].wss = s) \/ s \in letGo'
    <3>1. SUFFICES ASSUME NEW s \in Socket,
                          sock'[s].inner \in {"connecting", "open"} \/ sock'[s].retry
                   PROVE  (id[s] \in G!Known' /\ sub'[id[s]].wss = s) \/ s \in letGo'
      OBVIOUS
    <3>2. CASE s \in G!Sockets(ids)
      BY <1>4, <1>5, <3>1, <3>2
    <3>3. CASE s \notin G!Sockets(ids)
      <4>1. s \in letGo \/ (id[s] \in G!Known /\ sub[id[s]].wss = s)
        BY <1>4, <3>1, <3>3 DEF G!NoOrphan
      <4>2. id[s] \in G!Known /\ sub[id[s]].wss = s => id[s] \notin ids
        BY <3>3 DEF G!Sockets
      <4> QED
        BY <1>3, <1>5, <1>10, <4>1, <4>2 DEF G!Known
    <3> QED
      BY <3>2, <3>3
  <2> QED
    BY <2>1, <1>5 DEF G!NoOrphan
<1> QED
  BY <1>7, <1>8, <1>9, <1>11, <1>12, <1>13

\* What becomes of one socket, when no subscription changes its own.
LEMMA SocketStep ==
    ASSUME G!GeminiAssumption, GeminiInv, NEW s \in Socket, NEW w \in G!S!SocketState,
           sock[s].inner \in {"connecting", "open"} \/ sock[s].retry,
           Working(w), sock' = [sock EXCEPT ![s] = w],
           \/ sub' = sub \/ sub' = G!Watching(s, TRUE) \/ sub' = G!Watching(s, FALSE),
           UNCHANGED <<id, resume, letGo, crashed>>
    PROVE  GeminiInv'
<1> USE DEF GeminiInv
<1>1. \A i \in G!Id : /\ sub'[i].known = sub[i].known /\ sub'[i].wss = sub[i].wss
                      /\ sub'[i].watching => sub[i].watching \/ (i = id[s] /\ sub[i].known)
  BY DEF G!Watching, GeminiTypes, Subs
<1>2. GeminiTypes'
  <2>1. sub' \in Subs
    <3>1. \A b \in BOOLEAN : [sub EXCEPT ![id[s]].watching = b]
               \in Subs
      BY DEF GeminiTypes, Subs
    <3>2. (TRUE /\ sub[id[s]].known) \in BOOLEAN /\ (FALSE /\ sub[id[s]].known) \in BOOLEAN
      OBVIOUS
    <3> QED
      BY <3>1, <3>2, Zenon DEF GeminiTypes, Subs, G!Watching
  <2> QED
    BY <2>1 DEF GeminiTypes, Subs
<1>3. G!Known' = G!Known
  BY <1>1 DEF G!Known
<1>4. \A t \in Socket : sock'[t] = IF t = s THEN w ELSE sock[t]
  BY DEF GeminiTypes, Subs
<1>5. Owned'
  BY <1>1, <1>4 DEF Owned, GeminiTypes, Subs
<1>6. Shapes'
  BY <1>4 DEF Shapes, Working, GeminiTypes, Subs
<1>7. s \in letGo \/ (id[s] \in G!Known /\ sub[id[s]].wss = s)
  BY DEF G!NoOrphan
<1>8. Awaited'
  <2>1. s \notin resume \ letGo
    BY DEF Awaited, Shapes
  <2>2. \A t \in resume \ letGo : t \in Socket /\ t # s /\ id[t] \in G!Id
    BY <2>1 DEF Awaited, GeminiTypes, Subs, G!Known
  <2> QED
    BY <1>1, <1>3, <1>4, <2>2 DEF Awaited
<1>9. Watched'
  BY <1>1, <1>7 DEF Watched, G!GeminiAssumption
<1>10. G!NoOrphan'
  BY <1>1, <1>3, <1>4, <1>7 DEF G!NoOrphan, G!Known
<1> QED
  BY <1>2, <1>5, <1>6, <1>8, <1>9, <1>10

\* A change of what is subscribed that touches no socket.
LEMMA ModesStep ==
    ASSUME GeminiInv, sub' \in Subs,
           \A i \in G!Id : /\ sub'[i].known = sub[i].known /\ sub'[i].wss = sub[i].wss
                        /\ sub'[i].watching = sub[i].watching,
           UNCHANGED <<sock, id, resume, letGo, crashed>>
    PROVE  GeminiInv'
<1> USE DEF GeminiInv
<1>1. G!Known' = G!Known
  BY DEF G!Known
<1>2. GeminiTypes' /\ Owned'
  BY DEF GeminiTypes, Subs, Owned
<1>3. Shapes' /\ Watched'
  BY DEF Shapes, Watched
<1>4. Awaited'
  <2>1. \A t \in resume \ letGo : id[t] \in G!Id
    BY DEF Awaited, G!Known
  <2> QED
    BY <1>1, <2>1 DEF Awaited
<1>5. G!NoOrphan'
  BY <1>1 DEF G!NoOrphan, G!Known
<1> QED
  BY <1>2, <1>3, <1>4, <1>5
----------------------------------------------------------------------------
\* A subscription that is made, to a market that has none.
LEMMA SubscribeStep ==
    ASSUME G!GeminiAssumption, GeminiInv, NEW i \in G!Id, NEW mode \in G!Modes(i), G!Subscribe(i, mode)
    PROVE  GeminiInv'
<1> USE DEF GeminiInv
<1>1. CASE i \in G!Known /\ sub' = [sub EXCEPT ![i].modes = @ \cup {mode}] /\ UNCHANGED <<sock, id>>
  BY <1>1, ModesStep DEF G!Subscribe, GeminiTypes, Subs
<1>2. ASSUME i \notin G!Known, NEW s \in Socket, G!S!Idle(sock[s]),
             sock' = [sock EXCEPT ![s] = G!S!Attempted(G!S!Constructed)],
             id' = [id EXCEPT ![s] = i],
             sub' = [sub EXCEPT ![i] = [known |-> TRUE, modes |-> {mode}, wss |-> s,
                                        watching |-> TRUE, fresh |-> FALSE]]
      PROVE  GeminiInv'
  <2>1. UNCHANGED <<resume, letGo, crashed>>
    BY DEF G!Subscribe
  <2>2. ~Working(sock[s]) /\ sock[s].inner # "closing"
    BY <1>2 DEF G!S!Idle, Working
  <2>3. /\ s \notin letGo /\ s \notin resume
        /\ \A j \in G!Id : sub[j].wss # s
    BY <2>2 DEF Shapes, Awaited, Owned, G!GeminiAssumption
  <2>4. \A t \in Socket : /\ t # s => sock'[t] = sock[t] /\ id'[t] = id[t]
                          /\ id'[s] = i
                          /\ sock'[s].inner = "connecting" /\ ~sock'[s].retry
    BY <1>2 DEF GeminiTypes, Subs, G!S!Attempted, G!S!Constructed
  <2>5. /\ \A j \in G!Id : j # i => sub'[j] = sub[j]
        /\ sub'[i].known /\ sub'[i].wss = s
    BY <1>2 DEF GeminiTypes, Subs
  <2>6. GeminiTypes'
    <3>1. G!S!Attempted(G!S!Constructed) \in G!S!SocketState
      BY DEF G!S!SocketState, G!S!Attempted, G!S!Constructed
    <3> QED
      BY <1>2, <2>1, <3>1 DEF GeminiTypes, Subs
  <2>7. Owned'
    BY <2>1, <2>3, <2>4, <2>5 DEF Owned, Working, GeminiTypes, Subs
  <2>8. Shapes'
    BY <2>1, <2>3, <2>4 DEF Shapes, Working, GeminiTypes, Subs
  <2>9. Awaited'
    <3>1. \A t \in resume \ letGo : t \in Socket /\ t # s /\ id[t] \in G!Id /\ id[t] # i
      BY <1>2, <2>3 DEF Awaited, GeminiTypes, Subs, G!Known
    <3> QED
      BY <2>1, <2>4, <2>5, <3>1 DEF Awaited, G!Known
  <2>10. Watched'
    BY <2>1, <2>5 DEF Watched, G!GeminiAssumption
  <2>11. G!NoOrphan'
    BY <1>2, <2>1, <2>4, <2>5 DEF G!NoOrphan, G!Known
  <2> QED
    BY <2>6, <2>7, <2>8, <2>9, <2>10, <2>11
<1> QED
  BY <1>1, <1>2 DEF G!Subscribe

\* Subscriptions leave the map with their sockets; what is not in it may be deleted too.
LEMMA DeleteStep ==
    ASSUME G!GeminiAssumption, GeminiInv, NEW ids \in SUBSET G!WithSocket, G!Close(ids),
           NEW gone \in SUBSET (ids \cup (G!Id \ G!Known)), ids \subseteq gone,
           sub' = [i \in G!Id |-> IF i \in gone THEN G!NoSubscription ELSE sub[i]],
           UNCHANGED <<id, resume, crashed>>
    PROVE  GeminiInv'
<1> USE DEF GeminiInv
<1>1. \A i \in ids : /\ i \in G!Id /\ sub[i].known /\ sub[i].wss \in Socket
                     /\ sub[i].wss \notin letGo /\ sub[i].wss # NoSocket
                     /\ Working(sock[sub[i].wss]) /\ id[sub[i].wss] = i
  BY DEF GeminiTypes, Subs, Owned, G!WithSocket, G!Known
<1>2. \A s \in G!Sockets(ids) : /\ s \in Socket /\ s \notin letGo /\ Working(sock[s])
                                /\ id[s] \in ids /\ s = sub[id[s]].wss
  BY <1>1 DEF G!Sockets
<1>3. \A i \in G!Id : /\ i \notin gone => sub'[i] = sub[i]
                      /\ i \in gone => sub'[i].wss = NoSocket /\ ~sub'[i].watching
                      /\ i \in gone \ ids => i \notin G!Known
  BY DEF G!NoSubscription
<1>4. \A s \in Socket :
         /\ s \notin G!Sockets(ids) => sock'[s] = sock[s]
         /\ s \in G!Sockets(ids) => /\ sock'[s].retry = sock[s].retry
                                    /\ sock[s].retry => sock'[s].inner = "null"
                                    /\ ~sock[s].retry => sock'[s].inner = "closing"
  <2>1. \A s \in Socket : sock'[s] = IF s \in G!Sockets(ids) THEN G!S!Closing(sock[s]) ELSE sock[s]
    BY DEF G!Close
  <2> QED
    BY <1>2, <2>1, ClosingWorks DEF GeminiTypes, Subs
<1>5. letGo' = letGo \cup {s \in G!Sockets(ids) : sock[s].retry}
  BY DEF G!Close
<1>6. GeminiTypes'
  <2>1. sock' \in [Socket -> G!S!SocketState]
    BY SocketTypes DEF GeminiTypes, Subs, G!Close
  <2> QED
    BY <1>2, <1>5, <2>1 DEF GeminiTypes, Subs, G!NoSubscription
<1>7. Owned'
  <2>1. \A i \in G!Id : sub'[i].wss # NoSocket =>
           /\ i \notin gone /\ sub'[i] = sub[i] /\ sub[i].wss \in Socket \ G!Sockets(ids)
    BY <1>2, <1>3 DEF Owned, GeminiTypes, Subs
  <2> QED
    BY <1>4, <1>5, <2>1 DEF Owned
<1>8. Shapes'
  BY <1>2, <1>4, <1>5 DEF Shapes, Working, GeminiTypes, Subs
<1>9. Awaited'
  <2>1. \A s \in resume \ letGo : /\ s \in Socket \ G!Sockets(ids)
                                 /\ id[s] \in G!Id \ ids
    BY <1>1, <1>2 DEF Awaited, Working, GeminiTypes, Subs, G!Known
  <2>2. resume' \ letGo' \subseteq resume \ letGo
    BY <1>5
  <2> QED
    BY <1>3, <1>4, <2>1, <2>2 DEF Awaited, G!Known
<1>10. Watched'
  BY <1>3, <1>5 DEF Watched
<1>11. G!NoOrphan'
  <2>1. SUFFICES ASSUME NEW s \in Socket,
                        sock'[s].inner \in {"connecting", "open"} \/ sock'[s].retry
                 PROVE  (id[s] \in G!Known' /\ sub'[id[s]].wss = s) \/ s \in letGo'
    BY <1>5 DEF G!NoOrphan
  <2>2. CASE s \in G!Sockets(ids)
    BY <1>4, <1>5, <2>1, <2>2
  <2>3. CASE s \notin G!Sockets(ids)
    <3>1. s \in letGo \/ (id[s] \in G!Known /\ sub[id[s]].wss = s)
      BY <1>4, <2>1, <2>3 DEF G!NoOrphan
    <3>2. id[s] \in G!Known /\ sub[id[s]].wss = s => id[s] \notin ids
      BY <2>3 DEF G!Sockets
    <3> QED
      BY <1>3, <1>5, <3>1, <3>2 DEF G!Known
  <2> QED
    BY <2>2, <2>3
<1> QED
  BY <1>6, <1>7, <1>8, <1>9, <1>10, <1>11

\* Subscriptions are forgotten, and stay in the map.
LEMMA ForgetStep ==
    ASSUME GeminiInv, NEW ids \in SUBSET G!WithSocket, G!Close(ids), sub' = G!Forgotten(ids),
           UNCHANGED <<id, crashed>>,
           resume' = resume \/ resume' = resume \cup G!Sockets(ids)
    PROVE  GeminiInv'
<1>1. sub \in Subs
  BY DEF GeminiInv, GeminiTypes, Subs
<1>2. GivenUp(ids)
  BY <1>1 DEF G!Forgotten, Subs, GivenUp
<1>3. UNCHANGED <<id, crashed>> /\ (resume' = resume \/ resume' = resume \cup G!Sockets(ids))
  OBVIOUS
<1> QED
  BY <1>2, <1>3, CloseStep, Zenon

\* _unsubscribe of a subscription without a socket: it loses its mode and throws.
LEMMA ThrowStep ==
    ASSUME GeminiInv, NEW before \in SUBSET G!WithSocket, G!Close(before),
           NEW i \in G!Id, NEW left \in SUBSET sub[i].modes,
           sub' = [G!Forgotten(before) EXCEPT ![i].modes = left],
           UNCHANGED <<id, resume, crashed>>
    PROVE  GeminiInv'
<1>1. sub \in Subs
  BY DEF GeminiInv, GeminiTypes, Subs
<1>2. G!Forgotten(before) \in Subs /\ left \subseteq UNION {G!Modes(j) : j \in G!Id}
  BY <1>1 DEF G!Forgotten, Subs
<1>3. \A j \in G!Id : /\ sub'[j].known = G!Forgotten(before)[j].known
                      /\ sub'[j].wss = G!Forgotten(before)[j].wss
                      /\ sub'[j].watching = G!Forgotten(before)[j].watching
  BY <1>2 DEF Subs
<1>4. GivenUp(before)
  <2>1. sub' \in Subs
    BY <1>2 DEF Subs
  <2>2. \A j \in G!Id : G!Forgotten(before)[j] =
            IF j \in before THEN [sub[j] EXCEPT !.wss = NoSocket, !.watching = FALSE] ELSE sub[j]
    BY DEF G!Forgotten
  <2>3. \A j \in G!Id : /\ G!Forgotten(before)[j].known = sub[j].known
                        /\ G!Forgotten(before)[j].wss = IF j \in before THEN NoSocket ELSE sub[j].wss
                        /\ G!Forgotten(before)[j].watching = IF j \in before THEN FALSE ELSE sub[j].watching
    BY <1>1, <2>2 DEF Subs
  <2> QED
    BY <1>3, <2>1, <2>3 DEF GivenUp
<1>5. UNCHANGED <<id, crashed>> /\ resume' = resume
  OBVIOUS
<1> QED
  BY <1>4, <1>5, CloseStep, Zenon

\* _unsubscribe
LEMMA UnsubscribeStep ==
    ASSUME G!GeminiAssumption, GeminiInv, NEW i \in G!Id, NEW mode, G!Unsubscribe(i, mode)
    PROVE  GeminiInv'
<1> DEFINE left == sub[i].modes \ {mode}
<1>1. sub \in Subs
  BY DEF GeminiInv, GeminiTypes, Subs
<1>2. CASE sub' = [sub EXCEPT ![i].modes = left] /\ UNCHANGED <<sock, letGo, id, resume, crashed>>
  <2>1. /\ sub' \in Subs
        /\ \A j \in G!Id : /\ sub'[j].known = sub[j].known /\ sub'[j].wss = sub[j].wss
                           /\ sub'[j].watching = sub[j].watching
    BY <1>1, <1>2 DEF Subs
  <2> QED
    BY <1>2, <2>1, ModesStep
<1>3. CASE /\ i \in G!WithSocket /\ G!Close({i}) /\ sub' = [sub EXCEPT ![i] = G!NoSubscription]
           /\ UNCHANGED <<id, resume, crashed>>
  <2>1. sub' = [j \in G!Id |-> IF j \in {i} THEN G!NoSubscription ELSE sub[j]]
    BY <1>1, <1>3 DEF Subs
  <2> QED
    BY <1>3, <2>1, DeleteStep
<1>4. CASE \E before \in SUBSET G!WithSocket :
              /\ G!Close(before)
              /\ sub' = [G!Forgotten(before) EXCEPT ![i].modes = left]
              /\ UNCHANGED <<id, resume, crashed>>
  <2>1. PICK before \in SUBSET G!WithSocket :
              /\ G!Close(before)
              /\ sub' = [G!Forgotten(before) EXCEPT ![i].modes = left]
              /\ UNCHANGED <<id, resume, crashed>>
    BY <1>4
  <2>2. left \in SUBSET sub[i].modes
    OBVIOUS
  <2> QED
    BY <2>1, <2>2, ThrowStep
<1> QED
  BY <1>2, <1>3, <1>4 DEF G!Unsubscribe

\* close()
LEMMA CloseAllStep ==
    ASSUME G!GeminiAssumption, GeminiInv, G!CloseAll
    PROVE  GeminiInv'
<1>1. CASE G!Known = G!WithSocket /\ G!Close(G!Known) /\ sub' = [i \in G!Id |-> G!NoSubscription]
  <2>1. sub' = [i \in G!Id |-> IF i \in G!Id THEN G!NoSubscription ELSE sub[i]]
    BY <1>1
  <2>2. G!Known \in SUBSET G!WithSocket /\ G!Known \subseteq G!Id
    BY <1>1 DEF G!Known
  <2>3. G!Id \in SUBSET (G!Known \cup (G!Id \ G!Known))
    OBVIOUS
  <2> QED
    BY <1>1, <2>1, <2>2, <2>3, DeleteStep DEF G!CloseAll
<1>2. CASE G!CloseForEver
  BY <1>2, ForgetStep DEF G!CloseAll, G!CloseForEver
<1> QED
  BY <1>1, <1>2 DEF G!CloseAll

\* reconnect()
LEMMA ReconnectAllStep ==
    ASSUME GeminiInv, G!ReconnectAll
    PROVE  GeminiInv'
<1>1. CASE G!Known = G!WithSocket /\ G!Reconnect(G!Known)
  BY <1>1, ForgetStep DEF G!ReconnectAll, G!Reconnect
<1>2. CASE \E before \in SUBSET G!WithSocket : G!Reconnect(before)
  BY <1>2, ForgetStep DEF G!ReconnectAll, G!Reconnect
<1> QED
  BY <1>1, <1>2 DEF G!ReconnectAll

\* The watcher finds a subscription silent: it has a socket, or one was let go before.
LEMMA CheckStep ==
    ASSUME GeminiInv, NEW i \in G!Id, G!Check(i)
    PROVE  GeminiInv'
<1>1. CASE i \in G!WithSocket /\ G!Reconnect({i}) /\ UNCHANGED crashed
  BY <1>1, ForgetStep DEF G!Check, G!Reconnect
<1>2. CASE /\ i \notin G!WithSocket /\ crashed' = TRUE
           /\ UNCHANGED <<id, sock, sub, resume, letGo>>
  <2>1. letGo # {}
    <3>1. sub[i].wss = NoSocket
      BY <1>2 DEF G!WithSocket, G!Known, GeminiInv, Owned
    <3> QED
      BY <3>1 DEF GeminiInv, Watched, G!Check
  <2>2. GeminiTypes' /\ Owned' /\ Shapes' /\ Watched'
    BY <1>2 DEF GeminiInv, GeminiTypes, Owned, Shapes, Watched
  <2>3. G!Known' = G!Known
    BY <1>2 DEF G!Known
  <2>4. Awaited' /\ G!NoOrphan'
    BY <1>2, <2>1, <2>3 DEF GeminiInv, Awaited, G!NoOrphan
  <2> QED
    BY <2>2, <2>4 DEF GeminiInv
<1> QED
  BY <1>1, <1>2 DEF G!Check

\* A socket is closed: it comes back for the subscription that awaits it, or rests.
LEMMA ClosedStep ==
    ASSUME G!GeminiAssumption, GeminiInv, NEW s \in Socket, G!Closed(s)
    PROVE  GeminiInv'
<1> USE DEF GeminiInv
<1>1. /\ sock[s].inner = "closing" /\ ~Working(sock[s]) /\ s \notin letGo
      /\ \A i \in G!Id : sub[i].wss # s
      /\ resume' = resume \ {s} /\ UNCHANGED <<letGo, crashed>>
  BY DEF G!Closed, Working, Shapes, Owned, G!GeminiAssumption
<1>2. CASE /\ s \in resume
           /\ sock' = [sock EXCEPT ![s] = G!S!Attempted(G!S!Constructed)]
           /\ sub' = [sub EXCEPT ![id[s]].wss = s]
           /\ UNCHANGED id
  <2>1. /\ id[s] \in G!Id /\ sub[id[s]].known /\ sub[id[s]].wss = NoSocket
        /\ \A t \in resume' \ letGo' : t \in Socket /\ t # s /\ id[t] \in G!Id /\ id[t] # id[s]
    BY <1>1, <1>2 DEF Awaited, G!Known, GeminiTypes
  <2>2. \A t \in Socket : /\ t # s => sock'[t] = sock[t]
                          /\ sock'[s].inner = "connecting" /\ ~sock'[s].retry
    BY <1>2 DEF GeminiTypes, G!S!Attempted, G!S!Constructed
  <2>3. \A i \in G!Id : /\ sub'[i].known = sub[i].known
                        /\ sub'[i].watching = sub[i].watching
                        /\ i # id[s] => sub'[i] = sub[i]
                        /\ sub'[id[s]].wss = s
    BY <1>2, <2>1 DEF GeminiTypes, Subs
  <2>4. GeminiTypes'
    <3>1. sock' \in [Socket -> G!S!SocketState]
      BY <1>2 DEF GeminiTypes, G!S!SocketState, G!S!Attempted, G!S!Constructed
    <3>2. sub' \in Subs
      BY <1>2, <2>1 DEF GeminiTypes, Subs
    <3> QED
      BY <1>1, <1>2, <3>1, <3>2 DEF GeminiTypes
  <2>5. Owned'
    BY <1>1, <1>2, <2>1, <2>2, <2>3 DEF Owned, Working, GeminiTypes, Subs
  <2>6. Shapes'
    BY <1>1, <2>2 DEF Shapes, Working, GeminiTypes
  <2>7. G!Known' = G!Known
    BY <2>3 DEF G!Known
  <2>8. Awaited'
    BY <1>1, <1>2, <2>1, <2>2, <2>3, <2>7 DEF Awaited
  <2>9. Watched'
    BY <1>1, <2>3 DEF Watched, G!GeminiAssumption
  <2>10. G!NoOrphan'
    <3>1. \A t \in Socket : t # s /\ id[t] \in G!Known /\ sub[id[t]].wss = t => sub'[id[t]].wss = t
      BY <2>1, <2>3 DEF G!Known, G!GeminiAssumption
    <3>2. id'[s] \in G!Known' /\ sub'[id'[s]].wss = s
      BY <1>2, <2>1, <2>3 DEF G!Known
    <3> QED
      BY <1>1, <1>2, <2>2, <2>7, <3>1, <3>2 DEF G!NoOrphan
  <2> QED
    BY <2>4, <2>5, <2>6, <2>8, <2>9, <2>10
<1>3. CASE /\ s \notin resume
           /\ sock' = [sock EXCEPT ![s] = G!S!Constructed]
           /\ id' = [id EXCEPT ![s] = G!AnyId]
           /\ UNCHANGED sub
  <2>1. \A t \in Socket : /\ t # s => sock'[t] = sock[t] /\ id'[t] = id[t]
                          /\ sock'[s].inner = "null" /\ ~sock'[s].retry
    BY <1>3 DEF GeminiTypes, G!S!Constructed
  <2>2. GeminiTypes'
    BY <1>1, <1>3 DEF GeminiTypes, G!S!SocketState, G!S!Constructed
  <2>3. Owned'
    <3>1. \A i \in G!Id : sub[i].wss \in Socket \cup {NoSocket} /\ sub[i].wss # s
      BY <1>1 DEF GeminiTypes, Subs
    <3> QED
      BY <1>1, <1>3, <2>1, <3>1 DEF Owned
  <2>4. Shapes'
    BY <1>1, <2>1 DEF Shapes, GeminiTypes
  <2>5. G!Known' = G!Known
    BY <1>3 DEF G!Known
  <2>6. Awaited'
    BY <1>1, <1>3, <2>1, <2>5 DEF Awaited, GeminiTypes
  <2>7. Watched' /\ G!NoOrphan'
    BY <1>1, <1>3, <2>1, <2>5 DEF Watched, G!NoOrphan
  <2> QED
    BY <2>2, <2>3, <2>4, <2>6, <2>7
<1> QED
  BY <1>2, <1>3 DEF G!Closed

LEMMA GeminiStep == G!GeminiAssumption /\ GeminiInv /\ (G!Next \/ UNCHANGED G!vars) => GeminiInv'
<1> SUFFICES ASSUME G!GeminiAssumption, GeminiInv, (G!Next \/ UNCHANGED G!vars) PROVE GeminiInv'
  OBVIOUS
<1>1. ASSUME NEW i \in G!Id, NEW mode \in G!Modes(i), G!Subscribe(i, mode) \/ G!Unsubscribe(i, mode)
      PROVE  GeminiInv'
  BY <1>1, SubscribeStep, UnsubscribeStep
<1>2. ASSUME NEW i \in G!Id, G!Check(i) PROVE GeminiInv'
  BY <1>2, CheckStep
<1>3. ASSUME NEW i \in G!Id, G!GrowsOld(i) PROVE GeminiInv'
  <2>1. sub \in Subs
    BY DEF GeminiInv, GeminiTypes
  <2>2. /\ sub' \in Subs
        /\ \A j \in G!Id : /\ sub'[j].known = sub[j].known /\ sub'[j].wss = sub[j].wss
                           /\ sub'[j].watching = sub[j].watching
    BY <1>3, <2>1 DEF G!GrowsOld, Subs
  <2> QED
    BY <1>3, <2>2, ModesStep DEF G!GrowsOld
<1>4. CASE G!CloseAll \/ G!ReconnectAll
  BY <1>4, CloseAllStep, ReconnectAllStep
<1>5. ASSUME NEW s \in Socket, G!Connected(s) \/ G!Disconnected(s) \/ G!Retries(s) PROVE GeminiInv'
  <2>1. sock[s] \in G!S!SocketState /\ (sock[s].retry => sock[s].inner = "null")
    BY DEF GeminiInv, GeminiTypes, Shapes
  <2>2. CASE G!Connected(s)
    <3>1. Working(G!S!Opened(sock[s])) /\ G!S!Opened(sock[s]) \in G!S!SocketState
      BY <2>1, <2>2 DEF G!Connected, Working, G!S!Opened, G!S!SocketState
    <3> QED
      BY <2>2, <3>1, SocketStep DEF G!Connected
  <2>3. CASE G!Disconnected(s)
    <3>1. Working(G!S!Lost(sock[s])) /\ G!S!Lost(sock[s]) \in G!S!SocketState
      BY <2>1, <2>3 DEF G!Disconnected, Working, G!S!Lost, G!S!SocketState
    <3> QED
      BY <2>3, <3>1, SocketStep DEF G!Disconnected
  <2>4. CASE G!Retries(s)
    <3>1. Working(G!S!Attempted(sock[s])) /\ G!S!Attempted(sock[s]) \in G!S!SocketState
      BY <2>1, <2>4 DEF G!Retries, Working, G!S!Attempted, G!S!SocketState
    <3> QED
      BY <2>4, <3>1, SocketStep DEF G!Retries
  <2> QED
    BY <1>5, <2>2, <2>3, <2>4
<1>6. ASSUME NEW s \in Socket, G!Closed(s) PROVE GeminiInv'
  BY <1>6, ClosedStep
<1>7. ASSUME NEW s \in Socket, G!Message(s) PROVE GeminiInv'
  <2>1. sub \in Subs
    BY DEF GeminiInv, GeminiTypes
  <2>2. /\ sub' \in Subs
        /\ \A j \in G!Id : /\ sub'[j].known = sub[j].known /\ sub'[j].wss = sub[j].wss
                           /\ sub'[j].watching = sub[j].watching
    <3>1. sub' = [sub EXCEPT ![id[s]].fresh = TRUE]
      BY <1>7 DEF G!Message
    <3>2. \A j \in G!Id : sub'[j] = IF j = id[s] THEN [sub[j] EXCEPT !.fresh = TRUE] ELSE sub[j]
      BY <2>1, <3>1 DEF Subs
    <3>3. sub' = [j \in G!Id |-> sub'[j]]
      BY <2>1, <3>1 DEF Subs
    <3> DEFINE Sub == [known : BOOLEAN, modes : SUBSET UNION {G!Modes(i) : i \in G!Id},
                       wss : Socket \cup {NoSocket}, watching : BOOLEAN, fresh : BOOLEAN]
    <3>4. ASSUME NEW j \in G!Id
          PROVE  /\ sub'[j] \in Sub
                 /\ sub'[j].known = sub[j].known /\ sub'[j].wss = sub[j].wss
                 /\ sub'[j].watching = sub[j].watching
      <4>1. sub[j] \in Sub
        BY <2>1 DEF Subs
      <4>2. sub'[j] = sub[j] \/ sub'[j] = [sub[j] EXCEPT !.fresh = TRUE]
        BY <3>2
      <4> QED
        BY <4>1, <4>2
    <3>5. sub' \in [G!Id -> Sub]
      <4> HIDE DEF Sub
      <4> QED
        BY <3>3, <3>4
    <3> QED
      BY <3>4, <3>5 DEF Subs
  <2> QED
    BY <1>7, <2>2, ModesStep DEF G!Message
<1>8. CASE UNCHANGED G!vars
  BY <1>8 DEF G!vars, GeminiInv, GeminiTypes, Owned, Awaited, Shapes, Watched, G!NoOrphan, G!Known
<1> QED
  BY <1>1, <1>2, <1>3, <1>4, <1>5, <1>6, <1>7, <1>8 DEF G!Next

----------------------------------------------------------------------------
\* The assumption, with the operators of this module in the place of the instance's own.
BiboxFacts ==
    /\ PerClient \in Nat \ {0} /\ MaxCount \in Nat
    /\ IsFiniteSet(Feed)
    /\ NoClient \notin Client

LEMMA SameCardinality ==
    ASSUME NEW T
    PROVE  B!Cardinality(T) = Cardinality(T)
  BY Zenon DEF B!Cardinality, Cardinality

LEMMA FactsOfBibox == B!BiboxAssumption => BiboxFacts
<1>1. B!IsFiniteSet(Feed) => IsFiniteSet(Feed)
  BY DEF B!IsFiniteSet, IsFiniteSet
<1> QED
  BY <1>1 DEF B!BiboxAssumption, BiboxFacts

BiboxTypes ==
    /\ queue \in Seq(Feed) /\ list \in Seq(Client)
    /\ owner \in [Feed -> Client \cup {NoClient}]
    /\ subs \in [Client -> SUBSET Feed] /\ remote \in [Client -> SUBSET Feed]
    /\ conn \in [Client -> {"none", "closing", "opening", "open", "retrying"}]
    /\ count \in [Client -> Int]
    /\ unchecked \subseteq Client

\* What the server sends a client, that client has; and what a client has, the map gives
\* to it and to no other.
Mapped == \A c \in Client : /\ remote[c] \subseteq subs[c]
                            /\ conn[c] # "open" => remote[c] = {}
                            /\ \A k \in subs[c] : owner[k] = c

\* A client that was not given a feed unchecked has no more than the limit.
Limited == \A c \in Client \ unchecked : Cardinality(subs[c]) <= PerClient

BiboxInv == BiboxTypes /\ Mapped /\ Limited

----------------------------------------------------------------------------
Smaller == {p \in Nat \X Nat : p[1] < p[2]}

\* A set of numbers has a smallest one.
LEMMA SmallestInSet ==
    ASSUME NEW T \in SUBSET Nat, T # {}
    PROVE  B!Min(T) \in T
<1>1. IsWellFoundedOn(Smaller, Nat)
  BY NatLessThanWellFounded, Zenon DEF OpToRel, Smaller
<1>2. PICK i \in T : \A j \in T : ~(<<j, i>> \in Smaller)
  BY <1>1, WFMin, Zenon
<1>3. ASSUME NEW j \in T, ~(i <= j) PROVE FALSE
  <2>1. i \in Nat /\ j \in Nat
    OBVIOUS
  <2>2. j < i
    BY <1>3, <2>1
  <2>3. <<j, i>> \in Smaller
    BY <2>1, <2>2 DEF Smaller
  <2> QED
    BY <1>2, <2>3
<1> QED
  BY <1>2, <1>3 DEF B!Min

\* The search ends at a client of the list that has room.
LEMMA FirstFreeHasRoom ==
    ASSUME BiboxTypes, B!FirstFree # 0
    PROVE  B!FirstFree \in DOMAIN list /\ count[list[B!FirstFree]] < PerClient
<1> DEFINE Free == {i \in 1 .. Len(list) : count[list[i]] < PerClient}
<1>1. B!FirstFree = IF Free # {} THEN B!Min(Free) ELSE 0
  BY DEF B!FirstFree, B!SelectInSeq
<1>2. Free # {} /\ Free \in SUBSET Nat
  BY <1>1 DEF BiboxTypes
<1>3. B!Min(Free) \in Free
  <2> HIDE DEF Free
  <2> QED
    BY <1>2, SmallestInSet
<1> QED
  BY <1>1, <1>2, <1>3 DEF BiboxTypes

\* splice takes one client out of the list.
LEMMA SplicedType ==
    ASSUME BiboxTypes, NEW c \in Client
    PROVE  B!Spliced(c) \in Seq(Client)
<1> DEFINE At == {i \in 1 .. Len(list) : list[i] = c}
           i == IF At # {} THEN B!Min(At) ELSE 0
<1>1. list \in Seq(Client)
  BY DEF BiboxTypes
<1>2. B!Spliced(c) = IF i # 0 THEN B!RemoveAt(list, i) ELSE IF list = <<>> THEN list ELSE B!Front(list)
  BY DEF B!Spliced, B!SelectInSeq
<1>3. i # 0 => i \in 1 .. Len(list)
  <2>1. At \in SUBSET Nat
    OBVIOUS
  <2>2. At # {} => B!Min(At) \in At
    <3> HIDE DEF At
    <3> QED
      BY <2>1, SmallestInSet
  <2> QED
    BY <2>2
<1>4. i # 0 => B!RemoveAt(list, i) \in Seq(Client)
  <2> HIDE DEF i
  <2> QED
    BY <1>1, <1>3 DEF B!RemoveAt
<1>5. list # <<>> => B!Front(list) \in Seq(Client)
  BY <1>1 DEF B!Front
<1> QED
  <2> HIDE DEF i
  <2> QED
    BY <1>1, <1>2, <1>4, <1>5

\* A feed goes to a client that the map names already, or to one with room, or to a new one.
LEMMA GiveStep ==
    ASSUME BiboxFacts, BiboxInv, NEW k \in Feed, NEW c \in Client, B!Give(k, c),
           \/ owner[k] = c
           \/ owner[k] = NoClient /\ (count[c] < PerClient \/ c \in B!Unused),
           queue' \in Seq(Feed), list' \in Seq(Client)
    PROVE  BiboxInv'
<1> USE DEF BiboxInv
<1>1. /\ owner' = [owner EXCEPT ![k] = c]
      /\ subs' = [subs EXCEPT ![c] = @ \cup {k}]
      /\ conn' = [conn EXCEPT ![c] = IF B!HasSocket(c) THEN @ ELSE "opening"]
      /\ \/ UNCHANGED <<count, remote>>
         \/ /\ conn[c] = "open"
            /\ count' = [count EXCEPT ![c] = @ + 1]
            /\ remote' = [remote EXCEPT ![c] = @ \cup {k}]
      /\ \/ unchecked' = unchecked \cup {c}
         \/ /\ unchecked' = unchecked
            /\ ~(count[c] < Cardinality(subs[c]))
            /\ ~(owner[k] = c /\ count[c] >= PerClient)
  BY SameCardinality DEF B!Give
<1>2. BiboxTypes'
  <2>1. owner' \in [Feed -> Client \cup {NoClient}] /\ subs' \in [Client -> SUBSET Feed]
    BY <1>1 DEF BiboxTypes
  <2>2. remote' \in [Client -> SUBSET Feed] /\ count' \in [Client -> Int]
    <3>1. [remote EXCEPT ![c] = @ \cup {k}] \in [Client -> SUBSET Feed]
      BY DEF BiboxTypes
    <3>2. count[c] + 1 \in Int /\ [count EXCEPT ![c] = @ + 1] \in [Client -> Int]
      BY DEF BiboxTypes
    <3>3. remote \in [Client -> SUBSET Feed] /\ count \in [Client -> Int]
      BY DEF BiboxTypes
    <3> QED
      BY <1>1, <3>1, <3>2, <3>3, Zenon
  <2>3. unchecked' \subseteq Client
        /\ conn' \in [Client -> {"none", "closing", "opening", "open", "retrying"}]
    BY <1>1 DEF BiboxTypes
  <2> QED
    BY <2>1, <2>2, <2>3 DEF BiboxTypes
<1>3. Mapped'
  <2>1. \A d \in Client : d # c => k \notin subs[d]
    BY DEF Mapped, BiboxFacts
  <2>2. \A d \in Client : /\ remote'[d] \subseteq subs'[d]
                          /\ \A j \in subs'[d] : owner'[j] = d
    BY <1>1, <2>1 DEF Mapped, BiboxTypes
  <2>3. \A d \in Client : conn'[d] # "open" => remote'[d] = {}
    BY <1>1 DEF Mapped, BiboxTypes, B!HasSocket
  <2> QED
    BY <2>2, <2>3 DEF Mapped
<1>4. Limited'
  <2>1. \A d \in Client : d # c => subs'[d] = subs[d]
    BY <1>1 DEF BiboxTypes
  <2>2. unchecked \subseteq unchecked'
    BY <1>1
  <2>3. ASSUME c \notin unchecked' PROVE Cardinality(subs'[c]) <= PerClient
    <3>1. /\ IsFiniteSet(subs[c]) /\ Cardinality(subs[c]) \in Nat
          /\ subs'[c] = subs[c] \cup {k}
      <4>1. subs[c] \in SUBSET Feed /\ subs'[c] = subs[c] \cup {k}
        BY <1>1 DEF BiboxTypes
      <4>2. IsFiniteSet(subs[c])
        BY <4>1, FS_Subset, Zenon DEF BiboxFacts
      <4> QED
        BY <4>1, <4>2, FS_CardinalityType, Zenon
    <3>2. \/ subs'[c] = subs[c]
          \/ k \notin subs[c] /\ Cardinality(subs'[c]) = Cardinality(subs[c]) + 1
      <4>1. k \in subs[c] => subs'[c] = subs[c]
        BY <3>1
      <4>2. k \notin subs[c] => Cardinality(subs[c] \cup {k}) = Cardinality(subs[c]) + 1
        BY <3>1, FS_AddElement, Zenon
      <4> QED
        BY <3>1, <4>1, <4>2, Zenon
    <3>3. CASE subs'[c] = subs[c]
      BY <2>2, <2>3, <3>3 DEF Limited
    <3>4. CASE c \in B!Unused /\ owner[k] # c
      <4>1. subs[c] = {}
        BY <3>4 DEF B!Unused, Mapped, BiboxTypes
      <4> QED
        <5>1. subs'[c] = {k}
          BY <3>1, <4>1
        <5>2. Cardinality({k}) = 1
          BY FS_Singleton, Zenon
        <5> QED
          BY <5>1, <5>2 DEF BiboxFacts
    <3>5. CASE /\ count[c] < PerClient
               /\ k \notin subs[c] /\ Cardinality(subs'[c]) = Cardinality(subs[c]) + 1
      <4>1. ~(count[c] < Cardinality(subs[c])) /\ count[c] \in Int
        BY <1>1, <2>3 DEF BiboxTypes
      <4> QED
        BY <3>1, <3>5, <4>1 DEF BiboxFacts
    <3>6. owner[k] = c => count[c] < PerClient
      BY <1>1, <2>3 DEF BiboxTypes, BiboxFacts
    <3> QED
      BY <3>2, <3>3, <3>4, <3>5, <3>6 DEF BiboxFacts
  <2> QED
    BY <2>1, <2>2, <2>3 DEF Limited
<1> QED
  BY <1>2, <1>3, <1>4

\* _subscribe
LEMMA AssignStep ==
    ASSUME BiboxFacts, BiboxInv, NEW k \in Feed, B!Assign(k), queue' \in Seq(Feed)
    PROVE  BiboxInv'
<1>1. BiboxTypes
  BY DEF BiboxInv
<1>2. CASE owner[k] # NoClient /\ B!Give(k, owner[k]) /\ UNCHANGED list
  BY <1>1, <1>2, GiveStep DEF BiboxTypes
<1>3. CASE owner[k] = NoClient /\ B!FirstFree # 0 /\ B!Give(k, list[B!FirstFree]) /\ UNCHANGED list
  <2>1. list[B!FirstFree] \in Client /\ count[list[B!FirstFree]] < PerClient
    BY <1>1, <1>3, FirstFreeHasRoom DEF BiboxTypes
  <2> QED
    BY <1>1, <1>3, <2>1, GiveStep DEF BiboxTypes
<1>4. CASE /\ owner[k] = NoClient /\ B!Unused # {}
           /\ LET c == CHOOSE c \in B!Unused : TRUE IN B!Give(k, c) /\ list' = Append(list, c)
  <2>1. PICK c \in B!Unused : B!Give(k, c) /\ list' = Append(list, c)
    BY <1>4
  <2>2. c \in Client /\ list' \in Seq(Client)
    BY <1>1, <2>1 DEF B!Unused, BiboxTypes
  <2> QED
    BY <1>4, <2>1, <2>2, GiveStep
<1> QED
  BY <1>2, <1>3, <1>4 DEF B!Assign

\* Nothing is added: what a client has, and what the server sends it, gets less.
LEMMA LessStep ==
    ASSUME BiboxFacts, BiboxInv, BiboxTypes', UNCHANGED <<owner, unchecked>>,
           \A c \in Client : /\ subs'[c] \subseteq subs[c] /\ remote'[c] \subseteq subs'[c]
                             /\ conn'[c] # "open" => remote'[c] = {}
    PROVE  BiboxInv'
<1>1. Mapped'
  BY DEF BiboxInv, Mapped
<1>2. Limited'
  <2>1. SUFFICES ASSUME NEW c \in Client \ unchecked
                 PROVE  Cardinality(subs'[c]) <= PerClient
    BY DEF Limited
  <2>2. IsFiniteSet(subs[c]) /\ subs'[c] \in SUBSET subs[c]
    <3>1. subs[c] \in SUBSET Feed
      BY <2>1 DEF BiboxInv, BiboxTypes
    <3> QED
      <4>1. subs'[c] \in SUBSET subs[c] /\ IsFiniteSet(Feed)
        BY <2>1 DEF BiboxFacts
      <4> QED
        BY <3>1, <4>1, FS_Subset, Zenon
  <2>3. /\ Cardinality(subs'[c]) <= Cardinality(subs[c])
        /\ Cardinality(subs'[c]) \in Nat /\ Cardinality(subs[c]) \in Nat
    BY <2>2, FS_Subset, FS_CardinalityType
  <2> QED
    BY <2>1, <2>3 DEF BiboxInv, Limited, BiboxFacts
<1> QED
  BY <1>1, <1>2 DEF BiboxInv

LEMMA BiboxStep == BiboxFacts /\ BiboxInv /\ (B!Next \/ UNCHANGED B!vars) => BiboxInv'
<1> SUFFICES ASSUME BiboxFacts, BiboxInv, (B!Next \/ UNCHANGED B!vars) PROVE BiboxInv'
  OBVIOUS
<1>1. BiboxTypes /\ Mapped
  BY DEF BiboxInv
<1>2. ASSUME NEW k \in Feed, B!Subscribe(k) PROVE BiboxInv'
  <2>1. CASE B!Assign(k) /\ UNCHANGED queue
    BY <1>1, <2>1, AssignStep DEF BiboxTypes
  <2>2. CASE /\ queue' = Append(queue, k)
             /\ UNCHANGED <<armed, owner, list, subs, conn, count, remote, unchecked>>
    <3>1. BiboxTypes'
      BY <1>1, <2>2 DEF BiboxTypes
    <3> QED
      BY <1>1, <2>2, <3>1, LessStep DEF Mapped
  <2> QED
    BY <1>2, <2>1, <2>2 DEF B!Subscribe
<1>3. CASE B!Fire
  <2>1. CASE queue # <<>> /\ B!Assign(Head(queue)) /\ queue' = Tail(queue)
    <3>1. Head(queue) \in Feed /\ queue' \in Seq(Feed)
      BY <1>1, <2>1 DEF BiboxTypes
    <3> QED
      BY <2>1, <3>1, AssignStep
  <2>2. CASE UNCHANGED <<queue, owner, list, subs, conn, count, remote, unchecked>>
    <3>1. BiboxTypes'
      BY <1>1, <2>2 DEF BiboxTypes
    <3> QED
      BY <1>1, <2>2, <3>1, LessStep DEF Mapped
  <2> QED
    BY <1>3, <2>1, <2>2 DEF B!Fire
<1>4. ASSUME NEW k \in Feed, B!Unsubscribe(k) PROVE BiboxInv'
  <2> DEFINE c == owner[k]
             left == IF conn[c] = "open" /\ k \in subs[c] THEN count[c] - 1 ELSE count[c]
  <2>1. /\ c \in Client /\ left \in Int
        /\ subs' = [subs EXCEPT ![c] = @ \ {k}] /\ count' = [count EXCEPT ![c] = left]
        /\ UNCHANGED <<queue, owner, unchecked>>
    BY <1>1, <1>4 DEF B!Unsubscribe, BiboxTypes
  <2>2. list' = list \/ list' = B!Spliced(c)
    BY <1>4 DEF B!Unsubscribe
  <2>3. list' \in Seq(Client)
    BY <1>1, <2>1, <2>2, SplicedType DEF BiboxTypes
  <2>4. \/ UNCHANGED <<conn, remote>> /\ ~B!HasSocket(c)
        \/ B!Closed({c})
        \/ remote' = [remote EXCEPT ![c] = @ \ {k}] /\ UNCHANGED conn
    BY <1>4 DEF B!Unsubscribe
  <2>5. BiboxTypes'
    <3>1. \A cs \in SUBSET Client : B!Closed(cs) =>
             /\ conn' \in [Client -> {"none", "closing", "opening", "open", "retrying"}]
             /\ remote' \in [Client -> SUBSET Feed]
      BY <1>1 DEF B!Closed, BiboxTypes
    <3>2. /\ conn' \in [Client -> {"none", "closing", "opening", "open", "retrying"}]
          /\ remote' \in [Client -> SUBSET Feed]
      <4>1. CASE B!Closed({c})
        BY <2>1, <3>1, <4>1
      <4>2. CASE \/ UNCHANGED <<conn, remote>>
                 \/ remote' = [remote EXCEPT ![c] = @ \ {k}] /\ UNCHANGED conn
        BY <1>1, <2>1, <4>2 DEF BiboxTypes
      <4> QED
        BY <2>4, <4>1, <4>2
    <3>3. subs' \in [Client -> SUBSET Feed] /\ count' \in [Client -> Int]
      BY <1>1, <2>1 DEF BiboxTypes
    <3> QED
      BY <1>1, <2>1, <2>3, <3>2, <3>3 DEF BiboxTypes
  <2>6. \A d \in Client : /\ subs'[d] \subseteq subs[d] /\ remote'[d] \subseteq subs'[d]
                          /\ conn'[d] # "open" => remote'[d] = {}
    <3>1. \A d \in Client : subs'[d] = IF d = c THEN subs[d] \ {k} ELSE subs[d]
      BY <1>1, <2>1 DEF BiboxTypes
    <3>2. CASE UNCHANGED <<conn, remote>> /\ ~B!HasSocket(c)
      BY <1>1, <2>1, <3>1, <3>2 DEF Mapped, B!HasSocket
    <3>3. CASE B!Closed({c})
      BY <1>1, <2>1, <3>1, <3>3 DEF Mapped, B!Closed, B!HasSocket
    <3>4. CASE remote' = [remote EXCEPT ![c] = @ \ {k}] /\ UNCHANGED conn
      BY <1>1, <2>1, <3>1, <3>4 DEF Mapped, BiboxTypes
    <3> QED
      BY <2>4, <3>2, <3>3, <3>4
  <2> QED
    BY <2>1, <2>5, <2>6, LessStep
<1>5. CASE B!Close
  <2>1. list \in Seq(Client) /\ {list[i] : i \in DOMAIN list} \subseteq Client
    BY <1>1 DEF BiboxTypes
  <2>2. BiboxTypes'
    <3>1. <<>> \in Seq(Feed)
      OBVIOUS
    <3> QED
      BY <1>1, <1>5, <2>1, <3>1 DEF B!Close, B!Closed, BiboxTypes
  <2>3. \A d \in Client : /\ subs'[d] \subseteq subs[d] /\ remote'[d] \subseteq subs'[d]
                          /\ conn'[d] # "open" => remote'[d] = {}
    BY <1>1, <1>5 DEF B!Close, B!Closed, Mapped
  <2> QED
    BY <1>5, <2>2, <2>3, LessStep DEF B!Close
<1>6. ASSUME NEW c \in Client, B!Reconnect(c) \/ B!Lost(c) \/ B!Connects(c) PROVE BiboxInv'
  <2>1. BiboxTypes'
    BY <1>1, <1>6 DEF B!Reconnect, B!Lost, B!Connects, BiboxTypes
  <2>2. \A d \in Client : /\ subs'[d] \subseteq subs[d] /\ remote'[d] \subseteq subs'[d]
                          /\ conn'[d] # "open" => remote'[d] = {}
    <3>1. CASE B!Reconnect(c) \/ B!Lost(c)
      <4>1. /\ subs' = subs /\ remote' = [remote EXCEPT ![c] = {}]
            /\ \A d \in Client : d # c => conn'[d] = conn[d]
        BY <1>1, <3>1 DEF B!Reconnect, B!Lost, BiboxTypes
      <4> QED
        BY <1>1, <4>1 DEF BiboxTypes, Mapped
    <3>2. CASE B!Connects(c)
      <4>1. /\ subs' = subs /\ remote' = remote /\ conn[c] # "open"
            /\ \A d \in Client : d # c => conn'[d] = conn[d]
        BY <1>1, <3>2 DEF B!Connects, BiboxTypes
      <4> QED
        BY <1>1, <4>1 DEF BiboxTypes, Mapped
    <3> QED
      BY <1>6, <3>1, <3>2
  <2> QED
    BY <1>6, <2>1, <2>2, LessStep DEF B!Reconnect, B!Lost, B!Connects
<1>7. ASSUME NEW c \in Client, B!Opened(c) PROVE BiboxInv'
  <2>1. Cardinality(subs[c]) \in Nat /\ subs[c] \in SUBSET Feed
    <3>1. subs[c] \in SUBSET Feed
      BY <1>1 DEF BiboxTypes
    <3> QED
      BY <3>1, FS_Subset, FS_CardinalityType, Zenon DEF BiboxFacts
  <2>2. BiboxTypes'
    BY <1>1, <1>7, <2>1, SameCardinality DEF B!Opened, BiboxTypes
  <2>3. \A d \in Client : /\ subs'[d] \subseteq subs[d] /\ remote'[d] \subseteq subs'[d]
                          /\ conn'[d] # "open" => remote'[d] = {}
    BY <1>1, <1>7 DEF B!Opened, BiboxTypes, Mapped
  <2> QED
    BY <1>7, <2>2, <2>3, LessStep DEF B!Opened
<1>8. CASE UNCHANGED B!vars
  <2>1. BiboxTypes'
    BY <1>1, <1>8 DEF B!vars, BiboxTypes
  <2> QED
    BY <1>1, <1>8, <2>1, LessStep DEF B!vars, Mapped
<1> QED
  BY <1>2, <1>3, <1>4, <1>5, <1>6, <1>7, <1>8 DEF B!Next

LEMMA BiboxStarts == BiboxFacts /\ B!Init => BiboxInv
<1> SUFFICES ASSUME BiboxFacts, B!Init PROVE BiboxInv
  OBVIOUS
<1>1. BiboxTypes
  BY DEF B!Init, BiboxTypes
<1>2. Mapped
  BY DEF B!Init, Mapped
<1>3. Limited
  BY FS_EmptySet DEF B!Init, Limited, BiboxFacts
<1> QED
  BY <1>1, <1>2, <1>3 DEF BiboxInv

LEMMA BiboxHolds == BiboxFacts /\ BiboxInv => WithinLimit
<1> SUFFICES ASSUME BiboxFacts, BiboxInv, NEW c \in Client, c \notin unchecked
             PROVE  Cardinality(remote[c]) <= PerClient
  BY SameCardinality DEF WithinLimit, B!WithinLimit
<1>1. IsFiniteSet(subs[c]) /\ remote[c] \in SUBSET subs[c]
  <2>1. subs[c] \in SUBSET Feed /\ remote[c] \in SUBSET subs[c]
    BY DEF BiboxInv, BiboxTypes, Mapped
  <2> QED
    BY <2>1, FS_Subset, Zenon DEF BiboxFacts
<1>2. /\ Cardinality(remote[c]) <= Cardinality(subs[c])
      /\ Cardinality(remote[c]) \in Nat /\ Cardinality(subs[c]) \in Nat
  BY <1>1, FS_Subset, FS_CardinalityType
<1> QED
  BY <1>2 DEF BiboxInv, Limited, BiboxFacts

LEMMA GeminiStarts == G!Init => GeminiInv
<1> SUFFICES ASSUME G!Init PROVE GeminiInv
  OBVIOUS
<1>1. GeminiTypes
  BY DEF G!Init, G!S!Init, GeminiTypes, Subs, G!NoSubscription, G!S!Constructed, G!S!SocketState
<1>2. Owned /\ Awaited /\ Shapes /\ Watched /\ G!NoOrphan
  BY DEF G!Init, G!S!Init, Owned, Awaited, Shapes, Watched, G!NoOrphan, G!NoSubscription,
         G!S!Constructed
<1> QED
  BY <1>1, <1>2 DEF GeminiInv

----------------------------------------------------------------------------
\* What the two invariants come to, whichever of the two clients is used.
PoolsInv == GeminiInv /\ BiboxInv

LEMMA PoolsStep == PoolsInv /\ [Next]_vars => PoolsInv'
<1> SUFFICES ASSUME PoolsInv, [Next]_vars PROVE PoolsInv'
  OBVIOUS
<1>1. G!GeminiAssumption /\ BiboxFacts
  BY PoolsAssumption, FactsOfBibox
<1>2. CASE NextGemini
  <2>1. UNCHANGED B!vars
    BY <1>2 DEF NextGemini, bVars, B!vars
  <2> QED
    BY <1>1, <1>2, <2>1, GeminiStep, BiboxStep DEF NextGemini, PoolsInv
<1>3. CASE NextBibox
  <2>1. UNCHANGED G!vars
    BY <1>3 DEF NextBibox, gVars, G!vars
  <2> QED
    BY <1>1, <1>3, <2>1, GeminiStep, BiboxStep DEF NextBibox, PoolsInv
<1>4. CASE UNCHANGED vars
  <2>1. UNCHANGED G!vars /\ UNCHANGED B!vars
    BY <1>4 DEF vars, gVars, bVars, G!vars, B!vars
  <2> QED
    BY <1>1, <2>1, GeminiStep, BiboxStep DEF PoolsInv
<1> QED
  BY <1>2, <1>3, <1>4 DEF Next

LEMMA PoolsStarts == Init => PoolsInv
  BY PoolsAssumption, FactsOfBibox, GeminiStarts, BiboxStarts DEF Init, PoolsInv

\* Under any user and any order of losses, timers and messages, a socket that works is that
\* of a subscription, unless it was let go while it waited to retry; and only then can a
\* watcher take the process down (gemini-client.js:63-211).
THEOREM SocketsBelong == Spec => []NoOrphan
<1>1. PoolsInv => NoOrphan
  BY DEF PoolsInv, GeminiInv, NoOrphan
<1> QED
  BY <1>1, PoolsStarts, PoolsStep, PTL DEF Spec

\* A client carries more than the server allows only if it was given feeds that subCount
\* did not show (bibox-client.js:209-210).
THEOREM LimitKept == Spec => []WithinLimit
<1>1. PoolsInv => WithinLimit
  BY PoolsAssumption, FactsOfBibox, BiboxHolds DEF PoolsInv
<1> QED
  BY <1>1, PoolsStarts, PoolsStep, PTL DEF Spec
=============================================================================
