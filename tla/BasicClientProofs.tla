------------------------- MODULE BasicClientProofs -------------------------
(***************************************************************************)
(* Theorems about BasicClient, for every set of sockets and channels.      *)
(***************************************************************************)
EXTENDS BasicClient, TLAPS

\* The socket handlers keep the shape of the record they are given.
LEMMA SocketStates ==
    ASSUME NEW w \in S!SocketState
    PROVE  /\ S!Opened(w) \in S!SocketState
           /\ S!Lost(w) \in S!SocketState
           /\ S!Attempted(w) \in S!SocketState
           /\ S!Closing(w) \in S!SocketState
           /\ S!Closed(w) \in S!SocketState
  BY DEF S!SocketState, S!Opened, S!Lost, S!Attempted, S!Closing, S!Closed

LEMMA ConstructedState == S!Constructed \in S!SocketState /\ New \in S!SocketState
  BY DEF S!SocketState, New, S!Attempted, S!Constructed

LEMMA TypeStep == TypeOK /\ [Next]_vars => TypeOK'
<1> SUFFICES ASSUME TypeOK, [Next]_vars PROVE TypeOK'
  OBVIOUS
<1> USE DEF TypeOK
<1>a. \A s \in Socket : sock[s] \in S!SocketState
  OBVIOUS
<1>b. New \in S!SocketState
  BY ConstructedState
<1>1. ASSUME NEW c \in Channel, Subscribe(c) PROVE TypeOK'
  BY <1>1, <1>b DEF Subscribe, ConnectTo
<1>2. ASSUME NEW c \in Channel, Unsubscribe(c) PROVE TypeOK'
  BY <1>2 DEF Unsubscribe
<1>3. CASE Close
  BY <1>3, <1>a, SocketStates DEF Close, CloseSocket, W!Stop
<1>4. CASE Reconnect
  BY <1>4, <1>a, <1>b, SocketStates DEF Reconnect, CloseThenConnect, ConnectTo, CloseSocket, W!Stop
<1>5. CASE WatcherCheck
  <2>1. CASE CloseThenConnect
    BY <1>5, <2>1, <1>a, SocketStates DEF WatcherCheck, CloseThenConnect, CloseSocket, W!Reconnect
  <2>2. ASSUME NEW t \in Socket, ConnectTo(t), W!Reconnect, UNCHANGED <<subs, resume, remote, dead, crashed>>
        PROVE  TypeOK'
    BY <1>5, <2>2, <1>b DEF WatcherCheck, ConnectTo, W!Reconnect
  <2> QED
    BY <1>5, <2>1, <2>2 DEF WatcherCheck
<1>6. CASE GoStale
  BY <1>6 DEF GoStale, W!GoStale
<1>7. ASSUME NEW s \in Socket, SocketOpens(s) PROVE TypeOK'
  BY <1>7, <1>a, SocketStates DEF SocketOpens, S!Open, W!Start
<1>8. ASSUME NEW s \in Socket, SocketLost(s) PROVE TypeOK'
  BY <1>8, <1>a, SocketStates DEF SocketLost, S!Lose, W!Stop
<1>9. ASSUME NEW s \in Socket, SocketRetries(s) PROVE TypeOK'
  BY <1>9, <1>a, SocketStates DEF SocketRetries, S!RetryFires
<1>10. ASSUME NEW s \in Socket, SocketClosed(s) PROVE TypeOK'
  BY <1>10, <1>a, <1>b, SocketStates DEF SocketClosed
<1>11. ASSUME NEW s \in Socket, Message(s) PROVE TypeOK'
  BY <1>11 DEF Message, W!MarkAlive
<1>12. ASSUME NEW s \in Socket, PeerVanishes(s) PROVE TypeOK'
  BY <1>12 DEF PeerVanishes
<1>13. CASE UNCHANGED vars
  BY <1>13 DEF vars
<1> QED
  BY <1>1, <1>2, <1>3, <1>4, <1>5, <1>6, <1>7, <1>8, <1>9, <1>10, <1>11, <1>12, <1>13
     DEF Next, SocketEvent

\* Type correctness of the client, its sockets and its watcher, whatever its
\* user and the network do (basic-client.js:13-267).
THEOREM TypeCorrect == Spec => []TypeOK
<1>1. Init => TypeOK
  BY ConstructedState DEF Init, TypeOK, S!Init, W!Init
<1> QED
  BY <1>1, TypeStep, PTL DEF Spec

----------------------------------------------------------------------------
(* The agreement with the server. *)

\* The server has been asked for something on open sockets only, so that a socket
\* that opens starts with nothing asked for, and the resubscription is complete.
Asked == \A s \in Socket : sock[s].inner # "open" => remote[s] = {}

\* A timer is armed only while there is no ws socket.
TimerAlone == \A s \in Socket : sock[s].retry => sock[s].inner = "null"

AgreementInv == TimerAlone /\ Asked /\ RemoteAgrees

LEMMA AgreementStep == TypeOK /\ AgreementInv /\ [Next]_vars => AgreementInv'
<1> SUFFICES ASSUME TypeOK, AgreementInv, [Next]_vars PROVE AgreementInv'
  OBVIOUS
<1> USE NoSocketAssumption DEF TypeOK, AgreementInv, TimerAlone, Asked, RemoteAgrees, Delivers
<1>b. New \in S!SocketState /\ New.inner = "connecting" /\ ~New.retry
  BY ConstructedState DEF New, S!Attempted, S!Constructed
<1>1. ASSUME NEW c \in Channel, Subscribe(c) PROVE AgreementInv'
  <2>1. CASE wss = NoSocket
    BY <1>1, <2>1, <1>b DEF Subscribe, ConnectTo, Idle, S!Idle
  <2>2. CASE wss # NoSocket
    BY <1>1, <2>2 DEF Subscribe
  <2> QED BY <2>1, <2>2
<1>2. ASSUME NEW c \in Channel, Unsubscribe(c) PROVE AgreementInv'
  BY <1>2 DEF Unsubscribe
<1>3. ASSUME CloseSocket(wss), wss # NoSocket PROVE AgreementInv'
  BY <1>3 DEF CloseSocket, S!Closing, S!SocketState
<1>4. CASE Close
  BY <1>4, <1>3 DEF Close
<1>5. ASSUME NEW t \in Socket, ConnectTo(t), UNCHANGED <<subs, remote, dead>>
      PROVE AgreementInv'
  BY <1>5, <1>b DEF ConnectTo, Idle, S!Idle
<1>6. CASE Reconnect
  BY <1>6, <1>3, <1>5 DEF Reconnect, CloseThenConnect
<1>7. CASE WatcherCheck
  BY <1>7, <1>3, <1>5 DEF WatcherCheck, CloseThenConnect
<1>8. CASE GoStale
  BY <1>8 DEF GoStale
<1>9. ASSUME NEW s \in Socket, SocketOpens(s) PROVE AgreementInv'
  <2>1. CASE wss = NoSocket
    BY <1>9, <2>1 DEF SocketOpens, S!Open, S!Opened, S!SocketState
  <2>2. CASE wss = s
    <3>1. remote[s] = {} /\ remote' = [remote EXCEPT ![s] = @ \cup subs]
      BY <1>9, <2>2 DEF SocketOpens, S!Open
    <3>2. remote' = [remote EXCEPT ![s] = subs]
      BY <3>1
    <3> QED
      BY <1>9, <2>2, <3>2 DEF SocketOpens, S!Open, S!Opened, S!SocketState
  <2>3. CASE wss # NoSocket /\ wss # s
    <3>1. sock'[wss] = sock[wss] /\ (wss \in dead' <=> wss \in dead)
      BY <1>9, <2>3 DEF SocketOpens, S!Open
    <3>2. remote' = remote
      BY <1>9, <2>3 DEF SocketOpens
    <3> QED
      BY <1>9, <2>3, <3>1, <3>2 DEF SocketOpens, S!Open, S!Opened, S!SocketState
  <2> QED BY <2>1, <2>2, <2>3
<1>10. ASSUME NEW s \in Socket, SocketLost(s) PROVE AgreementInv'
  BY <1>10 DEF SocketLost, S!Lose, S!Lost, S!SocketState
<1>11. ASSUME NEW s \in Socket, SocketRetries(s) PROVE AgreementInv'
  BY <1>11 DEF SocketRetries, S!RetryFires, S!Attempted, S!SocketState
<1>12. ASSUME NEW s \in Socket, SocketClosed(s) PROVE AgreementInv'
  <2>1. CASE s \in resume /\ wss = NoSocket
    <3>1. PICK t \in Socket : /\ Idle(t)
                             /\ sock' = [sock EXCEPT ![s] = S!Closed(@), ![t] = New]
                             /\ wss' = t
      BY <1>12, <2>1 DEF SocketClosed
    <3> QED
      BY <1>12, <2>1, <3>1, <1>b DEF SocketClosed, Idle, S!Idle, S!Closed, S!SocketState
  <2>2. CASE ~(s \in resume /\ wss = NoSocket)
    <3>1. /\ sock[s].inner = "closing"
          /\ sock' = [sock EXCEPT ![s] = S!Closed(@)]
          /\ UNCHANGED <<wss, subs, remote, dead>>
      BY <1>12, <2>2 DEF SocketClosed
    <3>2. TimerAlone' /\ Asked'
      BY <3>1 DEF S!Closed, S!SocketState
    <3>3. RemoteAgrees'
      BY <3>1 DEF S!Closed, S!SocketState
    <3> QED BY <3>2, <3>3
  <2> QED BY <2>1, <2>2
<1>13. ASSUME NEW s \in Socket, Message(s) PROVE AgreementInv'
  BY <1>13 DEF Message
<1>14. ASSUME NEW s \in Socket, PeerVanishes(s) PROVE AgreementInv'
  BY <1>14 DEF PeerVanishes
<1>15. CASE UNCHANGED vars
  BY <1>15 DEF vars
<1> QED
  BY <1>1, <1>2, <1>4, <1>6, <1>7, <1>8, <1>9, <1>10, <1>11, <1>12, <1>13, <1>14, <1>15
     DEF Next, SocketEvent

\* Whatever the user does and however connections break, a connected socket of the
\* client carries exactly the subscribed channels (basic-client.js:137-172, 223-244).
THEOREM Agreement == Spec => []RemoteAgrees
<1>1. Init => AgreementInv
  BY DEF Init, S!Init, S!Constructed, AgreementInv, TimerAlone, Asked, RemoteAgrees
<1>2. AgreementInv => RemoteAgrees
  BY DEF AgreementInv
<1> QED
  BY <1>1, <1>2, AgreementStep, TypeCorrect, PTL DEF Spec

----------------------------------------------------------------------------
(* The careful user. *)

\* A socket the client refers to is trying, connected, or waiting to try again.
OwnSocketLives == wss # NoSocket =>
    sock[wss].inner \in {"connecting", "open"} \/ (sock[wss].inner = "null" /\ sock[wss].retry)

\* A listener of reconnect() sits on a socket that is closing.
ListenersWait == \A s \in resume : sock[s].inner = "closing"

\* Nothing is left that could connect a client closed by its user.
NothingPending == ~wanted => wss = NoSocket /\ resume = {}

\* The last event tells the state of the socket.
EventTellsState == \A s \in Socket :
    /\ sock[s].inner = "connecting" => sock[s].event = "connecting"
    /\ sock[s].inner = "open" => sock[s].event = "connected"
    /\ sock[s].inner = "closing" => sock[s].event = "closing"
    /\ sock[s].inner = "closed" => sock[s].event = "closed"
    /\ sock[s].inner = "null" /\ sock[s].retry => sock[s].event = "disconnected"
    /\ sock[s].inner = "null" /\ ~sock[s].retry => sock[s].event = "start"

CarefulInv ==
    /\ TimerAlone
    /\ NoOrphan
    /\ OwnSocketLives
    /\ WatchedIffConnected
    /\ NoCrash
    /\ ListenersWait
    /\ NothingPending
    /\ NotStranded
    /\ EventTellsState

LEMMA CarefulIsNext == CarefulNext => Next
  BY DEF CarefulNext, Next

THEOREM CarefulTypeCorrect == CarefulSpec => []TypeOK
<1>1. Init => TypeOK
  BY ConstructedState DEF Init, TypeOK, S!Init, W!Init
<1>2. TypeOK /\ [CarefulNext]_vars => TypeOK'
  BY TypeStep, CarefulIsNext
<1> QED
  BY <1>1, <1>2, PTL DEF CarefulSpec

LEMMA CarefulStep == TypeOK /\ CarefulInv /\ [CarefulNext]_vars => CarefulInv'
<1> SUFFICES ASSUME TypeOK, CarefulInv, [CarefulNext]_vars PROVE CarefulInv'
  OBVIOUS
<1> USE NoSocketAssumption
    DEF TypeOK, CarefulInv, TimerAlone, NoOrphan, OwnSocketLives, WatchedIffConnected, NoCrash,
        ListenersWait, NothingPending, NotStranded, EventTellsState
<1>b. /\ New \in S!SocketState
      /\ New.inner = "connecting" /\ New.event = "connecting" /\ ~New.retry
  BY ConstructedState DEF New, S!Attempted, S!Constructed
<1>0. ASSUME NEW t \in Socket, ConnectTo(t), wss = NoSocket, wanted' = TRUE,
             UNCHANGED <<resume, watching, crashed>>
      PROVE CarefulInv'
  BY <1>0, <1>b DEF ConnectTo, Idle, S!Idle
<1>1. ASSUME NEW c \in Channel, Subscribe(c) PROVE CarefulInv'
  <2>1. CASE wss = NoSocket
    BY <1>1, <2>1, <1>0 DEF Subscribe
  <2>2. CASE wss # NoSocket
    BY <1>1, <2>2 DEF Subscribe
  <2> QED BY <2>1, <2>2
<1>2. ASSUME NEW c \in Channel, Unsubscribe(c) PROVE CarefulInv'
  BY <1>2 DEF Unsubscribe
<1>3. CASE ~InBackoff /\ resume = {} /\ Close
  <2>1. CASE wss = NoSocket
    BY <1>3, <2>1 DEF Close, W!Stop
  <2>2. CASE wss # NoSocket
    <3>1. /\ sock[wss].inner \in {"connecting", "open"}
          /\ sock' = [sock EXCEPT ![wss] = S!Closing(@)]
          /\ wss' = NoSocket /\ wanted' = FALSE /\ watching' = FALSE
          /\ resume = {} /\ resume' = {} /\ ~crashed'
      BY <1>3, <2>2 DEF Close, CloseSocket, W!Stop, InBackoff
    <3>2. S!Closing(sock[wss]).inner = "closing" /\ S!Closing(sock[wss]).event = "closing"
             /\ ~S!Closing(sock[wss]).retry
      BY <3>1, <2>2 DEF S!Closing, S!SocketState
    <3> QED BY <3>1, <3>2, <2>2
  <2> QED BY <2>1, <2>2
<1>4. ASSUME CloseThenConnect, ~InBackoff, wanted' \in BOOLEAN, wanted' = TRUE, watching' = FALSE
      PROVE CarefulInv'
  BY <1>4 DEF CloseThenConnect, CloseSocket, InBackoff, S!Closing, S!SocketState
<1>5. CASE ~InBackoff /\ Reconnect
  <2>1. CASE CloseThenConnect
    BY <1>5, <2>1, <1>4 DEF Reconnect, W!Stop
  <2>2. CASE ~CloseThenConnect
    BY <1>5, <2>2, <1>0 DEF Reconnect
  <2> QED BY <2>1, <2>2
<1>6. CASE WatcherCheck
  <2>1. wss # NoSocket /\ sock[wss].inner = "open" /\ wanted = TRUE
    BY <1>6 DEF WatcherCheck, W!Reconnect, W!Silent
  <2>2. CloseThenConnect /\ ~InBackoff /\ wanted' = TRUE
    BY <1>6, <2>1 DEF WatcherCheck, InBackoff
  <2>3. watching' = FALSE
    BY <1>6 DEF WatcherCheck, W!Reconnect
  <2> QED BY <2>2, <2>3, <1>4
<1>7. CASE GoStale
  BY <1>7 DEF GoStale, W!GoStale
<1>8. ASSUME NEW s \in Socket, SocketOpens(s) PROVE CarefulInv'
  <2>1. wss = s
    BY <1>8 DEF SocketOpens, S!Open
  <2> QED BY <1>8, <2>1 DEF SocketOpens, S!Open, S!Opened, W!Start, S!SocketState
<1>9. ASSUME NEW s \in Socket, SocketLost(s) PROVE CarefulInv'
  <2>1. wss = s
    BY <1>9 DEF SocketLost, S!Lose
  <2> QED BY <1>9, <2>1 DEF SocketLost, S!Lose, S!Lost, W!Stop, S!SocketState
<1>10. ASSUME NEW s \in Socket, SocketRetries(s) PROVE CarefulInv'
  <2>1. wss = s
    BY <1>10 DEF SocketRetries, S!RetryFires
  <2> QED BY <1>10, <2>1 DEF SocketRetries, S!RetryFires, S!Attempted, S!SocketState
<1>11. ASSUME NEW s \in Socket, SocketClosed(s) PROVE CarefulInv'
  <2>a. /\ sock[s].inner = "closing" /\ ~sock[s].retry
        /\ resume' = resume \ {s}
        /\ UNCHANGED <<watching, wanted, crashed>>
    BY <1>11 DEF SocketClosed
  <2>b. /\ S!Closed(sock[s]).inner = "closed" /\ S!Closed(sock[s]).event = "closed"
        /\ ~S!Closed(sock[s]).retry
    BY <2>a DEF S!Closed, S!SocketState
  <2>1. CASE s \in resume /\ wss = NoSocket
    <3>1. PICK t \in Socket : /\ Idle(t)
                             /\ sock' = [sock EXCEPT ![s] = S!Closed(@), ![t] = New]
                             /\ wss' = t
      BY <1>11, <2>1 DEF SocketClosed
    <3>2. s # t /\ sock'[s] = S!Closed(sock[s]) /\ sock'[t] = New
             /\ \A r \in Socket \ {s, t} : sock'[r] = sock[r]
      BY <3>1, <2>a DEF Idle, S!Idle
    <3>3. t \notin resume
      BY <3>1 DEF Idle, S!Idle
    <3>4. TimerAlone' /\ EventTellsState' /\ ListenersWait'
      BY <3>2, <3>3, <2>a, <2>b, <1>b
    <3>5. NoOrphan' /\ OwnSocketLives' /\ WatchedIffConnected'
      BY <3>1, <3>2, <2>1, <2>a, <2>b, <1>b
    <3>6. NothingPending' /\ NotStranded' /\ NoCrash'
      BY <3>1, <2>1, <2>a
    <3> QED BY <3>4, <3>5, <3>6
  <2>2. CASE ~(s \in resume /\ wss = NoSocket)
    <3>1. wss' = wss /\ wss # s /\ sock'[s] = S!Closed(sock[s])
             /\ \A r \in Socket \ {s} : sock'[r] = sock[r]
      BY <1>11, <2>2, <2>a DEF SocketClosed
    <3>2. TimerAlone' /\ EventTellsState' /\ ListenersWait'
      BY <3>1, <2>a, <2>b
    <3>3. NoOrphan' /\ OwnSocketLives' /\ WatchedIffConnected'
      BY <3>1, <2>a, <2>b
    <3>4. NothingPending' /\ NotStranded' /\ NoCrash'
      BY <3>1, <2>2, <2>a
    <3> QED BY <3>2, <3>3, <3>4
  <2> QED BY <2>1, <2>2
<1>12. ASSUME NEW s \in Socket, Message(s) PROVE CarefulInv'
  BY <1>12 DEF Message, W!MarkAlive
<1>13. ASSUME NEW s \in Socket, PeerVanishes(s) PROVE CarefulInv'
  BY <1>13 DEF PeerVanishes
<1>14. CASE UNCHANGED vars
  BY <1>14 DEF vars
<1> QED
  BY <1>1, <1>2, <1>3, <1>5, <1>6, <1>7, <1>8, <1>9, <1>10, <1>11, <1>12, <1>13, <1>14
     DEF CarefulNext, SocketEvent

LEMMA CarefulInvariant == CarefulSpec => []CarefulInv
<1>1. Init => CarefulInv
  BY NoSocketAssumption
     DEF Init, S!Init, S!Constructed, W!Init, CarefulInv, TimerAlone, NoOrphan, OwnSocketLives,
         WatchedIffConnected, NoCrash, ListenersWait, NothingPending, NotStranded, EventTellsState
<1> QED
  BY <1>1, CarefulStep, CarefulTypeCorrect, PTL DEF CarefulSpec

\* A socket that is connecting, connected or waiting for its timer is the client's own
\* (basic-client.js:6, 39-58, 180-199).
THEOREM SingleConnection == CarefulSpec => []NoOrphan
  BY CarefulInvariant, PTL DEF CarefulInv

\* The watcher runs exactly while the client is connected (basic-client.js:223-260).
THEOREM WatcherFollows == CarefulSpec => []WatchedIffConnected
  BY CarefulInvariant, PTL DEF CarefulInv

\* The "connected" handler never runs without a socket to send on
\* (basic-client.js:223-244).
THEOREM HandlersHaveSocket == CarefulSpec => []NoCrash
  BY CarefulInvariant, PTL DEF CarefulInv

\* A client closed by its user stays without a connection (basic-client.js:39-58).
THEOREM ClosedStaysClosed == CarefulSpec => []CloseIsFinal
<1>1. NothingPending => CloseIsFinal
  BY DEF NothingPending, CloseIsFinal
<1> QED
  BY <1>1, CarefulInvariant, PTL DEF CarefulInv

\* A client that is wanted has a socket or is about to get one (basic-client.js:50-58).
THEOREM NeverStranded == CarefulSpec => []NotStranded
  BY CarefulInvariant, PTL DEF CarefulInv

\* Every step of the client moves the events of its sockets along the diagram
\* (README.md:190-238, smart-wss.js:29-107).
LEMMA DiagramStep ==
    ASSUME TypeOK, CarefulInv, [CarefulNext]_vars
    PROVE  [Life!Next]_[s \in Socket |-> sock[s].event]
<1> USE DEF TypeOK, TimerAlone, EventTellsState
<1>t. TypeOK'
  BY TypeStep, CarefulIsNext
<1>i. TimerAlone /\ EventTellsState /\ OwnSocketLives
  BY DEF CarefulInv
<1>s. SUFFICES \A r \in Socket : sock'[r].event # sock[r].event =>
                   <<sock[r].event, sock'[r].event>> \in Life!Edge
  <2>1. \A r \in Socket : sock'[r].event \in Life!State
    BY <1>t DEF S!SocketState, Life!State
  <2> QED BY <1>s, <2>1 DEF Life!Next
<1>b. New.event = "connecting"
  BY DEF New, S!Attempted, S!Constructed
<1> USE DEF Life!Edge, Life!Drawn, Life!Implied
<1>0. ASSUME NEW t \in Socket, ConnectTo(t), NEW r \in Socket, sock'[r].event # sock[r].event
      PROVE  <<sock[r].event, sock'[r].event>> \in Life!Edge
  BY <1>0, <1>b, <1>i DEF ConnectTo, Idle, S!Idle, S!SocketState
<1>1. ASSUME NEW s \in Socket, CloseSocket(s), NEW r \in Socket, sock'[r].event # sock[r].event,
             sock[s].inner \in {"connecting", "open"} \/ (sock[s].inner = "null" /\ sock[s].retry)
      PROVE  <<sock[r].event, sock'[r].event>> \in Life!Edge
  BY <1>1, <1>i DEF CloseSocket, S!Closing, S!SocketState
<1>2. ASSUME NEW s \in Socket, S!Open(s) \/ S!Lose(s) \/ S!RetryFires(s),
             NEW r \in Socket, sock'[r].event # sock[r].event
      PROVE  <<sock[r].event, sock'[r].event>> \in Life!Edge
  <2>1. CASE S!Open(s)
    <3>1. r = s /\ sock[s].event = "connecting" /\ sock'[s].event = "connected"
      BY <1>2, <2>1, <1>i DEF S!Open, S!Opened, S!SocketState
    <3> QED BY <3>1
  <2>2. CASE S!Lose(s)
    <3>1. r = s /\ sock[s].event \in {"connecting", "connected"} /\ sock'[s].event = "disconnected"
      BY <1>2, <2>2, <1>i DEF S!Lose, S!Lost, S!SocketState
    <3> QED BY <3>1
  <2>3. CASE S!RetryFires(s)
    <3>1. r = s /\ sock[s].event = "disconnected" /\ sock'[s].event = "connecting"
      BY <1>2, <2>3, <1>i DEF S!RetryFires, S!Attempted, S!SocketState
    <3> QED BY <3>1
  <2> QED BY <1>2, <2>1, <2>2, <2>3
<1>3. ASSUME NEW s \in Socket, SocketClosed(s), NEW r \in Socket, sock'[r].event # sock[r].event
      PROVE  <<sock[r].event, sock'[r].event>> \in Life!Edge
  <2>1. sock[s].inner = "closing" /\ sock[s].event = "closing" /\ S!Closed(sock[s]).event = "closed"
    BY <1>3, <1>i DEF SocketClosed, S!Closed, S!SocketState
  <2>2. CASE s \in resume /\ wss = NoSocket
    <3>1. PICK t \in Socket : Idle(t) /\ sock' = [sock EXCEPT ![s] = S!Closed(@), ![t] = New]
      BY <1>3, <2>2 DEF SocketClosed
    <3>2. r \in {s, t}
      BY <3>1, <1>3
    <3>3. CASE r = t
      BY <3>1, <3>3, <1>b, <1>i, <1>3, <2>1 DEF Idle, S!Idle, S!SocketState
    <3>4. CASE r = s /\ r # t
      BY <3>1, <3>4, <2>1
    <3> QED BY <3>2, <3>3, <3>4
  <2>3. CASE ~(s \in resume /\ wss = NoSocket)
    <3>1. sock' = [sock EXCEPT ![s] = S!Closed(@)]
      BY <1>3, <2>3 DEF SocketClosed
    <3> QED BY <3>1, <1>3, <2>1
  <2> QED BY <2>2, <2>3
<1>4. ASSUME UNCHANGED sock PROVE \A r \in Socket : sock'[r].event = sock[r].event
  BY <1>4
<1>5. ASSUME CloseThenConnect \/ (wss # NoSocket /\ CloseSocket(wss)),
             NEW r \in Socket, sock'[r].event # sock[r].event
      PROVE  <<sock[r].event, sock'[r].event>> \in Life!Edge
  BY <1>5, <1>1, <1>i DEF CloseThenConnect, OwnSocketLives
<1>6. TAKE r \in Socket
<1>7. HAVE sock'[r].event # sock[r].event
<1>8. CASE \E c \in Channel : Subscribe(c) \/ Unsubscribe(c)
  BY <1>8, <1>7, <1>0, <1>4 DEF Subscribe, Unsubscribe
<1>9. CASE Close
  BY <1>9, <1>7, <1>5, <1>4 DEF Close
<1>10. CASE Reconnect
  BY <1>10, <1>7, <1>5, <1>0 DEF Reconnect
<1>11. CASE WatcherCheck
  BY <1>11, <1>7, <1>5, <1>0 DEF WatcherCheck
<1>12. CASE GoStale
  BY <1>12, <1>7, <1>4 DEF GoStale
<1>13. CASE \E s \in Socket : SocketEvent(s)
  <2>1. PICK s \in Socket : SocketEvent(s)
    BY <1>13
  <2>2. CASE SocketClosed(s)
    BY <2>2, <1>7, <1>3
  <2>3. CASE Message(s) \/ PeerVanishes(s)
    BY <2>3, <1>7, <1>4 DEF Message, PeerVanishes
  <2>4. CASE SocketOpens(s) \/ SocketLost(s) \/ SocketRetries(s)
    BY <2>4, <1>7, <1>2 DEF SocketOpens, SocketLost, SocketRetries
  <2> QED BY <2>1, <2>2, <2>3, <2>4 DEF SocketEvent
<1>14. CASE UNCHANGED vars
  BY <1>14, <1>7, <1>4 DEF vars
<1> QED
  BY <1>8, <1>9, <1>10, <1>11, <1>12, <1>13, <1>14 DEF CarefulNext

\* The client implements the README's diagram of connection events for a user that does
\* not close or reconnect it during the retry wait.
THEOREM FollowsDiagram == CarefulSpec => LifecycleSpec
<1>1. Init => Life!Init
  BY DEF Init, S!Init, S!Constructed, Life!Init
<1> QED
  BY <1>1, DiagramStep, CarefulTypeCorrect, CarefulInvariant, PTL
     DEF CarefulSpec, LifecycleSpec, Life!Spec
=============================================================================
