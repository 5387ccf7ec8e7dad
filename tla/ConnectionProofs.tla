-------------------------- MODULE ConnectionProofs --------------------------
(***************************************************************************)
(* The two parts a connection is kept up with.  The attempts of a socket   *)
(* that reconnects neither stop nor multiply, for any number of instances; *)
(* and the watcher notices silence in time and is never hasty, for every   *)
(* interval and every lateness of the event loop.                          *)
(***************************************************************************)
EXTENDS SmartWss, Watcher, TLAPS

----------------------------------------------------------------------------
(* SmartWss                                                                 *)

SocketTypes == sock \in [Socket -> SocketState]

\* An instance that nobody connected has done nothing.
Fresh == \A s \in Socket : sock[s].event = "start" => sock[s] = Constructed

SmartWssInv == SocketTypes /\ Fresh /\ OneAttempt

\* The state w of an instance is as it should be.
Sound(w) ==
    /\ w \in SocketState
    /\ w.event = "start" => w = Constructed
    /\ w.event # "start" => (w.inner = "null" <=> w.retry)

LEMMA AllSound == SmartWssInv <=> sock \in [Socket -> SocketState] /\ \A s \in Socket : Sound(sock[s])
BY DEF SmartWssInv, SocketTypes, Fresh, OneAttempt, Sound

\* Every handler keeps the state of its instance sound.
LEMMA HandlersSound ==
    ASSUME NEW w \in SocketState, Sound(w)
    PROVE  /\ Sound(Attempted(w))
           /\ w.inner = "connecting" => Sound(Opened(w))
           /\ Sound(Lost(w))
           /\ w.event # "start" => Sound(Closing(w))
           /\ w.inner = "closing" => Sound(Closed(w))
<1>1. Sound(Attempted(w))
  BY DEF Sound, SocketState, Attempted
<1>2. ASSUME w.inner = "connecting" PROVE Sound(Opened(w))
  <2>1. ~w.retry
    <3>1. w.event # "start"
      BY <1>2 DEF Sound, Constructed
    <3>2. w.inner = "null" <=> w.retry
      BY <3>1, Zenon DEF Sound
    <3>3. w.inner # "null"
      BY <1>2
    <3> QED
      BY <3>2, <3>3, Zenon
  <2>2. /\ Opened(w) \in SocketState /\ Opened(w).inner = "open"
        /\ Opened(w).retry = w.retry /\ Opened(w).event = "connected"
    BY DEF SocketState, Opened
  <2> QED
    BY <2>1, <2>2, Zenon DEF Sound
<1>3. Sound(Lost(w))
  BY DEF Sound, SocketState, Lost
<1>4. w.event # "start" => Sound(Closing(w))
  BY DEF Sound, SocketState, Closing
<1>5. ASSUME w.inner = "closing" PROVE Sound(Closed(w))
  <2>1. ~w.retry
    <3>1. w.event # "start"
      BY <1>5 DEF Sound, Constructed
    <3>2. w.inner = "null" <=> w.retry
      BY <3>1, Zenon DEF Sound
    <3>3. w.inner # "null"
      BY <1>5
    <3> QED
      BY <3>2, <3>3, Zenon
  <2>2. /\ Closed(w) \in SocketState /\ Closed(w).inner = "closed"
        /\ Closed(w).retry = w.retry /\ Closed(w).event = "closed"
    BY DEF SocketState, Closed
  <2> QED
    BY <2>1, <2>2, Zenon DEF Sound
<1> QED
  BY <1>1, <1>2, <1>3, <1>4, <1>5

LEMMA SocketStep == SmartWssInv /\ [Next]_sock => SmartWssInv'
<1> SUFFICES ASSUME SmartWssInv, [Next]_sock PROVE SmartWssInv'
  OBVIOUS
<1>0. sock \in [Socket -> SocketState] /\ \A s \in Socket : Sound(sock[s])
  BY AllSound
<1> SUFFICES sock' \in [Socket -> SocketState] /\ \A s \in Socket : Sound(sock'[s])
  BY DEF SmartWssInv, SocketTypes, Fresh, OneAttempt, Sound
<1>1. ASSUME NEW s \in Socket, NEW w, Sound(w), sock' = [sock EXCEPT ![s] = w]
      PROVE  sock' \in [Socket -> SocketState] /\ \A t \in Socket : Sound(sock'[t])
  <2>1. w \in SocketState
    BY <1>1 DEF Sound
  <2> QED
    BY <1>0, <1>1, <2>1
<1>2. ASSUME NEW s \in Socket, Connect(s) \/ Close(s) \/ Network(s)
      PROVE  sock' \in [Socket -> SocketState] /\ \A t \in Socket : Sound(sock'[t])
  <2> DEFINE w == sock[s]
  <2>1. w \in SocketState /\ Sound(w)
    BY <1>0
  <2>2. CASE Connect(s) \/ RetryFires(s)
    <3>1. sock' = [sock EXCEPT ![s] = Attempted(w)] /\ Sound(Attempted(w))
      BY <2>1, <2>2, HandlersSound DEF Connect, RetryFires
    <3> QED
      BY <1>1, <3>1
  <2>3. CASE Open(s)
    <3>1. sock' = [sock EXCEPT ![s] = Opened(w)] /\ Sound(Opened(w))
      BY <2>1, <2>3, HandlersSound DEF Open
    <3> QED
      BY <1>1, <3>1
  <2>4. CASE Lose(s)
    <3>1. sock' = [sock EXCEPT ![s] = Lost(w)] /\ Sound(Lost(w))
      BY <2>1, <2>4, HandlersSound DEF Lose
    <3> QED
      BY <1>1, <3>1
  <2>5. CASE Close(s)
    <3>1. sock' = [sock EXCEPT ![s] = Closing(w)] /\ Sound(Closing(w))
      BY <2>1, <2>5, HandlersSound DEF Close
    <3> QED
      BY <1>1, <3>1
  <2>6. CASE FinishClose(s)
    <3>1. sock' = [sock EXCEPT ![s] = Closed(w)] /\ Sound(Closed(w))
      BY <2>1, <2>6, HandlersSound DEF FinishClose
    <3> QED
      BY <1>1, <3>1
  <2> QED
    BY <1>2, <2>2, <2>3, <2>4, <2>5, <2>6 DEF Network
<1>3. CASE UNCHANGED sock
  BY <1>0, <1>3
<1> QED
  BY <1>2, <1>3 DEF Next

\* A started instance without a ws socket has one reconnection timer, and one with a ws
\* socket has none (smart-wss.js:85-107).
THEOREM AttemptsGoOn == Spec => []OneAttempt
<1>1. Init => SmartWssInv
  BY DEF Init, SmartWssInv, SocketTypes, Fresh, OneAttempt, Constructed, SocketState
<1>2. SmartWssInv => OneAttempt
  BY DEF SmartWssInv
<1> QED
  BY <1>1, <1>2, SocketStep, PTL DEF Spec

----------------------------------------------------------------------------
(* Watcher                                                                  *)

\* The clock, the timer and the times of the last message and of the last sign of life.
Numbers ==
    /\ now \in Nat
    /\ due \in Nat \cup {None}
    /\ last \in Nat \cup {None}
    /\ since \in Nat

\* The last message is part of what `since` remembers, and lies in the past.
History ==
    /\ since <= now
    /\ last # None => last <= since

\* An armed timer has run late by Lag at most, is due within two intervals of the last
\* sign of life, and not within one, unless that sign was a message.
Deadlines == due # None =>
    /\ now <= due + Lag
    /\ due <= since + 2 * Interval
    /\ last = since \/ since + Interval <= due

WatcherInv == Numbers /\ History /\ Deadlines

LEMMA WatcherInvariant == WatcherSpec => []WatcherInv
<1> USE IntervalAssumption, LagAssumption, HorizonAssumption, NoneAssumption
    DEF WatcherInv, Numbers, History, Deadlines
<1>1. WatcherInit => WatcherInv
  BY DEF WatcherInit
<1>2. WatcherInv /\ [WatcherNext]_vars => WatcherInv'
  <2> SUFFICES ASSUME WatcherInv, [WatcherNext]_vars PROVE WatcherInv'
    OBVIOUS
  <2>1. CASE Start
    BY <2>1 DEF Start
  <2>2. CASE Stop
    BY <2>2 DEF Stop
  <2>3. CASE MarkAlive
    BY <2>3 DEF MarkAlive
  <2>4. CASE CheckAlive
    BY <2>4 DEF CheckAlive, TooOld
  <2>5. CASE CheckReconnect
    BY <2>5 DEF CheckReconnect
  <2>6. CASE Tick
    BY <2>6 DEF Tick
  <2>7. CASE UNCHANGED vars
    BY <2>7 DEF vars
  <2> QED
    BY <2>1, <2>2, <2>3, <2>4, <2>5, <2>6, <2>7 DEF WatcherNext
<1> QED
  BY <1>1, <1>2, PTL DEF WatcherSpec

\* Type correctness of the watcher (watcher.js:7-68).
THEOREM WatcherTypeCorrect == WatcherSpec => []TypeOK
<1> DEFINE Flag == asked \in BOOLEAN
<1>1. WatcherInit => Flag
  BY DEF WatcherInit
<1>2. Flag /\ [WatcherNext]_vars => Flag'
  BY Zenon DEF WatcherNext, Start, Stop, MarkAlive, CheckAlive, CheckReconnect, Tick, vars
<1>3. WatcherInv /\ Flag => TypeOK
  BY DEF WatcherInv, Numbers, TypeOK
<1> HIDE DEF Flag
<1> QED
  BY <1>1, <1>2, <1>3, WatcherInvariant, PTL DEF WatcherSpec

\* A silent connection is noticed after at most two intervals and one lateness of the
\* timer (watcher.js:28-57).
THEOREM BoundedSilence == WatcherSpec => []SilenceBounded
<1>1. WatcherInv => SilenceBounded
  BY IntervalAssumption, LagAssumption, NoneAssumption
     DEF WatcherInv, Numbers, History, Deadlines, SilenceBounded
<1> QED
  BY <1>1, WatcherInvariant, PTL

\* A reconnection is asked for only after one whole interval without a sign of life
\* (watcher.js:52-57).
THEOREM PatientReconnect == WatcherSpec => NeverTooEarly
<1>1. WatcherInv /\ CheckReconnect => since + Interval <= now
  BY IntervalAssumption, LagAssumption, NoneAssumption
     DEF WatcherInv, Numbers, History, Deadlines, CheckReconnect, TooOld
<1>2. WatcherInv /\ [WatcherNext]_vars => [CheckReconnect => since + Interval <= now]_vars
  BY <1>1
<1> QED
  BY <1>2, WatcherInvariant, PTL DEF WatcherSpec, NeverTooEarly

\* The watcher with its clock implements the watcher without one, with which BasicClient
\* is composed (watcher.js:28-65).
THEOREM ImplementsWatch == WatcherSpec => WatchSpec
<1> DEFINE Armed == due # None
           Recent == last # None /\ now <= last + Interval
<1> USE IntervalAssumption, LagAssumption, HorizonAssumption, NoneAssumption
    DEF WatcherInv, Numbers, History
<1>1. WatcherInit => W!Init
  BY DEF WatcherInit, W!Init
<1>2. WatcherInv /\ [WatcherNext]_vars => [W!Next]_<<Armed, Recent, asked>>
  <2> SUFFICES ASSUME WatcherInv, [WatcherNext]_vars PROVE [W!Next]_<<Armed, Recent, asked>>
    OBVIOUS
  <2> USE DEF W!Next
  <2>1. CASE Start
    BY <2>1 DEF Start, W!Start
  <2>2. CASE Stop
    BY <2>2 DEF Stop, W!Stop
  <2>3. CASE MarkAlive
    BY <2>3 DEF MarkAlive, W!MarkAlive
  <2>4. CASE CheckAlive
    BY <2>4 DEF CheckAlive
  <2>5. CASE CheckReconnect
    <3>1. Armed /\ ~Recent /\ due' = None /\ last' = last /\ now' = now
      BY <2>5 DEF CheckReconnect, TooOld
    <3>2. Armed' = FALSE /\ Recent' = Recent
      BY <3>1
    <3>3. asked' = TRUE
      BY <2>5 DEF CheckReconnect
    <3>4. W!Reconnect
      BY <3>1, <3>2, <3>3, Zenon DEF W!Reconnect, W!Silent
    <3> QED BY <3>4, Zenon
  <2>6. CASE Tick
    BY <2>6 DEF Tick, W!GoStale
  <2>7. CASE UNCHANGED vars
    BY <2>7 DEF vars
  <2> QED
    BY <2>1, <2>2, <2>3, <2>4, <2>5, <2>6, <2>7 DEF WatcherNext
<1> QED
  BY <1>1, <1>2, WatcherInvariant, PTL DEF WatcherSpec, WatchSpec, W!Spec
=============================================================================
