----------------------------- MODULE Lifecycle -----------------------------
(***************************************************************************)
(* What the README promises of the events of one connection ("Connection   *)
(* Events", README.md:190-263): the last event a socket has emitted moves  *)
(* along the edges of the diagram, and along no other.                     *)
(*                                                                         *)
(* This is the abstract specification: SmartWss and BasicClient are shown  *)
(* to implement it, as long as nobody closes a socket that waits for its   *)
(* reconnection timer.                                                     *)
(***************************************************************************)
CONSTANT Socket          \* the connections

VARIABLE event           \* event[s] is the last event that s has emitted

\* "start" stands for a socket that has emitted nothing yet.
State == {"start", "connecting", "connected", "disconnected", "closing", "closed"}

\* The six edges of the diagram.
Drawn == { <<"start", "connecting">>,
           <<"connecting", "connected">>,
           <<"connected", "disconnected">>,
           <<"disconnected", "connecting">>,
           <<"connected", "closing">>,
           <<"closing", "closed">> }

\* What the text adds: an attempt may fail, `close` may be called at any time,
\* and after "closed" the name stands for the next connection.
Implied == { <<"connecting", "disconnected">>,
             <<"connecting", "closing">>,
             <<"disconnected", "closing">>,
             <<"closed", "connecting">> }

Edge == Drawn \cup Implied

Init == event = [s \in Socket |-> "start"]

\* One step of the program may move two connections: the "closed" of the old
\* socket and the "connecting" of its replacement.
Next ==
    /\ event' \in [Socket -> State]
    /\ \A s \in Socket : event'[s] # event[s] => <<event[s], event'[s]>> \in Edge

Spec == Init /\ [][Next]_event
=============================================================================
