------------------------------- MODULE Watch -------------------------------
(***************************************************************************)
(* What the watcher of a client is for, without the clock.  While it is    *)
(* watching it may find the client silent, and then it asks for a          *)
(* reconnection and stops.  It never does so while the last message is     *)
(* recent; being stopped by the client is another matter, and so `asked`   *)
(* tells the two apart.                                                    *)
(*                                                                         *)
(* Watcher implements this module with an interval timer and timestamps;   *)
(* BasicClient is composed with this module, so that the connection        *)
(* protocol is checked for every interval and every timing of messages.    *)
(***************************************************************************)
VARIABLES
    watching,    \* the interval timer is armed
    fresh,       \* a message was received within the last interval
    asked        \* history: it was the watcher that stopped, having asked the client
                 \* to reconnect, and it has not been started since

\* Mutant: no timer is armed.
StartForgotten == UNCHANGED <<watching, fresh, asked>>

\* start(): the timer is armed anew.  The time of the last message is not reset.
Start == watching' = TRUE /\ asked' = FALSE /\ UNCHANGED fresh

\* Mutant: the timer goes on.
StopForgotten == UNCHANGED <<watching, fresh, asked>>

\* stop(), called by the client when it is closing or disconnected.
Stop == watching' = FALSE /\ UNCHANGED <<fresh, asked>>

\* markAlive(), on every message that the client emits.
MarkAlive == fresh' = TRUE /\ UNCHANGED <<watching, asked>>

\* Time passes without a message.
GoStale == fresh /\ fresh' = FALSE /\ UNCHANGED <<watching, asked>>

\* The condition of _onCheck.
Silent == watching /\ ~fresh

\* _reconnect(): the client reconnects, then the timer is stopped.
Reconnect ==
    /\ Silent
    /\ watching' = FALSE
    /\ asked' = TRUE
    /\ UNCHANGED fresh

Init == watching = FALSE /\ fresh = FALSE /\ asked = FALSE

Next == Start \/ Stop \/ MarkAlive \/ GoStale \/ Reconnect

Spec == Init /\ [][Next]_<<watching, fresh, asked>>
=============================================================================
