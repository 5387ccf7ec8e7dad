------------------------- MODULE MCBasicMultiClient -------------------------
(* Instances of BasicMultiClient for TLC: more markets than permits, so that one waits
   for the other's, and calls enough for a subscription, a second call that overtakes
   it, a loop, and a call that comes in the middle of it. *)
EXTENDS BasicMultiClient
=============================================================================
