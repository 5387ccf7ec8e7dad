------------------------------- MODULE MCFlow -------------------------------
(* Throttle, Batch and Debounce for TLC, one after the other: the one that is used is   *)
(* chosen at the start, and the other two stay as they are.                             *)
(*                                                                                      *)
(* Throttle: four calls, so that one has run, one waits and one is added, and two ticks *)
(* of delay, so that a call may come between two calls and a timer be late.  Batch:     *)
(* five calls make three batches of two, the last one not full.  Debounce: bursts of    *)
(* calls at any distance up to the quiet time.                                          *)
EXTENDS Naturals, Sequences

CONSTANTS Call, Delay, BatchSize, MaxCalls, None

VARIABLES used, tCalls, tLeft, tFailed, tSince, tAdded, tRan,
          bArgs, bArmed, bFailed, bAdded, bBatches,
          dLast, dLeft, dNewest, dQuiet, dServed

T == INSTANCE Throttle WITH calls <- tCalls, left <- tLeft, failed <- tFailed,
                            since <- tSince, added <- tAdded, ran <- tRan
B == INSTANCE Batch WITH args <- bArgs, armed <- bArmed, failed <- bFailed,
                         added <- bAdded, batches <- bBatches
D == INSTANCE Debounce WITH last <- dLast, left <- dLeft, newest <- dNewest,
                            quiet <- dQuiet, served <- dServed, Wait <- Delay

tVars == <<tCalls, tLeft, tFailed, tSince, tAdded, tRan>>
bVars == <<bArgs, bArmed, bFailed, bAdded, bBatches>>
dVars == <<dLast, dLeft, dNewest, dQuiet, dServed>>

ASSUME FlowAssumption ==
    /\ T!ThrottleAssumption /\ BatchSize \in Nat \ {0} /\ MaxCalls \in Nat
    /\ None \notin Nat \cup Call

vars == <<used, tVars, bVars, dVars>>

Init == used \in {"throttle", "batch", "debounce"} /\ T!Init /\ B!Init /\ D!Init

NextThrottle == used = "throttle" /\ T!Next /\ UNCHANGED <<used, bVars, dVars>>
NextBatch    == used = "batch" /\ B!Next /\ UNCHANGED <<used, tVars, dVars>>
NextDebounce == used = "debounce" /\ D!Next /\ UNCHANGED <<used, tVars, bVars>>

Next == NextThrottle \/ NextBatch \/ NextDebounce

\* Time passes and a timer that is due fires.
Spec ==
    /\ Init /\ [][Next]_vars
    /\ WF_vars(used = "throttle" /\ T!Tick /\ UNCHANGED <<used, bVars, dVars>>)
    /\ WF_vars(used = "throttle" /\ T!Fire /\ UNCHANGED <<used, bVars, dVars>>)
    /\ WF_vars(used = "debounce" /\ D!Tick /\ UNCHANGED <<used, tVars, bVars>>)
    /\ WF_vars(used = "debounce" /\ D!Fire /\ UNCHANGED <<used, tVars, bVars>>)

----------------------------------------------------------------------------
\* Every throttled call is made once and in order (throttle.js:10-40).
InOrder == T!TypeOK /\ T!InOrder

\* At most one throttled call in delayMs (throttle.js:42-45).
RateLimited == T!RateLimited

\* Every throttled call is made in the end, unless fn throws (throttle.js:10-39).
AllRun == T!AllRun

\* Every batched call is in one batch of legal size, in order, and waits for no timer
\* that is not armed, whichever batch fails (batch.js:10-37).
BatchKeeps == B!TypeOK /\ B!InOrder /\ B!BatchesFit /\ B!NoStall

\* A timer is armed exactly while a burst waits, and with its newest arguments
\* (debounce.js:9-35).
ServesNewest == D!TypeOK /\ D!ServesNewest

\* A debounced function is called after the quiet time (debounce.js:20-30), and a burst
\* that ends is served.
AfterQuiet == D!AfterQuiet /\ D!Served
=============================================================================
