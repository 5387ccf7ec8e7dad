------------------------------ MODULE Debounce ------------------------------
(***************************************************************************)
(* src/flowcontrol/debounce.js: the function is called once for a burst of *)
(* calls, with the arguments of the last one.                              *)
(*                                                                         *)
(* Time is counted in ticks, from the last call and to the timer, which    *)
(* may fire late.                                                          *)
(***************************************************************************)
EXTENDS Naturals, Sequences

CONSTANTS
    Call,        \* the arguments a call may have
    Wait,        \* debounceMs, not 0
    None         \* undefined

VARIABLES
    last,        \* _last
    left,        \* the ticks to the timer of _handle; None when there is none
    newest,      \* history: the last call, None after a cancel
    quiet,       \* history: the ticks since then, at most Wait
    served       \* history: fn was called for it

vars == <<last, left, newest, quiet, served>>

Init ==
    /\ last = None
    /\ left = None
    /\ newest = None
    /\ quiet = Wait
    /\ served = TRUE

Called(c) == newest' = c /\ quiet' = 0 /\ served' = FALSE

\* Mutant: the timer of the first call of a burst is kept.
AddKeepsTimer(c) ==
    /\ last' = c
    /\ left' = IF left = None THEN Wait ELSE left
    /\ Called(c)

\* add(): the timer starts anew.
Add(c) == last' = c /\ left' = Wait /\ Called(c)

\* _process, when the timer fires; _last stays.
Fire ==
    /\ left = 0
    /\ left' = None
    /\ served' = (last # None)
    /\ UNCHANGED <<last, newest, quiet>>

\* Mutant: the timer goes on.
CancelArgsOnly ==
    /\ last' = None
    /\ newest' = None /\ served' = TRUE
    /\ UNCHANGED <<left, quiet>>

\* cancel()
Cancel ==
    /\ last' = None
    /\ left' = None
    /\ newest' = None /\ served' = TRUE
    /\ UNCHANGED quiet

Tick ==
    /\ left' = IF left \in {None, 0} THEN left ELSE left - 1
    /\ quiet' = IF quiet = Wait THEN Wait ELSE quiet + 1
    /\ UNCHANGED <<last, newest, served>>

Next == (\E c \in Call : Add(c)) \/ Fire \/ Cancel \/ Tick

Spec == Init /\ [][Next]_vars

\* Time passes and a timer that is due fires.
LiveSpec == Spec /\ WF_vars(Tick) /\ WF_vars(Fire)

----------------------------------------------------------------------------
TypeOK ==
    /\ last \in Call \cup {None}
    /\ left \in 0 .. Wait \cup {None}
    /\ newest \in Call \cup {None}
    /\ quiet \in 0 .. Wait
    /\ served \in BOOLEAN

\* A timer is armed exactly while the last call waits for fn, and then its arguments are
\* the ones fn is going to get (debounce.js:9-35): nothing fires after a cancel, and no
\* burst is served twice or with old arguments.
ServesNewest == /\ left # None <=> ~served
                /\ left # None => last = newest /\ newest # None

\* fn is called only after debounceMs without a call (debounce.js:20-30).
AfterQuiet == [][Fire => quiet = Wait]_vars

\* A burst that ends is served: nothing waits, again and again, unless the calls never
\* stop coming.
Served == []<>served \/ []<>(quiet = 0)
=============================================================================
