------------------------------ MODULE Throttle ------------------------------
(***************************************************************************)
(* src/flowcontrol/throttle.js: calls of a function are queued and made at *)
(* most once every delayMs.                                                *)
(*                                                                         *)
(* Time is counted in ticks, from the last call and to the timer, and the  *)
(* event loop may run a timer late.  The function is one that does not     *)
(* call the throttle again (the clients use it to send a message); it may  *)
(* throw.                                                                  *)
(***************************************************************************)
EXTENDS Naturals, Sequences

CONSTANTS
    Call,        \* bound: the calls of add; each is made once between two cancels
    Delay,       \* delayMs, not 0
    None         \* undefined

ThrottleAssumption == Delay \in Nat \ {0} /\ None \notin Nat

VARIABLES
    calls,       \* _calls
    left,        \* the ticks to the timer of _handle; None when _handle is undefined
    failed,      \* history: fn threw when it was last called, and no cancel came since
    since,       \* history: the ticks since fn last returned, at most Delay, which is
                 \* also its value when fn has not returned since a cancel or a throw
    added,       \* history: the calls of add, in order, since the last cancel
    ran          \* history: the calls of fn, in order, since the last cancel

vars == <<calls, left, failed, since, added, ran>>

Init ==
    /\ calls = <<>>
    /\ left = None
    /\ failed = FALSE
    /\ since = Delay
    /\ added = <<>>
    /\ ran = <<>>

New(c) == \A i \in 1 .. Len(added) : added[i] # c

\* Mutant: a timer that has fired is not armed again.
ProcessOnce(q) ==
    \/ /\ q # <<>>
       /\ calls' = Tail(q)
       /\ ran' = Append(ran, Head(q))
       /\ left' = IF left = None THEN Delay ELSE None
       /\ since' = 0 /\ failed' = FALSE
    \/ q = <<>> /\ calls' = q /\ left' = None /\ UNCHANGED <<ran, since, failed>>

\* Mutant: the last call in place of the first.
ProcessNewest(q) ==
    \/ /\ q # <<>>
       /\ calls' = SubSeq(q, 1, Len(q) - 1)
       /\ ran' = Append(ran, q[Len(q)])
       /\ left' = Delay /\ since' = 0 /\ failed' = FALSE
    \/ q = <<>> /\ calls' = q /\ left' = None /\ UNCHANGED <<ran, since, failed>>

\* _process with the queue q, when fn returns: the timer is armed even if nothing waits,
\* so that the next add has to wait too.
Process(q) ==
    \/ /\ q # <<>>
       /\ calls' = Tail(q)
       /\ ran' = Append(ran, Head(q))
       /\ left' = Delay /\ since' = 0 /\ failed' = FALSE
    \/ q = <<>> /\ calls' = q /\ left' = None /\ UNCHANGED <<ran, since, failed>>

\* _process with the queue q, when fn throws: _schedule is not reached.
ProcessThrows(q) ==
    /\ q # <<>>
    /\ calls' = Tail(q)
    /\ ran' = Append(ran, Head(q))
    /\ left' = None /\ since' = Delay /\ failed' = TRUE

\* Mutant: no test of _handle.
AddAtOnce(c) ==
    /\ New(c)
    /\ added' = Append(added, c)
    /\ Process(Append(calls, c))

\* add()
Add(c) ==
    /\ New(c)
    /\ added' = Append(added, c)
    /\ \/ left = None /\ (Process(Append(calls, c)) \/ ProcessThrows(Append(calls, c)))
       \/ left # None /\ calls' = Append(calls, c) /\ UNCHANGED <<left, failed, since, ran>>

\* The timer fires.
Fire == left = 0 /\ (Process(calls) \/ ProcessThrows(calls)) /\ UNCHANGED added

\* cancel()
Cancel ==
    /\ calls' = <<>>
    /\ left' = None
    /\ failed' = FALSE
    /\ since' = Delay
    /\ added' = <<>>
    /\ ran' = <<>>

Tick ==
    /\ left' = IF left \in {None, 0} THEN left ELSE left - 1
    /\ since' = IF since = Delay THEN Delay ELSE since + 1
    /\ UNCHANGED <<calls, failed, added, ran>>

Next == (\E c \in Call : Add(c)) \/ Fire \/ Cancel \/ Tick

Spec == Init /\ [][Next]_vars

\* Time passes and a timer that is due fires.
LiveSpec == Spec /\ WF_vars(Tick) /\ WF_vars(Fire)

----------------------------------------------------------------------------
TypeOK ==
    /\ calls \in Seq(Call)
    /\ left \in 0 .. Delay \cup {None}
    /\ failed \in BOOLEAN
    /\ since \in 0 .. Delay
    /\ added \in Seq(Call)
    /\ ran \in Seq(Call)

\* Every call is made once and in order (throttle.js:10-40): what was added is what ran,
\* followed by what waits, whatever fn throws.
InOrder == added = ran \o calls

\* "At most once every delayMs" (throttle.js:42-45): a call that runs, runs Delay after
\* the one before it; only a cancel, or fn throwing, starts anew.
RateLimited == [][Len(ran') > Len(ran) => since = Delay]_vars

\* Every call is made in the end (throttle.js:10-39): a call that waits has a timer,
\* unless it is cancelled or fn throws and strands it.
AllRun == \A c \in Call :
    (\E i \in 1 .. Len(calls) : calls[i] = c)
        ~> ((\A i \in 1 .. Len(calls) : calls[i] # c) \/ failed)
=============================================================================
