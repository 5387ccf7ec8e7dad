------------------------------- MODULE Batch -------------------------------
(***************************************************************************)
(* src/flowcontrol/batch.js: calls are collected until none has come for   *)
(* collectMs, then the function is called with batches of them.            *)
(*                                                                         *)
(* A timer may fire at any time after it was armed, so that the properties *)
(* hold for every collectMs and every load of the event loop.              *)
(***************************************************************************)
EXTENDS Naturals, Sequences

CONSTANTS
    Call,        \* the arguments a call may have
    BatchSize,   \* batchSize, not 0
    MaxCalls     \* bound: the calls between two cancels

VARIABLES
    args,        \* _args
    armed,       \* the timer of _handle is to fire
    failed,      \* history: fn has thrown since the last cancel
    added,       \* history: the calls since the last cancel
    batches      \* history: the batches fn was called with since the last cancel

vars == <<args, armed, failed, added, batches>>

Init ==
    /\ args = <<>>
    /\ armed = FALSE
    /\ failed = FALSE
    /\ added = <<>>
    /\ batches = <<>>

Least(a, b) == IF a < b THEN a ELSE b

\* Mutant: the upper end of a splice counted as one more.
ChunkTooLong(q, k) == SubSeq(q, (k - 1) * BatchSize + 1, Least(k * BatchSize + 1, Len(q)))

\* The k-th batch that splice(0, batchSize) takes from q.
Chunk(q, k) == SubSeq(q, (k - 1) * BatchSize + 1, Least(k * BatchSize, Len(q)))

\* How often the loop of _process calls fn for the queue q.
Rounds(q) == (Len(q) + BatchSize - 1) \div BatchSize

\* The batches of the first n rounds.
Chunks(q, n) == [k \in 1 .. n |-> Chunk(q, k)]

\* add(): the timer starts anew.
Add(c) ==
    /\ Len(added) < MaxCalls
    /\ args' = Append(args, c)
    /\ added' = Append(added, c)
    /\ armed' = TRUE
    /\ UNCHANGED <<failed, batches>>

\* _process, when fn returns each time.
Fire ==
    /\ armed
    /\ armed' = FALSE
    /\ batches' = batches \o Chunks(args, Rounds(args))
    /\ args' = <<>>
    /\ UNCHANGED <<failed, added>>

\* _process, when fn throws in round n: that batch is gone, and the rest waits for a
\* timer that only the next add is going to arm.
FireThrows(n) ==
    /\ armed
    /\ n \in 1 .. Rounds(args)
    /\ armed' = FALSE
    /\ failed' = TRUE
    /\ batches' = batches \o Chunks(args, n)
    /\ args' = SubSeq(args, n * BatchSize + 1, Len(args))
    /\ UNCHANGED added

\* cancel()
Cancel ==
    /\ args' = <<>>
    /\ armed' = FALSE
    /\ failed' = FALSE
    /\ added' = <<>>
    /\ batches' = <<>>

Next ==
    \/ \E c \in Call : Add(c)
    \/ Fire
    \/ \E n \in 1 .. MaxCalls : FireThrows(n)
    \/ Cancel

Spec == Init /\ [][Next]_vars

----------------------------------------------------------------------------
TypeOK ==
    /\ args \in Seq(Call)
    /\ armed \in BOOLEAN
    /\ failed \in BOOLEAN
    /\ added \in Seq(Call)
    /\ batches \in Seq(Seq(Call))

\* The batches, one after the other.
Flat == LET Upto[n \in 0 .. Len(batches)] ==
                IF n = 0 THEN <<>> ELSE Upto[n - 1] \o batches[n]
        IN  Upto[Len(batches)]

\* Every call is in one batch, in order, whatever fn throws and however the timer and
\* the calls interleave (batch.js:10-37).
InOrder == added = Flat \o args

\* No batch is empty or longer than batchSize (batch.js:32-37).
BatchesFit == \A i \in 1 .. Len(batches) : Len(batches[i]) \in 1 .. BatchSize

\* What was collected has a timer, unless fn has thrown (batch.js:10-30).
NoStall == args # <<>> => armed \/ failed
=============================================================================
