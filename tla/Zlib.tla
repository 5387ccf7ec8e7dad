-------------------------------- MODULE Zlib --------------------------------
(***************************************************************************)
(* src/zlib.js: unzip, inflate and inflateRaw of the whole program go      *)
(* through one queue, one at a time, in the order of the calls.            *)
(*                                                                         *)
(* The queue is the ring buffer of Queue, with jobs for its values: a job  *)
(* is a call with its data and its callback, and is named by its number.   *)
(* serialExecute, which every call and every completion ends with, is a    *)
(* step of its own: while it is to come, nothing else happens.             *)
(***************************************************************************)
EXTENDS Queue

ASSUME ValueAssumption == Value \subseteq Nat \ {0}

VARIABLES
    current,     \* current, the job that zlib works on
    try,         \* serialExecute is to run
    stuck,       \* the callback of the current job has thrown
    submitted,   \* history: how many calls there were
    delivered    \* history: the jobs in the order of their callbacks

zvars == <<vars, current, try, stuck, submitted, delivered>>

ZInit ==
    /\ Init
    /\ current = Undefined
    /\ try = FALSE
    /\ stuck = FALSE
    /\ submitted = 0
    /\ delivered = <<>>

\* queue.push() of the next job.
PushNext ==
    /\ submitted + 1 \in Value
    /\ submitted' = submitted + 1
    /\ Push(submitted + 1)

\* unzip, inflate or inflateRaw, called from anywhere but a callback.
Submit ==
    /\ ~try
    /\ PushNext
    /\ try' = TRUE
    /\ UNCHANGED <<current, stuck, delivered>>

\* serialExecute, with a job under way.
ExecuteNot ==
    /\ try /\ current # Undefined
    /\ try' = FALSE
    /\ UNCHANGED <<vars, current, stuck, submitted, delivered>>

\* serialExecute otherwise: the next job, if there is one, is given to zlib.
Execute ==
    /\ try /\ current = Undefined
    /\ try' = FALSE
    /\ ShiftValue \/ ShiftEmpty
    /\ current' = got'
    /\ UNCHANGED <<stuck, submitted, delivered>>

\* Mutant: the next job is not tried.
CompleteOnly ==
    /\ ~try /\ current # Undefined /\ ~stuck
    /\ delivered' = Append(delivered, current)
    /\ current' = Undefined
    /\ UNCHANGED <<vars, try, submitted, stuck>>

\* zlib is done and the callback runs.
Complete ==
    /\ ~try /\ current # Undefined /\ ~stuck
    /\ delivered' = Append(delivered, current)
    /\ current' = Undefined
    /\ try' = TRUE
    /\ UNCHANGED <<vars, submitted, stuck>>

\* The same, with a callback that makes a call itself: `current` is still set then, so
\* that the serialExecute of that call does nothing.
CompleteAndSubmit ==
    /\ ~try /\ current # Undefined /\ ~stuck
    /\ delivered' = Append(delivered, current)
    /\ PushNext
    /\ current' = Undefined
    /\ try' = TRUE
    /\ UNCHANGED stuck

\* The callback throws: `current` stays set, and no job is tried any more.
CallbackThrows ==
    /\ ~try /\ current # Undefined /\ ~stuck
    /\ delivered' = Append(delivered, current)
    /\ stuck' = TRUE
    /\ UNCHANGED <<vars, current, try, submitted>>

Done == Complete \/ CompleteAndSubmit \/ CallbackThrows

ZNext == Submit \/ ExecuteNot \/ Execute \/ Done

ZSpec == ZInit /\ [][ZNext]_zvars

\* Code that has begun goes on, and zlib finishes what it starts.
LiveSpec == ZSpec /\ WF_zvars(ExecuteNot \/ Execute) /\ WF_zvars(Done)

----------------------------------------------------------------------------
ZTypeOK ==
    /\ TypeOK
    /\ current \in Value \cup {Undefined}
    /\ try \in BOOLEAN
    /\ stuck \in BOOLEAN
    /\ submitted \in Nat
    /\ delivered \in Seq(Value)

\* The job that zlib works on, and whose callback has not run.
Working == IF current = Undefined \/ stuck THEN <<>> ELSE <<current>>

\* Every call is answered once, in the order of the calls, whether it is made from
\* outside or from a callback, while the buffer wraps and grows (zlib.js:52-71).
InOrder == [i \in 1 .. submitted |-> i] = delivered \o Working \o Items

\* Every call is answered in the end, unless a callback throws: serialExecute is called
\* at every place where the queue or `current` has changed (zlib.js:21-70).
AllDelivered == \A j \in Value : submitted = j ~> Len(delivered) >= j \/ stuck
=============================================================================
