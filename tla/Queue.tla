------------------------------- MODULE Queue -------------------------------
(***************************************************************************)
(* src/flowcontrol/queue.js and circular-buffer.js: an unbounded queue on  *)
(* a ring buffer that doubles when it is full.                             *)
(*                                                                         *)
(* The slot at readPos is always free, so that readPos = writePos means    *)
(* empty: a buffer of size n holds n - 1 values.                           *)
(***************************************************************************)
EXTENDS Naturals, Sequences

CONSTANTS
    BufferSize,  \* the size given to the constructor
    Value,       \* what is pushed; the callers push no undefined
    Undefined,   \* the content of a free slot, and what an empty queue returns
    MaxItems     \* bound: the values that may wait together

ASSUME BufferSizeAssumption == BufferSize \in Nat \ {0}
ASSUME UndefinedAssumption == Undefined \notin Value
ASSUME MaxItemsAssumption == MaxItems \in Nat

VARIABLES
    size,        \* buffer.size
    buffer,      \* buffer.buffer
    readPos,     \* buffer.readPos
    writePos,    \* buffer.writePos
    got          \* what the last shift() returned

vars == <<size, buffer, readPos, writePos, got>>

\* The position after i.
Succ(i) == (i + 1) % size

\* The position of the i-th value in the buffer.
Pos(i) == (readPos + i) % size

\* How many values the buffer holds.
Count == (writePos + size - readPos) % size

\* write() would return false.
Full == Succ(writePos) = readPos

Init ==
    /\ size = BufferSize
    /\ buffer = [i \in 0 .. BufferSize - 1 |-> Undefined]
    /\ readPos = 0
    /\ writePos = 0
    /\ got = Undefined

\* push(), when there is room: write().
PushRoom(v) ==
    /\ ~Full
    /\ writePos' = Succ(writePos)
    /\ buffer' = [buffer EXCEPT ![Succ(writePos)] = v]
    /\ UNCHANGED <<size, readPos, got>>

\* Mutant: the values are moved to the positions they had.
PushGrowInPlace(v) ==
    /\ Full
    /\ size' = 2 * size
    /\ buffer' = [i \in 0 .. 2 * size - 1 |->
                    IF i < size THEN buffer[i] ELSE IF i = size THEN v ELSE Undefined]
    /\ writePos' = size
    /\ UNCHANGED <<readPos, got>>

\* push(), when the buffer is full: _resize() reads every value out of the buffer and
\* writes it to one of twice the size, from the start; then write().
PushGrow(v) ==
    /\ Full
    /\ size' = 2 * size
    /\ buffer' = [i \in 0 .. 2 * size - 1 |->
                    IF i \in 1 .. Count THEN buffer[Pos(i)]
                    ELSE IF i = Count + 1 THEN v ELSE Undefined]
    /\ readPos' = 0
    /\ writePos' = Count + 1
    /\ UNCHANGED got

Push(v) ==
    /\ Count < MaxItems
    /\ PushRoom(v) \/ PushGrow(v)

\* Mutant: the slot is not freed.
ShiftKeeps ==
    /\ readPos # writePos
    /\ readPos' = Succ(readPos)
    /\ got' = buffer[Succ(readPos)]
    /\ UNCHANGED <<size, buffer, writePos>>

\* shift(), which is read(), when there is a value.
ShiftValue ==
    /\ readPos # writePos
    /\ readPos' = Succ(readPos)
    /\ got' = buffer[Succ(readPos)]
    /\ buffer' = [buffer EXCEPT ![Succ(readPos)] = Undefined]
    /\ UNCHANGED <<size, writePos>>

\* shift() on an empty queue.
ShiftEmpty ==
    /\ readPos = writePos
    /\ got' = Undefined
    /\ UNCHANGED <<size, buffer, readPos, writePos>>

Next == ShiftValue \/ ShiftEmpty \/ \E v \in Value : Push(v)

Spec == Init /\ [][Next]_vars

----------------------------------------------------------------------------
Slot == 0 .. size - 1

TypeOK ==
    /\ size \in Nat \ {0}
    /\ buffer \in [Slot -> Value \cup {Undefined}]
    /\ readPos \in Slot
    /\ writePos \in Slot
    /\ got \in Value \cup {Undefined}

\* The slots between readPos and writePos hold the values, and every other slot is free
\* (circular-buffer.js:31-55): no value that was shifted stays reachable, and no value
\* that waits reads as "empty".
SlotsMatch == \A i \in 1 .. size : buffer[Pos(i)] # Undefined <=> i <= Count

\* The ring buffer, with its wrapping positions and its growth, is a FIFO queue
\* (queue.js:3-37): nothing is lost, duplicated or reordered.
Items == [i \in 1 .. Count |-> buffer[Pos(i)]]
Q == INSTANCE Fifo WITH items <- Items
FifoSpec == Q!Spec
=============================================================================
