----------------------------- MODULE ZlibProofs -----------------------------
(***************************************************************************)
(* The serialised zlib answers every call in order, for every initial size *)
(* of its buffer and every number of calls.                                *)
(***************************************************************************)
EXTENDS Zlib, SequenceTheorems, TLAPS

(* Positions, without the remainder. *)

LEMMA SuccIs ==
    ASSUME size \in Nat \ {0}, NEW i \in 0 .. size - 1
    PROVE  Succ(i) = IF i + 1 = size THEN 0 ELSE i + 1
<1>1. CASE i + 1 = size
  BY <1>1, SMT DEF Succ
<1>2. CASE i + 1 < size
  BY <1>2, SMT DEF Succ
<1> QED
  BY <1>1, <1>2

LEMMA WrapIs ==
    \A n \in Nat \ {0} : \A x \in 0 .. 2 * n - 1 :
        /\ x < n => x % n = x
        /\ x >= n => x % n = x - n
<1> TAKE n \in Nat \ {0}
<1> TAKE x \in 0 .. 2 * n - 1
<1>1. ASSUME x < n PROVE x % n = x
  BY <1>1, SMT
<1>2. ASSUME x >= n PROVE x % n = x - n
  <2>1. x = n * (x \div n) + (x % n) /\ x % n \in 0 .. n - 1 /\ x \div n \in Int
    BY SMT
  <2>2. x \div n = 1
    BY <2>1, <1>2, Z3
  <2> QED BY <2>1, <2>2, <1>2
<1> QED
  BY <1>1, <1>2

LEMMA PosIs ==
    ASSUME size \in Nat \ {0}, readPos \in 0 .. size - 1, NEW i \in 0 .. size
    PROVE  Pos(i) = IF readPos + i < size THEN readPos + i ELSE readPos + i - size
<1> DEFINE d == readPos + i
<1>1. d \in 0 .. 2 * size - 1
  OBVIOUS
<1>2. /\ d < size => d % size = d
      /\ d >= size => d % size = d - size
  <2> HIDE DEF d
  <2> QED BY <1>1, WrapIs, Zenon
<1> QED
  BY <1>2 DEF Pos

LEMMA CountIs ==
    ASSUME size \in Nat \ {0}, readPos \in 0 .. size - 1, writePos \in 0 .. size - 1
    PROVE  Count = IF readPos <= writePos THEN writePos - readPos ELSE writePos + size - readPos
<1>1. writePos + size - readPos \in 0 .. 2 * size - 1
  OBVIOUS
<1> DEFINE d == writePos + size - readPos
<1>2. /\ d < size => d % size = d
      /\ d >= size => d % size = d - size
  BY <1>1, WrapIs, Zenon
<1> QED
  BY <1>2 DEF Count

----------------------------------------------------------------------------
(* The invariant, in terms of slots. *)

\* Slot p lies after readPos and up to writePos, around the end of the buffer if need be.
Live(p) == IF readPos <= writePos
           THEN readPos < p /\ p <= writePos
           ELSE readPos < p \/ p <= writePos

LiveHoldsValue == \A p \in Slot : buffer[p] # Undefined <=> Live(p)

QueueInv == TypeOK /\ LiveHoldsValue

\* A full buffer has one free slot.
LEMMA FullIs ==
    ASSUME TypeOK
    PROVE  Full <=> Count = size - 1
<1> USE DEF TypeOK, Slot
<1>1. Succ(writePos) = IF writePos + 1 = size THEN 0 ELSE writePos + 1
  BY SuccIs
<1>2. Count = IF readPos <= writePos THEN writePos - readPos ELSE writePos + size - readPos
  BY CountIs
<1> QED
  BY <1>1, <1>2 DEF Full

\* The i-th position is live exactly for the first Count of them.
LEMMA PosLive ==
    ASSUME TypeOK
    PROVE  /\ Count \in 0 .. size - 1
           /\ \A i \in 1 .. size : Pos(i) \in Slot /\ (Live(Pos(i)) <=> i <= Count)
<1> USE DEF TypeOK, Slot
<1>1. Count = IF readPos <= writePos THEN writePos - readPos ELSE writePos + size - readPos
  BY CountIs
<1>2. ASSUME NEW i \in 1 .. size
      PROVE  Pos(i) = IF readPos + i < size THEN readPos + i ELSE readPos + i - size
  BY PosIs
<1>3. ASSUME NEW i \in 1 .. size PROVE Pos(i) \in Slot /\ (Live(Pos(i)) <=> i <= Count)
  BY <1>1, <1>2 DEF Live
<1> QED
  BY <1>1, <1>3

LEMMA QueueStep == QueueInv /\ [Next]_vars => QueueInv'
<1> SUFFICES ASSUME QueueInv, [Next]_vars PROVE QueueInv'
  OBVIOUS
<1> USE UndefinedAssumption DEF QueueInv, TypeOK, Slot, LiveHoldsValue
<1>w. Succ(writePos) = IF writePos + 1 = size THEN 0 ELSE writePos + 1
  BY SuccIs
<1>r. Succ(readPos) = IF readPos + 1 = size THEN 0 ELSE readPos + 1
  BY SuccIs
<1>1. ASSUME NEW v \in Value, PushRoom(v) PROVE QueueInv'
  BY <1>1, <1>w DEF PushRoom, Full, Live
<1>2. ASSUME NEW v \in Value, PushGrow(v) PROVE QueueInv'
  <2>1. Count = size - 1
    BY <1>2, FullIs DEF PushGrow
  <2>2. \A i \in 1 .. size - 1 : Pos(i) \in Slot /\ buffer[Pos(i)] \in Value
    BY <2>1, PosLive
  <2>3. /\ size' = 2 * size /\ readPos' = 0 /\ writePos' = size /\ got' = got
        /\ buffer' = [i \in 0 .. 2 * size - 1 |->
                        IF i \in 1 .. size - 1 THEN buffer[Pos(i)]
                        ELSE IF i = size THEN v ELSE Undefined]
    BY <1>2, <2>1 DEF PushGrow
  <2>4. TypeOK'
    BY <2>2, <2>3
  <2>5. LiveHoldsValue'
    BY <2>2, <2>3 DEF Live
  <2> QED BY <2>4, <2>5
<1>3. CASE ShiftValue
  BY <1>3, <1>r DEF ShiftValue, Live
<1>4. CASE ShiftEmpty
  BY <1>4 DEF ShiftEmpty, Live
<1>5. CASE UNCHANGED vars
  BY <1>5 DEF vars, Live
<1> QED
  BY <1>1, <1>2, <1>3, <1>4, <1>5 DEF Next, Push

LEMMA QueueInvariant == Spec => []QueueInv
<1>1. Init => QueueInv
  BY BufferSizeAssumption, UndefinedAssumption DEF Init, QueueInv, TypeOK, Slot, LiveHoldsValue, Live
<1> QED
  BY <1>1, QueueStep, PTL DEF Spec

\* Type correctness of the queue (queue.js:6-37, circular-buffer.js:11-56).
THEOREM QueueTypeCorrect == Spec => []TypeOK
  BY QueueInvariant, PTL DEF QueueInv

\* The live window and the contents of the slots agree (circular-buffer.js:31-55).
THEOREM SlotsAlwaysMatch == Spec => []SlotsMatch
<1>1. QueueInv => SlotsMatch
  BY PosLive DEF QueueInv, LiveHoldsValue, SlotsMatch
<1> QED
  BY <1>1, QueueInvariant, PTL

----------------------------------------------------------------------------
(* The refinement. *)

LEMMA ItemsSeq ==
    ASSUME QueueInv
    PROVE  /\ Items \in Seq(Value)
           /\ Len(Items) = Count
           /\ \A i \in 1 .. Count : Items[i] = buffer[Pos(i)]
<1>1. Count \in Nat /\ \A i \in 1 .. Count : buffer[Pos(i)] \in Value
  <2>1. Count \in 0 .. size - 1 /\ size \in Nat \ {0}
    BY PosLive DEF QueueInv, TypeOK
  <2>2. ASSUME NEW i \in 1 .. Count PROVE buffer[Pos(i)] \in Value
    <3>1. i \in 1 .. size /\ Pos(i) \in Slot /\ Live(Pos(i))
      BY <2>1, PosLive DEF QueueInv
    <3> QED BY <3>1 DEF QueueInv, TypeOK, LiveHoldsValue
  <2> QED BY <2>1, <2>2
<1>2. Items \in [1 .. Count -> Value] /\ \A i \in 1 .. Count : Items[i] = buffer[Pos(i)]
  BY <1>1 DEF Items
<1>3. Items \in Seq(Value) /\ Len(Items) = Count
  BY <1>1, <1>2, SMT
<1> QED
  BY <1>2, <1>3

\* A value at the position after the last one is appended.
LEMMA AppendStep ==
    ASSUME QueueInv, NEW v \in Value,
           Count' = Count + 1,
           \A i \in 1 .. Count : buffer'[Pos(i)'] = buffer[Pos(i)],
           buffer'[Pos(Count)'] = v
    PROVE  Items' = Append(Items, v)
<1>1. /\ Items \in Seq(Value) /\ Len(Items) = Count /\ Count \in Nat
      /\ \A i \in 1 .. Count : Items[i] = buffer[Pos(i)]
  BY ItemsSeq, LenProperties
<1> DEFINE new == [i \in 1 .. Count + 1 |-> IF i = Count + 1 THEN v ELSE Items[i]]
<1>2. Items' = new
  <2>1. Items' = [i \in 1 .. Count + 1 |-> buffer'[Pos(i)']]
    BY DEF Items
  <2>2. ASSUME NEW i \in 1 .. Count + 1
        PROVE  buffer'[Pos(i)'] = IF i = Count + 1 THEN v ELSE Items[i]
    <3>1. CASE i = Count + 1
      <4>1. Pos(i)' = Pos(Count)'
        BY <3>1 DEF Pos
      <4> QED BY <4>1, <3>1
    <3>2. CASE i \in 1 .. Count
      BY <3>2, <1>1
    <3> QED BY <3>1, <3>2, <1>1
  <2> QED BY <2>1, <2>2
<1>3. new \in Seq(Value) /\ Len(new) = Count + 1
  BY <1>1, SMT
<1>4. /\ Append(Items, v) \in Seq(Value) /\ Len(Append(Items, v)) = Count + 1
      /\ \A i \in 1 .. Count + 1 : Append(Items, v)[i] = new[i]
  BY <1>1, AppendProperties
<1>5. new = Append(Items, v)
  BY <1>3, <1>4, SeqEqual
<1> QED
  BY <1>2, <1>5

\* A step to the next position drops the first value.
LEMMA TailStep ==
    ASSUME QueueInv, Count # 0,
           Count' = Count - 1,
           \A i \in 1 .. Count - 1 : buffer'[Pos(i)'] = buffer[Pos(i + 1)]
    PROVE  Items # <<>> /\ Head(Items) = buffer[Pos(1)] /\ Items' = Tail(Items)
<1>1. /\ Items \in Seq(Value) /\ Len(Items) = Count /\ Count \in Nat
      /\ \A i \in 1 .. Count : Items[i] = buffer[Pos(i)]
  BY ItemsSeq, LenProperties
<1>2. Items # <<>> /\ Head(Items) = buffer[Pos(1)]
  BY <1>1
<1> DEFINE new == [i \in 1 .. Count - 1 |-> Items[i + 1]]
<1>3. Items' = new
  <2>1. Items' = [i \in 1 .. Count - 1 |-> buffer'[Pos(i)']]
    BY DEF Items
  <2> QED BY <2>1, <1>1
<1>4. new \in Seq(Value) /\ Len(new) = Count - 1
  BY <1>1, SMT
<1>5. /\ Tail(Items) \in Seq(Value) /\ Len(Tail(Items)) = Count - 1
      /\ \A i \in 1 .. Count - 1 : Tail(Items)[i] = new[i]
  BY <1>1, <1>2, HeadTailProperties
<1>6. new = Tail(Items)
  BY <1>4, <1>5, SeqEqual
<1> QED
  BY <1>2, <1>3, <1>6

\* push() without growth: the window gets one position longer at its end.
LEMMA RoomStep ==
    ASSUME QueueInv, NEW v \in Value, PushRoom(v)
    PROVE  Items' = Append(Items, v)
<1> USE DEF QueueInv, TypeOK, Slot
<1>w. Succ(writePos) = IF writePos + 1 = size THEN 0 ELSE writePos + 1
  BY SuccIs
<1>c. Count = IF readPos <= writePos THEN writePos - readPos ELSE writePos + size - readPos
  BY CountIs
<1>1. /\ writePos' = Succ(writePos) /\ size' = size /\ readPos' = readPos
      /\ buffer' = [buffer EXCEPT ![Succ(writePos)] = v]
      /\ Succ(writePos) # readPos
  BY DEF PushRoom, Full
<1>2. ASSUME NEW i \in 1 .. size PROVE Pos(i)' = Pos(i)
  BY <1>1 DEF Pos
<1>3. Count' = Count + 1 /\ Count + 1 \in 1 .. size - 1
  <2>1. Count' = (writePos' + size - readPos) % size
    BY <1>1 DEF Count
  <2> DEFINE d == writePos' + size - readPos
  <2>2. d \in 0 .. 2 * size - 1
    BY <1>1, <1>w
  <2>3. (d < size => d % size = d) /\ (d >= size => d % size = d - size)
    <3> HIDE DEF d
    <3> QED BY <2>2, WrapIs, Zenon
  <2> QED BY <2>1, <2>3, <1>1, <1>w, <1>c
<1>4. ASSUME NEW i \in 1 .. size
      PROVE  Pos(i) = IF readPos + i < size THEN readPos + i ELSE readPos + i - size
  BY PosIs
<1>5. Pos(Count + 1) = Succ(writePos)
  BY <1>3, <1>4, <1>w, <1>c
<1>6. \A i \in 1 .. Count : buffer'[Pos(i)'] = buffer[Pos(i)]
  <2> TAKE i \in 1 .. Count
  <2>1. i \in 1 .. size /\ Pos(i) \in Slot /\ Pos(i) # Succ(writePos)
    BY <1>3, <1>4, <1>w, <1>c
  <2> QED BY <2>1, <1>1, <1>2
<1>7. buffer'[Pos(Count)'] = v
  <2>1. Pos(Count)' = Pos(Count + 1)
    BY <1>1, <1>3 DEF Pos
  <2> QED BY <2>1, <1>1, <1>5, <1>w
<1> QED
  BY <1>3, <1>6, <1>7, AppendStep

\* push() with growth: the values are moved to the positions from 1.
LEMMA GrowStep ==
    ASSUME QueueInv, NEW v \in Value, PushGrow(v)
    PROVE  Items' = Append(Items, v)
<1> USE DEF QueueInv, TypeOK, Slot
<1>1. Count = size - 1
  BY FullIs DEF PushGrow
<1>2. /\ size' = 2 * size /\ readPos' = 0 /\ writePos' = size
      /\ buffer' = [i \in 0 .. 2 * size - 1 |->
                      IF i \in 1 .. size - 1 THEN buffer[Pos(i)]
                      ELSE IF i = size THEN v ELSE Undefined]
  BY <1>1 DEF PushGrow
<1>3. \A i \in 1 .. size : i % (2 * size) = i
  BY WrapIs
<1>4. ASSUME NEW i \in 1 .. size PROVE Pos(i)' = i
  BY <1>2, <1>3 DEF Pos
<1>5. Count' = size
  <2>1. Count' = (size + 2 * size - 0) % (2 * size)
    BY <1>2 DEF Count
  <2> DEFINE d == size + 2 * size - 0
             n == 2 * size
  <2>2. d \in 0 .. 2 * n - 1 /\ n \in Nat \ {0} /\ d >= n /\ d - n = size
    OBVIOUS
  <2>3. d >= n => d % n = d - n
    <3> HIDE DEF d, n
    <3> QED BY <2>2, WrapIs, Zenon
  <2> QED BY <2>1, <2>2, <2>3
<1>6. \A i \in 1 .. Count : buffer'[Pos(i)'] = buffer[Pos(i)]
  BY <1>1, <1>2, <1>4
<1>7. buffer'[Pos(Count)'] = v
  <2>1. Pos(Count)' = (0 + size) % (2 * size)
    BY <1>2, <1>5 DEF Pos
  <2>2. Pos(Count)' = size
    BY <2>1, <1>3
  <2> QED BY <2>2, <1>2
<1> QED
  BY <1>1, <1>5, <1>6, <1>7, AppendStep

\* shift(): the window gets one position shorter at its start.
LEMMA ShiftStep ==
    ASSUME QueueInv, ShiftValue
    PROVE  Items # <<>> /\ got' = Head(Items) /\ Items' = Tail(Items)
<1> USE DEF QueueInv, TypeOK, Slot
<1>r. Succ(readPos) = IF readPos + 1 = size THEN 0 ELSE readPos + 1
  BY SuccIs
<1>c. Count = IF readPos <= writePos THEN writePos - readPos ELSE writePos + size - readPos
  BY CountIs
<1>1. /\ readPos # writePos
      /\ writePos' = writePos /\ size' = size /\ readPos' = Succ(readPos)
      /\ got' = buffer[Succ(readPos)]
      /\ buffer' = [buffer EXCEPT ![Succ(readPos)] = Undefined]
  BY DEF ShiftValue
<1>2. ASSUME NEW i \in 1 .. size
      PROVE  Pos(i) = IF readPos + i < size THEN readPos + i ELSE readPos + i - size
  BY PosIs
<1>3. Count # 0 /\ Count \in 1 .. size - 1 /\ Pos(1) = Succ(readPos)
  BY <1>1, <1>2, <1>c, <1>r
<1>4. Count' = Count - 1
  <2>1. Count' = (writePos + size - readPos') % size
    BY <1>1 DEF Count
  <2> DEFINE d == writePos + size - readPos'
  <2>2. d \in 0 .. 2 * size - 1
    BY <1>1, <1>r
  <2>3. (d < size => d % size = d) /\ (d >= size => d % size = d - size)
    <3> HIDE DEF d
    <3> QED BY <2>2, WrapIs, Zenon
  <2> QED BY <2>1, <2>3, <1>1, <1>r, <1>c
<1>5. ASSUME NEW i \in 1 .. Count - 1 PROVE Pos(i)' = Pos(i + 1)
  <2>1. Pos(i)' = (readPos' + i) % size
    BY <1>1 DEF Pos
  <2> DEFINE d == readPos' + i
  <2>2. d \in 0 .. 2 * size - 1
    BY <1>1, <1>r, <1>3
  <2>3. (d < size => d % size = d) /\ (d >= size => d % size = d - size)
    <3> HIDE DEF d
    <3> QED BY <2>2, WrapIs, Zenon
  <2>4. i + 1 \in 1 .. size
    BY <1>3
  <2> QED BY <2>1, <2>3, <2>4, <1>1, <1>2, <1>r, <1>3
<1>6. \A i \in 1 .. Count - 1 : buffer'[Pos(i)'] = buffer[Pos(i + 1)]
  <2> TAKE i \in 1 .. Count - 1
  <2>1. i + 1 \in 1 .. size /\ Pos(i + 1) \in Slot /\ Pos(i + 1) # Succ(readPos)
    BY <1>2, <1>3, <1>r
  <2> QED BY <2>1, <1>1, <1>5
<1>7. Items # <<>> /\ Head(Items) = buffer[Pos(1)] /\ Items' = Tail(Items)
  BY <1>3, <1>4, <1>6, TailStep
<1> QED
  BY <1>1, <1>3, <1>7

LEMMA EmptyStep ==
    ASSUME QueueInv
    PROVE  Items = <<>> <=> readPos = writePos
<1>1. Count = 0 <=> readPos = writePos
  BY CountIs DEF QueueInv, TypeOK, Slot
<1>2. Items \in Seq(Value) /\ Len(Items) = Count
  BY ItemsSeq
<1> QED
  BY <1>1, <1>2, EmptySeq

\* The ring buffer that doubles when full implements the FIFO queue
\* (queue.js:11-34, circular-buffer.js:31-55).
THEOREM ImplementsFifo == Spec => FifoSpec
<1>1. Init => Q!Init
  <2> SUFFICES ASSUME Init PROVE Items = <<>> /\ got = Undefined
    BY DEF Q!Init
  <2>1. QueueInv /\ readPos = writePos
    BY BufferSizeAssumption, UndefinedAssumption
       DEF Init, QueueInv, TypeOK, Slot, LiveHoldsValue, Live
  <2> QED BY <2>1, EmptyStep DEF Init
<1>2. QueueInv /\ [Next]_vars => [Q!Next]_<<Items, got>>
  <2> SUFFICES ASSUME QueueInv, [Next]_vars PROVE [Q!Next]_<<Items, got>>
    OBVIOUS
  <2>1. ASSUME NEW v \in Value, Push(v) PROVE Q!Push(v)
    BY <2>1, RoomStep, GrowStep DEF Push, Q!Push, PushRoom, PushGrow
  <2>2. CASE ShiftValue
    BY <2>2, ShiftStep DEF Q!Next, Q!Shift
  <2>3. CASE ShiftEmpty
    <3>1. Items' = Items
      BY <2>3 DEF ShiftEmpty, Items, Count, Pos
    <3> QED BY <2>3, <3>1, EmptyStep DEF ShiftEmpty, Q!Next, Q!Shift
  <2>4. CASE UNCHANGED vars
    <3>1. Items' = Items
      BY <2>4 DEF vars, Items, Count, Pos
    <3> QED BY <2>4, <3>1 DEF vars
  <2> QED
    BY <2>1, <2>2, <2>3, <2>4 DEF Next, Q!Next
<1> QED
  BY <1>1, <1>2, QueueInvariant, PTL DEF Spec, FifoSpec, Q!Spec

----------------------------------------------------------------------------

(* Sequences. *)

\* The calls made so far, and one more.
LEMMA OneMoreCall ==
    ASSUME NEW n \in Nat
    PROVE  [i \in 1 .. n + 1 |-> i] = Append([i \in 1 .. n |-> i], n + 1)
<1> DEFINE a == [i \in 1 .. n |-> i]
           b == [i \in 1 .. n + 1 |-> i]
<1>1. /\ a \in Seq(Nat) /\ Len(a) = n
      /\ b \in Seq(Nat) /\ Len(b) = n + 1
  BY SMT
<1>2. /\ Append(a, n + 1) \in Seq(Nat) /\ Len(Append(a, n + 1)) = n + 1
      /\ \A i \in 1 .. n + 1 : Append(a, n + 1)[i] = b[i]
  BY <1>1, AppendProperties
<1> QED
  BY <1>1, <1>2, SeqEqual

\* A value appended to the last part of a sequence is appended to the whole.
LEMMA AppendToLast ==
    ASSUME NEW s \in Seq(Value), NEW t \in Seq(Value), NEW v \in Value
    PROVE  s \o Append(t, v) = Append(s \o t, v)
<1>1. s \o Append(t, v) \in Seq(Value) /\ Append(s \o t, v) \in Seq(Value)
  BY SMT
<1>2. /\ Len(s \o Append(t, v)) = Len(Append(s \o t, v))
      /\ \A i \in 1 .. Len(s \o Append(t, v)) :
            (s \o Append(t, v))[i] = Append(s \o t, v)[i]
  BY SMT
<1> QED
  BY <1>1, <1>2, SeqEqual

\* A value may be the last one of a part or the first one of the next.
LEMMA MoveOne ==
    ASSUME NEW s \in Seq(Value), NEW v \in Value
    PROVE  Append(s, v) \o <<>> = s \o <<v>>
<1>1. Append(s, v) \o <<>> \in Seq(Value) /\ s \o <<v>> \in Seq(Value)
  BY SMT
<1>2. /\ Len(Append(s, v) \o <<>>) = Len(s \o <<v>>)
      /\ \A i \in 1 .. Len(s \o <<v>>) : (Append(s, v) \o <<>>)[i] = (s \o <<v>>)[i]
  BY SMT
<1> QED
  BY <1>1, <1>2, SeqEqual

LEMMA TakeHead ==
    ASSUME NEW s \in Seq(Value), NEW t \in Seq(Value), t # <<>>
    PROVE  s \o <<Head(t)>> \o Tail(t) = s \o <<>> \o t
<1>1. Head(t) \in Value /\ Tail(t) \in Seq(Value)
  BY SMT
<1>2. s \o <<Head(t)>> \o Tail(t) \in Seq(Value) /\ s \o <<>> \o t \in Seq(Value)
  BY <1>1, SMT
<1>3. /\ Len(s \o <<Head(t)>> \o Tail(t)) = Len(s \o <<>> \o t)
      /\ \A i \in 1 .. Len(s \o <<>> \o t) :
            (s \o <<Head(t)>> \o Tail(t))[i] = (s \o <<>> \o t)[i]
  BY <1>1, SMT
<1> QED
  BY <1>2, <1>3, SeqEqual

----------------------------------------------------------------------------
\* A job whose callback has thrown stays the current one.
StuckOnJob == stuck => current # Undefined

ZInv == QueueInv /\ ZTypeOK /\ StuckOnJob /\ InOrder

\* What PushNext does to the queue and to the calls.
LEMMA PushNextStep ==
    ASSUME ZInv, PushNext
    PROVE  /\ QueueInv'
           /\ submitted' = submitted + 1 /\ submitted + 1 \in Value
           /\ Items' = Append(Items, submitted + 1)
<1>1. submitted + 1 \in Value /\ submitted' = submitted + 1 /\ Push(submitted + 1)
  BY DEF PushNext
<1>2. QueueInv'
  BY <1>1, QueueStep DEF ZInv, Next
<1>3. Items' = Append(Items, submitted + 1)
  BY <1>1, RoomStep, GrowStep DEF Push, ZInv
<1> QED
  BY <1>1, <1>2, <1>3

\* A step that leaves the queue alone.
LEMMA SameQueue ==
    ASSUME ZInv, UNCHANGED vars
    PROVE  QueueInv' /\ Items' = Items
<1>1. QueueInv'
  BY QueueStep DEF ZInv
<1>2. Items' = Items
  BY DEF vars, Items, Count, Pos
<1> QED
  BY <1>1, <1>2

LEMMA ZStep == ZInv /\ [ZNext]_zvars => ZInv'
<1> SUFFICES ASSUME ZInv, [ZNext]_zvars PROVE ZInv'
  OBVIOUS
<1>t. /\ QueueInv /\ ZTypeOK /\ StuckOnJob
      /\ submitted \in Nat /\ delivered \in Seq(Value)
      /\ current \in Value \cup {Undefined} /\ got \in Value \cup {Undefined}
      /\ Working \in Seq(Value) /\ Items \in Seq(Value)
  BY ItemsSeq DEF ZInv, ZTypeOK, TypeOK, Working
<1>o. [i \in 1 .. submitted |-> i] = delivered \o Working \o Items
  BY DEF ZInv, InOrder
<1>q. QueueInv' => got' \in Value \cup {Undefined} /\ TypeOK'
  BY DEF QueueInv, TypeOK
\* A push appends the number of the call to both sides of InOrder.
<1>p. ASSUME PushNext
      PROVE  /\ QueueInv' /\ submitted' \in Nat
             /\ [i \in 1 .. submitted' |-> i] = delivered \o Working \o Items'
  <2>1. /\ QueueInv' /\ submitted' = submitted + 1 /\ submitted + 1 \in Value
        /\ Items' = Append(Items, submitted + 1)
    BY <1>p, PushNextStep
  <2>2. delivered \o Working \in Seq(Value)
    BY <1>t, SMT
  <2>3. delivered \o Working \o Items' = Append(delivered \o Working \o Items, submitted + 1)
    BY <1>t, <2>1, <2>2, AppendToLast
  <2>4. [i \in 1 .. submitted + 1 |-> i] = Append([i \in 1 .. submitted |-> i], submitted + 1)
    BY <1>t, OneMoreCall
  <2>5. [i \in 1 .. submitted' |-> i] = [i \in 1 .. submitted + 1 |-> i]
    BY <2>1
  <2>6. [i \in 1 .. submitted' |-> i] = delivered \o Working \o Items'
    BY <1>o, <2>3, <2>4, <2>5, Zenon
  <2>7. submitted' \in Nat
    BY <1>t, <2>1
  <2> QED BY <2>1, <2>6, <2>7
\* A callback moves the current job to the end of the delivered ones.
<1>d. ASSUME Done
      PROVE  /\ delivered' \in Seq(Value)
             /\ current # Undefined /\ ~stuck
             /\ delivered' \o <<>> = delivered \o Working
  <2>1. current \in Value /\ current # Undefined /\ ~stuck /\ delivered' = Append(delivered, current)
    BY <1>d, <1>t DEF Done, Complete, CompleteAndSubmit, CallbackThrows
  <2>2. Working = <<current>>
    BY <2>1 DEF Working
  <2> QED BY <1>t, <2>1, <2>2, MoveOne
<1>1. CASE Submit
  <2>1. PushNext /\ try' = TRUE /\ UNCHANGED <<current, stuck, delivered>>
    BY <1>1 DEF Submit
  <2>2. Working' = Working
    BY <2>1 DEF Working
  <2> QED
    BY <1>t, <1>p, <1>q, <2>1, <2>2 DEF ZInv, ZTypeOK, StuckOnJob, InOrder
<1>2. CASE ExecuteNot
  <2>1. QueueInv' /\ Items' = Items
    BY <1>2, SameQueue DEF ExecuteNot
  <2>2. Working' = Working
    BY <1>2 DEF ExecuteNot, Working
  <2> QED
    BY <1>2, <1>t, <1>o, <1>q, <2>1, <2>2 DEF ExecuteNot, ZInv, ZTypeOK, StuckOnJob, InOrder
<1>3. CASE Execute
  <2>1. /\ current = Undefined /\ ~stuck /\ stuck' = stuck /\ try' = FALSE
        /\ current' = got' /\ submitted' = submitted /\ delivered' = delivered
        /\ Working = <<>>
    BY <1>3, <1>t DEF Execute, StuckOnJob, Working
  <2>2. QueueInv'
    BY <1>3, QueueStep DEF Execute, Next, ZInv
  <2>3. delivered \o Working' \o Items' = delivered \o Working \o Items
    <3>1. CASE ShiftValue
      <4>1. Items # <<>> /\ got' = Head(Items) /\ Items' = Tail(Items)
        BY <3>1, <1>t, ShiftStep
      <4>2. Head(Items) \in Value
        BY <1>t, <4>1, SMT
      <4>3. Working' = <<Head(Items)>>
        BY <2>1, <4>1, <4>2, UndefinedAssumption DEF Working
      <4> QED BY <1>t, <2>1, <4>1, <4>3, TakeHead
    <3>2. CASE ShiftEmpty
      <4>1. Working' = <<>>
        BY <3>2, <2>1 DEF ShiftEmpty, Working
      <4>2. Items' = Items
        BY <3>2 DEF ShiftEmpty, Items, Count, Pos
      <4> QED BY <2>1, <4>1, <4>2
    <3> QED BY <1>3, <3>1, <3>2 DEF Execute
  <2> QED
    BY <1>t, <1>o, <1>q, <2>1, <2>2, <2>3 DEF ZInv, ZTypeOK, StuckOnJob, InOrder
<1>4. CASE Complete
  <2>1. QueueInv' /\ Items' = Items
    BY <1>4, SameQueue DEF Complete
  <2>2. Working' = <<>>
    BY <1>4 DEF Complete, Working
  <2>3. delivered' \o Working' \o Items' = delivered \o Working \o Items
    BY <1>4, <1>d, <2>1, <2>2 DEF Done
  <2> QED
    BY <1>4, <1>d, <1>t, <1>o, <1>q, <2>1, <2>3
       DEF Done, Complete, ZInv, ZTypeOK, StuckOnJob, InOrder
<1>5. CASE CompleteAndSubmit
  <2>1. PushNext /\ current' = Undefined /\ try' = TRUE /\ stuck' = stuck
    BY <1>5 DEF CompleteAndSubmit
  <2>2. Working' = <<>>
    BY <2>1 DEF Working
  <2>3. delivered' \o Working' \o Items' = delivered \o Working \o Items'
    BY <1>5, <1>d, <2>2 DEF Done
  <2> QED
    BY <1>5, <1>d, <1>p, <1>t, <1>q, <2>1, <2>3
       DEF Done, ZInv, ZTypeOK, StuckOnJob, InOrder
<1>6. CASE CallbackThrows
  <2>1. QueueInv' /\ Items' = Items
    BY <1>6, SameQueue DEF CallbackThrows
  <2>2. Working' = <<>>
    BY <1>6 DEF CallbackThrows, Working
  <2>3. delivered' \o Working' \o Items' = delivered \o Working \o Items
    BY <1>6, <1>d, <2>1, <2>2 DEF Done
  <2> QED
    BY <1>6, <1>d, <1>t, <1>o, <1>q, <2>1, <2>3
       DEF Done, CallbackThrows, ZInv, ZTypeOK, StuckOnJob, InOrder
<1>7. CASE UNCHANGED zvars
  <2>1. QueueInv' /\ Items' = Items
    BY <1>7, SameQueue DEF zvars
  <2>2. Working' = Working
    BY <1>7 DEF zvars, Working
  <2> QED
    BY <1>7, <1>t, <1>o, <1>q, <2>1, <2>2 DEF zvars, ZInv, ZTypeOK, StuckOnJob, InOrder
<1> QED
  BY <1>1, <1>2, <1>3, <1>4, <1>5, <1>6, <1>7 DEF ZNext, Done

LEMMA ZInvariant == ZSpec => []ZInv
<1>1. ZInit => ZInv
  <2> SUFFICES ASSUME ZInit PROVE ZInv
    OBVIOUS
  <2>1. QueueInv /\ readPos = writePos
    BY BufferSizeAssumption, UndefinedAssumption
       DEF ZInit, Init, QueueInv, TypeOK, Slot, LiveHoldsValue, Live
  <2>2. Items = <<>>
    BY <2>1, EmptyStep
  <2>3. InOrder
    <3>1. Working = <<>> /\ delivered = <<>> /\ submitted = 0
      BY DEF ZInit, Working
    <3>2. [i \in 1 .. 0 |-> i] = <<>> \o <<>> \o <<>>
      BY SMT
    <3> QED BY <2>2, <3>1, <3>2 DEF InOrder
  <2>4. delivered \in Seq(Value)
    BY EmptySeq DEF ZInit
  <2>5. ZTypeOK /\ StuckOnJob
    BY <2>1, <2>4 DEF ZInit, ZTypeOK, QueueInv, StuckOnJob
  <2> QED
    BY <2>1, <2>3, <2>5 DEF ZInv
<1> QED
  BY <1>1, ZStep, PTL DEF ZSpec

\* Type correctness of the serialised zlib (zlib.js:12-71).
THEOREM ZlibTypeCorrect == ZSpec => []ZTypeOK
  BY ZInvariant, PTL DEF ZInv

\* Every call is answered once and in the order of the calls, for every initial size of
\* the buffer and every number of calls, while it wraps and grows (zlib.js:52-71).
THEOREM AnsweredInOrder == ZSpec => []InOrder
  BY ZInvariant, PTL DEF ZInv


\* The steps of zlib use the queue by its operations only (zlib.js:21-70): what is proved
\* of a queue that anyone pushes to and shifts from holds of the queue of zlib.
LEMMA UsesTheQueue == ZSpec => Spec
<1>1. ZInit => Init
  BY DEF ZInit
<1>2. [ZNext]_zvars => [Next]_vars
  BY DEF ZNext, Submit, ExecuteNot, Execute, Done, Complete, CompleteAndSubmit, CallbackThrows,
         PushNext, Next, zvars
<1> QED
  BY <1>1, <1>2, PTL DEF ZSpec, Spec

\* In the queue of zlib no job that was shifted stays reachable, and none that waits reads
\* as "empty" (circular-buffer.js:31-55).
THEOREM SlotsMatchInZlib == ZSpec => []SlotsMatch
  BY UsesTheQueue, SlotsAlwaysMatch, PTL

\* The queue of zlib is a FIFO queue (queue.js:3-37).
THEOREM FifoInZlib == ZSpec => FifoSpec
  BY UsesTheQueue, ImplementsFifo, PTL
=============================================================================
