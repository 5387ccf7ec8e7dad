----------------------------- MODULE FlowProofs -----------------------------
(***************************************************************************)
(* Throttle, Batch and Debounce: every call is made, once and in order, at *)
(* the rate, in the batches and with the arguments that were asked for,    *)
(* for every delay, every size of a batch and every set of calls.          *)
(***************************************************************************)
EXTENDS MCFlow, SequenceTheorems, WellFoundedInduction, TLAPS

LEMMA FlowFacts ==
    /\ T!ThrottleAssumption /\ BatchSize \in Nat \ {0}
    /\ None \notin Nat /\ None \notin Call
  BY FlowAssumption DEF T!ThrottleAssumption

----------------------------------------------------------------------------
\* What has run and what waits, when one more call waits.
LEMMA WaitsInOrder ==
    ASSUME NEW r \in Seq(Call), NEW q \in Seq(Call), NEW c \in Call
    PROVE  Append(r \o q, c) = r \o Append(q, c)
<1>1. Append(r \o q, c) \in Seq(Call) /\ r \o Append(q, c) \in Seq(Call)
  OBVIOUS
<1>2. /\ Len(Append(r \o q, c)) = Len(r \o Append(q, c))
      /\ \A i \in 1 .. Len(Append(r \o q, c)) : Append(r \o q, c)[i] = (r \o Append(q, c))[i]
  OBVIOUS
<1> QED
  BY <1>1, <1>2, SeqEqual

\* The first call that waits is the next one to run.
LEMMA RunsInOrder ==
    ASSUME NEW r \in Seq(Call), NEW q \in Seq(Call), q # <<>>
    PROVE  r \o q = Append(r, Head(q)) \o Tail(q)
<1>1. Head(q) \in Call /\ Tail(q) \in Seq(Call)
  OBVIOUS
<1>2. r \o q \in Seq(Call) /\ Append(r, Head(q)) \o Tail(q) \in Seq(Call)
  BY <1>1
<1>3. /\ Len(r \o q) = Len(Append(r, Head(q)) \o Tail(q))
      /\ \A i \in 1 .. Len(r \o q) : (r \o q)[i] = (Append(r, Head(q)) \o Tail(q))[i]
  BY <1>1
<1> QED
  BY <1>2, <1>3, SeqEqual

LEMMA EmptyCase == <<>> = <<>> \o <<>>
  OBVIOUS

----------------------------------------------------------------------------
\* The timer runs as long as the last call is too near.
Paced == IF tLeft = None THEN tSince = Delay ELSE tLeft + tSince >= Delay

ThrottleInv == T!TypeOK /\ T!InOrder /\ Paced

\* A call is made, or the timer finds none, when the last call is far enough: with the
\* queue q, that ends what was added.
LEMMA ProcessStep ==
    ASSUME T!ThrottleAssumption, NEW q \in Seq(Call), tRan \in Seq(Call), tSince = Delay,
           tAdded' \in Seq(Call), tAdded' = tRan \o q,
           tFailed \in BOOLEAN, T!Process(q) \/ T!ProcessThrows(q)
    PROVE  ThrottleInv'
<1>1. CASE q # <<>>
  <2>1. tCalls' = Tail(q) /\ tRan' = Append(tRan, Head(q)) /\ tFailed' \in BOOLEAN
    BY <1>1 DEF T!Process, T!ProcessThrows
  <2>2. Head(q) \in Call /\ Tail(q) \in Seq(Call)
    BY <1>1
  <2>3. T!InOrder'
    BY <1>1, <2>1, RunsInOrder DEF T!InOrder
  <2>4. T!TypeOK' /\ Paced'
    BY <1>1, <2>1, <2>2 DEF T!Process, T!ProcessThrows, T!TypeOK, Paced, T!ThrottleAssumption
  <2> QED
    BY <2>3, <2>4 DEF ThrottleInv
<1>2. CASE q = <<>>
  <2>1. tCalls' = q /\ tLeft' = None /\ UNCHANGED <<tRan, tSince, tFailed>>
    BY <1>2 DEF T!Process, T!ProcessThrows
  <2> QED
    BY <2>1 DEF ThrottleInv, T!TypeOK, T!InOrder, Paced, T!ThrottleAssumption
<1> QED
  BY <1>1, <1>2

LEMMA ThrottleStep == T!ThrottleAssumption /\ ThrottleInv /\ (T!Next \/ UNCHANGED T!vars) => ThrottleInv'
<1> SUFFICES ASSUME T!ThrottleAssumption, ThrottleInv, (T!Next \/ UNCHANGED T!vars) PROVE ThrottleInv'
  OBVIOUS
<1> USE DEF ThrottleInv
<1>1. ASSUME NEW c \in Call, T!Add(c) PROVE ThrottleInv'
  <2>1. /\ Append(tCalls, c) \in Seq(Call)
        /\ tAdded' \in Seq(Call) /\ tAdded' = tRan \o Append(tCalls, c)
    <3>1. /\ Append(tCalls, c) \in Seq(Call)
          /\ Append(tAdded, c) \in Seq(Call)
          /\ tAdded' = Append(tAdded, c) /\ tAdded = tRan \o tCalls
      BY <1>1 DEF T!Add, T!TypeOK, T!InOrder
    <3>2. Append(tRan \o tCalls, c) = tRan \o Append(tCalls, c)
      BY WaitsInOrder DEF T!TypeOK
    <3> QED
      BY <3>1, <3>2
  <2>2. CASE tLeft = None /\ (T!Process(Append(tCalls, c)) \/ T!ProcessThrows(Append(tCalls, c)))
    <3>1. tSince = Delay /\ tRan \in Seq(Call) /\ tFailed \in BOOLEAN
      BY <2>2 DEF Paced, T!TypeOK
    <3> QED
      BY <2>1, <2>2, <3>1, ProcessStep
  <2>3. CASE tLeft # None /\ tCalls' = Append(tCalls, c) /\ UNCHANGED <<tLeft, tFailed, tSince, tRan>>
    <3>1. T!InOrder'
      BY <2>1, <2>3 DEF T!InOrder
    <3>2. T!TypeOK'
      BY <2>1, <2>3 DEF T!TypeOK
    <3>3. Paced'
      BY <2>3 DEF Paced
    <3> QED
      BY <3>1, <3>2, <3>3
  <2> QED
    BY <1>1, <2>2, <2>3 DEF T!Add
<1>2. CASE T!Fire
  <2>1. /\ tSince = Delay /\ tCalls \in Seq(Call) /\ tRan \in Seq(Call) /\ tFailed \in BOOLEAN
        /\ tAdded' \in Seq(Call) /\ tAdded' = tRan \o tCalls
    BY <1>2 DEF T!Fire, T!TypeOK, T!InOrder, Paced, T!ThrottleAssumption
  <2> QED
    BY <1>2, <2>1, ProcessStep DEF T!Fire
<1>3. CASE T!Cancel
  <2>1. T!InOrder'
    BY <1>3, EmptyCase, Zenon DEF T!Cancel, T!InOrder
  <2>2. T!TypeOK'
    <3>1. tCalls' \in Seq(Call) /\ tAdded' \in Seq(Call) /\ tRan' \in Seq(Call)
      BY <1>3 DEF T!Cancel
    <3>2. tSince' \in 0 .. Delay
      BY <1>3 DEF T!Cancel, T!ThrottleAssumption
    <3>3. tLeft' \in 0 .. Delay \cup {None} /\ tFailed' \in BOOLEAN
      BY <1>3 DEF T!Cancel
    <3> QED
      BY <3>1, <3>2, <3>3 DEF T!TypeOK
  <2>3. Paced'
    BY <1>3 DEF T!Cancel, Paced
  <2> QED
    BY <2>1, <2>2, <2>3
<1>4. CASE T!Tick
  <2>1. T!TypeOK' /\ T!InOrder'
    BY <1>4 DEF T!Tick, T!TypeOK, T!InOrder, T!ThrottleAssumption
  <2>2. CASE tLeft \in {None, 0}
    BY <1>4, <2>1, <2>2 DEF T!Tick, T!TypeOK, Paced, T!ThrottleAssumption
  <2>3. CASE tLeft \notin {None, 0}
    <3>1. /\ tLeft \in Nat /\ tSince \in Nat /\ tSince <= Delay /\ tLeft + tSince >= Delay
          /\ tLeft' = tLeft - 1 /\ tLeft' \in Nat
          /\ tSince' = IF tSince = Delay THEN Delay ELSE tSince + 1
      BY <1>4, <2>3 DEF T!Tick, T!TypeOK, Paced, T!ThrottleAssumption
    <3> QED
      BY <2>1, <3>1 DEF Paced, T!ThrottleAssumption
  <2> QED
    BY <2>2, <2>3
<1>5. CASE UNCHANGED T!vars
  BY <1>5 DEF T!vars, T!TypeOK, T!InOrder, Paced
<1> QED
  BY <1>1, <1>2, <1>3, <1>4, <1>5 DEF T!Next

LEMMA ThrottleStarts == T!ThrottleAssumption /\ T!Init => ThrottleInv
<1> SUFFICES ASSUME T!ThrottleAssumption, T!Init PROVE ThrottleInv
  OBVIOUS
<1>1. T!InOrder
  BY EmptyCase, Zenon DEF T!Init, T!InOrder
<1>2. tCalls \in Seq(Call) /\ tAdded \in Seq(Call) /\ tRan \in Seq(Call)
  BY DEF T!Init
<1>3. tSince \in 0 .. Delay
  BY DEF T!Init, T!ThrottleAssumption
<1>4. tLeft \in 0 .. Delay \cup {None} /\ tFailed \in BOOLEAN /\ Paced
  BY DEF T!Init, Paced
<1> QED
  BY <1>1, <1>2, <1>3, <1>4 DEF ThrottleInv, T!TypeOK

LEMMA ThrottlePaced ==
    T!ThrottleAssumption /\ ThrottleInv /\ (T!Next \/ UNCHANGED T!vars)
        => (Len(tRan') > Len(tRan) => tSince = Delay)
<1> SUFFICES ASSUME T!ThrottleAssumption, ThrottleInv, T!Next \/ UNCHANGED T!vars,
                    Len(tRan') > Len(tRan)
             PROVE  tSince = Delay
  OBVIOUS
<1>1. CASE \E c \in Call : T!Add(c)
  BY <1>1 DEF T!Add, ThrottleInv, T!TypeOK, Paced
<1>2. CASE T!Fire
  BY <1>2 DEF T!Fire, ThrottleInv, T!TypeOK, Paced, T!ThrottleAssumption
<1>3. CASE T!Cancel \/ T!Tick \/ UNCHANGED T!vars
  BY <1>3 DEF T!Cancel, T!Tick, T!vars, ThrottleInv, T!TypeOK
<1> QED
  BY <1>1, <1>2, <1>3 DEF T!Next

----------------------------------------------------------------------------
\* The timer of a burst and the ticks since its last call come to the quiet time together.
Quiet == dLeft # None => dLeft + dQuiet >= Delay

DebounceInv == D!TypeOK /\ D!ServesNewest /\ Quiet

\* What a step that arms the timer, or takes it away, comes to.
Parts ==
    /\ dLast \in Call \cup {None} /\ dLeft \in 0 .. Delay \cup {None}
    /\ dNewest \in Call \cup {None} /\ dQuiet \in 0 .. Delay
    /\ dLeft # None => dLast = dNewest /\ dNewest # None /\ dLeft + dQuiet >= Delay

Armed == dServed = FALSE /\ dLeft # None
Disarmed == dServed = TRUE /\ dLeft = None

LEMMA DebounceParts == DebounceInv <=> Parts /\ (Armed \/ Disarmed)
<1>1. DebounceInv <=> Parts /\ dServed \in BOOLEAN /\ (dLeft # None <=> ~dServed)
  BY Zenon DEF Parts, DebounceInv, D!TypeOK, D!ServesNewest, Quiet
<1>2. (Armed \/ Disarmed) <=> (dServed \in BOOLEAN /\ (dLeft # None <=> ~dServed))
  BY Zenon DEF Armed, Disarmed
<1> QED
  BY <1>1, <1>2, Zenon

LEMMA DebouncePartsNext == Parts' /\ (Armed' \/ Disarmed') => DebounceInv'
<1>1. (Armed' \/ Disarmed') => dServed' \in BOOLEAN /\ (dLeft' # None <=> ~dServed')
  BY Zenon DEF Armed, Disarmed
<1> QED
  BY <1>1, Zenon DEF Parts, DebounceInv, D!TypeOK, D!ServesNewest, Quiet

LEMMA DebounceStep ==
    DebounceInv /\ (D!Next \/ UNCHANGED D!vars)
        => DebounceInv' /\ (D!Fire => dQuiet = Delay)
<1> SUFFICES ASSUME DebounceInv, D!Next \/ UNCHANGED D!vars
             PROVE  (Parts' /\ (Armed' \/ Disarmed')) /\ (D!Fire => dQuiet = Delay)
  BY DebouncePartsNext, Zenon
<1>0. Delay \in Nat \ {0} /\ None \notin Nat /\ None \notin Call
  BY FlowFacts DEF T!ThrottleAssumption
<1>p. Parts /\ (Armed \/ Disarmed)
  BY DebounceParts, Zenon
<1>1. D!Fire => dQuiet = Delay
  BY <1>0, <1>p DEF D!Fire, Parts
<1>2. ASSUME NEW c \in Call, D!Add(c) PROVE Parts' /\ Armed'
  BY <1>0, <1>2 DEF D!Add, D!Called, Parts, Armed
<1>3. CASE D!Fire
  <2>1. dLast # None /\ Parts' /\ dLeft' = None
    BY <1>0, <1>p, <1>3 DEF D!Fire, Parts
  <2>2. Disarmed'
    BY <1>3, <2>1, Zenon DEF D!Fire, Disarmed
  <2> QED
    BY <1>1, <2>1, <2>2, Zenon
<1>4. CASE D!Cancel
  <2>1. Parts' /\ Disarmed'
    BY <1>0, <1>p, <1>4 DEF D!Cancel, Parts, Disarmed
  <2> QED
    BY <1>1, <2>1, Zenon
<1>5. CASE D!Tick
  <2>1. CASE dLeft = None
    <3>1. Parts' /\ dLeft' = None
      BY <1>0, <1>p, <1>5, <2>1 DEF D!Tick, Parts
    <3> QED
      BY <1>1, <1>p, <1>5, <2>1, <3>1, Zenon DEF D!Tick, Armed, Disarmed
  <2>2. CASE dLeft # None
    <3>1. Parts' /\ dLeft' # None
      BY <1>0, <1>p, <1>5, <2>2 DEF D!Tick, Parts
    <3> QED
      BY <1>1, <1>p, <1>5, <2>2, <3>1, Zenon DEF D!Tick, Armed, Disarmed
  <2> QED
    BY <2>1, <2>2
<1>6. CASE UNCHANGED D!vars
  BY <1>1, <1>p, <1>6, Zenon DEF D!vars, Parts, Armed, Disarmed
<1> QED
  BY <1>1, <1>2, <1>3, <1>4, <1>5, <1>6, Zenon DEF D!Next

LEMMA DebounceStarts == D!Init => DebounceInv
<1> SUFFICES ASSUME D!Init PROVE Parts /\ Disarmed
  BY DebounceParts, Zenon
<1> QED
  BY FlowFacts DEF T!ThrottleAssumption, D!Init, Parts, Disarmed

----------------------------------------------------------------------------
Smaller == {p \in Nat \X Nat : p[1] < p[2]}

\* A set of numbers has a smallest one.
LEMMA LeastNumber ==
    ASSUME NEW S \in SUBSET Nat, S # {}
    PROVE  \E n \in S : \A m \in S : n <= m
<1>1. IsWellFoundedOn(Smaller, Nat)
  BY NatLessThanWellFounded, Zenon DEF OpToRel, Smaller
<1>2. PICK n \in S : \A m \in S : ~(<<m, n>> \in Smaller)
  BY <1>1, WFMin, Zenon
<1>3. ASSUME NEW m \in S, ~(n <= m) PROVE FALSE
  <2>1. n \in Nat /\ m \in Nat
    OBVIOUS
  <2>2. m < n
    BY <1>3, <2>1
  <2>3. <<m, n>> \in Smaller
    BY <2>1, <2>2 DEF Smaller
  <2> QED
    BY <1>2, <2>3
<1> QED
  BY <1>2, <1>3

\* f[n] is what the first n of the batches bs hold.
Joins(f, bs) ==
    /\ f \in [0 .. Len(bs) -> Seq(Call)]
    /\ f[0] = <<>>
    /\ \A n \in 1 .. Len(bs) : f[n] = f[n - 1] \o bs[n]

LEMMA FlatIs ==
    ASSUME Len(bBatches) \in Nat, NEW f, Joins(f, bBatches)
    PROVE  B!Flat = f[Len(bBatches)]
<1> DEFINE N == Len(bBatches)
           R(g) == [n \in 0 .. N |-> IF n = 0 THEN <<>> ELSE g[n - 1] \o bBatches[n]]
           U == CHOOSE g : g = R(g)
<1>1. f = R(f)
  <2>1. \A n \in 0 .. N : f[n] = IF n = 0 THEN <<>> ELSE f[n - 1] \o bBatches[n]
    <3> SUFFICES ASSUME NEW n \in 0 .. N
                 PROVE  f[n] = IF n = 0 THEN <<>> ELSE f[n - 1] \o bBatches[n]
      OBVIOUS
    <3>1. CASE n = 0
      BY <3>1 DEF Joins
    <3>2. CASE n # 0
      <4>1. n \in 1 .. N
        BY <3>2
      <4> QED BY <3>2, <4>1 DEF Joins
    <3> QED
      BY <3>1, <3>2
  <2>2. f = [n \in 0 .. N |-> f[n]]
    BY DEF Joins
  <2>3. R(f) = [n \in 0 .. N |-> f[n]]
    <3> HIDE DEF N
    <3> QED BY <2>1, Zenon
  <2> QED
    BY <2>2, <2>3, Zenon
<1>2. U = R(U)
  <2> HIDE DEF R
  <2> QED BY <1>1, Zenon
<1>3. \A n \in 0 .. N : U[n] = f[n]
  <2> DEFINE Bad == {n \in 0 .. N : U[n] # f[n]}
  <2>1. SUFFICES ASSUME Bad # {} PROVE FALSE
    OBVIOUS
  <2>3. \A i \in 0 .. N : U[i] = IF i = 0 THEN <<>> ELSE U[i - 1] \o bBatches[i]
    <3>1. \A i \in 0 .. N : R(U)[i] = IF i = 0 THEN <<>> ELSE U[i - 1] \o bBatches[i]
      BY DEF R
    <3> QED
      BY <1>2, <3>1, Zenon
  <2> HIDE DEF U
  <2>2. PICK n \in Bad : \A m \in Bad : n <= m
    <3>1. Bad \in SUBSET Nat
      OBVIOUS
    <3> HIDE DEF Bad
    <3> QED BY <2>1, <3>1, LeastNumber
  <2>4. CASE n = 0
    BY <2>2, <2>3, <2>4 DEF Joins
  <2>5. CASE n # 0
    <3>1. n \in 1 .. N /\ n - 1 \in 0 .. N /\ n - 1 \notin Bad
      BY <2>2, <2>5
    <3>2. U[n - 1] = f[n - 1]
      BY <3>1
    <3>3. U[n] = U[n - 1] \o bBatches[n] /\ f[n] = f[n - 1] \o bBatches[n]
      BY <2>3, <3>1 DEF Joins
    <3> QED
      BY <2>2, <3>2, <3>3
  <2> QED
    BY <2>4, <2>5
<1>4. B!Flat = U[N]
  BY DEF B!Flat
<1>5. N \in 0 .. N
  OBVIOUS
<1> HIDE DEF U
<1> QED
  BY <1>3, <1>4, <1>5


----------------------------------------------------------------------------
\* Multiplication keeps the order.
LEMMA TimesMonotonic ==
    ASSUME NEW a \in Nat, NEW b \in Nat, NEW c \in Nat, a <= b
    PROVE  a * c <= b * c
<1>1. PICK d \in Nat : b = a + d
  <2>1. b - a \in Nat /\ b = a + (b - a)
    OBVIOUS
  <2> QED BY <2>1
<1>2. b * c = a * c + d * c
  BY <1>1
<1>3. d * c \in Nat /\ a * c \in Nat
  BY Z3
<1> QED
  BY <1>2, <1>3

\* The loop of _process ends when nothing is left, and not before.
LEMMA RoundsEnd ==
    ASSUME NEW q \in Seq(Call)
    PROVE  /\ B!Rounds(q) \in Nat
           /\ B!Rounds(q) * BatchSize >= Len(q)
           /\ B!Rounds(q) * BatchSize < Len(q) + BatchSize
<1> DEFINE x == Len(q) + BatchSize - 1
<1>1. x \in Nat /\ BatchSize \in Nat \ {0} /\ Len(q) \in Nat
  BY FlowFacts
<1>2. /\ x \div BatchSize \in Nat
      /\ x % BatchSize \in 0 .. BatchSize - 1
      /\ x = BatchSize * (x \div BatchSize) + (x % BatchSize)
  <2> HIDE DEF x
  <2> QED BY <1>1, SMT
<1>3. B!Rounds(q) = x \div BatchSize
  BY DEF B!Rounds
<1> DEFINE d == x \div BatchSize
           r == x % BatchSize
<1>4. BatchSize * d = d * BatchSize
  <2>1. d \in Nat
    BY <1>2
  <2> HIDE DEF d
  <2> QED BY <1>1, <2>1
<1>5. x = d * BatchSize + r /\ r \in 0 .. BatchSize - 1 /\ d * BatchSize \in Nat
  <2>1. d \in Nat /\ r \in 0 .. BatchSize - 1 /\ x = BatchSize * d + r
    BY <1>2
  <2>2. d * BatchSize \in Nat
    <3> HIDE DEF d
    <3> QED BY <1>1, <2>1
  <2> QED
    BY <1>4, <2>1, <2>2
<1> DEFINE p == d * BatchSize
<1>6. p >= Len(q) /\ p < Len(q) + BatchSize
  <2>1. Len(q) + BatchSize - 1 = p + r /\ r \in 0 .. BatchSize - 1 /\ p \in Nat
    BY <1>5
  <2> HIDE DEF p, r
  <2> QED BY <1>1, <2>1
<1> QED
  BY <1>2, <1>3, <1>6

\* Where the first k batches of q end.
End(q, k) == B!Least(k * BatchSize, Len(q))

\* The batches of q follow each other, and each has from 1 to BatchSize calls.
LEMMA Ends ==
    ASSUME NEW q \in Seq(Call)
    PROVE  /\ End(q, 0) = 0
           /\ \A k \in 0 .. B!Rounds(q) : End(q, k) \in 0 .. Len(q)
           /\ \A k \in 1 .. B!Rounds(q) :
                 /\ (k - 1) * BatchSize = End(q, k - 1)
                 /\ End(q, k) - End(q, k - 1) \in 1 .. BatchSize
           /\ \A k \in 0 .. B!Rounds(q) :
                 SubSeq(q, k * BatchSize + 1, Len(q)) = SubSeq(q, End(q, k) + 1, Len(q))
           /\ SubSeq(q, End(q, B!Rounds(q)) + 1, Len(q)) = <<>>
<1> DEFINE R == B!Rounds(q)
           L == Len(q)
<1>1. /\ R \in Nat /\ L \in Nat /\ BatchSize \in Nat \ {0}
      /\ R * BatchSize >= L /\ R * BatchSize < L + BatchSize
  BY RoundsEnd, FlowFacts
<1>2. \A k \in 0 .. R : k * BatchSize \in Nat
  <2> HIDE DEF R
  <2> QED BY <1>1
<1>3. \A k \in 1 .. R : k * BatchSize = (k - 1) * BatchSize + BatchSize
  <2> HIDE DEF R
  <2> QED BY <1>1
<1>4. \A k \in 1 .. R : (k - 1) * BatchSize < L
  <2> SUFFICES ASSUME NEW k \in 1 .. R PROVE (k - 1) * BatchSize < L
    OBVIOUS
  <2>1. k * BatchSize <= R * BatchSize
    BY <1>1, TimesMonotonic
  <2>2. k * BatchSize = (k - 1) * BatchSize + BatchSize
    BY <1>3
  <2>3. (k - 1) * BatchSize \in Nat /\ R * BatchSize \in Nat
    BY <1>1, <1>2
  <2> DEFINE a == k * BatchSize
             b == (k - 1) * BatchSize
             c == R * BatchSize
  <2>4. a <= c /\ a = b + BatchSize /\ b \in Nat /\ c \in Nat /\ c < L + BatchSize
    BY <1>1, <2>1, <2>2, <2>3
  <2> HIDE DEF a, b, c, L
  <2>5. b < L
    BY <1>1, <2>4
  <2> QED
    BY <2>5 DEF b
<1>5. End(q, 0) = 0
  BY <1>1 DEF End, B!Least
<1>6. \A k \in 0 .. R : End(q, k) = (IF k * BatchSize < L THEN k * BatchSize ELSE L)
  BY DEF End, B!Least
<1>7. \A k \in 0 .. R : End(q, k) \in 0 .. L
  <2> SUFFICES ASSUME NEW k \in 0 .. R PROVE End(q, k) \in 0 .. L
    OBVIOUS
  <2>1. k * BatchSize \in Nat
    BY <1>2
  <2> DEFINE a == k * BatchSize
  <2>2. End(q, k) = (IF a < L THEN a ELSE L) /\ a \in Nat
    BY <1>6, <2>1
  <2> HIDE DEF a
  <2> QED BY <1>1, <2>2
<1>8. ASSUME NEW k \in 1 .. R
      PROVE  /\ (k - 1) * BatchSize = End(q, k - 1)
             /\ End(q, k) - End(q, k - 1) \in 1 .. BatchSize
  <2> DEFINE a == k * BatchSize
             b == (k - 1) * BatchSize
  <2>1. a \in Nat /\ b \in Nat /\ a = b + BatchSize /\ b < L
    BY <1>1, <1>2, <1>3, <1>4
  <2>2. /\ End(q, k) = (IF a < L THEN a ELSE L)
        /\ End(q, k - 1) = (IF b < L THEN b ELSE L)
    <3>1. k \in 0 .. R /\ k - 1 \in 0 .. R
      BY <1>1
    <3> QED BY <1>6, <3>1
  <2>3. End(q, k - 1) = b
    BY <2>1, <2>2
  <2>4. End(q, k) - b \in 1 .. BatchSize
    <3> HIDE DEF a, b, L
    <3> QED BY <1>1, <2>1, <2>2
  <2> QED
    BY <2>3, <2>4
<1>9. ASSUME NEW k \in 0 .. R
      PROVE  SubSeq(q, k * BatchSize + 1, L) = SubSeq(q, End(q, k) + 1, L)
  <2> DEFINE a == k * BatchSize
  <2>1. a \in Nat /\ End(q, k) = (IF a < L THEN a ELSE L)
    BY <1>2, <1>6
  <2>2. CASE a < L
    BY <2>1, <2>2
  <2>3. CASE ~(a < L)
    <3>1. /\ a + 1 \in Int /\ L \in Int /\ L < a + 1
          /\ End(q, k) + 1 \in Int /\ L < End(q, k) + 1
      <4> HIDE DEF a, L
      <4> QED BY <1>1, <2>1, <2>3
    <3>2. SubSeq(q, a + 1, L) = <<>> /\ SubSeq(q, End(q, k) + 1, L) = <<>>
      <4> HIDE DEF a, L
      <4> QED BY <3>1, SubSeqEmpty
    <3> QED
      BY <3>2
  <2> QED
    BY <2>2, <2>3
<1>10. SubSeq(q, End(q, R) + 1, L) = <<>>
  <2>1. End(q, R) = L
    <3>1. R \in 0 .. R /\ ~(R * BatchSize < L)
      <4>1. R * BatchSize \in Nat
        BY <1>1, <1>2
      <4> DEFINE a == R * BatchSize
      <4>2. a \in Nat /\ a >= L
        BY <1>1, <4>1
      <4>3. ~(a < L)
        <5> HIDE DEF a, L
        <5> QED BY <1>1, <4>2
      <4> QED BY <1>1, <4>3
    <3> QED BY <1>6, <3>1
  <2> QED
    BY <1>1, <2>1, SubSeqEmpty
<1> QED
  BY <1>5, <1>7, <1>8, <1>9, <1>10


----------------------------------------------------------------------------
\* What was added is what the batches hold, one after the other, followed by what waits.
Collected == \E f \in [0 .. Len(bBatches) -> Seq(Call)] :
    Joins(f, bBatches) /\ bAdded = f[Len(bBatches)] \o bArgs

BatchInv == B!TypeOK /\ Collected /\ B!BatchesFit /\ B!NoStall

LEMMA BatchHolds == BatchInv => BatchKeeps
<1> SUFFICES ASSUME BatchInv PROVE B!InOrder
  BY DEF BatchInv, BatchKeeps
<1>1. PICK f \in [0 .. Len(bBatches) -> Seq(Call)] :
          Joins(f, bBatches) /\ bAdded = f[Len(bBatches)] \o bArgs
  BY DEF BatchInv, Collected
<1>2. Len(bBatches) \in Nat
  BY DEF BatchInv, B!TypeOK
<1>3. B!Flat = f[Len(bBatches)]
  BY <1>1, <1>2, FlatIs
<1> QED
  BY <1>1, <1>3 DEF B!InOrder

\* The first k batches of q, put together.
Taken(q, k) == SubSeq(q, 1, End(q, k))

LEMMA TakenIs ==
    ASSUME NEW q \in Seq(Call)
    PROVE  /\ Taken(q, 0) = <<>>
           /\ \A k \in 0 .. B!Rounds(q) :
                 /\ Taken(q, k) \in Seq(Call)
                 /\ SubSeq(q, k * BatchSize + 1, Len(q)) \in Seq(Call)
                 /\ Taken(q, k) \o SubSeq(q, k * BatchSize + 1, Len(q)) = q
           /\ \A k \in 1 .. B!Rounds(q) :
                 /\ B!Chunk(q, k) \in Seq(Call)
                 /\ Len(B!Chunk(q, k)) \in 1 .. BatchSize
                 /\ Taken(q, k - 1) \o B!Chunk(q, k) = Taken(q, k)
<1>1. /\ Len(q) \in Nat /\ B!Rounds(q) \in Nat
      /\ \A m, n \in 1 .. Len(q) + 1 : \A i \in m .. n - 1 : q[i] \in Call
  BY RoundsEnd
<1>2. Taken(q, 0) = <<>>
  BY Ends, SubSeqEmpty DEF Taken
<1>3. \A a, b \in 0 .. Len(q) : a <= b =>
          /\ SubSeq(q, a + 1, b) \in Seq(Call)
          /\ Len(SubSeq(q, a + 1, b)) = b - a
          /\ SubSeq(q, 1, a) \o SubSeq(q, a + 1, b) = SubSeq(q, 1, b)
  <2> SUFFICES ASSUME NEW a \in 0 .. Len(q), NEW b \in 0 .. Len(q), a <= b
               PROVE  /\ SubSeq(q, a + 1, b) \in Seq(Call)
                      /\ Len(SubSeq(q, a + 1, b)) = b - a
                      /\ SubSeq(q, 1, a) \o SubSeq(q, a + 1, b) = SubSeq(q, 1, b)
    OBVIOUS
  <2>1. /\ a + 1 \in Int /\ b \in Int
        /\ \A i \in a + 1 .. b : q[i] \in Call
    BY <1>1
  <2>2. /\ SubSeq(q, a + 1, b) \in Seq(Call)
        /\ Len(SubSeq(q, a + 1, b)) = IF a + 1 <= b THEN b - (a + 1) + 1 ELSE 0
    BY <2>1, SubSeqProperties
  <2>3. SubSeq(q, 1, a) \o SubSeq(q, a + 1, b) = SubSeq(q, 1, b)
    <3>1. 1 \in 1 .. Len(q) + 1 /\ a \in 1 - 1 .. Len(q) /\ b \in a .. Len(q)
      BY <1>1
    <3> QED
      BY <3>1, ConcatAdjacentSubSeq
  <2> QED
    BY <2>2, <2>3
<1>4. ASSUME NEW k \in 0 .. B!Rounds(q)
      PROVE  /\ Taken(q, k) \in Seq(Call)
             /\ SubSeq(q, k * BatchSize + 1, Len(q)) \in Seq(Call)
             /\ Taken(q, k) \o SubSeq(q, k * BatchSize + 1, Len(q)) = q
  <2>1. End(q, k) \in 0 .. Len(q) /\ 0 \in 0 .. Len(q) /\ Len(q) \in 0 .. Len(q)
    BY <1>1, Ends
  <2>2. SubSeq(q, k * BatchSize + 1, Len(q)) = SubSeq(q, End(q, k) + 1, Len(q))
    BY Ends
  <2>3. Taken(q, k) \in Seq(Call)
    <3>1. \A i \in 1 .. End(q, k) : q[i] \in Call
      BY <1>1, <2>1
    <3> QED
      BY <2>1, <3>1, SubSeqProperties DEF Taken
  <2>4. /\ SubSeq(q, End(q, k) + 1, Len(q)) \in Seq(Call)
        /\ SubSeq(q, 1, End(q, k)) \o SubSeq(q, End(q, k) + 1, Len(q)) = SubSeq(q, 1, Len(q))
    <3>1. End(q, k) <= Len(q)
      BY <1>1, <2>1
    <3> QED
      BY <1>3, <2>1, <3>1, Zenon
  <2>5. SubSeq(q, 1, Len(q)) = q
    BY SubSeqFull
  <2> QED
    BY <2>2, <2>3, <2>4, <2>5, Zenon DEF Taken
<1>5. ASSUME NEW k \in 1 .. B!Rounds(q)
      PROVE  /\ B!Chunk(q, k) \in Seq(Call)
             /\ Len(B!Chunk(q, k)) \in 1 .. BatchSize
             /\ Taken(q, k - 1) \o B!Chunk(q, k) = Taken(q, k)
  <2>1. k \in 0 .. B!Rounds(q) /\ k - 1 \in 0 .. B!Rounds(q)
    BY <1>1
  <2>2. End(q, k) \in 0 .. Len(q) /\ End(q, k - 1) \in 0 .. Len(q)
    BY <2>1, Ends
  <2>3. /\ (k - 1) * BatchSize = End(q, k - 1)
        /\ End(q, k) - End(q, k - 1) \in 1 .. BatchSize
    BY Ends
  <2>4. B!Chunk(q, k) = SubSeq(q, End(q, k - 1) + 1, End(q, k))
    BY <2>3 DEF B!Chunk, End
  <2>5. End(q, k - 1) <= End(q, k)
    BY <2>2, <2>3, FlowFacts
  <2> QED
    BY <1>3, <2>2, <2>3, <2>4, <2>5 DEF Taken
<1> QED
  BY <1>2, <1>4, <1>5


LEMMA Regrouped == \A s, t, u \in Seq(Call) : (s \o t) \o u = s \o (t \o u)
  BY ConcatAssociative

\* n batches are taken from what waits, and the rest is left.
LEMMA TakeStep ==
    ASSUME B!TypeOK, Collected, B!BatchesFit, NEW n \in 0 .. B!Rounds(bArgs),
           bBatches' = bBatches \o B!Chunks(bArgs, n), bAdded' = bAdded,
           bArgs' = SubSeq(bArgs, n * BatchSize + 1, Len(bArgs))
    PROVE  /\ bArgs' \in Seq(Call) /\ bAdded' \in Seq(Call) /\ bBatches' \in Seq(Seq(Call))
           /\ Collected' /\ B!BatchesFit'
<1> DEFINE N == Len(bBatches)
<1>1. /\ bArgs \in Seq(Call) /\ bAdded \in Seq(Call) /\ bBatches \in Seq(Seq(Call))
      /\ N \in Nat
  BY DEF B!TypeOK
<1>2. B!Rounds(bArgs) \in Nat /\ n \in Nat
  BY <1>1, RoundsEnd
<1>3. PICK f \in [0 .. N -> Seq(Call)] :
          Joins(f, bBatches) /\ bAdded = f[N] \o bArgs
  BY DEF Collected
<1>4. /\ Taken(bArgs, 0) = <<>>
      /\ Taken(bArgs, n) \in Seq(Call)
      /\ bArgs' \in Seq(Call)
      /\ Taken(bArgs, n) \o bArgs' = bArgs
      /\ \A k \in 0 .. n : Taken(bArgs, k) \in Seq(Call)
      /\ \A k \in 1 .. n : /\ B!Chunk(bArgs, k) \in Seq(Call)
                           /\ Len(B!Chunk(bArgs, k)) \in 1 .. BatchSize
                           /\ Taken(bArgs, k - 1) \o B!Chunk(bArgs, k) = Taken(bArgs, k)
  <2>1. /\ \A k \in 0 .. n : k \in 0 .. B!Rounds(bArgs)
        /\ \A k \in 1 .. n : k \in 1 .. B!Rounds(bArgs)
    BY <1>2
  <2>2. n \in 0 .. n
    BY <1>2
  <2> QED
    BY <1>1, <2>1, <2>2, TakenIs, Zenon
<1> DEFINE cs == B!Chunks(bArgs, n)
<1>5. /\ cs \in Seq(Seq(Call)) /\ Len(cs) = n
      /\ \A k \in 1 .. n : cs[k] = B!Chunk(bArgs, k)
  <2>1. cs = [k \in 1 .. n |-> B!Chunk(bArgs, k)]
    BY DEF B!Chunks
  <2>2. \A k \in 1 .. n : B!Chunk(bArgs, k) \in Seq(Call)
    BY <1>4
  <2> HIDE DEF cs
  <2> QED
    BY <1>2, <2>1, <2>2
<1>6. /\ bBatches' \in Seq(Seq(Call)) /\ Len(bBatches') = N + n
      /\ \A k \in 1 .. N : bBatches'[k] = bBatches[k]
      /\ \A k \in 1 .. n : bBatches'[N + k] = B!Chunk(bArgs, k)
  <2> HIDE DEF cs
  <2>1. bBatches' = bBatches \o cs
    BY DEF cs
  <2>2. /\ bBatches \o cs \in Seq(Seq(Call))
        /\ Len(bBatches \o cs) = N + n
        /\ \A i \in 1 .. N + n : (bBatches \o cs)[i] = IF i <= N THEN bBatches[i] ELSE cs[i - N]
    BY <1>1, <1>5, ConcatProperties
  <2>3. \A k \in 1 .. N : k \in 1 .. N + n /\ k <= N
    BY <1>1, <1>2
  <2>4. \A k \in 1 .. n : N + k \in 1 .. N + n /\ ~(N + k <= N) /\ (N + k) - N = k
    BY <1>1, <1>2
  <2> QED
    BY <1>5, <2>1, <2>2, <2>3, <2>4
<1>7. B!BatchesFit'
  <2> SUFFICES ASSUME NEW i \in 1 .. N + n
               PROVE  Len(bBatches'[i]) \in 1 .. BatchSize
    BY <1>6 DEF B!BatchesFit
  <2>1. CASE i \in 1 .. N
    BY <1>6, <2>1 DEF B!BatchesFit
  <2>2. CASE i \notin 1 .. N
    <3>1. i - N \in 1 .. n /\ i = N + (i - N)
      BY <1>1, <1>2, <2>2
    <3> QED
      BY <1>4, <1>6, <3>1
  <2> QED
    BY <2>1, <2>2
<1>8. Collected'
  <2> DEFINE g == [k \in 0 .. N + n |-> IF k <= N THEN f[k] ELSE f[N] \o Taken(bArgs, k - N)]
  <2>1. \A k \in 0 .. N : g[k] = f[k] /\ f[k] \in Seq(Call)
    <3>1. \A k \in 0 .. N : k \in 0 .. N + n /\ k <= N
      BY <1>1, <1>2
    <3>2. \A k \in 0 .. N + n : k <= N => g[k] = f[k]
      OBVIOUS
    <3>3. \A k \in 0 .. N : f[k] \in Seq(Call)
      BY <1>3
    <3> HIDE DEF g
    <3> QED
      BY <3>1, <3>2, <3>3
  <2>2. f[N] \in Seq(Call) /\ N \in 0 .. N
    BY <1>1, <1>3
  <2>3. \A j \in 0 .. n : g[N + j] = f[N] \o Taken(bArgs, j) /\ g[N + j] \in Seq(Call)
    <3> SUFFICES ASSUME NEW j \in 0 .. n
                 PROVE  g[N + j] = f[N] \o Taken(bArgs, j) /\ g[N + j] \in Seq(Call)
      OBVIOUS
    <3>1. CASE j = 0
      <4>1. f[N] \o <<>> = f[N]
        BY <2>2, ConcatEmptySeq
      <4>2. g[N] = f[N] /\ N + j = N
        BY <1>1, <2>1, <2>2, <3>1
      <4> HIDE DEF g
      <4> QED
        BY <1>4, <2>2, <3>1, <4>1, <4>2
    <3>2. CASE j # 0
      <4>1. N + j \in 0 .. N + n /\ ~(N + j <= N) /\ (N + j) - N = j
        BY <1>1, <1>2, <3>2
      <4>2. g[N + j] = f[N] \o Taken(bArgs, j)
        BY <4>1
      <4>3. f[N] \o Taken(bArgs, j) \in Seq(Call)
        BY <1>4, <2>2, ConcatProperties
      <4> HIDE DEF g
      <4> QED
        BY <4>2, <4>3
    <3> QED
      BY <3>1, <3>2
  <2> HIDE DEF g
  <2>4. ASSUME NEW k \in 0 .. N + n PROVE g[k] \in Seq(Call)
    <3>1. CASE k \in 0 .. N
      BY <2>1, <3>1
    <3>2. CASE k \notin 0 .. N
      <4>1. k - N \in 0 .. n /\ k = N + (k - N)
        BY <1>1, <1>2, <3>2
      <4> QED
        BY <2>3, <4>1
    <3> QED
      BY <3>1, <3>2
  <2>5. g \in [0 .. N + n -> Seq(Call)]
    <3>1. g = [k \in 0 .. N + n |-> g[k]]
      BY DEF g
    <3> QED
      BY <2>4, <3>1
  <2>6. ASSUME NEW i \in 1 .. N + n PROVE g[i] = g[i - 1] \o bBatches'[i]
    <3>1. CASE i \in 1 .. N
      <4>1. i \in 0 .. N /\ i - 1 \in 0 .. N
        BY <1>1, <3>1
      <4>2. f[i] = f[i - 1] \o bBatches[i]
        BY <1>3, <3>1 DEF Joins
      <4> QED
        BY <1>6, <2>1, <3>1, <4>1, <4>2
    <3>2. CASE i \notin 1 .. N
      <4>1. PICK j \in 1 .. n : i = N + j
        <5>1. i - N \in 1 .. n /\ i = N + (i - N)
          BY <1>1, <1>2, <3>2
        <5> QED BY <5>1
      <4>2. j \in 0 .. n /\ j - 1 \in 0 .. n /\ i - 1 = N + (j - 1)
        BY <1>1, <1>2, <4>1
      <4>3. /\ g[i] = f[N] \o Taken(bArgs, j)
            /\ g[i - 1] = f[N] \o Taken(bArgs, j - 1)
            /\ bBatches'[i] = B!Chunk(bArgs, j)
        BY <1>6, <2>3, <4>1, <4>2
      <4>4. /\ Taken(bArgs, j - 1) \in Seq(Call)
            /\ B!Chunk(bArgs, j) \in Seq(Call)
            /\ Taken(bArgs, j - 1) \o B!Chunk(bArgs, j) = Taken(bArgs, j)
        BY <1>4, <4>2
      <4>5. (f[N] \o Taken(bArgs, j - 1)) \o B!Chunk(bArgs, j)
                = f[N] \o (Taken(bArgs, j - 1) \o B!Chunk(bArgs, j))
        BY <2>2, <4>4, Regrouped, Zenon
      <4> QED
        BY <4>3, <4>4, <4>5
    <3> QED
      BY <3>1, <3>2
  <2>7. g[0] = <<>>
    BY <1>1, <1>3, <2>1 DEF Joins
  <2>8. Joins(g, bBatches')
    BY <1>6, <2>5, <2>6, <2>7 DEF Joins
  <2>9. bAdded' = g[N + n] \o bArgs'
    <3>1. g[N + n] = f[N] \o Taken(bArgs, n)
      BY <1>2, <2>3
    <3>2. (f[N] \o Taken(bArgs, n)) \o bArgs' = f[N] \o (Taken(bArgs, n) \o bArgs')
      BY <1>4, <2>2, Regrouped, Zenon
    <3> QED
      BY <1>3, <1>4, <3>1, <3>2
  <2> QED
    BY <1>6, <2>5, <2>8, <2>9 DEF Collected
<1> QED
  BY <1>1, <1>4, <1>6, <1>7, <1>8

\* Nothing has been collected yet.
LEMMA EmptyJoins == \E f \in [0 .. 0 -> Seq(Call)] : Joins(f, <<>>) /\ <<>> = f[0] \o <<>>
<1> DEFINE f == [i \in 0 .. 0 |-> <<>>]
<1>1. f \in [0 .. 0 -> Seq(Call)] /\ f[0] = <<>> /\ Len(<<>>) = 0 /\ 1 .. 0 = {}
  OBVIOUS
<1> HIDE DEF f
<1>2. Joins(f, <<>>)
  BY <1>1 DEF Joins
<1> QED
  BY <1>1, <1>2, EmptyCase

LEMMA BatchStep == BatchInv /\ (B!Next \/ UNCHANGED B!vars) => BatchInv'
<1> SUFFICES ASSUME BatchInv, B!Next \/ UNCHANGED B!vars PROVE BatchInv'
  OBVIOUS
<1>1. /\ B!TypeOK /\ Collected /\ B!BatchesFit /\ B!NoStall
      /\ bArgs \in Seq(Call) /\ bAdded \in Seq(Call) /\ bBatches \in Seq(Seq(Call))
      /\ bArmed \in BOOLEAN /\ bFailed \in BOOLEAN
  BY DEF BatchInv, B!TypeOK
<1>2. ASSUME NEW c \in Call, B!Add(c) PROVE BatchInv'
  <2>1. /\ bArgs' = Append(bArgs, c) /\ bAdded' = Append(bAdded, c) /\ bArmed' = TRUE
        /\ bFailed' = bFailed /\ bBatches' = bBatches
    BY <1>2 DEF B!Add
  <2>2. bArgs' \in Seq(Call) /\ bAdded' \in Seq(Call)
    BY <1>1, <2>1
  <2>3. Collected'
    <3>1. PICK f \in [0 .. Len(bBatches) -> Seq(Call)] :
              Joins(f, bBatches) /\ bAdded = f[Len(bBatches)] \o bArgs
      BY <1>1 DEF Collected
    <3>2. f[Len(bBatches)] \in Seq(Call)
      BY <1>1
    <3>3. Append(f[Len(bBatches)] \o bArgs, c) = f[Len(bBatches)] \o Append(bArgs, c)
      BY <1>1, <3>2, WaitsInOrder, Zenon
    <3> QED
      BY <2>1, <3>1, <3>3, Zenon DEF Collected
  <2>4. B!BatchesFit'
    BY <1>1, <2>1 DEF B!BatchesFit
  <2> QED
    BY <1>1, <2>1, <2>2, <2>3, <2>4, Zenon DEF BatchInv, B!TypeOK, B!NoStall
<1>3. CASE B!Fire
  <2>1. /\ bArmed' = FALSE /\ bBatches' = bBatches \o B!Chunks(bArgs, B!Rounds(bArgs))
        /\ bArgs' = <<>> /\ bFailed' = bFailed /\ bAdded' = bAdded
    BY <1>3 DEF B!Fire
  <2>2. B!Rounds(bArgs) \in 0 .. B!Rounds(bArgs)
    BY <1>1, RoundsEnd
  <2>3. bArgs' = SubSeq(bArgs, B!Rounds(bArgs) * BatchSize + 1, Len(bArgs))
    BY <1>1, <2>1, <2>2, Ends
  <2>4. /\ bArgs' \in Seq(Call) /\ bAdded' \in Seq(Call) /\ bBatches' \in Seq(Seq(Call))
        /\ Collected' /\ B!BatchesFit'
    BY <1>1, <2>1, <2>2, <2>3, TakeStep, Zenon
  <2> QED
    BY <1>1, <2>1, <2>4, Zenon DEF BatchInv, B!TypeOK, B!NoStall
<1>4. ASSUME NEW n \in 1 .. MaxCalls, B!FireThrows(n) PROVE BatchInv'
  <2>1. /\ bArmed' = FALSE /\ bFailed' = TRUE /\ bAdded' = bAdded
        /\ bBatches' = bBatches \o B!Chunks(bArgs, n)
        /\ bArgs' = SubSeq(bArgs, n * BatchSize + 1, Len(bArgs))
        /\ n \in 1 .. B!Rounds(bArgs)
    BY <1>4 DEF B!FireThrows
  <2>2. n \in 0 .. B!Rounds(bArgs)
    BY <1>1, <2>1, RoundsEnd
  <2>3. /\ bArgs' \in Seq(Call) /\ bAdded' \in Seq(Call) /\ bBatches' \in Seq(Seq(Call))
        /\ Collected' /\ B!BatchesFit'
    BY <1>1, <2>1, <2>2, TakeStep, Zenon
  <2> QED
    BY <2>1, <2>3, Zenon DEF BatchInv, B!TypeOK, B!NoStall
<1>5. CASE B!Cancel
  <2>1. /\ bArgs' = <<>> /\ bArmed' = FALSE /\ bFailed' = FALSE /\ bAdded' = <<>>
        /\ bBatches' = <<>>
    BY <1>5 DEF B!Cancel
  <2>2. Collected' /\ B!BatchesFit'
    <3>1. \E f \in [0 .. 0 -> Seq(Call)] : Joins(f, <<>>) /\ <<>> = f[0] \o <<>>
      BY EmptyJoins
    <3>2. Len(bBatches') = 0 /\ 1 .. 0 = {}
      BY <2>1
    <3> QED
      BY <2>1, <3>1, <3>2 DEF Collected, B!BatchesFit
  <2>3. bArgs' \in Seq(Call) /\ bAdded' \in Seq(Call) /\ bBatches' \in Seq(Seq(Call))
    BY <2>1, EmptySeq
  <2> QED
    BY <2>1, <2>2, <2>3, Zenon DEF BatchInv, B!TypeOK, B!NoStall
<1>6. CASE UNCHANGED B!vars
  BY <1>1, <1>6, Zenon DEF B!vars, BatchInv, B!TypeOK, Collected, B!BatchesFit, B!NoStall
<1> QED
  BY <1>2, <1>3, <1>4, <1>5, <1>6 DEF B!Next

LEMMA BatchStarts == B!Init => BatchInv
<1> SUFFICES ASSUME B!Init PROVE BatchInv
  OBVIOUS
<1>1. /\ bArgs = <<>> /\ bArmed = FALSE /\ bFailed = FALSE /\ bAdded = <<>> /\ bBatches = <<>>
  BY DEF B!Init
<1>2. \E f \in [0 .. 0 -> Seq(Call)] : Joins(f, <<>>) /\ <<>> = f[0] \o <<>>
  BY EmptyJoins
<1>3. Collected /\ B!BatchesFit
  <2>1. Len(bBatches) = 0 /\ 1 .. 0 = {}
    BY <1>1
  <2> QED
    BY <1>1, <1>2, <2>1 DEF Collected, B!BatchesFit
<1>4. bArgs \in Seq(Call) /\ bAdded \in Seq(Call) /\ bBatches \in Seq(Seq(Call))
  BY <1>1, EmptySeq
<1> QED
  BY <1>1, <1>3, <1>4, Zenon DEF BatchInv, B!TypeOK, B!NoStall

----------------------------------------------------------------------------
\* The invariants of the three, whichever of them is used.
FlowInv == ThrottleInv /\ BatchInv /\ DebounceInv

\* A step is one of Throttle, of Batch or of Debounce, and leaves the other two alone.
LEMMA FlowParts ==
    [Next]_vars => /\ T!Next \/ UNCHANGED T!vars
                   /\ B!Next \/ UNCHANGED B!vars
                   /\ D!Next \/ UNCHANGED D!vars
  BY DEF Next, NextThrottle, NextBatch, NextDebounce, vars, tVars, bVars, dVars,
         T!vars, B!vars, D!vars

LEMMA FlowStep == FlowInv /\ [Next]_vars => FlowInv'
  BY FlowFacts, FlowParts, ThrottleStep, BatchStep, DebounceStep DEF FlowInv

LEMMA FlowStarts == Init => FlowInv
  BY FlowFacts, ThrottleStarts, BatchStarts, DebounceStarts DEF Init, FlowInv

\* Every throttled call runs once and in order, or waits, whatever fn throws
\* (throttle.js:10-40).
THEOREM CallsInOrder == Spec => []InOrder
<1>1. FlowInv => InOrder
  BY DEF FlowInv, ThrottleInv, InOrder
<1> QED
  BY <1>1, FlowStarts, FlowStep, PTL DEF Spec

\* No two throttled calls are nearer than Delay, whenever calls are added and however late
\* the timer is (throttle.js:42-45).
THEOREM CallsApart == Spec => RateLimited
<1>1. FlowInv /\ [Next]_vars => [Len(tRan') > Len(tRan) => tSince = Delay]_(T!vars)
  BY FlowFacts, FlowParts, ThrottlePaced DEF FlowInv
<1> QED
  BY <1>1, FlowStarts, FlowStep, PTL DEF Spec, RateLimited, T!RateLimited

\* Every batched call is in one batch, in order; no batch is empty or too long; and what is
\* collected has a timer unless fn has thrown: for every size of a batch, and whichever of
\* them fails (batch.js:10-37).
THEOREM BatchesKept == Spec => []BatchKeeps
<1>1. FlowInv => BatchKeeps
  BY BatchHolds DEF FlowInv
<1> QED
  BY <1>1, FlowStarts, FlowStep, PTL DEF Spec

\* The timer of a debounced function is armed exactly while a burst waits, and the function
\* is going to get the newest arguments (debounce.js:9-35).
THEOREM NewestServed == Spec => []ServesNewest
<1>1. FlowInv => ServesNewest
  BY DEF FlowInv, DebounceInv, ServesNewest
<1> QED
  BY <1>1, FlowStarts, FlowStep, PTL DEF Spec

\* A debounced function is called only after debounceMs without a call
\* (debounce.js:20-30).
THEOREM ServedWhenQuiet == Spec => D!AfterQuiet
<1>1. FlowInv /\ [Next]_vars => [D!Fire => dQuiet = Delay]_(D!vars)
  BY FlowParts, DebounceStep DEF FlowInv
<1> QED
  BY <1>1, FlowStarts, FlowStep, PTL DEF Spec, D!AfterQuiet
=============================================================================
