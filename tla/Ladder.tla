------------------------------- MODULE Ladder -------------------------------
(***************************************************************************)
(* src/orderbooks: the level 2 books of Kraken and Deribit, one side of    *)
(* them: price levels in a sorted array, whose best price comes last, so   *)
(* that the array changes near its end.  The books differ in one guard:    *)
(* Kraken's ignores what is not newer than the level it has.               *)
(*                                                                         *)
(* A price is a number, as in Deribit's; Kraken's are strings, which order *)
(* as numbers only while they have as many digits.  The checksum is left   *)
(* out.                                                                    *)
(***************************************************************************)
EXTENDS Naturals, Sequences, FiniteSets, SequencesExt

CONSTANTS Price, Size, Time    \* Price a set of naturals, Size with 0

VARIABLES
    guarded,     \* the book is Kraken's
    bid,         \* the side
    arr,         \* bids or asks
    level        \* reference: the points, as a set

vars == <<guarded, bid, arr, level>>

Init == guarded \in BOOLEAN /\ bid \in BOOLEAN /\ arr = <<>> /\ level = {}

\* a comes before b in the array: bids ascend, asks descend.
Before(a, b) == IF bid THEN a < b ELSE a > b

\* Mutant: the middle is left out of the upper half, and of the lower one.
FindIndexSkips(a, price) ==
    LET find[s \in (0 .. Len(a)) \X (0 .. Len(a))] ==
            LET l == s[1]
                r == s[2]
                mid == (l + r) \div 2
            IN
            CASE l >= r                           -> mid
              [] l < r /\ a[mid + 1].price = price -> mid
              [] l < r /\ Before(price, a[mid + 1].price) -> find[<<l, IF mid = 0 THEN 0 ELSE mid - 1>>]
              [] OTHER                            -> find[<<mid + 1, r>>]
    IN  find[<<0, Len(a)>>]

\* findIndexAsc, findIndexDesc: where the price is, or is to be inserted, counted from 0.
FindIndex(a, price) ==
    LET find[s \in (0 .. Len(a)) \X (0 .. Len(a))] ==
            LET l == s[1]
                r == s[2]
                mid == (l + r) \div 2
            IN
            CASE l = r                            -> mid
              [] l < r /\ a[mid + 1].price = price -> mid
              [] l < r /\ Before(price, a[mid + 1].price) -> find[<<l, mid>>]
              [] OTHER                            -> find[<<mid + 1, r>>]
    IN  find[<<0, Len(a)>>]

\* update
Updated(a, p) ==
    LET i == FindIndex(a, p.price) + 1
        hit == i <= Len(a) /\ a[i].price = p.price
        late == guarded /\ p.time <= a[i].time
    IN  CASE hit /\ ~late /\ p.size = 0 -> RemoveAt(a, i)
          [] hit /\ ~late /\ p.size > 0 -> ReplaceAt(a, i, p)
          [] ~hit /\ p.size > 0         -> InsertAt(a, i, p)
          [] OTHER                      -> a

\* The levels that a message leaves, one for each price: the newest, or the last to come.
Kept(p) ==
    LET old == {q \in level : q.price = p.price}
    IN  IF guarded /\ \E q \in old : p.time <= q.time THEN level
        ELSE (level \ old) \cup (IF p.size = 0 THEN {} ELSE {p})

Update(p) == arr' = Updated(arr, p) /\ level' = Kept(p) /\ UNCHANGED <<guarded, bid>>

\* The points in the order of the array.
InOrder(a) == \A i, j \in DOMAIN a : i < j => Before(a[i].price, a[j].price)

\* The constructors: the points of a snapshot, which have a price each, sorted.
Construct(points) ==
    /\ arr' \in {a \in [1 .. Cardinality(points) -> points] : InOrder(a) /\ ToSet(a) = points}
    /\ level' = points
    /\ UNCHANGED <<guarded, bid>>

\* snapshot(depth): from the end of the array.
Snapshot(depth) == SubSeq(Reverse(arr), 1, IF depth < Len(arr) THEN depth ELSE Len(arr))

Next ==
    \/ \E price \in Price, size \in Size, time \in Time :
          Update([price |-> price, size |-> size, time |-> time])
    \/ \E prices \in SUBSET Price, size \in Size \ {0}, time \in Time :
          Construct({[price |-> x, size |-> size, time |-> time] : x \in prices})

Spec == Init /\ [][Next]_vars

----------------------------------------------------------------------------
\* The array holds the levels that the messages leave, each once, and a snapshot of any
\* depth is the best of them in order, whatever sequence of insertions, updates,
\* deletions, repeated and late messages came (KrakenOrderBook.js:105-217).
LadderAgrees ==
    /\ ToSet(arr) = level /\ Len(arr) = Cardinality(level)
    /\ \A depth \in 0 .. Cardinality(Price) :
          LET snap == Snapshot(depth) IN
          /\ \A i \in 1 .. Len(snap) - 1 : Before(snap[i + 1].price, snap[i].price)
          /\ \A p \in level \ ToSet(snap) : Len(snap) = depth
                /\ \A i \in DOMAIN snap : Before(p.price, snap[i].price)
=============================================================================
