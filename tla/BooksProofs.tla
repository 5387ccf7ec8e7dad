----------------------------- MODULE BooksProofs -----------------------------
(***************************************************************************)
(* The order books: the binary search keeps a side sorted and free of      *)
(* doubles, and a book that replays what was queued is the server's, for   *)
(* all prices, sizes and orders and any number of messages.                *)
(***************************************************************************)
EXTENDS MCBooks, FiniteSetTheorems, SequenceTheorems, WellFoundedInduction, TLAPS

----------------------------------------------------------------------------
Less == {p \in Nat \X Nat : p[1] < p[2]}

LEMMA LeastOf ==
    ASSUME NEW S \in SUBSET Nat, S # {}
    PROVE  \E n \in S : \A m \in S : n <= m
<1>1. IsWellFoundedOn(Less, Nat)
  BY NatLessThanWellFounded, Zenon DEF OpToRel, Less
<1>2. PICK n \in S : \A m \in S : <<m, n>> \notin Less
  BY <1>1, WFMin, Zenon
<1>3. \A m \in S : m < n => <<m, n>> \in Less
  BY DEF Less
<1>4. ASSUME NEW m \in S PROVE n <= m
  <2>1. m \in Nat /\ n \in Nat
    OBVIOUS
  <2>2. ~(m < n)
    BY <1>2, <1>3, Zenon
  <2> QED
    BY <2>1, <2>2
<1> QED
  BY <1>4

\* A step that is made n times, the i-th time as h says.
Iterates(f, A, base, h, n) ==
    /\ f \in [0 .. n -> A]
    /\ f[0] = base
    /\ \A i \in 1 .. n : f[i] = h[<<f[i - 1], i>>]

LEMMA Iterated ==
    ASSUME NEW A, NEW base \in A, NEW n \in Nat, NEW h \in [A \X (1 .. n) -> A]
    PROVE  \E f : Iterates(f, A, base, h, n)
<1> DEFINE Missing == {m \in 0 .. n : ~ \E f : Iterates(f, A, base, h, m)}
<1> SUFFICES ASSUME Missing # {} PROVE FALSE
  OBVIOUS
<1>1. PICK m \in Missing : \A k \in Missing : m <= k
  <2>1. Missing \in SUBSET Nat
    OBVIOUS
  <2> HIDE DEF Missing
  <2> QED
    BY <2>1, LeastOf
<1>2. CASE m = 0
  <2>1. Iterates([i \in 0 .. 0 |-> base], A, base, h, 0)
    BY DEF Iterates
  <2> QED
    BY <1>1, <1>2, <2>1
<1>3. CASE m # 0
  <2>1. m - 1 \in 0 .. n /\ m - 1 \notin Missing /\ m \in 1 .. n
    BY <1>1, <1>3
  <2>2. PICK g : Iterates(g, A, base, h, m - 1)
    BY <2>1
  <2>3. g[m - 1] \in A /\ h[<<g[m - 1], m>>] \in A
    BY <2>1, <2>2 DEF Iterates
  <2> DEFINE f == [i \in 0 .. m |-> IF i = m THEN h[<<g[m - 1], m>>] ELSE g[i]]
  <2>4. f \in [0 .. m -> A] /\ f[0] = base
    BY <1>3, <2>1, <2>2, <2>3 DEF Iterates
  <2>5. \A i \in 1 .. m : f[i] = h[<<f[i - 1], i>>]
    <3> SUFFICES ASSUME NEW i \in 1 .. m PROVE f[i] = h[<<f[i - 1], i>>]
      OBVIOUS
    <3>1. CASE i = m
      <4>1. m - 1 \in 0 .. m /\ m - 1 # m /\ m \in 0 .. m
        BY <2>1
      <4>2. f[m - 1] = g[m - 1] /\ f[m] = h[<<g[m - 1], m>>]
        BY <4>1
      <4> QED
        BY <3>1, <4>2
    <3>2. CASE i # m
      <4>1. i \in 1 .. m - 1 /\ f[i] = g[i] /\ f[i - 1] = g[i - 1]
        BY <2>1, <3>2
      <4> QED
        BY <2>2, <4>1 DEF Iterates
    <3> QED
      BY <3>1, <3>2
  <2>6. Iterates(f, A, base, h, m)
    BY <2>4, <2>5, Zenon DEF Iterates
  <2> QED
    BY <1>1, <2>6
<1> QED
  BY <1>2, <1>3

----------------------------------------------------------------------------
(* Orders.                                                                  *)

OrderTypes == {"received", "open", "done", "change"}
Held == [O!Side -> [Order -> Nat]]
Book == [seq : Nat, runId : Nat, orders : Held]
Message == [type : OrderTypes, side : O!Side, order : Order, size : Size \ {0}, seq : Nat]
Begin == [type : {"restart"}, seq : Nat]

\* The server may say u of the orders os.
Fits(os, u) ==
    /\ \A side \in O!Side \ {u.side} : ~(os[side][u.order] > 0)
    /\ u.type \in {"received", "open"} <=> ~(os[u.side][u.order] > 0)

\* The update u is one of the server's.
Tells(u, p) ==
    /\ u \in Message
    /\ u.seq \in 2 .. Len(p)
    /\ Fits(p[u.seq - 1], u)
    /\ p[u.seq] = O!Applied(p[u.seq - 1], u)

\* The book is the server's at its number.
Agrees(b, p, from) ==
    /\ b \in Book
    /\ b.seq \in from .. Len(p)
    /\ b.orders = p[b.seq]

\* The message m begins the run r.
Starts(m, p, r) ==
    /\ m \in Begin /\ m.seq = r /\ r > 1
    /\ p[r] = O!NoOrders

OrdersTypes ==
    /\ kind \in {"kucoin", "ledgerx", "erisx"}
    /\ past \in Seq(Held) /\ past # <<>>
    /\ stream \in Seq(Message \cup Begin) /\ Len(stream) < Len(past)
    /\ run \in 1 .. Len(past) /\ (kind # "ledgerx" => run = 1)
    /\ runId \in Nat
    /\ snap \in 0 .. Len(past)
    /\ queue \in Seq(Message)
    /\ book \in Book

Queued == \A i \in 1 .. Len(queue) : Tells(queue[i], past)

\* What comes are the server's messages, one after the other.
Streamed ==
    \A i \in 1 .. Len(stream) :
        /\ stream[i].seq = O!Got + i
        /\ \/ Tells(stream[i], past) /\ stream[i].type \in O!Types
           \/ Starts(stream[i], past, run)

KucoinAgrees == phase = "built" /\ kind = "kucoin" => snap # 0 /\ Agrees(book, past, snap)

\* What the snapshot knows of and is still to come does not touch the order o.
Concerns(m, side, o) == m.type = "restart" \/ (m.side = side /\ m.order = o)
Untouched(side, o) ==
    \A i \in 1 .. Len(stream) : Concerns(stream[i], side, o) => stream[i].seq > snap

LedgerxAgrees ==
    phase = "built" /\ kind = "ledgerx" =>
        /\ snap # 0
        /\ spoiled \/ O!Restarted \/ \A side \in O!Side, o \in Order :
              Untouched(side, o) => book.orders[side][o] = past[O!Got][side][o]

ErisxAgrees == phase = "built" /\ kind = "erisx" => spoiled \/ book.orders = past[O!Got]

OrdersInv ==
    /\ OrdersTypes
    /\ Queued
    /\ Streamed
    /\ run > 1 => past[run] = O!NoOrders
    /\ KucoinAgrees
    /\ LedgerxAgrees
    /\ ErisxAgrees

LEMMA AppliedType ==
    ASSUME BooksAssumption, NEW os \in Held, NEW u \in Message PROVE O!Applied(os, u) \in Held
  BY DEF BooksAssumption, O!Applied, Held, Message

\* KuCoin's book, which looks an order up on either side, does what the server did.
LEMMA KucoinApplies ==
    ASSUME NEW os \in Held, NEW u \in Message, Fits(os, u)
    PROVE  O!KucoinOrders(os, u) = O!Applied(os, u)
<1> USE DEF O!KucoinOrders, O!Applied, Held, Message, OrderTypes
<1>1. CASE u.type \in {"received", "open"}
  BY <1>1
<1>2. CASE u.type = "change"
  <2>1. /\ os[u.side][u.order] > 0
        /\ \A side \in O!Side : os[side][u.order] > 0 => side = u.side
    BY <1>2 DEF Fits
  <2>2. (IF os["asks"][u.order] > 0 THEN "asks" ELSE "bids") = u.side
    BY <2>1 DEF O!Side
  <2> QED
    BY <1>2, <2>1, <2>2
<1>3. CASE u.type = "done"
  <2>1. \A side \in O!Side \ {u.side} : os[side][u.order] = 0
    BY DEF Fits
  <2>2. \A side \in O!Side \ {u.side} : [os[side] EXCEPT ![u.order] = 0] = os[side]
    BY <2>1
  <2> QED
    BY <1>3, <2>2
<1> QED
  BY <1>1, <1>2, <1>3

\* An update that follows brings a book that is the server's to its next number.
LEMMA UpdateAgrees ==
    ASSUME BooksAssumption, NEW p \in Seq(Held), NEW from \in 1 .. Len(p), NEW b, Agrees(b, p, from),
           NEW u, Tells(u, p), u.seq = b.seq + 1
    PROVE  Agrees(O!KucoinUpdated(b, u), p, from)
<1>1. /\ O!KucoinUpdated(b, u).seq = u.seq
      /\ O!KucoinUpdated(b, u).orders = O!KucoinOrders(b.orders, u)
      /\ O!KucoinUpdated(b, u).orders \in Held => O!KucoinUpdated(b, u) \in Book
  BY DEF O!KucoinUpdated, Agrees, Book, Tells, Message
<1>2. p[b.seq] \in Held
  BY DEF Agrees
<1>3. O!KucoinOrders(b.orders, u) = p[u.seq]
  BY <1>2, KucoinApplies DEF Agrees, Tells, Book
<1>4. p[u.seq] \in Held
  BY DEF Tells
<1> QED
  BY <1>1, <1>3, <1>4 DEF Agrees, Tells, Book

\* What the constructor does with one update keeps the book the server's.
Acc == [ok : BOOLEAN, book : Book]

LEMMA ReplayAgrees ==
    ASSUME BooksAssumption, NEW p \in Seq(Held), NEW from \in 1 .. Len(p),
           NEW acc \in Acc, Agrees(acc.book, p, from), NEW u, Tells(u, p)
    PROVE  O!Replay(acc, u) \in Acc /\ Agrees(O!Replay(acc, u).book, p, from)
<1>1. u.seq \in Nat /\ acc.book.seq \in Nat /\ acc.book \in Book
  BY DEF Tells, Message, Acc, Book
<1>2. CASE O!Replay(acc, u) = acc
  BY <1>2
<1>3. CASE O!Replay(acc, u) = [acc EXCEPT !.ok = FALSE]
  BY <1>1, <1>3 DEF Acc
<1>4. CASE u.seq = acc.book.seq + 1 /\ O!Replay(acc, u) = [acc EXCEPT !.book = O!KucoinUpdated(@, u)]
  <2>1. Agrees(O!KucoinUpdated(acc.book, u), p, from)
    BY <1>4, UpdateAgrees
  <2>2. O!Replay(acc, u).book = O!KucoinUpdated(acc.book, u)
    BY <1>4 DEF Acc
  <2>3. O!KucoinUpdated(acc.book, u) \in Book
    BY <2>1 DEF Agrees
  <2>4. O!Replay(acc, u) \in Acc
    BY <1>4, <2>3 DEF Acc
  <2> QED
    BY <2>1, <2>2, <2>4
<1>5. u.seq <= acc.book.seq \/ u.seq > acc.book.seq + 1 \/ u.seq = acc.book.seq + 1
  BY <1>1
<1> QED
  BY <1>1, <1>2, <1>3, <1>4, <1>5, Zenon DEF O!Replay

LEMMA ReplayedAgrees ==
    ASSUME BooksAssumption, NEW p \in Seq(Held), NEW from \in 1 .. Len(p),
           NEW b, Agrees(b, p, from), NEW us \in Seq(Message), \A i \in 1 .. Len(us) : Tells(us[i], p)
    PROVE  O!Replayed(b, us) \in Acc /\ Agrees(O!Replayed(b, us).book, p, from)
<1> DEFINE N == Len(us)
           base == [ok |-> us # <<>> /\ b.seq < O!Last(us).seq, book |-> b]
           Good == {acc \in Acc : Agrees(acc.book, p, from)}
           h == [x \in Good \X (1 .. N) |-> O!Replay(x[1], us[x[2]])]
           R(f) == [i \in 0 .. N |-> IF i = 0 THEN base ELSE O!Replay(f[i - 1], us[i])]
           U == CHOOSE f : f = R(f)
<1>1. base \in Good
  <2>1. (us # <<>> /\ b.seq < O!Last(us).seq) \in BOOLEAN
    OBVIOUS
  <2>2. b \in Book
    BY DEF Agrees
  <2> QED
    BY <2>1, <2>2 DEF Acc
<1>2. N \in Nat
  OBVIOUS
<1>3. h \in [Good \X (1 .. N) -> Good]
  <2>1. ASSUME NEW acc \in Good, NEW i \in 1 .. N PROVE O!Replay(acc, us[i]) \in Good
    BY <2>1, ReplayAgrees
  <2> QED
    BY <2>1
<1>4. PICK f : Iterates(f, Good, base, h, N)
  <2> HIDE DEF N, base, Good, h
  <2> QED
    BY <1>1, <1>2, <1>3, Iterated
<1>5. f = R(f)
  <2>1. \A i \in 0 .. N : f[i] = IF i = 0 THEN base ELSE O!Replay(f[i - 1], us[i])
    <3> SUFFICES ASSUME NEW i \in 0 .. N
                 PROVE  f[i] = IF i = 0 THEN base ELSE O!Replay(f[i - 1], us[i])
      OBVIOUS
    <3>1. CASE i = 0
      BY <1>4, <3>1 DEF Iterates
    <3>2. CASE i # 0
      <4>1. i \in 1 .. N /\ i - 1 \in 0 .. N
        BY <3>2
      <4>2. f[i] = h[<<f[i - 1], i>>] /\ f[i - 1] \in Good
        BY <1>4, <4>1 DEF Iterates
      <4>3. h[<<f[i - 1], i>>] = O!Replay(f[i - 1], us[i])
        BY <4>1, <4>2
      <4> QED
        BY <3>2, <4>2, <4>3
    <3> QED
      BY <3>1, <3>2
  <2>2. f = [i \in 0 .. N |-> f[i]]
    BY <1>4 DEF Iterates
  <2> HIDE DEF N, base
  <2>3. R(f) = [i \in 0 .. N |-> f[i]]
    BY <2>1, Zenon
  <2> QED
    BY <2>2, <2>3, Zenon
<1>6. U = R(U)
  <2> HIDE DEF R
  <2> QED
    BY <1>5, Zenon
<1>7. \A i \in 0 .. N : U[i] = IF i = 0 THEN base ELSE O!Replay(U[i - 1], us[i])
  <2>1. \A i \in 0 .. N : R(U)[i] = IF i = 0 THEN base ELSE O!Replay(U[i - 1], us[i])
    BY DEF R
  <2> QED
    BY <1>6, <2>1, Zenon
<1>8. O!Replayed(b, us) = U[N]
  BY DEF O!Replayed
<1>9. \A i \in 0 .. N : U[i] \in Good
  <2> HIDE DEF U, h, R
  <2> DEFINE Bad == {i \in 0 .. N : U[i] \notin Good}
  <2> SUFFICES ASSUME Bad # {} PROVE FALSE
    OBVIOUS
  <2>1. PICK i \in Bad : \A j \in Bad : i <= j
    <3>1. Bad \in SUBSET Nat
      OBVIOUS
    <3> HIDE DEF Bad
    <3> QED
      BY <3>1, LeastOf
  <2>2. CASE i = 0
    BY <1>1, <1>7, <2>1, <2>2
  <2>3. CASE i # 0
    <3>1. i \in 1 .. N /\ i - 1 \in 0 .. N /\ i - 1 \notin Bad
      BY <2>1, <2>3
    <3> HIDE DEF Good, base
    <3>2. U[i - 1] \in Good
      BY <3>1
    <3>3. U[i] = O!Replay(U[i - 1], us[i])
      <4>1. i \in 0 .. N
        BY <1>2, <3>1
      <4> QED
        BY <1>7, <2>3, <4>1
    <3>4. O!Replay(U[i - 1], us[i]) \in Good
      BY <3>1, <3>2, ReplayAgrees DEF Good
    <3> QED
      BY <2>1, <3>3, <3>4
  <2> QED
    BY <2>2, <2>3
<1> HIDE DEF U
<1>10. U[N] \in Good
  BY <1>2, <1>9
<1> QED
  BY <1>8, <1>10

\* Another message of the server changes nothing of that.
LEMMA StillTells ==
    ASSUME NEW p \in Seq(Held), NEW os \in Held
    PROVE  /\ \A u : Tells(u, p) => Tells(u, Append(p, os))
           /\ \A b : \A from \in Nat \ {0} : Agrees(b, p, from) => Agrees(b, Append(p, os), from)
<1>1. /\ Append(p, os) \in Seq(Held) /\ Len(Append(p, os)) = Len(p) + 1
      /\ \A i \in 1 .. Len(p) : Append(p, os)[i] = p[i]
  OBVIOUS
<1>2. ASSUME NEW u, Tells(u, p) PROVE Tells(u, Append(p, os))
  <2>1. u.seq \in 1 .. Len(p) /\ u.seq - 1 \in 1 .. Len(p) /\ u.seq \in 2 .. Len(p) + 1
    BY <1>2 DEF Tells
  <2> QED
    BY <1>1, <1>2, <2>1 DEF Tells
<1>3. ASSUME NEW b, NEW from \in Nat \ {0}, Agrees(b, p, from) PROVE Agrees(b, Append(p, os), from)
  <2>1. b.seq \in 1 .. Len(p) /\ b.seq \in from .. Len(p) + 1
    BY <1>3 DEF Agrees
  <2> QED
    BY <1>1, <1>3, <2>1 DEF Agrees
<1> QED
  BY <1>2, <1>3

\* A message that the server sends is told by its books.
LEMMA SentTells ==
    ASSUME NEW p \in Seq(Held), p # <<>>, NEW u \in Message, u.seq = Len(p) + 1,
           O!Applied(p[Len(p)], u) \in Held, Fits(p[Len(p)], u)
    PROVE  Tells(u, Append(p, O!Applied(p[Len(p)], u)))
<1>1. Len(p) \in Nat /\ Len(p) >= 1
  BY EmptySeq
<1> DEFINE q == Append(p, O!Applied(p[Len(p)], u))
<1>2. /\ Len(q) = Len(p) + 1 /\ q[Len(p) + 1] = O!Applied(p[Len(p)], u)
      /\ q[Len(p)] = p[Len(p)]
  BY <1>1
<1> HIDE DEF q
<1>3. q[u.seq - 1] = p[Len(p)] /\ u.seq \in 2 .. Len(q) /\ q[u.seq] = O!Applied(p[Len(p)], u)
  BY <1>1, <1>2
<1>4. Tells(u, q)
  BY <1>3 DEF Tells
<1> QED
  BY <1>4 DEF q

\* What is known when a message has come or not, and of the books that it came to.
LEMMA GotIs ==
    ASSUME OrdersTypes
    PROVE  /\ O!Got \in 1 .. Len(past) /\ Len(past) = O!Got + Len(stream)
           /\ past[O!Got] \in Held /\ past \in Seq(Held) /\ Len(stream) \in Nat
           /\ O!NoOrders \in Held
<1>1. Len(past) \in Nat /\ Len(stream) \in Nat /\ Len(stream) < Len(past)
  BY DEF OrdersTypes
<1>2. O!Got \in 1 .. Len(past) /\ Len(past) = O!Got + Len(stream)
  BY <1>1 DEF O!Got, O!LastSeq
<1>3. past[O!Got] \in Held /\ past \in Seq(Held)
  BY <1>1, <1>2 DEF OrdersTypes
<1> QED
  BY <1>1, <1>2, <1>3 DEF O!NoOrders, Held

\* An order that no message from i to k touches is what it was.
LEMMA Unchanged ==
    ASSUME OrdersInv, NEW side \in O!Side, NEW o \in Order, Untouched(side, o),
           snap \in O!Got .. Len(past)
    PROVE  past[snap][side][o] = past[O!Got][side][o]
<1>0. OrdersTypes /\ Streamed
  BY DEF OrdersInv
<1>1. O!Got \in 1 .. Len(past) /\ Len(past) = O!Got + Len(stream) /\ Len(stream) \in Nat
      /\ past \in Seq(Held)
  BY <1>0, GotIs
<1> DEFINE Bad == {k \in O!Got .. snap : past[k][side][o] # past[O!Got][side][o]}
<1> SUFFICES ASSUME Bad # {} PROVE FALSE
  BY <1>1
<1>2. PICK k \in Bad : \A j \in Bad : k <= j
  <2>1. Bad \in SUBSET Nat
    BY <1>1
  <2> HIDE DEF Bad
  <2> QED
    BY <2>1, LeastOf
<1>3. k - 1 \in O!Got .. snap /\ k - 1 \notin Bad
  BY <1>1, <1>2
<1>4. past[k - 1][side][o] = past[O!Got][side][o]
  BY <1>3
<1> DEFINE m == stream[k - O!Got]
<1>5. k - O!Got \in 1 .. Len(stream) /\ m.seq = k /\ ~(m.seq > snap)
  BY <1>0, <1>1, <1>2, <1>3 DEF Streamed
<1>6. Tells(m, past) /\ ~Concerns(m, side, o)
  BY <1>0, <1>5 DEF Streamed, Untouched, Starts, Begin, Concerns
<1> HIDE DEF m
<1>7. past[k - 1] \in Held /\ m \in Message /\ past[k] = O!Applied(past[k - 1], m)
  BY <1>1, <1>3, <1>5, <1>6 DEF Tells
<1>8. \A x : [past[k - 1] EXCEPT ![m.side][m.order] = x][side][o] = past[k - 1][side][o]
  BY <1>6, <1>7 DEF Concerns, Held
<1>9. past[k][side][o] = past[k - 1][side][o]
  BY <1>7, <1>8 DEF O!Applied
<1> QED
  BY <1>2, <1>4, <1>9

\* LedgerX and ErisX set what the server set, in what they have.
LEMMA OthersApply ==
    ASSUME OrdersTypes, NEW u \in Message, u.type \in O!Types, kind # "kucoin"
    PROVE  LET amount == IF u.type = "done" THEN 0 ELSE u.size
               base == IF kind = "ledgerx" /\ O!Resets(book) THEN O!NoOrders ELSE book.orders
           IN  /\ O!Update(u) \in Book
               /\ \A os \in Held : O!Applied(os, u) = [os EXCEPT ![u.side][u.order] = amount]
               /\ kind = "ledgerx" \/ ~O!Spoils(u) =>
                     O!Update(u).orders = [base EXCEPT ![u.side][u.order] = amount]
<1> DEFINE amount == IF u.type = "done" THEN 0 ELSE u.size
           base == IF O!Resets(book) THEN O!NoOrders ELSE book.orders
<1>1. /\ book \in Book /\ book.orders \in Held /\ O!NoOrders \in Held /\ runId \in Nat
      /\ u.side \in O!Side /\ u.order \in Order /\ amount \in Nat
  BY BooksAssumption DEF OrdersTypes, Book, Message, BooksAssumption, O!NoOrders, Held
<1>2. \A os \in Held : O!Applied(os, u) = [os EXCEPT ![u.side][u.order] = amount]
  BY DEF O!Applied, O!Types, OrdersTypes
<1>3. \A os \in Held : \A side \in O!Side : [os EXCEPT ![side][u.order] = amount] \in Held
  BY <1>1 DEF Held
<1>4. CASE kind = "ledgerx"
  <2>1. base \in Held
    BY <1>1
  <2>2. [base EXCEPT ![u.side][u.order] = amount] \in Held
    BY <1>1, <1>3, <2>1
  <2>3. /\ O!LedgerxUpdated(book, u).orders = [base EXCEPT ![u.side][u.order] = amount]
        /\ O!LedgerxUpdated(book, u) \in Book
    BY <1>1, <2>2 DEF O!LedgerxUpdated, Book
  <2> HIDE DEF base, amount
  <2>4. O!Update(u) = O!LedgerxUpdated(book, u)
    BY <1>4 DEF O!Update
  <2> QED
    BY <1>2, <2>3, <2>4, <1>4 DEF base, amount
<1>5. CASE kind = "erisx"
  <2>1. "bids" \in O!Side
    BY DEF O!Side
  <2>2. [book.orders EXCEPT !["bids"][u.order] = amount] \in Held
    BY <1>1, <1>3, <2>1
  <2>3. /\ O!ErisxUpdated(book, u).orders = [book.orders EXCEPT !["bids"][u.order] = amount]
        /\ O!ErisxUpdated(book, u) \in Book
    BY <1>1, <2>2 DEF O!ErisxUpdated, Book
  <2>4. ~O!Spoils(u) => u.side = "bids"
    BY <1>1, <1>5 DEF O!Spoils, O!Side
  <2>5. O!Update(u) = O!ErisxUpdated(book, u)
    BY <1>5 DEF O!Update
  <2> HIDE DEF amount
  <2> QED
    BY <1>2, <1>5, <2>3, <2>4, <2>5 DEF amount
<1> QED
  BY <1>4, <1>5 DEF OrdersTypes

\* The server sends m and has the orders os: what the client has is what it was.
LEMMA SentStep ==
    ASSUME OrdersInv, NEW os \in Held, NEW m \in Message \cup Begin,
           past' = Append(past, os), stream' = Append(stream, m),
           m.seq = Len(past) + 1,
           run' \in 1 .. Len(past) + 1, kind # "ledgerx" => run' = 1,
           run' # run => run = 1 /\ run' = Len(past) + 1,
           run' > 1 => past'[run'] = O!NoOrders,
           (Tells(m, past') /\ m.type \in O!Types) \/ Starts(m, past', run'),
           UNCHANGED <<kind, runId, snap, queue, phase, book, spoiled>>
    PROVE  OrdersInv'
<1>0. OrdersTypes /\ Queued /\ Streamed /\ KucoinAgrees /\ LedgerxAgrees /\ ErisxAgrees
  BY DEF OrdersInv
<1>1. /\ O!Got \in 1 .. Len(past) /\ Len(past) = O!Got + Len(stream)
      /\ past \in Seq(Held) /\ Len(stream) \in Nat /\ stream \in Seq(Message \cup Begin)
  BY <1>0, GotIs DEF OrdersTypes
<1>2. /\ past' \in Seq(Held) /\ past' # <<>> /\ Len(past') = Len(past) + 1
      /\ \A i \in 1 .. Len(past) : past'[i] = past[i]
  <2>1. /\ Append(past, os) \in Seq(Held) /\ Len(Append(past, os)) = Len(past) + 1
        /\ \A i \in 1 .. Len(past) : Append(past, os)[i] = past[i]
    BY <1>1
  <2>2. Append(past, os) # <<>>
    BY <1>1, <2>1, EmptySeq
  <2> QED
    BY <2>1, <2>2
<1>3. /\ stream' \in Seq(Message \cup Begin) /\ Len(stream') = Len(stream) + 1
      /\ \A i \in 1 .. Len(stream) : stream'[i] = stream[i]
      /\ stream'[Len(stream) + 1] = m
  BY <1>1
<1>4. O!Got' = O!Got /\ past'[O!Got] = past[O!Got]
  BY <1>1, <1>2, <1>3 DEF O!Got, O!LastSeq
<1>5. /\ \A v : Tells(v, past) => Tells(v, past')
      /\ \A b : \A from \in Nat \ {0} : Agrees(b, past, from) => Agrees(b, past', from)
  BY <1>1, StillTells
<1>6. OrdersTypes'
  BY <1>0, <1>1, <1>2, <1>3 DEF OrdersTypes
<1>7. Queued'
  BY <1>0, <1>5 DEF Queued
<1>8. Streamed'
  <2> SUFFICES ASSUME NEW i \in 1 .. Len(stream) + 1
               PROVE  /\ stream'[i].seq = O!Got + i
                      /\ \/ Tells(stream'[i], past') /\ stream'[i].type \in O!Types
                         \/ Starts(stream'[i], past', run')
    BY <1>3, <1>4 DEF Streamed, O!Types
  <2>1. CASE i = Len(stream) + 1
    <3>1. stream'[i] = m
      BY <1>3, <2>1
    <3>2. m.seq = O!Got + i
      BY <1>1, <2>1
    <3> QED
      BY <3>1, <3>2
  <2>2. CASE i # Len(stream) + 1
    <3>1. i \in 1 .. Len(stream) /\ stream'[i] = stream[i] /\ stream[i].seq = O!Got + i
      BY <1>0, <1>1, <1>3, <2>2 DEF Streamed
    <3>2. CASE Tells(stream[i], past) /\ stream[i].type \in O!Types
      BY <1>5, <3>1, <3>2
    <3>3. CASE Starts(stream[i], past, run)
      <4>1. run' = run
        BY <3>3 DEF Starts
      <4> QED
        BY <3>1, <3>3, <4>1 DEF Starts
    <3> QED
      BY <1>0, <3>1, <3>2, <3>3 DEF Streamed
  <2> QED
    BY <2>1, <2>2
<1>9. KucoinAgrees'
  BY <1>0, <1>5 DEF KucoinAgrees, OrdersTypes
<1>10. LedgerxAgrees'
  <2>1. O!Restarted => O!Restarted'
    <3>1. ASSUME run > 1 PROVE run' = run
      BY <3>1
    <3> QED
      BY <1>4, <3>1 DEF O!Restarted
  <2>2. \A side, o : Untouched(side, o)' => Untouched(side, o)
    BY <1>1, <1>3 DEF Untouched
  <2> QED
    BY <1>0, <1>4, <2>1, <2>2 DEF LedgerxAgrees
<1>11. ErisxAgrees'
  BY <1>0, <1>4 DEF ErisxAgrees
<1> QED
  BY <1>6, <1>7, <1>8, <1>9, <1>10, <1>11, Zenon DEF OrdersInv

LEMMA SendStep ==
    ASSUME OrdersInv, NEW u \in Message, u.type \in O!Types, u.seq = O!LastSeq + 1, O!Send(u)
    PROVE  OrdersInv'
<1>1. OrdersTypes /\ O!Server = past[Len(past)] /\ O!Server \in Held
      /\ past \in Seq(Held) /\ past # <<>> /\ Len(past) \in Nat /\ Len(past) >= 1
  <2>1. OrdersTypes
    BY DEF OrdersInv
  <2> QED
    BY <2>1, EmptySeq DEF OrdersTypes, O!Server, O!LastSeq
<1> DEFINE os == O!Applied(O!Server, u)
<1>2. os \in Held
  BY <1>1, BooksAssumption, AppliedType
<1>3. Fits(O!Server, u)
  BY DEF O!Send, O!Sendable, Fits
<1>4. Tells(u, Append(past, os))
  BY <1>1, <1>2, <1>3, SentTells DEF O!LastSeq
<1>5. /\ past' = Append(past, os) /\ stream' = Append(stream, u)
      /\ UNCHANGED <<kind, run, runId, snap, queue, phase, book, spoiled>>
  BY DEF O!Send
<1> HIDE DEF os
<1>6. run \in 1 .. Len(past) + 1 /\ (kind # "ledgerx" => run = 1) /\ u.seq = Len(past) + 1
      /\ (run > 1 => past'[run] = O!NoOrders)
  BY <1>1, <1>2, <1>5 DEF OrdersTypes, OrdersInv, O!LastSeq
<1> QED
  BY <1>2, <1>4, <1>5, <1>6, SentStep

LEMMA RestartStep == ASSUME OrdersInv, O!Restart PROVE OrdersInv'
<1>1. OrdersTypes /\ past \in Seq(Held) /\ Len(past) \in Nat /\ Len(past) >= 1
      /\ O!NoOrders \in Held
  <2>1. OrdersTypes
    BY DEF OrdersInv
  <2> QED
    BY <2>1, GotIs
<1> DEFINE m == [type |-> "restart", seq |-> Len(past) + 1]
<1>2. /\ past' = Append(past, O!NoOrders) /\ stream' = Append(stream, m)
      /\ kind = "ledgerx" /\ run = 1 /\ run' = Len(past) + 1
      /\ UNCHANGED <<kind, runId, snap, queue, phase, book, spoiled>>
  BY DEF O!Restart, O!LastSeq
<1>3. m \in Begin /\ m.seq = Len(past) + 1
  BY <1>1 DEF Begin
<1>4. past'[run'] = O!NoOrders /\ run' \in 1 .. Len(past) + 1 /\ run' > 1
  BY <1>1, <1>2
<1> HIDE DEF m
<1>5. Starts(m, past', run')
  BY <1>2, <1>3, <1>4 DEF Starts
<1> QED
  BY <1>1, <1>2, <1>3, <1>4, <1>5, SentStep

\* A message comes.
LEMMA ReceiveStep ==
    ASSUME OrdersInv, NEW lost \in BOOLEAN, O!Receive(lost)
    PROVE  OrdersInv'
<1>0. OrdersTypes /\ Queued /\ Streamed /\ KucoinAgrees /\ LedgerxAgrees /\ ErisxAgrees
      /\ (run > 1 => past[run] = O!NoOrders)
  BY DEF OrdersInv
<1>1. /\ O!Got \in 1 .. Len(past) /\ Len(past) = O!Got + Len(stream)
      /\ past \in Seq(Held) /\ Len(stream) \in Nat /\ stream \in Seq(Message \cup Begin)
      /\ past[O!Got] \in Held /\ O!NoOrders \in Held
  BY <1>0, GotIs DEF OrdersTypes
<1> DEFINE u == stream[1]
           comes == ~lost /\ u.type # "restart"
<1>2. stream # <<>> /\ Len(stream) >= 1 /\ O!Head(stream) = u
  BY <1>1, EmptySeq DEF O!Receive
<1>3. /\ stream' = Tail(stream) /\ stream' \in Seq(Message \cup Begin)
      /\ Len(stream') = Len(stream) - 1
      /\ \A i \in 1 .. Len(stream') : stream'[i] = stream[i + 1]
  BY <1>1, <1>2 DEF O!Receive
<1>4. UNCHANGED <<kind, past, run, runId, snap>>
  BY DEF O!Receive
<1>5. O!Got' = O!Got + 1 /\ O!Got + 1 \in 1 .. Len(past) /\ past[O!Got + 1] \in Held
  BY <1>1, <1>2, <1>3, <1>4 DEF O!Got, O!LastSeq
<1>6. /\ u.seq = O!Got + 1
      /\ (Tells(u, past) /\ u.type \in O!Types) \/ Starts(u, past, run)
  BY <1>0, <1>1, <1>2 DEF Streamed
<1>7. u.type # "restart" => Tells(u, past) /\ u.type \in O!Types /\ u \in Message
  BY <1>6 DEF Starts, Begin, Tells
<1>8. Streamed'
  <2> SUFFICES ASSUME NEW i \in 1 .. Len(stream) - 1
               PROVE  /\ stream[i + 1].seq = O!Got + 1 + i
                      /\ \/ Tells(stream[i + 1], past) /\ stream[i + 1].type \in O!Types
                         \/ Starts(stream[i + 1], past, run)
    BY <1>3, <1>4, <1>5 DEF Streamed, O!Types
  <2>1. i + 1 \in 1 .. Len(stream) /\ O!Got + (i + 1) = O!Got + 1 + i
    BY <1>1
  <2> QED
    BY <1>0, <2>1 DEF Streamed
<1> DEFINE dealt == /\ phase = "built" /\ comes /\ book' = O!Update(u)
                    /\ spoiled' = (spoiled \/ O!Spoils(u)) /\ phase' = phase
                    /\ (kind = "kucoin" => book.seq + 1 = u.seq)
           left == /\ book' = book /\ spoiled' = spoiled
                   /\ phase' = phase \/ phase' = "stopped"
                   /\ phase = "built" /\ kind # "kucoin" => u.type = "restart"
<1>9. dealt \/ left
  BY <1>2, <1>4 DEF O!Receive
<1>10. queue' = queue \/ (comes /\ queue' = Append(queue, u))
  BY <1>2 DEF O!Receive
<1> HIDE DEF u
<1>11. queue' \in Seq(Message) /\ Queued'
  <2>1. CASE queue' = queue
    BY <1>0, <1>4, <2>1 DEF Queued, OrdersTypes
  <2>2. CASE comes /\ queue' = Append(queue, u)
    <3>1. u \in Message /\ Tells(u, past) /\ queue \in Seq(Message)
      BY <1>0, <1>7, <2>2 DEF OrdersTypes
    <3>2. /\ queue' \in Seq(Message) /\ Len(queue') = Len(queue) + 1
          /\ \A i \in 1 .. Len(queue') : queue'[i] = IF i <= Len(queue) THEN queue[i] ELSE u
      BY <2>2, <3>1
    <3>3. \A i \in 1 .. Len(queue') : Tells(queue'[i], past')
      BY <1>0, <1>4, <3>1, <3>2 DEF Queued
    <3> QED
      BY <3>2, <3>3 DEF Queued
  <2> QED
    BY <1>10, <2>1, <2>2
<1> DEFINE amount == IF u.type = "done" THEN 0 ELSE u.size
           base == IF kind = "ledgerx" /\ O!Resets(book) THEN O!NoOrders ELSE book.orders
<1>12. ASSUME dealt, kind # "kucoin"
       PROVE  /\ book' \in Book /\ u \in Message
              /\ past[O!Got + 1] = [past[O!Got] EXCEPT ![u.side][u.order] = amount]
              /\ kind = "ledgerx" \/ ~O!Spoils(u) =>
                    book'.orders = [base EXCEPT ![u.side][u.order] = amount]
  <2>1. Tells(u, past) /\ u.type \in O!Types /\ u \in Message /\ book' = O!Update(u)
    BY <1>7, <1>12
  <2>2. u.seq - 1 = O!Got /\ past[O!Got + 1] = O!Applied(past[O!Got], u)
    BY <1>1, <1>6, <2>1 DEF Tells
  <2> QED
    BY <1>0, <1>1, <1>12, <2>1, <2>2, OthersApply, Zenon
<1>13. ASSUME dealt, kind = "kucoin"
       PROVE  book' \in Book /\ KucoinAgrees'
  <2>1. snap # 0 /\ Agrees(book, past, snap) /\ snap \in 1 .. Len(past)
    BY <1>0, <1>1, <1>13 DEF KucoinAgrees, OrdersTypes
  <2>2. Tells(u, past) /\ u.seq = book.seq + 1 /\ book' = O!KucoinUpdated(book, u)
    BY <1>7, <1>13 DEF O!Update
  <2>3. Agrees(book', past, snap)
    BY <1>1, <2>1, <2>2, BooksAssumption, UpdateAgrees
  <2> QED
    BY <1>4, <2>1, <2>3 DEF KucoinAgrees, Agrees
<1>14. book' \in Book
  BY <1>0, <1>9, <1>12, <1>13 DEF OrdersTypes
<1>15. OrdersTypes'
  BY <1>0, <1>1, <1>3, <1>4, <1>11, <1>14 DEF OrdersTypes
<1>16. KucoinAgrees'
  <2>1. CASE left
    BY <1>0, <1>4, <2>1 DEF KucoinAgrees
  <2>2. CASE dealt
    BY <1>4, <1>13, <2>2 DEF KucoinAgrees
  <2> QED
    BY <1>9, <2>1, <2>2
<1>17. ErisxAgrees'
  <2> SUFFICES ASSUME phase' = "built", kind = "erisx", ~spoiled'
               PROVE  book'.orders = past[O!Got + 1]
    BY <1>4, <1>5 DEF ErisxAgrees
  <2>1. u.type # "restart"
    BY <1>0, <1>6 DEF OrdersTypes, Starts, Tells, Message, OrderTypes
  <2>2. dealt
    BY <1>9, <2>1
  <2>3. book.orders = past[O!Got] /\ ~O!Spoils(u)
    BY <1>0, <2>2 DEF ErisxAgrees
  <2>4. base = past[O!Got]
    BY <2>3
  <2> HIDE DEF base, amount
  <2> QED
    BY <1>12, <2>2, <2>3, <2>4
<1>18. LedgerxAgrees'
  <2> SUFFICES ASSUME phase' = "built", kind = "ledgerx"
               PROVE  /\ snap # 0
                      /\ spoiled' \/ O!Restarted' \/ \A side \in O!Side, o \in Order :
                            Untouched(side, o)' => book'.orders[side][o] = past[O!Got + 1][side][o]
    BY <1>4, <1>5 DEF LedgerxAgrees
  <2>1. snap # 0 /\ phase = "built"
    BY <1>0, <1>9 DEF LedgerxAgrees
  <2>2. CASE u.type = "restart"
    <3>1. O!Got + 1 = run /\ run > 1
      BY <1>6, <2>2 DEF Starts, Tells, Message, OrderTypes
    <3> QED
      BY <1>4, <1>5, <2>1, <3>1 DEF O!Restarted
  <2>3. CASE u.type # "restart"
    <3>1. dealt /\ base \in Held
      BY <1>0, <1>1, <1>9, <2>1, <2>3 DEF OrdersTypes, Book
    <3>2. /\ u \in Message
          /\ past[O!Got + 1] = [past[O!Got] EXCEPT ![u.side][u.order] = amount]
          /\ book'.orders = [base EXCEPT ![u.side][u.order] = amount]
      BY <1>12, <3>1
    <3> SUFFICES ASSUME ~spoiled', NEW side \in O!Side, NEW o \in Order, Untouched(side, o)'
                 PROVE  book'.orders[side][o] = past[O!Got + 1][side][o]
      BY <2>1
    <3>3. ~spoiled /\ ~O!Spoils(u)
      BY <3>1
    <3>4. base[side][o] = past[O!Got][side][o] \/ (u.side = side /\ u.order = o)
      <4>1. CASE O!Resets(book)
        BY <3>3, <4>1 DEF O!Spoils
      <4>2. CASE ~O!Resets(book) /\ O!Restarted
        <5>1. past[O!Got] = O!NoOrders
          BY <1>0, <4>2 DEF O!Restarted
        <5> QED
          BY <3>3, <4>2, <5>1 DEF O!Spoils
      <4>3. CASE ~O!Resets(book) /\ ~O!Restarted
        <5> SUFFICES ASSUME ~(u.side = side /\ u.order = o) PROVE Untouched(side, o)
          BY <1>0, <2>1, <3>3, <4>3 DEF LedgerxAgrees
        <5> SUFFICES ASSUME NEW i \in 1 .. Len(stream), Concerns(stream[i], side, o)
                     PROVE  stream[i].seq > snap
          BY DEF Untouched
        <5>1. i # 1
          BY <2>3 DEF Concerns, u
        <5>2. i - 1 \in 1 .. Len(stream') /\ stream'[i - 1] = stream[i]
          BY <1>1, <1>3, <5>1
        <5> QED
          BY <1>4, <5>2 DEF Untouched
      <4> QED
        BY <4>1, <4>2, <4>3
    <3> HIDE DEF base, amount
    <3>5. u.side \in O!Side /\ u.order \in Order
      BY <3>2 DEF Message
    <3>6. \A os \in Held : [os EXCEPT ![u.side][u.order] = amount][side][o]
                             = IF u.side = side /\ u.order = o THEN amount ELSE os[side][o]
      BY <3>5 DEF Held
    <3> QED
      BY <1>1, <3>1, <3>2, <3>4, <3>6
  <2> QED
    BY <2>2, <2>3
<1> QED
  BY <1>0, <1>4, <1>8, <1>11, <1>15, <1>16, <1>17, <1>18, Zenon DEF OrdersInv

\* The constructor makes the server's book out of the snapshot and what was queued.
LEMMA BuildStep == ASSUME OrdersInv, O!Build PROVE OrdersInv'
<1>0. OrdersTypes /\ Queued /\ Streamed
  BY DEF OrdersInv
<1> DEFINE b == [seq |-> snap, runId |-> 0, orders |-> past[snap]]
           made == O!Replayed(b, queue)
<1>1. kind = "kucoin" /\ snap \in 1 .. Len(past) /\ past \in Seq(Held) /\ queue \in Seq(Message)
  BY <1>0 DEF OrdersTypes, O!Build
<1>2. Agrees(b, past, snap)
  <2>1. past[snap] \in Held /\ snap \in Nat /\ snap \in snap .. Len(past)
    BY <1>1
  <2> QED
    BY <2>1 DEF Agrees, Book
<1>3. \A i \in 1 .. Len(queue) : Tells(queue[i], past)
  BY <1>0 DEF Queued
<1>4. made \in Acc /\ Agrees(made.book, past, snap)
  <2> HIDE DEF b
  <2> QED
    BY <1>1, <1>2, <1>3, BooksAssumption, ReplayedAgrees
<1>5. book' = made.book /\ queue' = <<>>
      /\ UNCHANGED <<kind, past, stream, run, runId, snap, spoiled>>
  BY DEF O!Build
<1> HIDE DEF made
<1>6. book' \in Book /\ Agrees(book', past, snap)
  BY <1>4, <1>5 DEF Agrees
<1>7. OrdersTypes' /\ Queued'
  BY <1>0, <1>5, <1>6 DEF OrdersTypes, Queued
<1>8. KucoinAgrees'
  BY <1>1, <1>5, <1>6 DEF KucoinAgrees
<1>9. Streamed' /\ (run > 1 => past[run] = O!NoOrders)'
  BY <1>0, <1>5 DEF OrdersInv, Streamed, O!Got, O!LastSeq, O!Types
<1> QED
  BY <1>1, <1>5, <1>7, <1>8, <1>9, Zenon DEF OrdersInv, LedgerxAgrees, ErisxAgrees

\* LedgerX's answer is the book of a time that the stream has passed, or is still to reach.
LEMMA BuildFromAnswerStep == ASSUME OrdersInv, O!BuildFromAnswer PROVE OrdersInv'
<1>0. OrdersTypes /\ Queued /\ Streamed
  BY DEF OrdersInv
<1>1. /\ O!Got \in 1 .. Len(past) /\ past \in Seq(Held) /\ snap \in 1 .. Len(past)
  BY <1>0, GotIs DEF OrdersTypes, O!BuildFromAnswer
<1>2. /\ book' = [seq |-> snap, runId |-> 0, orders |-> past[snap]]
      /\ spoiled' = (O!Got > snap) /\ kind = "ledgerx"
      /\ UNCHANGED <<kind, past, stream, run, runId, snap, queue>>
  BY DEF O!BuildFromAnswer
<1>3. book' \in Book /\ book'.orders = past[snap]
  BY <1>1, <1>2 DEF Book
<1>4. OrdersTypes' /\ Queued' /\ Streamed' /\ (run > 1 => past[run] = O!NoOrders)' /\ O!Got' = O!Got
  BY <1>0, <1>2, <1>3 DEF OrdersInv, OrdersTypes, Queued, Streamed, O!Got, O!LastSeq, O!Types
<1>5. LedgerxAgrees'
  <2>1. ASSUME ~spoiled', NEW side \in O!Side, NEW o \in Order, Untouched(side, o)
        PROVE  book'.orders[side][o] = past[O!Got][side][o]
    <3>0. ~(O!Got > snap)
      BY <1>2, <2>1, Zenon
    <3>1. snap \in O!Got .. Len(past)
      BY <1>1, <3>0
    <3>2. past[snap][side][o] = past[O!Got][side][o]
      BY <2>1, <3>1, Unchanged
    <3> QED
      BY <1>3, <3>2
  <2> QED
    BY <1>1, <1>2, <1>4, <2>1 DEF LedgerxAgrees, Untouched
<1> QED
  BY <1>2, <1>4, <1>5, Zenon DEF OrdersInv, KucoinAgrees, ErisxAgrees

LEMMA OrdersStep == OrdersInv /\ (O!Next \/ UNCHANGED O!vars) => OrdersInv'
<1> SUFFICES ASSUME OrdersInv, O!Next \/ UNCHANGED O!vars PROVE OrdersInv'
  OBVIOUS
<1>0. /\ OrdersTypes /\ Queued /\ Streamed /\ KucoinAgrees /\ LedgerxAgrees /\ ErisxAgrees
      /\ run > 1 => past[run] = O!NoOrders
  BY DEF OrdersInv
<1>1. O!Got \in 1 .. Len(past) /\ past[O!Got] \in Held /\ O!LastSeq \in Nat /\ O!LastSeq = Len(past)
  BY <1>0, GotIs DEF O!LastSeq
<1>2. ASSUME NEW type \in O!Types, NEW side \in O!Side, NEW o \in Order, NEW size \in Size \ {0},
             O!Send([type |-> type, side |-> side, order |-> o, size |-> size,
                     seq |-> O!LastSeq + 1])
      PROVE  OrdersInv'
  <2> DEFINE u == [type |-> type, side |-> side, order |-> o, size |-> size,
                   seq |-> O!LastSeq + 1]
  <2>1. type \in OrderTypes
    BY DEF O!Types, OrderTypes
  <2>2. u \in Message /\ u.type \in O!Types /\ u.seq = O!LastSeq + 1
    BY <1>0, <1>1, <2>1 DEF Message, OrdersTypes
  <2>3. O!Send(u)
    BY <1>2
  <2> HIDE DEF u
  <2> QED
    BY <2>2, <2>3, SendStep
<1>3. CASE O!TakeSnapshot
  <2>1. /\ snap' = Len(past) /\ snap = 0 /\ kind \in {"kucoin", "ledgerx"}
        /\ UNCHANGED <<kind, past, stream, run, runId, queue, phase, book, spoiled>>
    BY <1>3 DEF O!TakeSnapshot, O!LastSeq
  <2>2. OrdersTypes' /\ Queued' /\ Streamed' /\ (run > 1 => past[run] = O!NoOrders)'
    BY <1>0, <1>1, <2>1 DEF OrdersTypes, Queued, Streamed, O!Got, O!LastSeq, O!Types
  <2>3. KucoinAgrees' /\ LedgerxAgrees' /\ ErisxAgrees'
    BY <1>0, <2>1 DEF KucoinAgrees, LedgerxAgrees, ErisxAgrees
  <2> QED
    BY <2>2, <2>3, Zenon DEF OrdersInv
<1>4. CASE O!Build
  BY <1>4, BuildStep
<1>5. CASE O!BuildFromStream
  <2>1. /\ book' = [seq |-> O!Got, runId |-> 0, orders |-> past[O!Got]] /\ kind = "erisx"
        /\ UNCHANGED <<kind, past, stream, run, runId, snap, queue, spoiled>>
    BY <1>5 DEF O!BuildFromStream
  <2>2. book' \in Book /\ book'.orders = past[O!Got]
    BY <1>1, <2>1 DEF Book
  <2>3. /\ OrdersTypes' /\ Queued' /\ Streamed' /\ (run > 1 => past[run] = O!NoOrders)'
        /\ O!Got' = O!Got
    BY <1>0, <2>1, <2>2 DEF OrdersTypes, Queued, Streamed, O!Got, O!LastSeq, O!Types
  <2> QED
    BY <2>1, <2>2, <2>3, Zenon DEF OrdersInv, KucoinAgrees, LedgerxAgrees, ErisxAgrees
<1>6. CASE O!Restart
  BY <1>6, RestartStep
<1>7. CASE O!Heartbeat
  <2>1. runId' \in Nat /\ UNCHANGED <<kind, past, stream, run, snap, queue, phase, book, spoiled>>
    BY <1>0, <1>7 DEF O!Heartbeat, OrdersTypes
  <2>2. OrdersTypes' /\ Queued' /\ Streamed' /\ (run > 1 => past[run] = O!NoOrders)'
    BY <1>0, <2>1 DEF OrdersTypes, Queued, Streamed, O!Got, O!LastSeq, O!Types
  <2>3. KucoinAgrees' /\ LedgerxAgrees' /\ ErisxAgrees'
    BY <1>0, <2>1 DEF KucoinAgrees, LedgerxAgrees, ErisxAgrees, O!Restarted, Untouched,
                      O!Got, O!LastSeq
  <2> QED
    BY <2>2, <2>3, Zenon DEF OrdersInv
<1>8. CASE UNCHANGED O!vars
  <2>1. UNCHANGED <<kind, past, stream, run, runId, snap, queue, phase, book, spoiled>>
    BY <1>8 DEF O!vars
  <2>2. OrdersTypes' /\ Queued' /\ Streamed' /\ (run > 1 => past[run] = O!NoOrders)'
    BY <1>0, <2>1 DEF OrdersTypes, Queued, Streamed, O!Got, O!LastSeq, O!Types
  <2>3. KucoinAgrees' /\ LedgerxAgrees' /\ ErisxAgrees'
    BY <1>0, <2>1 DEF KucoinAgrees, LedgerxAgrees, ErisxAgrees, O!Restarted, Untouched,
                      O!Got, O!LastSeq
  <2> QED
    BY <2>2, <2>3, Zenon DEF OrdersInv
<1>9. ASSUME NEW lost \in BOOLEAN, O!Receive(lost) PROVE OrdersInv'
  BY <1>9, ReceiveStep
<1>10. CASE O!BuildFromAnswer
  BY <1>10, BuildFromAnswerStep
<1> QED
  BY <1>2, <1>3, <1>4, <1>5, <1>6, <1>7, <1>8, <1>9, <1>10 DEF O!Next

LEMMA OrdersStart == O!Init => OrdersInv
<1> SUFFICES ASSUME O!Init PROVE OrdersInv
  OBVIOUS
<1>1. O!NoOrders \in Held
  BY DEF O!NoOrders, Held
<1>2. past \in Seq(Held) /\ past # <<>> /\ Len(past) = 1
  BY <1>1 DEF O!Init
<1>3. book \in Book /\ stream = <<>> /\ queue = <<>>
  BY <1>1 DEF O!Init, Book
<1>4. OrdersTypes
  BY <1>2, <1>3 DEF O!Init, OrdersTypes
<1> QED
  BY <1>3, <1>4 DEF O!Init, OrdersInv, Queued, Streamed, KucoinAgrees, LedgerxAgrees, ErisxAgrees

\* A level 3 book of KuCoin's that is built is the server's at its sequence number, whenever
\* the snapshot was taken and came, whichever updates were lost and whatever orders there are
\* (KucoinOrderBook.js:52-156).  One of LedgerX's is the server's as soon as the updates have
\* come that its snapshot knows of, if it is not older than the last one that had come
\* (ledgerx-client.js:119-147); one of ErisX's is.  All this but for what spoils them.
THEOREM BooksAgree == Spec => []BookAgrees
<1>1. Init => OrdersInv
  BY OrdersStart DEF Init
<1>2. OrdersInv /\ [Next]_vars => OrdersInv'
  <2>1. [Next]_vars => O!Next \/ UNCHANGED O!vars
    BY DEF Next, NextLadder, NextOrders, vars, orders, O!vars
  <2> QED
    BY <2>1, OrdersStep
<1>3. OrdersInv => BookAgrees
  <2> SUFFICES ASSUME OrdersInv PROVE O!BookAgrees
    BY DEF BookAgrees
  <2>1. CASE kind = "kucoin"
    BY <2>1 DEF OrdersInv, KucoinAgrees, OrdersTypes, Agrees, O!BookAgrees
  <2>2. CASE kind = "erisx"
    BY <2>2 DEF OrdersInv, ErisxAgrees, O!BookAgrees
  <2>3. CASE kind = "ledgerx"
    <3> SUFFICES ASSUME phase = "built", ~spoiled, ~O!Restarted, O!Got >= snap
                 PROVE  book.orders = past[O!Got]
      BY <2>3 DEF O!BookAgrees
    <3>0. OrdersTypes /\ Streamed /\ LedgerxAgrees
      BY DEF OrdersInv
    <3>1. O!Got \in 1 .. Len(past) /\ past[O!Got] \in Held /\ book.orders \in Held /\ snap \in Nat
          /\ Len(stream) \in Nat
      BY <3>0, GotIs DEF OrdersTypes, Book
    <3>2. \A side, o : Untouched(side, o)
      BY <3>0, <3>1 DEF Untouched, Streamed
    <3>3. \A side \in O!Side, o \in Order : book.orders[side][o] = past[O!Got][side][o]
      BY <2>3, <3>0, <3>2 DEF LedgerxAgrees
    <3> QED
      BY <3>1, <3>3 DEF Held
  <2> QED
    BY <2>1, <2>2, <2>3 DEF OrdersInv, OrdersTypes
<1> QED
  BY <1>1, <1>2, <1>3, PTL DEF Spec


----------------------------------------------------------------------------
(* A side of price levels.                                                  *)

Level == [price : Price, size : Size, time : Time]

\* a comes before b, for the side that is given.
Ahead(side, x, y) == IF side THEN x < y ELSE x > y

LEMMA AheadOrders ==
    ASSUME NEW side \in BOOLEAN
    PROVE  /\ \A x, y \in Nat : x = y \/ Ahead(side, x, y) \/ Ahead(side, y, x)
           /\ \A x, y, z \in Nat : Ahead(side, x, y) /\ Ahead(side, y, z) => Ahead(side, x, z)
           /\ \A x, y \in Nat : ~(Ahead(side, x, y) /\ Ahead(side, y, x))
           /\ \A x \in Nat : ~Ahead(side, x, x)
<1>1. CASE side = TRUE
  BY <1>1 DEF Ahead
<1>2. CASE side = FALSE
  BY <1>2 DEF Ahead
<1> QED
  BY <1>1, <1>2

LEMMA BeforeIs == \A x, y : L!Before(x, y) <=> Ahead(bid, x, y)
  BY DEF L!Before, Ahead

\* Strictly in order, so that no price comes twice.
Sorted(side, a) == \A i, j \in 1 .. Len(a) : i < j => Ahead(side, a[i].price, a[j].price)

\* The first m of the levels come before the price x, and no other.
Splits(side, a, x, m) ==
    /\ m \in 0 .. Len(a)
    /\ \A i \in 1 .. m : Ahead(side, a[i].price, x)
    /\ \A i \in m + 1 .. Len(a) : ~Ahead(side, a[i].price, x)

LEMMA PricesOf ==
    ASSUME BooksAssumption, NEW a \in Seq(Level)
    PROVE  \A i \in 1 .. Len(a) : a[i] \in Level /\ a[i].price \in Nat
<1>1. \A i \in 1 .. Len(a) : a[i] \in Level
  OBVIOUS
<1>2. \A p \in Level : p.price \in Nat
  BY DEF Level, BooksAssumption
<1> QED
  BY <1>1, <1>2, Zenon

LEMMA SplitExists ==
    ASSUME BooksAssumption, NEW side \in BOOLEAN, NEW a \in Seq(Level), Sorted(side, a), NEW x \in Price
    PROVE  \E m : Splits(side, a, x, m)
<1>0. x \in Nat /\ Len(a) \in Nat /\ \A i \in 1 .. Len(a) : a[i].price \in Nat
  <2>1. x \in Nat
    BY DEF BooksAssumption
  <2> QED
    BY <2>1, PricesOf
<1> DEFINE S == {m \in 0 .. Len(a) : m = Len(a) \/ ~Ahead(side, a[m + 1].price, x)}
<1>1. Len(a) \in S /\ S \in SUBSET Nat
  BY <1>0
<1>2. PICK m \in S : \A k \in S : m <= k
  <2> HIDE DEF S
  <2> QED
    BY <1>1, LeastOf
<1>3. ASSUME NEW i \in 1 .. m PROVE Ahead(side, a[i].price, x)
  <2>1. i - 1 \in 0 .. Len(a) /\ i - 1 \notin S /\ i - 1 # Len(a) /\ i - 1 + 1 = i
    <3>1. i - 1 \in 0 .. Len(a) /\ i - 1 # Len(a) /\ i - 1 + 1 = i /\ ~(m <= i - 1)
      BY <1>0, <1>2
    <3> HIDE DEF S
    <3> QED
      BY <1>2, <3>1
  <2> QED
    BY <2>1
<1>4. ASSUME NEW i \in m + 1 .. Len(a) PROVE ~Ahead(side, a[i].price, x)
  <2>1. m + 1 \in 1 .. Len(a) /\ i \in 1 .. Len(a) /\ ~Ahead(side, a[m + 1].price, x)
    BY <1>0, <1>2
  <2>2. i = m + 1 \/ Ahead(side, a[m + 1].price, a[i].price)
    BY <2>1 DEF Sorted
  <2>3. a[i].price \in Nat /\ a[m + 1].price \in Nat
    BY <1>0, <2>1
  <2> QED
    BY <1>0, <2>1, <2>2, <2>3, AheadOrders
<1> QED
  BY <1>0, <1>2, <1>3, <1>4 DEF Splits

\* findIndexAsc and findIndexDesc: halving the array comes to the level of the price, or to
\* where it is to be inserted.
LEMMA FindsSplit ==
    ASSUME BooksAssumption, bid \in BOOLEAN, NEW a \in Seq(Level), Sorted(bid, a), NEW x \in Price,
           NEW m, Splits(bid, a, x, m)
    PROVE  L!FindIndex(a, x) = m
<1> DEFINE N == Len(a)
           Span == (0 .. N) \X (0 .. N)
           Body(f, s) ==
              LET l == s[1]
                  r == s[2]
                  mid == (l + r) \div 2
              IN
              CASE l = r                                  -> mid
                [] l < r /\ a[mid + 1].price = x          -> mid
                [] l < r /\ L!Before(x, a[mid + 1].price) -> f[<<l, mid>>]
                [] OTHER                                  -> f[<<mid + 1, r>>]
           R(f) == [s \in Span |-> Body(f, s)]
           U == CHOOSE f : f = R(f)
<1>0. N \in Nat /\ m \in 0 .. N /\ x \in Nat /\ \A i \in 1 .. N : a[i].price \in Nat
  BY PricesOf DEF BooksAssumption, Splits
<1>1. L!FindIndex(a, x) = U[<<0, N>>]
  BY DEF L!FindIndex
\* Between l and r the middle is m, or lies on one side of it.
<1>2. ASSUME NEW l \in 0 .. N, NEW r \in 0 .. N, l < r
      PROVE  LET mid == (l + r) \div 2 IN
             /\ mid \in l .. r - 1 /\ mid \in 0 .. N /\ mid + 1 \in 0 .. N
             /\ a[mid + 1].price = x => mid = m
             /\ L!Before(x, a[mid + 1].price) => m <= mid
             /\ a[mid + 1].price # x /\ ~L!Before(x, a[mid + 1].price) => m > mid
  <2> DEFINE mid == (l + r) \div 2
  <2>1. mid \in l .. r - 1 /\ mid \in 0 .. N /\ mid + 1 \in 1 .. N
    BY <1>0, <1>2
  <2> HIDE DEF mid
  <2>2. a[mid + 1].price \in Nat
    BY <1>0, <2>1
  <2>3. \A i \in 1 .. m : Ahead(bid, a[i].price, x)
    BY DEF Splits
  <2>4. \A i \in m + 1 .. N : ~Ahead(bid, a[i].price, x)
    BY DEF Splits
  <2>5. mid + 1 <= m => Ahead(bid, a[mid + 1].price, x)
    BY <1>0, <2>1, <2>3
  <2>6. mid + 1 > m => ~Ahead(bid, a[mid + 1].price, x)
    BY <1>0, <2>1, <2>4
  <2>7. a[mid + 1].price = x => mid <= m
    <3> SUFFICES ASSUME a[mid + 1].price = x, mid > m PROVE FALSE
      BY <1>0, <2>1
    <3>1. m + 1 \in 1 .. N /\ m + 1 < mid + 1
      BY <1>0, <2>1
    <3>2. Ahead(bid, a[m + 1].price, a[mid + 1].price)
      BY <1>0, <2>1, <3>1 DEF Sorted
    <3>3. ~Ahead(bid, a[m + 1].price, x)
      BY <1>0, <2>4, <3>1
    <3> QED
      BY <3>2, <3>3
  <2>8. a[mid + 1].price = x => mid + 1 > m
    BY <1>0, <2>1, <2>2, <2>5, AheadOrders
  <2>9. L!Before(x, a[mid + 1].price) => mid + 1 > m
    BY <1>0, <2>1, <2>2, <2>5, AheadOrders, BeforeIs
  <2>10. a[mid + 1].price # x /\ ~L!Before(x, a[mid + 1].price) => mid + 1 <= m
    BY <1>0, <2>1, <2>2, <2>6, AheadOrders, BeforeIs
  <2>11. /\ mid \in l .. r - 1 /\ mid \in 0 .. N /\ mid + 1 \in 0 .. N
         /\ a[mid + 1].price = x => mid = m
         /\ L!Before(x, a[mid + 1].price) => m <= mid
         /\ a[mid + 1].price # x /\ ~L!Before(x, a[mid + 1].price) => m > mid
    BY <1>0, <2>1, <2>7, <2>8, <2>9, <2>10
  <2> QED
    BY <2>11 DEF mid
\* One step of the search.
<1>3. ASSUME NEW f, NEW l \in 0 .. N, NEW r \in 0 .. N
      PROVE  LET mid == (l + r) \div 2 IN
             /\ l = r => Body(f, <<l, r>>) = l
             /\ l < r /\ m > mid => Body(f, <<l, r>>) = f[<<mid + 1, r>>]
             /\ l < r /\ m < mid => Body(f, <<l, r>>) = f[<<l, mid>>]
             /\ l < r /\ m = mid => Body(f, <<l, r>>) \in {m, f[<<l, mid>>]}
             /\ l > r => Body(f, <<l, r>>) = f[<<mid + 1, r>>]
  <2> DEFINE mid == (l + r) \div 2
  <2>1. Body(f, <<l, r>>) =
           CASE l = r                                  -> mid
             [] l < r /\ a[mid + 1].price = x          -> mid
             [] l < r /\ L!Before(x, a[mid + 1].price) -> f[<<l, mid>>]
             [] OTHER                                  -> f[<<mid + 1, r>>]
    OBVIOUS
  <2>2. mid \in Nat /\ (l = r => mid = l)
    BY <1>0
  <2>3. l < r => /\ a[mid + 1].price = x => mid = m
                 /\ L!Before(x, a[mid + 1].price) => m <= mid
                 /\ a[mid + 1].price # x /\ ~L!Before(x, a[mid + 1].price) => m > mid
    BY <1>2
  <2>4. l < r => ~(a[mid + 1].price = x /\ L!Before(x, a[mid + 1].price))
    <3>1. ~L!Before(x, x)
      BY <1>0, AheadOrders, BeforeIs
    <3> QED
      BY <3>1
  <2> HIDE DEF mid, Body
  <2>5. l = r => Body(f, <<l, r>>) = l
    BY <1>0, <2>1, <2>2
  <2>6. l > r => Body(f, <<l, r>>) = f[<<mid + 1, r>>]
    BY <1>0, <2>1
  <2>7. l < r /\ m > mid => Body(f, <<l, r>>) = f[<<mid + 1, r>>]
    BY <1>0, <2>1, <2>2, <2>3
  <2>8. l < r /\ m < mid => Body(f, <<l, r>>) = f[<<l, mid>>]
    BY <1>0, <2>1, <2>2, <2>3, <2>4
  <2>9. l < r /\ m = mid => Body(f, <<l, r>>) \in {m, f[<<l, mid>>]}
    BY <1>0, <2>1, <2>2, <2>3, <2>4
  <2>10. /\ l = r => Body(f, <<l, r>>) = l
         /\ l < r /\ m > mid => Body(f, <<l, r>>) = f[<<mid + 1, r>>]
         /\ l < r /\ m < mid => Body(f, <<l, r>>) = f[<<l, mid>>]
         /\ l < r /\ m = mid => Body(f, <<l, r>>) \in {m, f[<<l, mid>>]}
         /\ l > r => Body(f, <<l, r>>) = f[<<mid + 1, r>>]
    BY <2>5, <2>6, <2>7, <2>8, <2>9, Zenon
  <2> QED
    BY <2>10 DEF mid
<1>4. ASSUME NEW l \in 0 .. N, NEW r \in 0 .. N
      PROVE  LET mid == (l + r) \div 2 IN
             /\ l < r => mid \in l .. r - 1 /\ mid \in 0 .. N /\ mid + 1 \in 0 .. N
             /\ l > r => mid + 1 \in 0 .. N /\ mid + 1 > r
  BY <1>0
<1> HIDE DEF Body
\* What the search of each part comes to, so that there is such a function.
<1> DEFINE F == [s \in Span |-> IF s[1] > s[2] THEN 0 ELSE
                                IF m < s[1] THEN s[1] ELSE IF m > s[2] THEN s[2] ELSE m]
<1>5. F = R(F)
  <2>1. \A l, r \in 0 .. N :
           F[<<l, r>>] = IF l > r THEN 0 ELSE IF m < l THEN l ELSE IF m > r THEN r ELSE m
    OBVIOUS
  <2>2. F = [s \in Span |-> F[s]]
    OBVIOUS
  <2> HIDE DEF F
  <2>3. ASSUME NEW l \in 0 .. N, NEW r \in 0 .. N
        PROVE  F[<<l, r>>] = Body(F, <<l, r>>)
    <3> DEFINE mid == (l + r) \div 2
    <3>1. CASE l = r
      <4>1. Body(F, <<l, r>>) = l
        BY <1>3, <3>1
      <4> QED
        BY <1>0, <2>1, <3>1, <4>1
    <3>2. CASE l < r
      <4>1. mid \in l .. r - 1 /\ mid \in 0 .. N /\ mid + 1 \in 0 .. N
        BY <1>4, <3>2
      <4>2. /\ m > mid => Body(F, <<l, r>>) = F[<<mid + 1, r>>]
            /\ m < mid => Body(F, <<l, r>>) = F[<<l, mid>>]
            /\ m = mid => Body(F, <<l, r>>) \in {m, F[<<l, mid>>]}
        BY <1>3, <3>2
      <4> HIDE DEF mid
      <4> QED
        BY <1>0, <2>1, <3>2, <4>1, <4>2
    <3>3. CASE l > r
      <4>1. mid + 1 \in 0 .. N /\ mid + 1 > r
        BY <1>4, <3>3
      <4>2. Body(F, <<l, r>>) = F[<<mid + 1, r>>]
        BY <1>3, <3>3
      <4> HIDE DEF mid
      <4> QED
        BY <1>0, <2>1, <3>3, <4>1, <4>2
    <3> QED
      BY <1>0, <3>1, <3>2, <3>3
  <2>4. \A s \in Span : F[s] = Body(F, s)
    <3> SUFFICES ASSUME NEW s \in Span PROVE F[s] = Body(F, s)
      OBVIOUS
    <3>1. PICK l \in 0 .. N, r \in 0 .. N : s = <<l, r>>
      OBVIOUS
    <3>2. F[<<l, r>>] = Body(F, <<l, r>>)
      BY <2>3
    <3> QED
      BY <3>1, <3>2, Zenon
  <2> QED
    BY <2>2, <2>4, Zenon
<1>6. U = R(U)
  <2> HIDE DEF R, F
  <2> QED
    BY <1>5, Zenon
<1>7. \A l, r \in 0 .. N : U[<<l, r>>] = Body(U, <<l, r>>)
  <2>1. \A l, r \in 0 .. N : R(U)[<<l, r>>] = Body(U, <<l, r>>)
    <3> HIDE DEF U
    <3> QED
      OBVIOUS
  <2> QED
    BY <1>6, <2>1, Zenon
<1> HIDE DEF U
\* The shortest part with m in it whose search does not come to m.
<1>8. \A l, r \in 0 .. N : l <= m /\ m <= r => U[<<l, r>>] = m
  <2> DEFINE Bad == {d \in 0 .. N : \E l, r \in 0 .. N :
                        l <= m /\ m <= r /\ d = r - l /\ U[<<l, r>>] # m}
  <2>1. ASSUME Bad = {}, NEW l \in 0 .. N, NEW r \in 0 .. N, l <= m, m <= r
        PROVE  U[<<l, r>>] = m
    <3>1. r - l \in 0 .. N
      BY <1>0, <2>1
    <3> QED
      BY <2>1, <3>1
  <2>2. SUFFICES ASSUME Bad # {} PROVE FALSE
    BY <2>1
  <2>3. PICK d \in Bad : \A e \in Bad : d <= e
    <3>1. Bad \in SUBSET Nat
      BY <1>0
    <3> HIDE DEF Bad
    <3> QED
      BY <2>2, <3>1, LeastOf
  <2>4. PICK l \in 0 .. N, r \in 0 .. N : l <= m /\ m <= r /\ d = r - l /\ U[<<l, r>>] # m
    BY <2>3
  <2>5. ASSUME NEW l2 \in 0 .. N, NEW r2 \in 0 .. N, l2 <= m, m <= r2, r2 - l2 < d
        PROVE  U[<<l2, r2>>] = m
    <3>1. r2 - l2 \in 0 .. N /\ d \in 0 .. N
      BY <1>0, <2>3, <2>5
    <3>2. r2 - l2 \notin Bad
      <4> HIDE DEF Bad
      <4> QED
        BY <1>0, <2>3, <2>5, <3>1
    <3> QED
      BY <2>5, <3>1, <3>2
  <2> HIDE DEF Bad
  <2> DEFINE mid == (l + r) \div 2
  <2>6. U[<<l, r>>] = Body(U, <<l, r>>)
    BY <1>7
  <2>7. CASE l = r
    <3>1. Body(U, <<l, r>>) = l
      BY <1>3, <2>7
    <3> QED
      BY <1>0, <2>4, <2>6, <2>7, <3>1
  <2>8. CASE l < r
    <3>1. mid \in l .. r - 1 /\ mid \in 0 .. N /\ mid + 1 \in 0 .. N
      BY <1>4, <2>8
    <3>2. /\ m > mid => Body(U, <<l, r>>) = U[<<mid + 1, r>>]
          /\ m < mid => Body(U, <<l, r>>) = U[<<l, mid>>]
          /\ m = mid => Body(U, <<l, r>>) \in {m, U[<<l, mid>>]}
      BY <1>3, <2>8
    <3> HIDE DEF mid
    <3>3. ASSUME m > mid PROVE U[<<mid + 1, r>>] = m
      <4>1. mid + 1 <= m /\ r - (mid + 1) < d
        BY <1>0, <2>4, <3>1, <3>3
      <4> QED
        BY <2>4, <2>5, <3>1, <4>1
    <3>4. ASSUME m <= mid PROVE U[<<l, mid>>] = m
      <4>1. mid - l < d
        BY <1>0, <2>4, <3>1
      <4> QED
        BY <2>4, <2>5, <3>1, <3>4, <4>1
    <3> QED
      BY <1>0, <2>4, <2>6, <3>1, <3>2, <3>3, <3>4
  <2> QED
    BY <1>0, <2>4, <2>7, <2>8
<1> QED
  BY <1>0, <1>1, <1>8

----------------------------------------------------------------------------
\* What the changes of a sequence leave, element by element.
LEMMA RemovedFrom ==
    ASSUME NEW a \in Seq(Level), NEW i \in 1 .. Len(a)
    PROVE  LET b == L!RemoveAt(a, i) IN
           /\ b \in Seq(Level) /\ Len(b) = Len(a) - 1
           /\ \A j \in 1 .. Len(b) : b[j] = IF j < i THEN a[j] ELSE a[j + 1]
<1> DEFINE s == SubSeq(a, 1, i - 1)
           t == SubSeq(a, i + 1, Len(a))
<1>1. s \in Seq(Level) /\ Len(s) = i - 1 /\ \A j \in 1 .. i - 1 : s[j] = a[j]
  OBVIOUS
<1>2. t \in Seq(Level) /\ Len(t) = Len(a) - i /\ \A j \in 1 .. Len(a) - i : t[j] = a[i + j]
  OBVIOUS
<1>3. Len(a) \in Nat /\ i \in Nat /\ i >= 1 /\ i <= Len(a)
  OBVIOUS
<1> HIDE DEF s, t
<1>4. /\ s \o t \in Seq(Level) /\ Len(s \o t) = Len(a) - 1
      /\ \A j \in 1 .. Len(a) - 1 : (s \o t)[j] = IF j < i THEN s[j] ELSE t[j - (i - 1)]
  <2>1. /\ s \o t \in Seq(Level) /\ Len(s \o t) = Len(s) + Len(t)
        /\ \A j \in 1 .. Len(s) + Len(t) : (s \o t)[j] = IF j <= Len(s) THEN s[j] ELSE t[j - Len(s)]
    BY <1>1, <1>2, ConcatProperties, Zenon
  <2> QED
    BY <1>1, <1>2, <1>3, <2>1
<1>5. \A j \in 1 .. Len(a) - 1 : (s \o t)[j] = IF j < i THEN a[j] ELSE a[j + 1]
  BY <1>1, <1>2, <1>3, <1>4
<1>6. L!RemoveAt(a, i) = s \o t
  BY DEF L!RemoveAt, s, t
<1> QED
  BY <1>4, <1>5, <1>6

LEMMA InsertedInto ==
    ASSUME NEW a \in Seq(Level), NEW i \in 1 .. Len(a) + 1, NEW p \in Level
    PROVE  LET b == L!InsertAt(a, i, p) IN
           /\ b \in Seq(Level) /\ Len(b) = Len(a) + 1
           /\ \A j \in 1 .. Len(b) :
                 b[j] = IF j < i THEN a[j] ELSE IF j = i THEN p ELSE a[j - 1]
<1> DEFINE s == SubSeq(a, 1, i - 1)
           t == SubSeq(a, i, Len(a))
<1>1. s \in Seq(Level) /\ Len(s) = i - 1 /\ \A j \in 1 .. i - 1 : s[j] = a[j]
  OBVIOUS
<1>2. t \in Seq(Level) /\ Len(t) = Len(a) + 1 - i
      /\ \A j \in 1 .. Len(a) + 1 - i : t[j] = a[i + j - 1]
  OBVIOUS
<1>3. Len(a) \in Nat /\ i \in Nat /\ i >= 1 /\ i <= Len(a) + 1
  OBVIOUS
<1> HIDE DEF s, t
<1>4. /\ s \o <<p>> \in Seq(Level) /\ Len(s \o <<p>>) = i
      /\ \A j \in 1 .. i : (s \o <<p>>)[j] = IF j < i THEN s[j] ELSE p
  BY <1>1, <1>3
<1> DEFINE u == s \o <<p>>
<1> HIDE DEF u
<1>5. u \in Seq(Level) /\ Len(u) = i /\ \A j \in 1 .. i : u[j] = IF j < i THEN s[j] ELSE p
  BY <1>4 DEF u
<1>6. /\ u \o t \in Seq(Level) /\ Len(u \o t) = Len(a) + 1
      /\ \A j \in 1 .. Len(a) + 1 : (u \o t)[j] = IF j <= i THEN u[j] ELSE t[j - i]
  BY <1>2, <1>3, <1>5
<1>7. \A j \in 1 .. Len(a) + 1 :
         (u \o t)[j] = IF j < i THEN a[j] ELSE IF j = i THEN p ELSE a[j - 1]
  BY <1>1, <1>2, <1>3, <1>5, <1>6
<1>8. L!InsertAt(a, i, p) = u \o t
  BY DEF L!InsertAt, s, t, u
<1> QED
  BY <1>6, <1>7, <1>8

----------------------------------------------------------------------------
\* An array in order that holds the levels.
Holds(side, a, lv) == a \in Seq(Level) /\ Sorted(side, a) /\ lv = {a[i] : i \in 1 .. Len(a)}

\* A price that is in the array is at the end of the split, with no other there.
LEMMA OnceThere ==
    ASSUME BooksAssumption, NEW side \in BOOLEAN, NEW a \in Seq(Level), Sorted(side, a),
           NEW x \in Price, NEW m, Splits(side, a, x, m), NEW i \in 1 .. Len(a), a[i].price = x
    PROVE  i = m + 1
<1>1. x \in Nat /\ m \in 0 .. Len(a) /\ Len(a) \in Nat
  BY DEF BooksAssumption, Splits
<1>2. ~Ahead(side, x, x)
  BY <1>1, AheadOrders
<1>3. i > m
  BY <1>1, <1>2 DEF Splits
<1>4. i > m + 1 => FALSE
  <2>1. SUFFICES ASSUME i > m + 1 PROVE FALSE
    OBVIOUS
  <2>2. m + 1 \in 1 .. Len(a)
    BY <1>1, <2>1
  <2>3. Ahead(side, a[m + 1].price, x)
    BY <2>1, <2>2 DEF Sorted
  <2>4. ~Ahead(side, a[m + 1].price, x)
    BY <1>1, <2>2 DEF Splits
  <2> QED
    BY <2>3, <2>4
<1> QED
  BY <1>1, <1>3, <1>4

\* The level at i goes.
LEMMA RemovedHolds ==
    ASSUME BooksAssumption, NEW side \in BOOLEAN, NEW a, NEW lv, Holds(side, a, lv),
           NEW i \in 1 .. Len(a)
    PROVE  Holds(side, L!RemoveAt(a, i), {q \in lv : q.price # a[i].price})
<1> DEFINE b == L!RemoveAt(a, i)
           N == Len(a)
<1>1. a \in Seq(Level) /\ Sorted(side, a) /\ lv = {a[j] : j \in 1 .. N} /\ N \in Nat
  BY DEF Holds
<1>2. b \in Seq(Level) /\ Len(b) = N - 1 /\ \A j \in 1 .. N - 1 : b[j] = IF j < i THEN a[j] ELSE a[j + 1]
  BY <1>1, RemovedFrom
<1>3. \A j \in 1 .. N : a[j].price \in Nat
  BY <1>1, PricesOf
<1> HIDE DEF b, N
<1>4. \A j \in 1 .. N : j # i => a[j].price # a[i].price
  <2>1. \A j \in 1 .. N : j # i => Ahead(side, a[j].price, a[i].price) \/ Ahead(side, a[i].price, a[j].price)
    BY <1>1 DEF Sorted, N
  <2> QED
    BY <1>3, <2>1, AheadOrders DEF N
<1>5. Sorted(side, b)
  <2> SUFFICES ASSUME NEW j \in 1 .. N - 1, NEW k \in 1 .. N - 1, j < k
               PROVE  Ahead(side, b[j].price, b[k].price)
    BY <1>2 DEF Sorted
  <2> DEFINE j1 == IF j < i THEN j ELSE j + 1
             k1 == IF k < i THEN k ELSE k + 1
  <2>1. j1 \in 1 .. N /\ k1 \in 1 .. N /\ j1 < k1 /\ b[j] = a[j1] /\ b[k] = a[k1]
    BY <1>1, <1>2
  <2> HIDE DEF j1, k1
  <2> QED
    BY <1>1, <2>1 DEF Sorted, N
<1>6. {q \in lv : q.price # a[i].price} = {b[j] : j \in 1 .. N - 1}
  <2>1. ASSUME NEW j \in 1 .. N - 1 PROVE b[j] \in lv /\ b[j].price # a[i].price
    <3> DEFINE j1 == IF j < i THEN j ELSE j + 1
    <3>1. j1 \in 1 .. N /\ j1 # i /\ b[j] = a[j1]
      BY <1>1, <1>2
    <3> HIDE DEF j1
    <3> QED
      BY <1>1, <1>4, <3>1
  <2>2. ASSUME NEW q \in lv, q.price # a[i].price PROVE \E j \in 1 .. N - 1 : q = b[j]
    <3>1. PICK k \in 1 .. N : q = a[k]
      BY <1>1
    <3> DEFINE j == IF k < i THEN k ELSE k - 1
    <3>2. k # i
      BY <2>2, <3>1
    <3>3. j \in 1 .. N - 1 /\ b[j] = a[k]
      BY <1>1, <1>2, <3>2 DEF N
    <3> HIDE DEF j
    <3> QED
      BY <3>1, <3>3
  <2> QED
    BY <2>1, <2>2
<1> QED
  BY <1>2, <1>5, <1>6 DEF Holds, b

\* The level at i is replaced by one of the same price.
LEMMA ReplacedHolds ==
    ASSUME BooksAssumption, NEW side \in BOOLEAN, NEW a, NEW lv, Holds(side, a, lv),
           NEW i \in 1 .. Len(a), NEW p \in Level, p.price = a[i].price
    PROVE  Holds(side, L!ReplaceAt(a, i, p), {q \in lv : q.price # p.price} \cup {p})
<1> DEFINE b == L!ReplaceAt(a, i, p)
           N == Len(a)
<1>1. a \in Seq(Level) /\ Sorted(side, a) /\ lv = {a[j] : j \in 1 .. N} /\ N \in Nat
  BY DEF Holds
<1>2. b \in Seq(Level) /\ Len(b) = N /\ \A j \in 1 .. N : b[j] = IF j = i THEN p ELSE a[j]
  <2>1. b = [a EXCEPT ![i] = p]
    BY DEF L!ReplaceAt
  <2> HIDE DEF b
  <2> QED
    BY <1>1, <2>1
<1>3. \A j \in 1 .. N : a[j].price \in Nat
  BY <1>1, PricesOf
<1> HIDE DEF b, N
<1>4. \A j \in 1 .. N : j # i => a[j].price # a[i].price
  <2>1. \A j \in 1 .. N : j # i => Ahead(side, a[j].price, a[i].price) \/ Ahead(side, a[i].price, a[j].price)
    BY <1>1 DEF Sorted, N
  <2> QED
    BY <1>3, <2>1, AheadOrders DEF N
<1>5. \A j \in 1 .. N : b[j].price = a[j].price
  BY <1>2
<1>6. Sorted(side, b)
  BY <1>1, <1>2, <1>5 DEF Sorted, N
<1>7. {q \in lv : q.price # p.price} \cup {p} = {b[j] : j \in 1 .. N}
  <2>1. ASSUME NEW j \in 1 .. N PROVE b[j] \in {q \in lv : q.price # p.price} \cup {p}
    BY <1>1, <1>2, <1>4
  <2>2. ASSUME NEW q \in lv, q.price # p.price PROVE \E j \in 1 .. N : q = b[j]
    <3>1. PICK k \in 1 .. N : q = a[k]
      BY <1>1
    <3> QED
      BY <1>2, <2>2, <3>1
  <2>3. p = b[i] /\ i \in 1 .. N
    BY <1>2 DEF N
  <2> QED
    BY <2>1, <2>2, <2>3
<1> QED
  BY <1>2, <1>6, <1>7 DEF Holds, b

\* A level comes in where its price is to be, no level having that price.
LEMMA InsertedHolds ==
    ASSUME BooksAssumption, NEW side \in BOOLEAN, NEW a, NEW lv, Holds(side, a, lv),
           NEW p \in Level, NEW m, Splits(side, a, p.price, m),
           \A j \in 1 .. Len(a) : a[j].price # p.price
    PROVE  Holds(side, L!InsertAt(a, m + 1, p), lv \cup {p})
<1> DEFINE b == L!InsertAt(a, m + 1, p)
           N == Len(a)
<1>1. a \in Seq(Level) /\ Sorted(side, a) /\ lv = {a[j] : j \in 1 .. N} /\ N \in Nat /\ m \in 0 .. N
  BY DEF Holds, Splits
<1>2. /\ b \in Seq(Level) /\ Len(b) = N + 1
      /\ \A j \in 1 .. N + 1 : b[j] = IF j < m + 1 THEN a[j] ELSE IF j = m + 1 THEN p ELSE a[j - 1]
  <2>1. m + 1 \in 1 .. N + 1
    BY <1>1
  <2> QED
    BY <1>1, <2>1, InsertedInto
<1>3. p.price \in Nat /\ \A j \in 1 .. N : a[j].price \in Nat
  <2>1. p.price \in Nat
    BY DEF Level, BooksAssumption
  <2> QED
    BY <1>1, <2>1, PricesOf
<1> HIDE DEF b
<1>4. /\ \A j \in 1 .. m : Ahead(side, a[j].price, p.price)
      /\ \A j \in m + 1 .. N : Ahead(side, p.price, a[j].price)
  <2>1. \A j \in m + 1 .. N : ~Ahead(side, a[j].price, p.price)
    BY DEF Splits
  <2>2. \A j \in m + 1 .. N : j \in 1 .. N
    BY <1>1
  <2>3. \A j \in m + 1 .. N : Ahead(side, p.price, a[j].price)
    BY <1>3, <2>1, <2>2, AheadOrders
  <2> QED
    BY <2>3 DEF Splits
<1>5. Sorted(side, b)
  <2> SUFFICES ASSUME NEW j \in 1 .. N + 1, NEW k \in 1 .. N + 1, j < k
               PROVE  Ahead(side, b[j].price, b[k].price)
    BY <1>2 DEF Sorted
  <2>1. CASE j = m + 1
    <3>1. b[j] = p /\ b[k] = a[k - 1] /\ k - 1 \in m + 1 .. N
      BY <1>1, <1>2, <2>1
    <3> QED
      BY <1>4, <3>1
  <2>2. CASE k = m + 1
    <3>1. b[k] = p /\ b[j] = a[j] /\ j \in 1 .. m
      BY <1>1, <1>2, <2>2
    <3> QED
      BY <1>4, <3>1
  <2>3. CASE j # m + 1 /\ k # m + 1
    <3> DEFINE j1 == IF j < m + 1 THEN j ELSE j - 1
               k1 == IF k < m + 1 THEN k ELSE k - 1
    <3>1. j1 \in 1 .. N /\ k1 \in 1 .. N /\ j1 < k1 /\ b[j] = a[j1] /\ b[k] = a[k1]
      BY <1>1, <1>2, <2>3
    <3> HIDE DEF j1, k1
    <3> QED
      BY <1>1, <3>1 DEF Sorted
  <2> QED
    BY <2>1, <2>2, <2>3
<1>6. lv \cup {p} = {b[j] : j \in 1 .. N + 1}
  <2>1. ASSUME NEW j \in 1 .. N + 1 PROVE b[j] \in lv \cup {p}
    <3>1. CASE j = m + 1
      BY <1>2, <3>1
    <3>2. CASE j # m + 1
      <4> DEFINE j1 == IF j < m + 1 THEN j ELSE j - 1
      <4>1. j1 \in 1 .. N /\ b[j] = a[j1]
        BY <1>1, <1>2, <3>2
      <4> HIDE DEF j1
      <4> QED
        BY <1>1, <4>1
    <3> QED
      BY <3>1, <3>2
  <2>2. ASSUME NEW q \in lv PROVE \E j \in 1 .. N + 1 : q = b[j]
    <3>1. PICK k \in 1 .. N : q = a[k]
      BY <1>1
    <3> DEFINE j == IF k < m + 1 THEN k ELSE k + 1
    <3>2. j \in 1 .. N + 1 /\ b[j] = a[k]
      BY <1>1, <1>2
    <3> HIDE DEF j
    <3> QED
      BY <3>1, <3>2
  <2>3. p = b[m + 1] /\ m + 1 \in 1 .. N + 1
    BY <1>1, <1>2
  <2> QED
    BY <2>1, <2>2, <2>3
<1> QED
  BY <1>2, <1>5, <1>6 DEF Holds, b

----------------------------------------------------------------------------
\* The array is in order and holds the levels that the messages leave.
LadderInv == guarded \in BOOLEAN /\ bid \in BOOLEAN /\ Holds(bid, arr, level)

LEMMA LevelIs ==
    ASSUME BooksAssumption
    PROVE  \A p \in Level : p.price \in Price /\ p.price \in Nat /\ p.size \in Nat /\ p.time \in Nat
  BY DEF Level, BooksAssumption

\* The instance's Cardinality is the one the theorems are about.
LEMMA SameCardinality == \A S : L!Cardinality(S) = Cardinality(S)
  BY Zenon DEF L!Cardinality, Cardinality

\* The array and the levels after an update.
LEMMA UpdateHolds ==
    ASSUME BooksAssumption, LadderInv, NEW p \in Level
    PROVE  Holds(bid, L!Updated(arr, p), L!Kept(p))
<1>0. /\ arr \in Seq(Level) /\ Sorted(bid, arr) /\ level = {arr[j] : j \in 1 .. Len(arr)}
      /\ bid \in BOOLEAN /\ guarded \in BOOLEAN /\ Len(arr) \in Nat
      /\ p.price \in Price /\ p.price \in Nat /\ p.size \in Nat /\ p.time \in Nat
  BY LevelIs DEF LadderInv, Holds
<1>1. PICK m : Splits(bid, arr, p.price, m)
  BY <1>0, SplitExists
<1>2. L!FindIndex(arr, p.price) = m
  BY <1>0, <1>1, FindsSplit
<1>3. m \in 0 .. Len(arr)
  BY <1>1 DEF Splits
<1> DEFINE i == m + 1
           hit == i <= Len(arr) /\ arr[i].price = p.price
           late == guarded /\ p.time <= arr[i].time
           old == {q \in level : q.price = p.price}
<1>4. L!Updated(arr, p) = CASE hit /\ ~late /\ p.size = 0 -> L!RemoveAt(arr, i)
                            [] hit /\ ~late /\ p.size > 0 -> L!ReplaceAt(arr, i, p)
                            [] ~hit /\ p.size > 0         -> L!InsertAt(arr, i, p)
                            [] OTHER                      -> arr
  BY <1>2, Zenon DEF L!Updated
<1>5. L!Kept(p) = IF guarded /\ \E q \in old : p.time <= q.time THEN level
                  ELSE (level \ old) \cup (IF p.size = 0 THEN {} ELSE {p})
  BY DEF L!Kept
<1>6. level \ old = {q \in level : q.price # p.price}
  OBVIOUS
<1>7. Holds(bid, arr, level)
  BY DEF LadderInv
<1>8. CASE hit
  <2>1. i \in 1 .. Len(arr) /\ arr[i].price = p.price
    BY <1>0, <1>3, <1>8
  <2>2. \A j \in 1 .. Len(arr) : arr[j].price = p.price => j = i
    BY <1>0, <1>1, OnceThere
  <2>3. old = {arr[i]}
    BY <1>0, <2>1, <2>2
  <2> HIDE DEF i, old
  <2>4. CASE late
    BY <1>4, <1>5, <1>7, <1>8, <2>3, <2>4
  <2>5. CASE ~late /\ p.size = 0
    <3>1. L!Updated(arr, p) = L!RemoveAt(arr, i) /\ L!Kept(p) = {q \in level : q.price # arr[i].price}
      BY <1>4, <1>5, <1>6, <1>8, <2>1, <2>3, <2>5
    <3> QED
      BY <1>0, <1>7, <2>1, <3>1, RemovedHolds
  <2>6. CASE ~late /\ p.size > 0
    <3>1. /\ L!Updated(arr, p) = L!ReplaceAt(arr, i, p)
          /\ L!Kept(p) = {q \in level : q.price # p.price} \cup {p}
      BY <1>0, <1>4, <1>5, <1>6, <1>8, <2>1, <2>3, <2>6
    <3> QED
      BY <1>0, <1>7, <2>1, <3>1, ReplacedHolds
  <2> QED
    BY <1>0, <2>4, <2>5, <2>6
<1>9. CASE ~hit
  <2>1. \A j \in 1 .. Len(arr) : arr[j].price # p.price
    <3>1. \A j \in 1 .. Len(arr) : arr[j].price = p.price => j = i
      BY <1>0, <1>1, OnceThere
    <3> QED
      BY <1>0, <1>9, <3>1
  <2>2. old = {}
    BY <1>0, <2>1
  <2> HIDE DEF old
  <2>3. CASE p.size > 0
    <3>1. L!Updated(arr, p) = L!InsertAt(arr, m + 1, p) /\ L!Kept(p) = level \cup {p}
      BY <1>0, <1>4, <1>5, <1>9, <2>2, <2>3
    <3> QED
      BY <1>0, <1>1, <1>7, <2>1, <3>1, InsertedHolds
  <2>4. CASE p.size = 0
    BY <1>4, <1>5, <1>7, <1>9, <2>2, <2>4
  <2> QED
    BY <1>0, <2>3, <2>4
<1> QED
  BY <1>8, <1>9

\* What a constructor sorts.
LEMMA ConstructHolds ==
    ASSUME BooksAssumption, LadderInv, NEW prices \in SUBSET Price, NEW size \in Size \ {0},
           NEW time \in Time,
           L!Construct({[price |-> x, size |-> size, time |-> time] : x \in prices})
    PROVE  Holds(bid, arr', level')
<1> DEFINE points == {[price |-> x, size |-> size, time |-> time] : x \in prices}
           n == Cardinality(points)
<1>1. n \in Nat
  <2> DEFINE f == [x \in prices |-> [price |-> x, size |-> size, time |-> time]]
  <2>1. f \in Surjection(prices, points)
    BY DEF Surjection
  <2>2. IsFiniteSet(prices)
    BY FS_Subset DEF BooksAssumption
  <2> HIDE DEF f, points
  <2>3. IsFiniteSet(points)
    BY <2>1, <2>2, FS_Surjection
  <2> QED
    BY <2>3, FS_CardinalityType DEF points
<1>2. points \subseteq Level
  BY DEF Level
<1>3. L!Construct(points)
  OBVIOUS
<1> HIDE DEF points
<1>4. arr' \in [1 .. n -> points] /\ L!InOrder(arr') /\ {arr'[j] : j \in DOMAIN arr'} = points
  BY <1>3, SameCardinality DEF L!Construct, L!ToSet
<1> HIDE DEF n
<1>5. arr' \in Seq(Level) /\ Len(arr') = n /\ DOMAIN arr' = 1 .. n
  BY <1>1, <1>2, <1>4
<1>6. Sorted(bid, arr')
  BY <1>4, <1>5, BeforeIs DEF L!InOrder, Sorted
<1> QED
  BY <1>3, <1>4, <1>5, <1>6 DEF L!Construct, Holds

LEMMA LadderStep ==
    ASSUME BooksAssumption, LadderInv, L!Next \/ UNCHANGED L!vars
    PROVE  LadderInv'
<1>1. ASSUME NEW price \in Price, NEW size \in Size, NEW time \in Time,
             L!Update([price |-> price, size |-> size, time |-> time])
      PROVE  LadderInv'
  <2> DEFINE p == [price |-> price, size |-> size, time |-> time]
  <2>1. p \in Level
    BY DEF Level
  <2>2. arr' = L!Updated(arr, p) /\ level' = L!Kept(p) /\ guarded' = guarded /\ bid' = bid
    BY <1>1 DEF L!Update
  <2> HIDE DEF p
  <2>3. Holds(bid, arr', level')
    BY <2>1, <2>2, UpdateHolds
  <2> QED
    BY <2>2, <2>3 DEF LadderInv
<1>2. ASSUME NEW prices \in SUBSET Price, NEW size \in Size \ {0}, NEW time \in Time,
             L!Construct({[price |-> x, size |-> size, time |-> time] : x \in prices})
      PROVE  LadderInv'
  <2>1. Holds(bid, arr', level')
    BY <1>2, ConstructHolds
  <2>2. guarded' = guarded /\ bid' = bid
    BY <1>2 DEF L!Construct
  <2> QED
    BY <2>1, <2>2 DEF LadderInv
<1>3. CASE UNCHANGED L!vars
  <2>1. guarded' = guarded /\ bid' = bid /\ arr' = arr /\ level' = level
    BY <1>3 DEF L!vars
  <2> QED
    BY <2>1 DEF LadderInv
<1> QED
  BY <1>1, <1>2, <1>3 DEF L!Next

LEMMA LadderStart == L!Init => LadderInv
<1> SUFFICES ASSUME L!Init PROVE LadderInv
  OBVIOUS
<1>1. arr = <<>> /\ level = {} /\ guarded \in BOOLEAN /\ bid \in BOOLEAN
  BY DEF L!Init
<1>2. arr \in Seq(Level) /\ Len(arr) = 0
  BY <1>1
<1> QED
  BY <1>1, <1>2 DEF LadderInv, Holds, Sorted

\* Nothing is twice in an array in order, so that it is as long as there are levels.
LEMMA LadderCounts ==
    ASSUME BooksAssumption, LadderInv
    PROVE  Len(arr) = Cardinality(level)
<1>1. arr \in Seq(Level) /\ level = {arr[j] : j \in 1 .. Len(arr)} /\ Len(arr) \in Nat
  BY DEF LadderInv, Holds
<1>2. arr \in [1 .. Len(arr) -> level]
  BY <1>1
<1>3. \A i, j \in 1 .. Len(arr) : arr[i] = arr[j] => i = j
  <2> SUFFICES ASSUME NEW i \in 1 .. Len(arr), NEW j \in 1 .. Len(arr), arr[i] = arr[j], i < j
               PROVE  FALSE
    BY <1>1
  <2>1. Ahead(bid, arr[i].price, arr[j].price)
    BY DEF LadderInv, Holds, Sorted
  <2>2. arr[i].price \in Nat /\ ~Ahead(bid, arr[i].price, arr[i].price)
    BY <1>1, PricesOf, AheadOrders DEF LadderInv
  <2> QED
    BY <2>1, <2>2
<1>4. arr \in Bijection(1 .. Len(arr), level)
  <2>1. IsInjective(arr)
    BY <1>2, <1>3 DEF IsInjective
  <2>2. \A p \in level : \E i \in 1 .. Len(arr) : arr[i] = p
    BY <1>1
  <2> QED
    BY <1>2, <2>1, <2>2 DEF Bijection, Injection, Surjection
<1>5. ExistsBijection(1 .. Len(arr), level)
  BY <1>4 DEF ExistsBijection
<1> QED
  BY <1>1, <1>5, FS_CountingElements

LEMMA SnapshotIs ==
    ASSUME LadderInv, NEW depth \in Nat
    PROVE  LET n == IF depth < Len(arr) THEN depth ELSE Len(arr) IN
           /\ n \in Nat /\ n <= Len(arr) /\ (n # depth => n = Len(arr))
           /\ Len(L!Snapshot(depth)) = n
           /\ \A i \in 1 .. n : L!Snapshot(depth)[i] = arr[Len(arr) - i + 1]
<1> DEFINE n == IF depth < Len(arr) THEN depth ELSE Len(arr)
           back == L!Reverse(arr)
<1>1. arr \in Seq(Level) /\ Len(arr) \in Nat
  BY DEF LadderInv, Holds
<1>2. n \in Nat /\ n <= Len(arr) /\ (n # depth => n = Len(arr))
  BY <1>1
<1>3. back = [i \in 1 .. Len(arr) |-> arr[Len(arr) - i + 1]]
  BY DEF L!Reverse
<1>4. back \in Seq(Level) /\ Len(back) = Len(arr)
  <2>1. \A i \in 1 .. Len(arr) : arr[Len(arr) - i + 1] \in Level
    BY <1>1
  <2>2. back \in [1 .. Len(arr) -> Level]
    BY <1>3, <2>1
  <2> QED
    BY <1>1, <2>2
<1>5. L!Snapshot(depth) = SubSeq(back, 1, n)
  BY DEF L!Snapshot
<1> HIDE DEF n, back
<1>6. Len(L!Snapshot(depth)) = n /\ \A i \in 1 .. n : L!Snapshot(depth)[i] = back[i]
  BY <1>1, <1>2, <1>4, <1>5
<1>7. \A i \in 1 .. n : back[i] = arr[Len(arr) - i + 1]
  BY <1>1, <1>2, <1>3
<1> QED
  BY <1>2, <1>6, <1>7 DEF n

\* A side holds the levels that the messages leave, each once, and a snapshot of any depth is
\* the best of them, for every set of prices, sizes and times and however the messages come
\* (KrakenOrderBook.js:105-217, DeribitOrderBook.js:15-147).
THEOREM LevelsKept == Spec => []LadderAgrees
<1>a. BooksAssumption
  BY BooksAssumption
<1>1. Init => LadderInv
  BY LadderStart DEF Init
<1>2. LadderInv /\ [Next]_vars => LadderInv'
  <2>1. [Next]_vars => L!Next \/ UNCHANGED L!vars
    BY DEF Next, NextLadder, NextOrders, vars, ladder, L!vars
  <2> QED
    BY <1>a, <2>1, LadderStep
<1>3. LadderInv => LadderAgrees
  <2> SUFFICES ASSUME LadderInv PROVE L!LadderAgrees
    BY DEF LadderAgrees
  <2>1. /\ arr \in Seq(Level) /\ level = {arr[j] : j \in 1 .. Len(arr)} /\ Len(arr) \in Nat
        /\ \A i, j \in 1 .. Len(arr) : i < j => L!Before(arr[i].price, arr[j].price)
    BY BeforeIs DEF LadderInv, Holds, Sorted
  <2>2. L!ToSet(arr) = level
    BY <2>1 DEF L!ToSet
  <2>3. Cardinality(Price) \in Nat
    BY <1>a, FS_CardinalityType DEF BooksAssumption
  <2>4. ASSUME NEW depth \in 0 .. Cardinality(Price)
        PROVE  LET best == L!Snapshot(depth) IN
               /\ \A i \in 1 .. Len(best) - 1 : L!Before(best[i + 1].price, best[i].price)
               /\ \A p \in level \ L!ToSet(best) : Len(best) = depth
                     /\ \A i \in DOMAIN best : L!Before(p.price, best[i].price)
    <3> DEFINE best == L!Snapshot(depth)
               n == IF depth < Len(arr) THEN depth ELSE Len(arr)
    <3>0. depth \in Nat
      BY <2>3
    <3>1. /\ n \in Nat /\ n <= Len(arr) /\ (n # depth => n = Len(arr))
          /\ Len(best) = n /\ \A i \in 1 .. n : best[i] = arr[Len(arr) - i + 1]
      BY <3>0, SnapshotIs
    <3>2. DOMAIN best = 1 .. n
      <4>1. L!Reverse(arr) \in Seq(Level)
        <5>1. \A i \in 1 .. Len(arr) : arr[Len(arr) - i + 1] \in Level
          BY <2>1
        <5>2. L!Reverse(arr) \in [1 .. Len(arr) -> Level]
          BY <5>1 DEF L!Reverse
        <5> QED
          BY <2>1, <5>2
      <4> QED
        BY <3>1, <4>1 DEF L!Snapshot
    <3> HIDE DEF best, n
    <3>3. ASSUME NEW i \in 1 .. n - 1 PROVE L!Before(best[i + 1].price, best[i].price)
      <4>1. i + 1 \in 1 .. n /\ i \in 1 .. n
        BY <3>1
      <4>2. best[i + 1] = arr[Len(arr) - (i + 1) + 1] /\ best[i] = arr[Len(arr) - i + 1]
        BY <3>1, <4>1
      <4>3. /\ Len(arr) - (i + 1) + 1 \in 1 .. Len(arr) /\ Len(arr) - i + 1 \in 1 .. Len(arr)
            /\ Len(arr) - (i + 1) + 1 < Len(arr) - i + 1
        BY <2>1, <3>1, <4>1
      <4> QED
        BY <2>1, <4>2, <4>3
    <3>4. ASSUME NEW p \in level \ L!ToSet(best)
          PROVE  n = depth /\ \A i \in 1 .. n : L!Before(p.price, best[i].price)
      <4>1. PICK k \in 1 .. Len(arr) : p = arr[k]
        BY <2>1
      <4>2. ~(k > Len(arr) - n)
        <5> SUFFICES ASSUME k > Len(arr) - n PROVE FALSE
          OBVIOUS
        <5>1. Len(arr) - k + 1 \in 1 .. n /\ Len(arr) - (Len(arr) - k + 1) + 1 = k
          BY <2>1, <3>1
        <5>2. best[Len(arr) - k + 1] = p
          BY <3>1, <4>1, <5>1
        <5> QED
          BY <3>2, <5>1, <5>2 DEF L!ToSet
      <4>3. n = depth
        BY <2>1, <3>1, <4>1, <4>2
      <4>4. ASSUME NEW i \in 1 .. n PROVE L!Before(p.price, best[i].price)
        <5>1. Len(arr) - i + 1 \in 1 .. Len(arr) /\ k < Len(arr) - i + 1
          BY <2>1, <3>1, <4>1, <4>2
        <5>2. L!Before(arr[k].price, arr[Len(arr) - i + 1].price)
          BY <2>1, <5>1
        <5> QED
          BY <3>1, <4>1, <5>2
      <4> QED
        BY <4>3, <4>4
    <3>5. /\ \A i \in 1 .. Len(best) - 1 : L!Before(best[i + 1].price, best[i].price)
          /\ \A p \in level \ L!ToSet(best) : Len(best) = depth
                /\ \A i \in DOMAIN best : L!Before(p.price, best[i].price)
      BY <3>1, <3>2, <3>3, <3>4
    <3> QED
      BY <3>5 DEF best
  <2>5. Len(arr) = Cardinality(level)
    BY <1>a, LadderCounts
  <2> QED
    BY <2>2, <2>4, <2>5, SameCardinality DEF L!LadderAgrees
<1> QED
  BY <1>1, <1>2, <1>3, PTL DEF Spec
=============================================================================
