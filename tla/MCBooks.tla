------------------------------ MODULE MCBooks ------------------------------
(* Ladder and Orders for TLC, the one that is used chosen at the start.                *)
(*                                                                                     *)
(* Ladder: four prices, so that the search goes to both halves twice, with sizes and   *)
(* times that come again.  Orders: two orders, so that one stays when the other        *)
(* changes, and messages enough for one before the snapshot, one between it and the    *)
(* answer, and two after it.                                                           *)
EXTENDS Naturals, Sequences, FiniteSets

CONSTANTS Price, Size, Time, Order, MaxUpdates

\* Prices are numbers of JavaScript, of which there are finitely many.
ASSUME BooksAssumption ==
    /\ Price \subseteq Nat /\ IsFiniteSet(Price)
    /\ Size \subseteq Nat /\ Time \subseteq Nat

VARIABLES used, guarded, bid, arr, level,
          kind, past, stream, run, runId, snap, queue, phase, book, spoiled

L == INSTANCE Ladder
O == INSTANCE Orders WITH Size <- Size \ {0}

ladder == <<guarded, bid, arr, level>>
orders == <<kind, past, stream, run, runId, snap, queue, phase, book, spoiled>>
vars == <<used, ladder, orders>>

\* The state of the book that is not used is one of its initial ones.
Init ==
    /\ used \in {"ladder", "orders"}
    /\ L!Init /\ O!Init
    /\ used = "ladder" => kind = "kucoin"
    /\ used = "orders" => guarded /\ bid

NextLadder == used = "ladder" /\ L!Next /\ UNCHANGED <<used, orders>>
NextOrders == used = "orders" /\ O!Next /\ UNCHANGED <<used, ladder>>
Next == NextLadder \/ NextOrders

Spec == Init /\ [][Next]_vars

----------------------------------------------------------------------------
\* A sorted array with binary search is the set of levels the messages leave
\* (KrakenOrderBook.js:105-217, DeribitOrderBook.js:15-147).
LadderAgrees == L!LadderAgrees

\* A level 3 book is the server's: KuCoin's at its sequence number, LedgerX's once it has what
\* its snapshot has, if that was not too old, ErisX's at the last message
\* (KucoinOrderBook.js:52-156, ledgerx-client.js:119-147).
BookAgrees == O!BookAgrees
=============================================================================
