------------------------------- MODULE Orders -------------------------------
(***************************************************************************)
(* src/orderbooks: the level 3 books, which hold orders by their ids.      *)
(* KuCoin's is built from a snapshot and the updates queued before it      *)
(* came, and counts sequence numbers, which its user checks as the comment *)
(* before the class shows.  LedgerX's snapshot is asked for over REST too, *)
(* but nothing is queued for it and no number is looked at; ErisX's comes  *)
(* in the stream of the updates.  An order is its size (0: it is not       *)
(* there) and keeps its price; a snapshot that adds up the sizes by price  *)
(* is left out.                                                            *)
(***************************************************************************)
EXTENDS Naturals, Sequences, SequencesExt

CONSTANTS
    Order,       \* bound: the orders
    Size,        \* sizes, not 0
    MaxUpdates   \* bound: messages of the server

VARIABLES
    kind,        \* kucoin, ledgerx or erisx
    past,        \* the server's book after each message
    stream,      \* the server's messages that have not come yet
    run,         \* LedgerX: the run of the server, the number it began with
    runId,       \* LedgerX: the run the client heard of in a heartbeat, or 0
    snap,        \* the snapshot's sequence number, or 0: it is not taken yet
    queue,       \* KuCoin: the updates that wait for the snapshot
    phase,       \* waiting, built, or stopped by an exception or a check
    book,        \* the book: seq, runId, and the orders of each side
    spoiled      \* history: something came that the book is known to get wrong

vars == <<kind, past, stream, run, runId, snap, queue, phase, book, spoiled>>

Side == {"asks", "bids"}
NoOrders == [side \in Side |-> [o \in Order |-> 0]]

Init ==
    /\ kind \in {"kucoin", "ledgerx", "erisx"}
    /\ past = <<NoOrders>> /\ stream = <<>> /\ run = 1 /\ runId = 0
    /\ snap = 0 /\ queue = <<>> /\ phase = "waiting"
    /\ book = [seq |-> 0, runId |-> 0, orders |-> NoOrders]
    /\ spoiled = FALSE

\* The number of the last message that was sent, and of the last one that came; the
\* server's book now.
LastSeq == Len(past)
Got == LastSeq - Len(stream)
Server == past[LastSeq]

Types == CASE kind = "kucoin"  -> {"received", "open", "done", "change"}
           [] kind = "ledgerx" -> {"open", "done", "change"}
           [] OTHER            -> {"open", "done"}

\* What the server may say of an order: new ones are opened, on one side.
Sendable(u) ==
    LET there == Server[u.side][u.order] > 0
        elsewhere == \E side \in Side \ {u.side} : Server[side][u.order] > 0
    IN  ~elsewhere /\ (u.type \in {"received", "open"} <=> ~there)

\* What it means.
Applied(orders, u) ==
    CASE u.type = "received" -> orders
      [] u.type = "done"     -> [orders EXCEPT ![u.side][u.order] = 0]
      [] OTHER               -> [orders EXCEPT ![u.side][u.order] = u.size]

----------------------------------------------------------------------------
\* KucoinOrderBook.update; "change" is its "update" and its "match".
KucoinOrders(orders, u) ==
    CASE u.type = "open" -> [orders EXCEPT ![u.side][u.order] = u.size]
      [] u.type = "done" -> [side \in Side |-> [orders[side] EXCEPT ![u.order] = 0]]
      [] u.type = "change" /\ \E side \in Side : orders[side][u.order] > 0 ->
            LET found == IF orders["asks"][u.order] > 0 THEN "asks" ELSE "bids"
            IN  [orders EXCEPT ![found][u.order] = u.size]
      [] OTHER -> orders
KucoinUpdated(b, u) == [b EXCEPT !.seq = u.seq, !.orders = KucoinOrders(@, u)]

\* Mutant: no look at the numbers that follow.
ReplayedUnchecked(b, updates) ==
    LET step(acc, u) == IF u.seq <= acc.seq THEN acc ELSE KucoinUpdated(acc, u)
    IN  [ok |-> updates # <<>>, book |-> FoldLeft(step, b, updates)]

\* One of the updates queued before the snapshot came: it is passed over, or follows
\* without a gap, or the constructor throws.
Replay(acc, u) ==
    IF ~acc.ok \/ u.seq <= acc.book.seq THEN acc
    ELSE IF u.seq > acc.book.seq + 1 THEN [acc EXCEPT !.ok = FALSE]
    ELSE [acc EXCEPT !.book = KucoinUpdated(@, u)]

\* The constructor of KucoinOrderBook: the last update is later than the snapshot.
Replayed(b, updates) ==
    LET queued == updates # <<>> /\ b.seq < Last(updates).seq
        made[i \in 0 .. Len(updates)] ==
            IF i = 0 THEN [ok |-> queued, book |-> b] ELSE Replay(made[i - 1], updates[i])
    IN  made[Len(updates)]

\* LedgerXOrderBook.update: the run is the first one heard of, for good, so that a later
\* one resets the book at every message.
Resets(b) == b.runId # 0 /\ runId > b.runId
LedgerxUpdated(b, u) ==
    LET base == IF Resets(b) THEN NoOrders ELSE b.orders
    IN  [seq    |-> IF Resets(b) THEN 0 ELSE b.seq + 1,
         runId  |-> IF b.runId = 0 THEN runId ELSE b.runId,
         orders |-> [base EXCEPT ![u.side][u.order] = IF u.type = "done" THEN 0 ELSE u.size]]

\* ErisXOrderBook.update: asks are entered among the bids.
ErisxUpdated(b, u) ==
    [b EXCEPT !.orders["bids"][u.order] = IF u.type = "done" THEN 0 ELSE u.size]

----------------------------------------------------------------------------
Update(u) ==
    CASE kind = "kucoin"  -> KucoinUpdated(book, u)
      [] kind = "ledgerx" -> LedgerxUpdated(book, u)
      [] OTHER            -> ErisxUpdated(book, u)

\* The last that came is the beginning of another run: its orders are still unknown.
Restarted == run > 1 /\ Got = run

\* What the books are known to get wrong: LedgerX's an order that a reset forgets, or that
\* is left of an earlier run as nothing resets the book; ErisX's every ask.
Spoils(u) ==
    \/ kind = "ledgerx" /\ Resets(book) /\ past[Got] # NoOrders
    \/ kind = "ledgerx" /\ ~Resets(book) /\ Restarted /\ book.orders # NoOrders
    \/ kind = "erisx" /\ u.side = "asks"

\* The server sends an update.
Send(u) ==
    /\ LastSeq <= MaxUpdates /\ Sendable(u)
    /\ past' = Append(past, Applied(Server, u))
    /\ stream' = Append(stream, u)
    /\ UNCHANGED <<kind, run, runId, snap, queue, phase, book, spoiled>>

\* LedgerX: the server starts again, without orders.  Bound: once.
Restart ==
    /\ kind = "ledgerx" /\ run = 1 /\ LastSeq <= MaxUpdates
    /\ run' = LastSeq + 1
    /\ past' = Append(past, NoOrders)
    /\ stream' = Append(stream, [type |-> "restart", seq |-> LastSeq + 1])
    /\ UNCHANGED <<kind, runId, snap, queue, phase, book, spoiled>>

\* LedgerX: a heartbeat tells the run, at any time after it began.
Heartbeat ==
    /\ kind = "ledgerx"
    /\ runId' = IF Got >= run THEN run ELSE 1
    /\ runId' # runId
    /\ UNCHANGED <<kind, past, stream, run, snap, queue, phase, book, spoiled>>

\* The next message comes; KuCoin's may get lost.  Without a book KuCoin's user queues it,
\* and the others have no use for it.
Receive(lost) ==
    /\ stream # <<>>
    /\ lost => kind = "kucoin"
    /\ stream' = Tail(stream)
    /\ LET u == Head(stream)
           comes == ~lost /\ u.type # "restart"
       IN  /\ IF phase = "built" /\ comes
              THEN \/ /\ kind = "kucoin" => book.seq + 1 = u.seq
                      /\ book' = Update(u)
                      /\ spoiled' = (spoiled \/ Spoils(u))
                      /\ UNCHANGED phase
                   \/ /\ kind = "kucoin" /\ book.seq + 1 # u.seq
                      /\ phase' = "stopped"
                      /\ UNCHANGED <<book, spoiled>>
              ELSE UNCHANGED <<phase, book, spoiled>>
           /\ queue' = IF kind = "kucoin" /\ phase = "waiting" /\ comes
                       THEN Append(queue, u) ELSE queue
    /\ UNCHANGED <<kind, past, run, runId, snap>>

\* KuCoin, LedgerX: a snapshot is taken at the server; the answer comes later.
TakeSnapshot ==
    /\ kind \in {"kucoin", "ledgerx"} /\ snap = 0
    /\ snap' = LastSeq
    /\ UNCHANGED <<kind, past, stream, run, runId, queue, phase, book, spoiled>>

\* It comes, and KuCoin's book is constructed, or the constructor throws.
Build ==
    /\ kind = "kucoin" /\ phase = "waiting" /\ snap # 0
    /\ LET made == Replayed([seq |-> snap, runId |-> 0, orders |-> past[snap]], queue)
       IN  /\ book' = made.book
           /\ phase' = IF made.ok THEN "built" ELSE "stopped"
    /\ queue' = <<>>
    /\ UNCHANGED <<kind, past, stream, run, runId, snap, spoiled>>

\* LedgerX's is constructed of what comes, without what was emitted since it was taken.
BuildFromAnswer ==
    /\ kind = "ledgerx" /\ phase = "waiting" /\ snap # 0
    /\ book' = [seq |-> snap, runId |-> 0, orders |-> past[snap]]
    /\ phase' = "built"
    /\ spoiled' = (Got > snap)
    /\ UNCHANGED <<kind, past, stream, run, runId, snap, queue>>

\* ErisX: the stream begins with a snapshot.
BuildFromStream ==
    /\ kind = "erisx" /\ phase = "waiting"
    /\ book' = [seq |-> Got, runId |-> 0, orders |-> past[Got]]
    /\ phase' = "built"
    /\ UNCHANGED <<kind, past, stream, run, runId, snap, queue, spoiled>>

Next ==
    \/ \E type \in Types, side \in Side, o \in Order, size \in Size :
          Send([type |-> type, side |-> side, order |-> o, size |-> size, seq |-> LastSeq + 1])
    \/ \E lost \in BOOLEAN : Receive(lost)
    \/ Restart \/ Heartbeat
    \/ TakeSnapshot \/ Build \/ BuildFromAnswer \/ BuildFromStream

Spec == Init /\ [][Next]_vars

----------------------------------------------------------------------------
\* A book that is built is the server's.  KuCoin's at its sequence number: whenever the
\* snapshot was taken and came, whichever update was lost before or after, no update is
\* left out, made twice or made on another book (KucoinOrderBook.js:52-156).  ErisX's at
\* the last message that came.  LedgerX's too, unless the snapshot was older than what had
\* come (ledgerx-client.js:119-147): where it is newer, once the messages it knows of were
\* made again.  All this but for what spoils a book.
BookAgrees ==
    phase = "built" /\ ~spoiled =>
        CASE kind = "kucoin"  -> book.seq >= snap /\ book.orders = past[book.seq]
          [] kind = "ledgerx" -> Got >= snap /\ ~Restarted => book.orders = past[Got]
          [] OTHER            -> book.orders = past[Got]
=============================================================================
