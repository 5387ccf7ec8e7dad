-------------------------------- MODULE Fifo --------------------------------
(***************************************************************************)
(* What a queue promises: what is pushed is shifted once, in order.        *)
(***************************************************************************)
EXTENDS Sequences

CONSTANTS
    Value,       \* what may be pushed
    Undefined    \* what shift returns when there is nothing

VARIABLES
    items,       \* the values in the queue, oldest first
    got          \* what the last shift returned

Init == items = <<>> /\ got = Undefined

Push(v) == items' = Append(items, v) /\ UNCHANGED got

Shift ==
    \/ items # <<>> /\ got' = Head(items) /\ items' = Tail(items)
    \/ items = <<>> /\ got' = Undefined /\ UNCHANGED items

Next == Shift \/ \E v \in Value : Push(v)

Spec == Init /\ [][Next]_<<items, got>>
=============================================================================
