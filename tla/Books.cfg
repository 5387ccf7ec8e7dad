CONSTANTS
    Price = {1, 2, 3, 4}
    Size = {0, 1, 2}
    Time = {1, 2}
    Order = {1, 2}
    MaxUpdates = 4
SPECIFICATION Spec
CHECK_DEADLOCK FALSE
INVARIANT LadderAgrees
INVARIANT BookAgrees
