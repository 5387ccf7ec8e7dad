CONSTANTS
    BufferSize = 1
    Value = {1, 2, 3, 4, 5, 6, 7, 8}
    Undefined = Undefined
    MaxItems = 6
SPECIFICATION LiveSpec
INVARIANT SlotsMatch
PROPERTY FifoSpec
PROPERTY AllDelivered
CHECK_DEADLOCK FALSE
