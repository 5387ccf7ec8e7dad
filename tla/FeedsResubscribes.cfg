CONSTANTS
    M1 = M1
    M2 = M2
    Market = {M1, M2}
    AllMarkets = AllMarkets
    Table <- MCTable
    MaxKinds = 2
    MaxFeeds = 2
    MaxPending = 2
    MaxChannels = 3
SPECIFICATION Spec
CHECK_DEADLOCK FALSE
PROPERTY
    Resubscribes
