CONSTANTS
    Market = {m1, m2}
    Type = {t1}
    Capacity = 1
    MaxCalls = 5
SPECIFICATION LiveSpec
INVARIANT OneClientEach
INVARIANT LastCallWins
 
PROPERTY AllServed
CHECK_DEADLOCK FALSE
