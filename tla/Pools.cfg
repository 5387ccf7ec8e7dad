CONSTANTS
    Market = {m}
    Socket = {s1, s2}
    NoSocket = NoSocket
    Feed = {k1, k2}
    Client = {c1, c2}
    PerClient = 1
    MaxCount = 3
    NoClient = NoClient
SPECIFICATION Spec
CHECK_DEADLOCK FALSE
INVARIANT NoOrphan
INVARIANT WithinLimit
PROPERTY Recovers
PROPERTY Served
