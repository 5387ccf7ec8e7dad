CONSTANTS
    Socket = {s1, s2}
    Channel = {c1}
    NoSocket = NoSocket
SPECIFICATION Spec
INVARIANT CloseIsFinal
CHECK_DEADLOCK FALSE
