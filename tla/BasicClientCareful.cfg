CONSTANTS
    Socket = {s1, s2, s3}
    Channel = {c1, c2}
    NoSocket = NoSocket
SPECIFICATION LiveSpec
INVARIANT TypeOK
INVARIANT RemoteAgrees
INVARIANT NoOrphan
INVARIANT WatchedIffConnected
INVARIANT NoCrash
INVARIANT CloseIsFinal
INVARIANT NotStranded
PROPERTY LifecycleSpec
PROPERTY HalfOpenDetected
PROPERTY Recovers
