CONSTANTS
    Call = {c1, c2, c3, c4}
    Delay = 2
    BatchSize = 2
    MaxCalls = 5
    None = None
SPECIFICATION Spec
INVARIANT InOrder
INVARIANT BatchKeeps
INVARIANT ServesNewest
PROPERTY RateLimited
PROPERTY AllRun
PROPERTY AfterQuiet
