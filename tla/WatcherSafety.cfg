CONSTANTS
    Interval = 3
    Lag = 1
    Horizon = 14
    None = None
SPECIFICATION WatcherSpec
INVARIANT SilenceBounded
PROPERTY NeverTooEarly
PROPERTY WatchSpec
