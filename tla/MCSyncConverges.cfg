SPECIFICATION FairSpec
CONSTANTS
    MaxConns = 3
    MaxOps = 2
    Overtakes = FALSE
    Timeouts = FALSE
    SlowAccept = FALSE
INVARIANTS Synced TokenKnown ServedIsOnline
PROPERTIES NewestOnly Converges
CHECK_DEADLOCK FALSE
