SPECIFICATION MCSpec
CONSTANTS
    x1 = x1
    x2 = x2
    c1 = c1
    c2 = c2
    None = None
    Txs = {x1, x2}
    Clients = {c1, c2}
    AuthAttempts = None
    CastAttempts = None
    HasTarget = TRUE
    MaxInstances = 2
    MaxHeight = 2
    MaxQueue = 1
    MaxWork = 2
    MaxAttempts = 0
    MaxSubmissions = 2
    Crashes = TRUE
INVARIANTS TrackersAreSound RowsFollow
PROPERTIES AcceptedIsKeptAgain SinkDrainsOnce
