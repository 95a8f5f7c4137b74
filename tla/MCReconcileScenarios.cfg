SPECIFICATION MCSpec
CONSTANTS
    e1 = e1
    e2 = e2
    s1 = s1
    c1 = c1
    None = None
    SharedLedger = SharedLedger
    EnvIds = {e1, e2}
    Storages <- TwoKinds
    Heights <- AnyHeight
    Confs = {c1}
    Results = {"ok", "failed", "error"}
    Moves = {"cleanup", "configure", "reboot", "handshake", "restart", "exit", "crash"}
    MaxQueue = 2
    MaxUpdates = 3
INVARIANTS ReconcilerSound
PROPERTIES NothingWipedUnderNode RequestedNodeRunsCalmly UnwantedNodeStopsCalmly
