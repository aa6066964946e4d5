SPECIFICATION Spec
CONSTANTS
    Conns = {c1, c2}
    Events = {e1, e2, e3}
    ConnRequests = {}
    MaxQueueSize = 2
    NoConn = NoConn
    Hangers = {}
    MayStop = FALSE
SYMMETRY Symmetry
CHECK_DEADLOCK FALSE
INVARIANTS
    NoDuplicateDelivery
    NoSilentLoss
    BoundedUnlessInterrupted
    PoolMatchesHandlers
    IInv
