SPECIFICATION Spec
CONSTANTS
    Conns = {c1}
    Events = {e1, e2}
    ConnRequests = {}
    MaxQueueSize = 1
    NoConn = NoConn
    Hangers = {}
    MayStop = FALSE
CHECK_DEADLOCK FALSE
INVARIANT
    QueueBounded
