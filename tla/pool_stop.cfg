SPECIFICATION Spec
CONSTANTS
    Conns = {c1}
    Events = {e1, e2}
    ConnRequests = {r1}
    MaxQueueSize = 1
    NoConn = NoConn
    Hangers = {c1}
    MayStop = TRUE
SYMMETRY Symmetry
CHECK_DEADLOCK FALSE
INVARIANTS
    TypeOK
PROPERTIES
    ImplementsEventDelivery
    StopLeavesOnlyUnpooled
