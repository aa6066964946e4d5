SPECIFICATION FairSpec
CONSTANTS
    Conns = {c1, c2}
    Events = {e1}
    ConnRequests = {}
    MaxQueueSize = 1
    NoConn = NoConn
    MayStop = FALSE
    Hangers = {c1}
CHECK_DEADLOCK FALSE
PROPERTIES
    SendsReturn
    StalledBackendLeaves
