SPECIFICATION FairSpec
CONSTANTS
    Conns = {h1, h2}
    Ids = {i1, i2}
    Rooms = {m1, m2}
    Dispatcher = Dispatcher
    None = None
    IdsLeftOut = TRUE
    IdsReused = FALSE
CHECK_DEADLOCK FALSE
INVARIANTS
    TypeOK
    RegistryAgrees
    RoomsHoldLiveClients
    ReportedOnce
    OnlyFailedDisconnected
PROPERTY
    GoneClientsUnregistered
