SPECIFICATION Spec
CONSTANTS
    Conns = {h1, h2}
    Ids = {i1}
    Rooms = {m1, m2}
    Dispatcher = Dispatcher
    None = None
    IdsLeftOut = FALSE
    IdsReused = TRUE
CHECK_DEADLOCK FALSE
INVARIANT
    RoomsHoldLiveClients
