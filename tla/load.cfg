SPECIFICATION FairSpec
CONSTANTS
    c1 = c1
    c2 = c2
    Clients = {c1, c2}
    BurstSize = 2
    FinalReads = 2
    PanicAfter = 3
    Scenarios <- MCScenarios
CHECK_DEADLOCK FALSE
INVARIANTS
    TypeOK
    LossNotNegative
    EarlyEndsCounted
    FloodBounded
PROPERTIES
    StrictPingPong
    Finishes
