SPECIFICATION FairSpec
CONSTANTS
    h1 = h1
    h2 = h2
    b1 = b1
    b2 = b2
    m1 = m1
    m2 = m2
    Conns = {h1, h2}
    Backends = {b1, b2}
    Messages = {m1, m2}
    Unset = Unset
    Garbage = Garbage
    None = None
    Scenarios <- MCScenarios
CHECK_DEADLOCK FALSE
INVARIANTS
    TypeOK
    EchoToSender
    EchoedOnce
    StoriesInOrder
    EchoesInOrder
    RegisteredAreServed
    EndsAccounted

    
    
