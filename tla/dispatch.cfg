SPECIFICATION FairSpec
CONSTANTS
    Conns = {c1, c2}
    Requests = {r1, r2}
    Command = Command
    Nothing = Nothing
    ChannelSize = 1
    MaxAnswers = 2
    MaxCommands = 1
CHECK_DEADLOCK FALSE
INVARIANTS
    TypeOK
    RegisteredWhileCalling
    LinesInOrder
PROPERTIES
    AnsweredCallsReturn
    DispatcherNotStuck
