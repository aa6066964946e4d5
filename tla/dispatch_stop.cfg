SPECIFICATION FairSpec
CONSTANTS
    Conns = {c1}
    Requests = {r1}
    Command = Command
    Nothing = Nothing
    ChannelSize = 1
    MaxAnswers = 2
    MaxCommands = 1
CHECK_DEADLOCK FALSE
PROPERTY
    CallsEndAfterStop
