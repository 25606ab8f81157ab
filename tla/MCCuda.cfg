CONSTANTS
    c1 = c1
    c2 = c2
    Commands = {c1, c2}
    NoCommand = none
    ReplyLen <- MCReplyLen
    CommandLen <- MCCommandLen
    EventLen = 5
    Overflow = 10
    BufSize = 12
    MaxEvents = 3
CHECK_DEADLOCK FALSE
SPECIFICATION Spec
INVARIANTS
    WholePackets
    Told
PROPERTIES
    CommandCompletes
    LoopReturns
    ImplementsChannel
