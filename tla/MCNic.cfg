\* a ring of two UPDs that overflows, two DPDs that wrap, and one reset
CONSTANTS
    Upds = 2
    Dpds = 2
    MaxPackets = 3
    MaxFrames = 3
    MaxResets = 1
CHECK_DEADLOCK FALSE
SPECIFICATION Spec
INVARIANTS
    NothingLost
    GuestTold
    FramesInOrder
PROPERTIES
    PacketsArrive
