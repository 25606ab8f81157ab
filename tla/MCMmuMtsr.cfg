\* the aarch64 backend alone, without BATs
CONSTANTS
    Backends = {"aarch64"}
    NPages = 3
    TlbEntries = 2
    BlockPages = 2
    PhysFrames = 5
    MemFrames = 2
    DeviceFrames = {2, 3}
    FrameBuffer = {3}
    Vsids = {"k", "u"}
    Segments <- Paged
    BatUppers <- NoBat
    BatLowers = {0}
    Gaps <- MCGaps
    Ptes <- MCPtes
SPECIFICATION MmuSpec
INVARIANTS
    SegmentSwitchFlushes
