\* three pages, two of them in one TLB slot; five frames, two of them RAM and
\* two of them devices
CONSTANTS
    Backends = {"aarch64", "x86_64"}
    NPages = 3
    TlbEntries = 2
    BlockPages = 2
    PhysFrames = 5
    MemFrames = 2
    DeviceFrames = {2, 3}
    FrameBuffer = {3}
    Vsids = {"k", "u"}
    Segments <- MCSegments
    BatUppers <- MCBatUppers
    BatLowers = {0, 1}
    Gaps <- MCGaps
    Ptes <- MCPtes
SPECIFICATION MmuSpec
INVARIANTS
    NoStaleTranslation
    StoresMarkChanged
    InMemory
