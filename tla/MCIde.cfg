CONSTANTS
    SectorSize = 3
    HeadSize = 4
    Heads = 2
    CountMod = 3
    RegionMod = 4
    Addresses = {3}
    Counts = {0, 1, 2}
    Tables <- MCTables
SPECIFICATION Spec
INVARIANTS
    NeverReacquired
    HeldWhilePending
    ReadsRightSectors
    WritesRightSectors
    InterruptKept
PROPERTIES
    TransferEnds
