\* a page of four instructions with room for three blocks
CONSTANTS
    Slots = 4
    MaxBlocks = 3
    Bits = {"lt", "so"}
    SO = "so"
    Insns <- MCInsns
    Entries = {0}
SPECIFICATION Spec
INVARIANTS
    SolverExact
    Solved
    ReadsCurrent
PROPERTIES
    LiveGrows
    Converges
CHECK_DEADLOCK FALSE
