CONSTANTS
    Pages = {p1, p2, p3}
    Fragments = {f1, f2, f3}
    Frames = {b1, b2, b3, b4}
    Stored = {b1}
    Offsets = {0, 4}
    Evicted = 2
    MaxChain = 3
    NULL = NULL
SYMMETRY Interchangeable
SPECIFICATION Spec
INVARIANTS
    FragmentsConserved
    ListsWellFormed
    MapConsistent
    CurrentKept
    NoStaleCode
