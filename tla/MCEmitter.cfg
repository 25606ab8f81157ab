\* three fragments of eight words in every order of the free list
CONSTANTS
    FragWords = 8
    Near = 5
    AlignWords = 4
    Sizes = {2, 4}
    NumFrags = 3
    MaxProg = 7
    MaxFixups = 2
SPECIFICATION Spec
INVARIANTS
    RoomForLink
    FlowPreserved
CHECK_DEADLOCK FALSE
