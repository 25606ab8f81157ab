CONSTANTS
    Half = 8
    Limit = 4
    Clamp = 2
    Writes = {0, 1, 3, 4, 5, 7, 8, 15}
    MaxTime = 18
SPECIFICATION DecSpec
INVARIANTS
    
    RaisedInTime
PROPERTIES
    ReadsTrackTime
