SPECIFICATION FairSpec
CONSTANTS
    Players = {p1, p2, p3}
    Items = {i1}
    RollTime = 2
INVARIANTS
    TypeOK
    RollIsSound
PROPERTIES
    WinnerAskedForIt
    RollEnds
CHECK_DEADLOCK FALSE
