SPECIFICATION FairSpec
CONSTANTS
    p1 = p1
    c1 = c1
    Players <- OnePlayer
    Creatures <- OneCreature
    Viewers <- OnePlayer
    Home <- FirstGrid
    GridCount = 2
    CellsPerGrid = 2
    CellRange = 0
    Expiry = 2
    Short = 1
    GridUnload <- FirstGridMayStay
    MaxCopies = 2
    MaxLock = 2
    Nowhere = Nowhere
INVARIANTS
    TypeOK
    NobodyVanishes
    LockCountsActives
PROPERTIES
    LockedGridStays
    QuietGridIsUnloaded
CHECK_DEADLOCK FALSE
