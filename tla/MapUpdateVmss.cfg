SPECIFICATION Spec
CONSTANTS
    Outland = Outland
    Dungeon = Dungeon
    Arena = Arena
    w1 = w1
    w2 = w2
    NoMap = NoMap
    Continents <- OneContinent
    Dungeons <- OneDungeon
    Battlegrounds <- NoMaps
    Workers <- TwoWorkers
    UnloadDelays <- NoneOrTwo
    UpdateInterval = 2
    QueueLimit = 1
    Vmss = TRUE
    Faults = TRUE
    MaxPlayers = 1
INVARIANTS
    SignalKeepsTheBooks
