SPECIFICATION FairSpec
CONSTANTS
    Outland = Outland
    Dungeon = Dungeon
    Arena = Arena
    w1 = w1
    w2 = w2
    NoMap = NoMap
    Continents <- OneContinent
    Dungeons <- OneDungeon
    Battlegrounds <- OneBattleground
    Workers <- TwoWorkers
    UnloadDelays <- NoneOrTwo
    UpdateInterval = 2
    QueueLimit = 2
    Vmss = FALSE
    Faults = FALSE
    MaxPlayers = 1
INVARIANTS
    TypeOK
    WorldHasTheMapsAlone
    UpdatedMapExists
    OneThreadPerMap
    UpdatedOncePerWalk
PROPERTIES
    NoPlayersAtUnload
    NothingWaitsForEver
