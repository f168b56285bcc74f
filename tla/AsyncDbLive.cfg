SPECIFICATION FairSpec
CONSTANTS
    Main = Main
    World = World
    Net = Net
    DelayThread = DelayThread
    NoOne = NoOne
    Threads <- ThreeThreads
    MaxOps = 2
    MaxSize = 2
    MaxFailures = 1
    MaxDrops = 0
PROPERTIES
    ActsLikeAtomicStore
    OperationsAreAnswered
