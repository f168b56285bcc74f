SPECIFICATION Spec
CONSTANTS
    Main = Main
    World = World
    Net = Net
    DelayThread = DelayThread
    NoOne = NoOne
    Threads <- TwoThreads
    MaxOps = 3
    MaxSize = 2
    MaxFailures = 1
    MaxDrops = 1
INVARIANTS
    TypeOK
    DelayedIsKept
    WritesAreWhole
    ResultsInOrder
