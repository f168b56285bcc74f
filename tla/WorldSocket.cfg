SPECIFICATION FairSpec
CONSTANTS
    Acceptor = Acceptor
    Net = Net
    World = World
    Home = Home
    m2 = m2
    NoThread = NoThread
    Away <- OneAway
    Size <- Sizes
    OutBufferSize = 2
    ChatClient = TRUE
INVARIANTS
    TypeOK
    HeadersInStep
    OutputIsServed
    EveryHolderCounts
    CalleeExists
PROPERTIES
    ClosedSocketIsFreed
CHECK_DEADLOCK FALSE
