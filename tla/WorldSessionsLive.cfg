SPECIFICATION FairSpec
CONSTANTS
    a1 = a1
    a2 = a2
    a3 = a3
    s1 = s1
    s2 = s2
    s3 = s3
    s4 = s4
    None = None
    Accounts <- TwoAccounts
    Sessions <- TwoSessions
    Privileged <- GameMaster
    Limits <- OneOrNone
    Tolerance = 1
    MayStop = TRUE
    MaxTime = 1
    MaxHolders = 1
INVARIANTS
    TypeOK
    StopSavesThePlayers
PROPERTIES
    EverySessionIsServed
CHECK_DEADLOCK FALSE
