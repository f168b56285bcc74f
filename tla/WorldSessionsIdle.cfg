SPECIFICATION Spec
CONSTANTS
    a1 = a1
    a2 = a2
    a3 = a3
    s1 = s1
    s2 = s2
    s3 = s3
    s4 = s4
    None = None
    Accounts <- ThreeAccounts
    Sessions <- ThreeSessions
    Privileged <- Nobody
    Limits <- OnlyOne
    Tolerance = 0
    MayStop = FALSE
    MaxTime = 0
    MaxHolders = 1
INVARIANTS
    NobodyWaitsForNothing
