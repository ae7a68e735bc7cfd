SPECIFICATION FairSpec
CONSTANTS
    Tasks = {t1, t2}
    Accounts = {a1}
    RandBits = 1
    IntBits = 2
    MaxFaults = 1
    MaxErasures = 1
    MaxKills = 1
INVARIANTS
    TypeOK
    MarkMeansScanned
    OneSyncPerAccount
    FarIndexesFound
PROPERTIES
    CatchesUp
CHECK_DEADLOCK FALSE
