SPECIFICATION FairSpec
CONSTANTS
    Tasks = {t1, t2}
    Wallets = {w1, w2}
    NoTask = NoTask
    MaxCalls = 3
    MaxChanges = 1
INVARIANTS
    TypeOK
    SaverHoldsCache
    NotFoundIsJustified
    ResetIsFresh
PROPERTY
    CallsReturn
    KeyServiceSpec
CHECK_DEADLOCK FALSE
