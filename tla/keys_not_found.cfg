SPECIFICATION Spec
CONSTANTS
    Tasks = {t1, t2}
    Wallets = {w1, w2}
    NoTask = NoTask
    MaxCalls = 2
    MaxChanges = 1
INVARIANTS
    FetchFindsServerKey
CHECK_DEADLOCK FALSE
