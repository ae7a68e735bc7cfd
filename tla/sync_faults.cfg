SPECIFICATION Spec
CONSTANTS
    Wallets = {w1, w2}
    Fetchers = {loop}
    Home = Home
    MaxEvents = 3
    MaxFailures = 1
    MaxRestarts = 1
    MaxLogouts = 1
INVARIANTS
    TypeOK
    NoEventSkipped
    CacheFollowsDb
    NoOrphanAccount
CHECK_DEADLOCK FALSE
