SPECIFICATION Spec
CONSTANTS
    Wallets = {w1}
    Fetchers = {loop}
    Home = Home
    MaxEvents = 3
    MaxFailures = 0
    MaxRestarts = 1
    MaxLogouts = 0
INVARIANTS
    DeletionTakesAccounts
CHECK_DEADLOCK FALSE
