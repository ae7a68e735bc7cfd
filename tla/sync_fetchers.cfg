SPECIFICATION FairSpec
CONSTANTS
    Wallets = {w1}
    Fetchers = {loop, direct}
    Home = Home
    MaxEvents = 2
    MaxFailures = 0
    MaxRestarts = 0
    MaxLogouts = 0
PROPERTIES
    CursorCatchesUp
    CopyConverges
CHECK_DEADLOCK FALSE
