SPECIFICATION Spec
CONSTANTS
    Tasks = {t1}
    Keys = {k1, k2}
    Groups = {0}
    Vals = {local, loaded}
    Loaded = loaded
    MaxFaults = 0
    MaxCalls = 2
    MaxChanges = 1
INVARIANT
    GetWalletFindsServerWallet
CHECK_DEADLOCK FALSE
