SPECIFICATION FairSpec
CONSTANTS
    Tasks = {t1, t2}
    Keys = {k1, k2}
    Groups = {0, 1}
    Vals = {local, loaded}
    Loaded = loaded
    MaxFaults = 1
    MaxCalls = 2
    MaxChanges = 1
INVARIANTS
    TypeOK
    CleanStartHasSchema
    DuplicatesNeedRace
    UpsertTakesEffect
    RequestedPathIsFree
PROPERTIES
    WholeKeysUnlessPartial
    MnemonicsHaveRows
    CallsReturn
CHECK_DEADLOCK FALSE
