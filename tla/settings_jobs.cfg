SPECIFICATION FairSpec
CONSTANTS
    Tasks = {t1, t2}
    MaxPages = 2
    MaxEvents = 1
INVARIANTS
    TypeOK
    PhraseReachesUser
    
    FlagFollowsServer
    SpinnerHasReason
    EnableClosesItsScope
    
PROPERTIES
    JobsEnd
CHECK_DEADLOCK FALSE
