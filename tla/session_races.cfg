SPECIFICATION FairSpec
CONSTANTS
    Platforms = {"mobile", "desktop"}
    MaxLogins = 2
    MaxTokens <- TokensOfRun
    MaxClients = 2
    MaxRestarts = 1
    PatientUser = TRUE
INVARIANTS
    TypeOK
    OneClient
    LogoutLeavesNothing
    LoginReadsWholeSession
    NoLostRefresh
PROPERTIES
    StoredTokensCatchUp
CHECK_DEADLOCK FALSE
