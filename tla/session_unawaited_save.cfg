SPECIFICATION Spec
CONSTANTS
    Platforms = {"desktop"}
    MaxLogins = 1
    MaxTokens <- TokensOfRun
    MaxClients = 1
    MaxRestarts = 0
    PatientUser = TRUE
INVARIANTS
    SaveAndReadAwaitEachOther
CHECK_DEADLOCK FALSE
