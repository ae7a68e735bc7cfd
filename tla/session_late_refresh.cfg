SPECIFICATION Spec
CONSTANTS
    Platforms = {"mobile"}
    MaxLogins = 1
    MaxTokens <- TokensOfRun
    MaxClients = 1
    MaxRestarts = 0
    PatientUser = TRUE
INVARIANTS
    LogoutIsGlobalCleanUp
CHECK_DEADLOCK FALSE
