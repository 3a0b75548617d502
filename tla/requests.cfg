SPECIFICATION Spec
CONSTANTS
    Tasks = {r1, r2}
    Endpoints = {"login", "append", "list", "verify", "export", "redact"}
    Users = {"ann"}
    Tenants = {"t1"}
    Configs <- MCConfigs
    WeakKeys = {"weak"}
    RequestIds = {"x"}
    ExpireTime = 1
    MaxTime = 2
    MaxTokens = 1
    MaxRequests = 2
    MaxRuns = 2
    NULL = NULL
INVARIANTS
    TypeOK
    IdsNameTheRequest
    LogAccountsForAnswers
    ChargedWhenAdmitted
    RightsWereConfigured
CHECK_DEADLOCK FALSE
