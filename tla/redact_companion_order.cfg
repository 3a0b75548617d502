SPECIFICATION RedSpec
CONSTANTS
    Workers = {w1, w2}
    Faulty = {}
    Redactors = {w1, w2}
    CompanionTargets = FALSE
    Users = {"ann"}
    Tenants = {"t"}
    Keys = {}
    Bodies <- MCBodies
    TenantOf <- MCTenantOf
    Fields <- MCDisjointFields
    Reasons = {NULL}
    Admin = "admin"
    Marker = Marker
    RetentionWindow = 0
    MaxId = 3
    MaxTime = 0
    ClockMayStepBack = FALSE
    NULL = NULL
INVARIANTS
    LatestCommitmentIsCurrent
CHECK_DEADLOCK FALSE
