SPECIFICATION RedSpec
CONSTANTS
    Workers = {w1, w2}
    Faulty = {}
    Redactors = {w1}
    CompanionTargets = FALSE
    Users = {"ann"}
    Tenants = {"t"}
    Keys = {}
    Bodies <- MCMixedBodies
    TenantOf <- MCTenantOf
    Fields <- MCFields
    Reasons = {NULL}
    Admin = "admin"
    Marker = Marker
    RetentionWindow = 0
    MaxId = 3
    MaxTime = 1
    ClockMayStepBack = FALSE
    NULL = NULL
INVARIANT MismatchMeansChanged
CHECK_DEADLOCK FALSE
