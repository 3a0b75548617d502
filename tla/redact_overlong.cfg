SPECIFICATION RedSpec
CONSTANTS
    Workers = {w1, w2}
    Faulty = {}
    Redactors = {w1}
    CompanionTargets = FALSE
    Users = {"ann"}
    Tenants = {"t"}
    Keys = {}
    Bodies <- MCBodies
    TenantOf <- MCTenantOf
    Fields <- MCFields
    Reasons = {"overlong"}
    Admin = "admin"
    Marker = Marker
    RetentionWindow = 0
    MaxId = 2
    MaxTime = 0
    ClockMayStepBack = FALSE
    NULL = NULL
INVARIANTS
    RedactedHasCompanion
CHECK_DEADLOCK FALSE
