SPECIFICATION RedSpec
CONSTANTS
    Workers = {w1, w2}
    Faulty = {w1}
    Redactors = {w1}
    CompanionTargets = TRUE
    Users = {"ann"}
    Tenants = {"t"}
    Keys = {"k"}
    Bodies <- MCMixedBodies
    TenantOf <- MCTenantOf
    Fields <- MCMixedFields
    Reasons = {NULL, "overlong"}
    Admin = "admin"
    Marker = Marker
    RetentionWindow = 0
    MaxId = 3
    MaxTime = 1
    ClockMayStepBack = FALSE
    NULL = NULL
CONSTRAINT FewAtATime
INVARIANTS
    RedIInv
    TimestampsFollowIds
    BlameIsHalfDoneRedaction
    DirectChangesAreFound
PROPERTIES
    RedactedStaysRedacted
    RedImplementsLog
    HistoryFrozen
CHECK_DEADLOCK FALSE
