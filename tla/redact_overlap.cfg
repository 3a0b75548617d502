SPECIFICATION WritesSpec
CONSTANTS
    Workers = {w1, w2}
    Faulty = {w1}
    Redactors = {w1, w2}
    CompanionTargets = TRUE
    Users = {"ann"}
    Tenants = {"t"}
    Keys = {}
    Bodies <- MCBodies
    TenantOf <- MCTenantOf
    Fields <- MCCompanionFields
    Reasons = {"fits"}
    Admin = "admin"
    Marker = Marker
    RetentionWindow = 0
    RoleOf <- MCRoleOf
    Filters <- MCFilters
    Periods <- MCPeriods
    Limits = {2}
    MaxReports = 0
    MaxId = 3
    MaxTime = 1
    ClockMayStepBack = FALSE
    NULL = NULL
INVARIANTS
    RowsAccountForFields
    OnlyRedactionsAreBlamed
PROPERTIES
    RedRequestsFinish
    ImplementsQuery
CHECK_DEADLOCK FALSE
