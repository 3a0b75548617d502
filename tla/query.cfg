SPECIFICATION Spec
CONSTANTS
    Rows <- MCRows
    Callers = {"rea", "rex", "aud", "wri"}
    RoleOf <- MCRoleOf
    TenantOf <- MCTenantOf
    Filters <- MCFilters
    Periods <- MCPeriods
    Limits = {1, 2}
    RetentionWindow = 0
    RetentionRuns = TRUE
    MaxId = 3
    MaxTime = 1
    MaxReports = 2
    ClockMayStepBack = TRUE
    NULL = NULL
CONSTRAINT OneKindOfRead
INVARIANTS
    TypeOK
    PagesAscend
    TenantScope
    MissesAreBounded
    LaterReportsExtend
    ClosedPeriodsAreFinal
CHECK_DEADLOCK FALSE
