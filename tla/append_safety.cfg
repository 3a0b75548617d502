SPECIFICATION Spec
CONSTANTS
    Workers = {w1, w2}
    Faulty = {w1, w2}
    Users = {"ann", "dee", "cy"}
    Tenants = {"t1"}
    Keys = {"k", "j"}
    Bodies <- MCBodies
    TenantOf <- MCTenantOf
    MaxId = 2
    MaxTime = 1
    ClockMayStepBack = TRUE
    NULL = NULL
INVARIANTS
    LinearChain
    ConstraintsNeverFire
    OneEventPerKey
    AnswersMatchRequests
    IInv
PROPERTIES
    CommitsInIdOrder
    ImplementsLog
    RequestsFinish
CHECK_DEADLOCK FALSE
