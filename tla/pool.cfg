SPECIFICATION Spec
CONSTANTS
    Requests = {"p", "x", "h", "i", "l"}
    KindOf <- MCKindOf
    Threads = 3
    PoolSize = 2
    NULL = NULL
INVARIANTS
    TypeOK
    HoldersCanGoOn
PROPERTIES
    RequestsEnd
    LiveAnswers
CHECK_DEADLOCK FALSE
