SPECIFICATION ProcessSpec
CONSTANTS
    Texts <- MCTexts
    KeyTexts <- MCKeyTexts
    Siblings <- MCSiblings
    MaxNesting = 3
    MaxWidth = 2
    max_payload_bytes = 36
    max_payload_depth = 2
    max_payload_string_length = 3
    Secrets <- MCSecrets
    SecretKey <- MCSecretKey
    DbPassword <- MCDbPassword
    RequestIds <- MCRequestIds
    Tracebacks <- MCTracebacks
    MaxConfigured = 2
    Threads = {t1, t2, t3}
    Keys = {"k1"}
    MaxRequests = 2
    Window = 1
    MaxTime = 4
    MaxAllowed = 7
    MaxRestarts = 1
    None = None
    NULL = NULL
INVARIANTS
    LimitsReachEveryNode
    OneLinePerEvent
    LinesSayAllButSecrets
    TypeOK
    OverrunBounded
PROPERTIES
    DenialsAreJustified
CHECK_DEADLOCK FALSE
