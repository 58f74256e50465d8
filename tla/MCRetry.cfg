SPECIFICATION Spec
CONSTANTS
    Callers = {"graph", "fetch", "gmail"}
    MaxRetries = 6
    BaseDelay = 1
    MaxBackoff = 4
    MaxRetryAfter = 5
    RetryAfters = {0, 1, 3, 9}
    WordBits = 5
INVARIANTS
    TypeOK
    ResultSound
    NotFoundOnlyAtTheEnd
    CancelStopsRetries
PROPERTIES
    SpacedOut
CHECK_DEADLOCK FALSE
