SPECIFICATION Spec
CONSTANTS
    Program <- MCProgram
    MaxItems = 2
    Budget = 1
    Unchecked <- MCUnchecked
    Trusting <- MCTrusting
    Unlogged <- MCUnlogged
    Tolerant <- MCTolerant
    Careless <- MCCareless
INVARIANTS
    TypeOK
    BadRequestsStayHome
    SuccessIsBacked
    FailuresShow
    NeverEmptyHanded
    NothingUnconfirmed
PROPERTIES
    Ends
CHECK_DEADLOCK FALSE
