SPECIFICATION Spec
CONSTANTS
    r1 = r1
    r2 = r2
    Requests <- MCRequests
    Configs <- MCConfigs
    Asks <- MCAsks
INVARIANTS
    TypeOK
    AnswersAreTrue
    AnsweredIsLogged
PROPERTIES
    RequestsEnd
CHECK_DEADLOCK FALSE
