SPECIFICATION Spec
CONSTANTS
    Program <- MCProgram
    MaxItems = 2
    Budget = 1
    Unchecked <- MCUnchecked
    Trusting <- MCTrusting
    Unlogged <- MCUnlogged
    Tolerant <- MCTolerant
    Careless <- MCCareless
INVARIANT
    SentMeansSubmitted
CHECK_DEADLOCK FALSE
