SPECIFICATION Spec
CONSTANTS
    Writers = {w1, w2}
    Formats = {"json"}
    Declares = {TRUE}
    FlushEvery = 2
    MaxRows = 2
INVARIANT JsonAsksForColumns
CHECK_DEADLOCK FALSE
