SPECIFICATION Spec
CONSTANTS
    Writers = {w1, w2}
    Formats = {"csv", "json"}
    Declares = {TRUE, FALSE}
    FlushEvery = 2
    MaxRows = 3
SYMMETRY MCSymmetry
INVARIANTS
    TypeOK
    HeaderFirst
    ClosedIsComplete
    InOrder
    BoundedLoss
CHECK_DEADLOCK FALSE
