SPECIFICATION Spec
CONSTANTS
    Msgs = {m1, m2}
    Boxes = {b1, b2}
    Names = {f1, f2}
    Providers = {"pop3"}
    Count = 1
    MaxRuns = 2
SYMMETRY MCSymmetry
INVARIANTS
    NoLoss
CHECK_DEADLOCK FALSE
