SPECIFICATION Spec
CONSTANTS
    Msgs = {m1, m2, m3}
    Boxes = {b1, b2}
    Names = {f1, f2}
    Providers = {"pop3", "imap", "jmap", "ews", "msgraph"}
    Count = 2
    MaxRuns = 2
SYMMETRY MCSymmetry
INVARIANTS
    TypeOK
    Preserved
    RemovesOnlySelected
PROPERTIES
    RowsAreTrue
CHECK_DEADLOCK FALSE
