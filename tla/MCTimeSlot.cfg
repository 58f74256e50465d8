SPECIFICATION Spec
CONSTANTS
    Starts = {33, 40}
    Ends = {0, 40, 57}
    Schedules <- MCSchedules
    Options <- MCOptions
    LookAhead = 2
    DayLen = 8
    Grid = 2
INVARIANTS
    TypeOK
    SlotsAreFree
    FirstSlots
PROPERTIES
    SearchEnds
CHECK_DEADLOCK FALSE
