------------------------------ MODULE MCTimeSlot ------------------------------
\* Small instances of TimeSlot: days of eight ticks, a grid of two, and one to
\* three items around a Friday, nested, adjacent, equal, empty and inverted.
EXTENDS TimeSlot

Busy(s, e) == [start |-> s, end |-> e, kind |-> "busy"]

MCItems == {Busy(s, e) : s \in {34, 36}, e \in {33, 36, 38, 58}}
           \cup {Busy(60, 61), Busy(38, 57),
                 [start |-> 34, end |-> 60, kind |-> "free"],
                 [start |-> 34, end |-> 60, kind |-> "unparsable"]}

MCSchedules == {<<>>} \cup UNION {[1..n -> MCItems] : n \in 1..3}

MCOptions ==
    {[duration |-> d, count |-> 2, dayStart |-> 1, dayEnd |-> 7,
      workdaysOnly |-> TRUE] : d \in {2, 3}}
    \cup {[duration |-> 3, count |-> 3, dayStart |-> 4, dayEnd |-> 4,
           workdaysOnly |-> FALSE]}
=============================================================================
