-------------------------------- MODULE TimeSlot --------------------------------
(***************************************************************************)
(* findtimeslot, as Graph, EWS and Gmail run it: work out the window,      *)
(* fetch the recipient's schedule, and search it for free slots            *)
(* (internal/common/timeslot).  Time is in whole ticks since a Monday,     *)
(* 00:00 UTC; the loops of the code are steps.                             *)
(***************************************************************************)
EXTENDS Integers, Sequences, FiniteSets, SequencesExt

CONSTANTS Starts,       \* starts of the window to explore
          Ends,         \* ends asked for, 0 = none: a number of working days
          Schedules,    \* schedules the server may return
          Options,      \* search options to explore
          LookAhead,    \* working days in the window when no end is given
          DayLen,       \* ticks in a day
          Grid          \* ticks between candidate starts

Item == [start : Nat, end : Nat, kind : {"busy", "free", "unparsable"}]

\* The hours of the working day are those of one day (timeslot.go 21-22).
Option == [duration : Nat \ {0}, count : Nat \ {0},
           dayStart : 0..DayLen, dayEnd : 0..DayLen, workdaysOnly : BOOLEAN]

ASSUME SlotAssumption ==
    /\ Starts \subseteq Nat /\ Ends \subseteq Nat
    /\ \A s \in Schedules : s \in Seq(Item)
    /\ \A o \in Options : o \in Option
    /\ LookAhead \in Nat
    /\ DayLen \in Nat \ {0} /\ Grid \in Nat \ {0}

VARIABLES
    opts, until,    \* the search options and the end asked for; fixed
    start, end,     \* the window
    pc,             \* "window", "fetch", "sort", "merge", "search", "done"
    added,          \* AddWorkingDays: working days counted
    items,          \* the schedule as fetched
    valid,          \* intervals still to be merged, sorted by start
    merged,         \* busy intervals, merged
    candidate,      \* start of the slot under test
    slots,          \* starts of the slots found
    outcome         \* "none", "failed", "found"

vars == <<opts, until, start, end, pc, added, items, valid, merged, candidate,
          slots, outcome>>

frozen == <<opts, until, start>>

Init ==
    /\ opts \in Options
    /\ until \in Ends
    /\ start \in Starts
    /\ end = start
    /\ pc = "window"
    /\ added = 0
    /\ items = <<>> /\ valid = <<>> /\ merged = <<>>
    /\ candidate = 0
    /\ slots = <<>>
    /\ outcome = "none"

-----------------------------------------------------------------------------
\* Monday to Friday.
Workday(t) == (t \div DayLen) % 7 < 5

\* roundUpToGrid
RoundUp(t) == IF t % Grid = 0 THEN t ELSE t - (t % Grid) + Grid

\* withinWorkingHours: the hours are those of the day the slot starts on.
WithinWorkingHours(s, e) ==
    /\ opts.workdaysOnly => Workday(s)
    /\ opts.dayStart < opts.dayEnd =>
         LET midnight == (s \div DayLen) * DayLen
         IN  s >= midnight + opts.dayStart /\ e <= midnight + opts.dayEnd

\* overlapsAny: the loop over the merged intervals stops at the first that
\* overlaps, or that starts at or after the end of the slot.
OverlapsAny(s, e) ==
    \E i \in DOMAIN merged :
        /\ merged[i].start < e /\ s < merged[i].end
        /\ \A j \in 1..(i - 1) : merged[j].start < e

\* What counts as busy: everything that is not free, has times that can be
\* parsed, and is not empty or inverted.
Kept(item) == item.kind = "busy" /\ item.end > item.start

\* Mutant: an interval inside the one before it cuts that short.
MergeIntoLast(iv) == [merged EXCEPT ![Len(merged)].end = iv.end]

\* Extend the last merged interval by iv.
ExtendLast(iv) ==
    [merged EXCEPT ![Len(merged)].end = IF iv.end > @ THEN iv.end ELSE @]

-----------------------------------------------------------------------------
\* One pass of the loop in AddWorkingDays, or the end that was asked for.
Window ==
    /\ pc = "window"
    /\ \/ /\ until = 0 /\ added < LookAhead
          /\ end' = end + DayLen
          /\ added' = IF Workday(end') THEN added + 1 ELSE added
          /\ UNCHANGED <<pc, outcome>>
       \/ /\ until # 0 \/ added >= LookAhead
          /\ end' = IF until # 0 THEN until ELSE end
          /\ IF end' > start THEN pc' = "fetch" /\ UNCHANGED outcome
                             ELSE pc' = "done" /\ outcome' = "failed"
          /\ UNCHANGED added
    /\ UNCHANGED <<frozen, items, valid, merged, candidate, slots>>

\* The schedule request: an error or an empty answer ends the action.
Fetch ==
    /\ pc = "fetch"
    /\ \/ /\ pc' = "done" /\ outcome' = "failed" /\ UNCHANGED items
       \/ /\ pc' = "sort" /\ items' \in Schedules /\ UNCHANGED outcome
    /\ UNCHANGED <<frozen, end, added, valid, merged, candidate, slots>>

\* The busy intervals in the order of their starts; sort.Slice leaves equal
\* ones in any order.
Sort ==
    /\ pc = "sort"
    /\ pc' = "merge"
    /\ LET kept == {i \in DOMAIN items : Kept(items[i])}
       IN  \E p \in Bijection(1..Cardinality(kept), kept) :
              /\ \A j, k \in DOMAIN p :
                    j < k => items[p[j]].start <= items[p[k]].start
              /\ valid' = [k \in DOMAIN p |-> items[p[k]]]
    /\ UNCHANGED <<frozen, end, added, items, merged, candidate, slots, outcome>>

\* One pass of the loop in mergeIntervals; after the last, the search starts.
Merge ==
    /\ pc = "merge"
    /\ \/ /\ valid # <<>>
          /\ valid' = Tail(valid)
          /\ merged' =
               IF merged # <<>> /\ Head(valid).start <= Last(merged).end
               THEN ExtendLast(Head(valid))
               ELSE Append(merged, [start |-> Head(valid).start,
                                    end |-> Head(valid).end])
          /\ UNCHANGED <<pc, candidate>>
       \/ /\ valid = <<>>
          /\ pc' = "search"
          /\ candidate' = RoundUp(start)
          /\ UNCHANGED <<valid, merged>>
    /\ UNCHANGED <<frozen, end, added, items, slots, outcome>>

Found == pc' = "done" /\ outcome' = "found"

\* Mutant: the search ends one slot late.
FullLate(found) == Len(found) > opts.count

\* Enough slots found.
Full(found) == Len(found) >= opts.count

\* Mutant: continue without moving on.
AdvanceNot == UNCHANGED candidate

\* The loop's post statement.
Advance == candidate' = candidate + Grid

\* One pass of the loop in FindFreeSlots.
Search ==
    /\ pc = "search"
    /\ LET slotEnd == candidate + opts.duration
           free == WithinWorkingHours(candidate, slotEnd)
                   /\ ~OverlapsAny(candidate, slotEnd)
       IN  \/ /\ slotEnd > end
              /\ Found /\ UNCHANGED <<candidate, slots>>
           \/ /\ slotEnd <= end /\ ~free
              /\ Advance /\ UNCHANGED <<pc, outcome, slots>>
           \/ /\ slotEnd <= end /\ free
              /\ slots' = Append(slots, candidate)
              /\ IF Full(slots') THEN Found /\ UNCHANGED candidate
                                 ELSE Advance /\ UNCHANGED <<pc, outcome>>
    /\ UNCHANGED <<frozen, end, added, items, valid, merged>>

Next == Window \/ Fetch \/ Sort \/ Merge \/ Search

Spec == Init /\ [][Next]_vars /\ WF_vars(Next)

-----------------------------------------------------------------------------
\* Every variable stays in its range; no more slots than asked for.
TypeOK ==
    /\ opts \in Options /\ until \in Ends /\ start \in Starts
    /\ end \in Nat /\ added \in 0..LookAhead
    /\ pc \in {"window", "fetch", "sort", "merge", "search", "done"}
    /\ items \in Schedules \cup {<<>>}
    /\ valid \in Seq(Item)
    /\ merged \in Seq([start : Nat, end : Nat])
    /\ candidate \in Nat
    /\ slots \in Seq(Nat) /\ Len(slots) <= opts.count
    /\ outcome \in {"none", "failed", "found"}

\* Tick t is in the working hours of the day that s is in.
HoursTick(s, t) ==
    /\ t \div DayLen = s \div DayLen
    /\ opts.dayStart <= t % DayLen /\ t % DayLen < opts.dayEnd

\* An item that counts as busy holds tick t.
BusyTick(t) ==
    \E i \in DOMAIN items :
        Kept(items[i]) /\ items[i].start <= t /\ t < items[i].end

\* The reference: s is the start of a free slot of the window, tick by tick.
\* Every tick of it is in the working hours of one and the same working day,
\* and none of them is busy.
Free(s) ==
    /\ s % Grid = 0
    /\ start <= s /\ s + opts.duration <= end
    /\ opts.workdaysOnly => Workday(s)
    /\ \A t \in s..(s + opts.duration - 1) :
        /\ opts.dayStart < opts.dayEnd => HoursTick(s, t)
        /\ ~BusyTick(t)

\* No slot is offered that is not free, whatever the order, nesting or adjacency
\* of the items: the intervals are merged, not lost (timeslot.go 34-59, 89-123).
SlotsAreFree == \A k \in DOMAIN slots : Free(slots[k])

\* The answer is the first count free slots, in order, none left out
\* (timeslot.go 40-58).
FirstSlots ==
    outcome = "found" =>
        LET all == {s \in start..end : Free(s)}
            before(s) == {x \in all : x < s}
        IN  {slots[k] : k \in DOMAIN slots}
              = {s \in all : Cardinality(before(s)) < opts.count}
            /\ \A j, k \in DOMAIN slots : j < k => slots[j] < slots[k]

\* The search ends, in a window without a free slot too (timeslot.go 42-57).
SearchEnds == <>(pc = "done")
=============================================================================
