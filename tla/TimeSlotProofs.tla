---------------------------- MODULE TimeSlotProofs ----------------------------
(***************************************************************************)
(* What holds of TimeSlot for any window, schedule, options, day and grid: *)
(* the slots found are exactly the first free ones of the window.  Merging *)
(* loses no busy tick and adds none, so that the search, which looks only  *)
(* at the merged intervals, decides every candidate as the schedule does.  *)
(***************************************************************************)
EXTENDS TimeSlot, FiniteSetTheorems, TLAPS

\* What a phase has not touched is as at the start.
Phases ==
    /\ pc \in {"window", "fetch"} => items = <<>>
    /\ pc \in {"window", "fetch", "sort"} => valid = <<>> /\ merged = <<>>
    /\ pc \notin {"search", "done"} => slots = <<>>
    /\ outcome = "found" => pc = "done"

\* What is still to be merged is of the schedule, in order, and starts after
\* what has been merged.
Queue ==
    /\ \A k \in DOMAIN valid :
          \E i \in DOMAIN items : Kept(items[i]) /\ valid[k] = items[i]
    /\ \A j, k \in DOMAIN valid : j < k => valid[j].start <= valid[k].start
    /\ \A j \in DOMAIN merged, k \in DOMAIN valid : merged[j].start <= valid[k].start

\* The merged intervals are sorted and hold busy ticks only, and every busy item
\* is inside one of them or still to be merged.
Cover ==
    /\ \A j, k \in DOMAIN merged : j < k => merged[j].start <= merged[k].start
    /\ \A k \in DOMAIN merged :
          /\ merged[k].start < merged[k].end
          /\ \A t \in merged[k].start..(merged[k].end - 1) : BusyTick(t)
    /\ pc \in {"merge", "search"} =>
          \A i \in DOMAIN items : Kept(items[i]) =>
              \/ \E k \in DOMAIN valid : valid[k] = items[i]
              \/ \E k \in DOMAIN merged :
                    merged[k].start <= items[i].start /\ items[i].end <= merged[k].end

Increasing == \A j, k \in DOMAIN slots : j < k => slots[j] < slots[k]

\* The search has found every free slot that starts before the candidate.
Progress ==
    pc = "search" =>
        /\ valid = <<>>
        /\ candidate % Grid = 0 /\ start <= candidate
        /\ Len(slots) < opts.count
        /\ {slots[k] : k \in DOMAIN slots}
              = {s \in start..end : Free(s) /\ s < candidate}

\* SlotsAreFree and FirstSlots stand for what the search leaves behind.
IInv == /\ TypeOK /\ Phases /\ Queue /\ Cover
        /\ Increasing /\ Progress /\ SlotsAreFree /\ FirstSlots

-----------------------------------------------------------------------------
\* Arithmetic of days and of the grid.

LEMMA NextProduct ==
    ASSUME NEW G \in Nat \ {0}, NEW q \in Int, NEW k \in Int, q < k
    PROVE  q * G + G <= k * G
<1>1. PICK d \in Nat : k = q + 1 + d
  <2>1. k - q - 1 \in Nat /\ k = q + 1 + (k - q - 1)
    OBVIOUS
  <2>2. QED
    BY <2>1
<1>2. d * G >= 0
  OBVIOUS
<1>3. k * G = q * G + G + d * G
  BY <1>1
<1>4. QED
  BY <1>2, <1>3

LEMMA DivMod ==
    ASSUME NEW G \in Nat \ {0}, NEW t \in Nat
    PROVE  /\ t \div G \in Nat /\ t % G \in 0..(G - 1)
           /\ t = (t \div G) * G + (t % G)
OBVIOUS

LEMMA DivModUnique ==
    ASSUME NEW G \in Nat \ {0}, NEW t \in Nat, NEW q \in Nat, q * G <= t, t < q * G + G
    PROVE  t \div G = q /\ t % G = t - q * G
<1>1. t \div G \in Nat /\ t % G \in 0..(G - 1) /\ t = (t \div G) * G + (t % G)
  BY DivMod
<1>2. ~(q < t \div G)
  BY <1>1, NextProduct
<1>3. ~(t \div G < q)
  BY <1>1, NextProduct
<1>4. t \div G = q
  BY <1>1, <1>2, <1>3
<1>5. QED
  BY <1>1, <1>4

LEMMA NextMultiple ==
    ASSUME NEW G \in Nat \ {0}, NEW s \in Nat, NEW t \in Nat, s % G = 0, t % G = 0, s < t
    PROVE  s + G <= t
<1>1. s = (s \div G) * G /\ t = (t \div G) * G /\ s \div G \in Nat /\ t \div G \in Nat
  BY DivMod
<1>2. s \div G < t \div G
  <2>1. CASE t \div G = s \div G
    BY <1>1, <2>1
  <2>2. CASE t \div G < s \div G
    <3>1. (t \div G) * G + G <= (s \div G) * G
      BY <1>1, <2>2, NextProduct
    <3>2. QED
      BY <1>1, <3>1
  <2>3. QED
    BY <1>1, <2>1, <2>2
<1>3. QED
  <2>1. (s \div G) * G + G <= (t \div G) * G
    BY <1>1, <1>2, NextProduct
  <2>2. QED
    BY <1>1, <2>1

LEMMA MultipleMod ==
    ASSUME NEW G \in Nat \ {0}, NEW q \in Nat
    PROVE  (q * G) % G = 0
<1>1. q * G \in Nat
  OBVIOUS
<1>2. QED
  BY <1>1, DivModUnique

-----------------------------------------------------------------------------
LEMMA SeqElement ==
    ASSUME NEW S, NEW q \in Seq(S), NEW k \in DOMAIN q
    PROVE  q[k] \in S
OBVIOUS

\* The constants, as the steps below need them.
LEMMA Constants ==
    ASSUME TypeOK
    PROVE  /\ DayLen \in Nat \ {0} /\ Grid \in Nat \ {0}
           /\ opts.duration \in Nat \ {0} /\ opts.count \in Nat \ {0}
           /\ opts.dayStart \in 0..DayLen /\ opts.dayEnd \in 0..DayLen
           /\ start \in Nat /\ until \in Nat /\ end \in Nat /\ candidate \in Nat
           /\ items \in Seq(Item)
<1>1. items \in Seq(Item)
  <2>1. <<>> \in Seq(Item)
    OBVIOUS
  <2>2. QED
    BY <2>1, SlotAssumption DEF TypeOK
<1>2. QED
  BY <1>1, SlotAssumption DEF TypeOK, Option

\* The first n members of a finite set, as an increasing sequence that holds
\* all of the set, or n of it below every other.
LEMMA FirstOfSet ==
    ASSUME NEW S \in SUBSET Nat, IsFiniteSet(S), NEW n \in Nat, NEW q \in Seq(Nat),
           \A j, k \in 1..Len(q) : j < k => q[j] < q[k],
           \A k \in 1..Len(q) : q[k] \in S,
           Len(q) <= n,
           \A s \in S : \/ \E k \in 1..Len(q) : s = q[k]
                        \/ Len(q) = n /\ \A k \in 1..Len(q) : q[k] < s
    PROVE  {q[k] : k \in DOMAIN q} = {s \in S : Cardinality({x \in S : x < s}) < n}
<1> DEFINE Below(s) == {x \in S : x < s}
<1>1. Len(q) \in Nat
  OBVIOUS
<1>2. \A s \in S : IsFiniteSet(Below(s))
  BY FS_Subset
<1>3. \A m \in 0..Len(q) :
         /\ IsFiniteSet({q[k] : k \in 1..m})
         /\ Cardinality({q[k] : k \in 1..m}) = m
  <2> TAKE m \in 0..Len(q)
  <2> DEFINE f == [k \in 1..m |-> q[k]]
  <2>1. m \in Nat
    BY <1>1
  <2>2. f \in Surjection(1..m, {q[k] : k \in 1..m})
    BY DEF Surjection
  <2>3. ASSUME NEW j \in 1..m, NEW k \in 1..m, j # k
        PROVE  q[j] # q[k]
    <3>1. j \in 1..Len(q) /\ k \in 1..Len(q) /\ (j < k \/ k < j)
      BY <1>1, <2>3
    <3>2. q[j] \in Nat /\ q[k] \in Nat /\ (q[j] < q[k] \/ q[k] < q[j])
      BY <3>1
    <3>3. QED
      BY <3>2
  <2>4. f \in Injection(1..m, {q[k] : k \in 1..m})
    BY <2>3 DEF Injection, IsInjective
  <2>5. ExistsBijection(1..m, {q[k] : k \in 1..m})
    BY <2>2, <2>4 DEF ExistsBijection, Bijection
  <2>6. QED
    BY <2>1, <2>5, FS_CountingElements, FS_NatBijection
<1>4. ASSUME NEW k \in 1..Len(q)
      PROVE  Cardinality(Below(q[k])) < n
  <2>1. Below(q[k]) = {q[j] : j \in 1..(k - 1)}
    <3>1. ASSUME NEW x \in Below(q[k])
          PROVE  x \in {q[j] : j \in 1..(k - 1)}
      <4>1. PICK j \in 1..Len(q) : x = q[j]
        OBVIOUS
      <4>2. j < k
        BY <4>1, <1>1
      <4>3. j \in 1..(k - 1)
        BY <4>2, <1>1
      <4>4. QED
        BY <4>1, <4>3
    <3>2. ASSUME NEW j \in 1..(k - 1)
          PROVE  q[j] \in Below(q[k])
      BY <1>1
    <3>3. QED
      BY <3>1, <3>2
  <2>2. k - 1 \in 0..Len(q) /\ k - 1 < n
    BY <1>1
  <2>3. Cardinality(Below(q[k])) = k - 1
    BY <2>1, <2>2, <1>3
  <2>4. QED
    BY <2>2, <2>3
<1>5. ASSUME NEW s \in S, ~(\E k \in 1..Len(q) : s = q[k])
      PROVE  ~(Cardinality(Below(s)) < n)
  <2>1. Len(q) = n /\ \A k \in 1..Len(q) : q[k] < s
    BY <1>5
  <2>2. {q[k] : k \in 1..n} \subseteq Below(s)
    BY <2>1
  <2>3. Cardinality({q[k] : k \in 1..n}) = n
    <3>1. n \in 0..Len(q)
      BY <2>1, <1>1
    <3>2. QED
      BY <3>1, <1>3
  <2>4. n <= Cardinality(Below(s)) /\ Cardinality(Below(s)) \in Nat
    BY <2>2, <2>3, <1>2, FS_Subset, FS_CardinalityType
  <2>5. QED
    BY <2>4
<1>6. ASSUME NEW s \in S
      PROVE  Cardinality(Below(s)) < n <=> \E k \in 1..Len(q) : s = q[k]
  BY <1>4, <1>5
<1>7. {q[k] : k \in DOMAIN q} = {q[k] : k \in 1..Len(q)}
  OBVIOUS
<1>8. \A k \in 1..Len(q) : q[k] \in S
  OBVIOUS
<1>9. {q[k] : k \in 1..Len(q)} = {s \in S : Cardinality(Below(s)) < n}
  BY <1>6, <1>8
<1>10. QED
  BY <1>7, <1>9

-----------------------------------------------------------------------------
\* The test of a candidate against the merged intervals and the hours of a day
\* is the tick by tick definition of a free slot.

LEMMA WithinIsTicks ==
    ASSUME TypeOK, NEW s \in Nat
    PROVE  WithinWorkingHours(s, s + opts.duration) <=>
             /\ opts.workdaysOnly => Workday(s)
             /\ opts.dayStart < opts.dayEnd =>
                  \A t \in s..(s + opts.duration - 1) : HoursTick(s, t)
<1> DEFINE q == s \div DayLen
           e == s + opts.duration
           m == q * DayLen
<1>1. /\ DayLen \in Nat \ {0} /\ opts.duration \in Nat \ {0}
      /\ opts.dayStart \in 0..DayLen /\ opts.dayEnd \in 0..DayLen
  BY Constants
<1>2. q \in Nat /\ m \in Nat /\ e \in Nat /\ s < e
  <2>1. q \in Nat
    BY <1>1, DivMod
  <2>2. QED
    BY <1>1, <2>1
<1>3. ASSUME s >= m + opts.dayStart, e <= m + opts.dayEnd
      PROVE  \A t \in s..(e - 1) : HoursTick(s, t)
  <2> TAKE t \in s..(e - 1)
  <2> HIDE DEF q, m, e
  <2>1. t \in Nat /\ m <= t /\ t < m + DayLen
    BY <1>1, <1>2, <1>3
  <2>2. t \div DayLen = q /\ t % DayLen = t - m
    BY <1>1, <1>2, <2>1, DivModUnique DEF m
  <2>3. QED
    BY <1>1, <1>2, <1>3, <2>1, <2>2 DEF HoursTick, q
<1>4. ASSUME \A t \in s..(e - 1) : HoursTick(s, t)
      PROVE  s >= m + opts.dayStart /\ e <= m + opts.dayEnd
  <2> HIDE DEF q, m, e
  <2>1. HoursTick(s, s) /\ HoursTick(s, e - 1) /\ e - 1 \in Nat
    BY <1>2, <1>4
  <2>2. s = m + (s % DayLen) /\ e - 1 = m + ((e - 1) % DayLen)
        /\ s % DayLen \in Nat /\ (e - 1) % DayLen \in Nat
    <3>1. ASSUME NEW t \in Nat, t \div DayLen = q
          PROVE  t = m + (t % DayLen) /\ t % DayLen \in Nat
      <4>1. t = (t \div DayLen) * DayLen + (t % DayLen) /\ t % DayLen \in 0..(DayLen - 1)
        BY <1>1, DivMod
      <4>2. t = m + (t % DayLen)
        BY <3>1, <4>1 DEF m
      <4>3. t % DayLen \in Nat
        BY <1>1, <4>1
      <4>4. QED
        BY <4>2, <4>3
    <3>2. QED
      BY <2>1, <3>1 DEF HoursTick, q
  <2>3. QED
    BY <1>1, <1>2, <2>1, <2>2 DEF HoursTick
<1>5. WithinWorkingHours(s, e) <=>
             /\ opts.workdaysOnly => Workday(s)
             /\ opts.dayStart < opts.dayEnd =>
                  s >= m + opts.dayStart /\ e <= m + opts.dayEnd
  BY DEF WithinWorkingHours
<1>6. (s >= m + opts.dayStart /\ e <= m + opts.dayEnd) <=> \A t \in s..(e - 1) : HoursTick(s, t)
  <2> HIDE DEF q, m, e
  <2>1. QED
    BY <1>3, <1>4
<1>7. QED
  <2> HIDE DEF q, m
  <2>1. QED
    BY <1>1, <1>5, <1>6

LEMMA OverlapIsBusy ==
    ASSUME TypeOK, Cover, pc = "search", valid = <<>>,
           NEW s \in Nat, NEW e \in Nat, s < e
    PROVE  OverlapsAny(s, e) <=> \E t \in s..(e - 1) : BusyTick(t)
<1>1. merged \in Seq([start : Nat, end : Nat]) /\ items \in Seq(Item)
  BY Constants DEF TypeOK
<1>2. \A k \in DOMAIN merged : merged[k].start \in Nat /\ merged[k].end \in Nat
  <2>1. \A k \in DOMAIN merged : merged[k] \in [start : Nat, end : Nat]
    BY <1>1, SeqElement
  <2>2. QED
    BY <2>1
<1>3. ASSUME NEW k \in DOMAIN merged, merged[k].start < e, s < merged[k].end
      PROVE  \E t \in s..(e - 1) : BusyTick(t)
  <2> DEFINE t == IF s < merged[k].start THEN merged[k].start ELSE s
  <2>1. t \in s..(e - 1) /\ t \in merged[k].start..(merged[k].end - 1)
    BY <1>2, <1>3 DEF Cover
  <2>2. BusyTick(t)
    BY <2>1 DEF Cover
  <2>3. QED
    BY <2>1, <2>2
<1>4. ASSUME NEW t \in s..(e - 1), BusyTick(t)
      PROVE  OverlapsAny(s, e)
  <2>1. PICK i \in DOMAIN items :
            Kept(items[i]) /\ items[i].start <= t /\ t < items[i].end
    BY <1>4 DEF BusyTick
  <2>2. items[i].start \in Nat /\ items[i].end \in Nat
    <3>1. items[i] \in Item
      BY <1>1
    <3>2. QED
      BY <3>1 DEF Item
  <2>3. PICK k \in DOMAIN merged :
            merged[k].start <= items[i].start /\ items[i].end <= merged[k].end
    BY <2>1 DEF Cover
  <2>4. merged[k].start < e /\ s < merged[k].end
    BY <1>2, <2>1, <2>2, <2>3
  <2>5. ASSUME NEW j \in 1..(k - 1)
        PROVE  merged[j].start < e
    <3>1. j \in DOMAIN merged /\ j < k
      BY <1>1
    <3>2. merged[j].start <= merged[k].start
      BY <3>1 DEF Cover
    <3>3. QED
      BY <1>2, <2>4, <3>1, <3>2
  <2>6. QED
    BY <2>4, <2>5 DEF OverlapsAny
<1>5. QED
  BY <1>3, <1>4 DEF OverlapsAny

LEMMA FreeTest ==
    ASSUME TypeOK, Cover, Progress, pc = "search",
           candidate + opts.duration <= end
    PROVE  Free(candidate) <=>
             /\ WithinWorkingHours(candidate, candidate + opts.duration)
             /\ ~OverlapsAny(candidate, candidate + opts.duration)
<1> DEFINE e == candidate + opts.duration
<1>1. candidate \in Nat /\ e \in Nat /\ candidate < e /\ opts.duration \in Nat
  BY Constants
<1>2. candidate % Grid = 0 /\ start <= candidate /\ valid = <<>>
  BY DEF Progress
<1>3. OverlapsAny(candidate, e) <=> \E t \in candidate..(e - 1) : BusyTick(t)
  BY <1>1, <1>2, OverlapIsBusy
<1>4. WithinWorkingHours(candidate, e) <=>
             /\ opts.workdaysOnly => Workday(candidate)
             /\ opts.dayStart < opts.dayEnd =>
                  \A t \in candidate..(e - 1) : HoursTick(candidate, t)
  BY <1>1, WithinIsTicks
<1>5. Free(candidate) <=>
             /\ opts.workdaysOnly => Workday(candidate)
             /\ opts.dayStart < opts.dayEnd =>
                  \A t \in candidate..(e - 1) : HoursTick(candidate, t)
             /\ ~ \E t \in candidate..(e - 1) : BusyTick(t)
  BY <1>1, <1>2 DEF Free
<1>6. QED
  BY <1>3, <1>4, <1>5

-----------------------------------------------------------------------------
\* One lemma for each action.

LEMMA InitIInv == Init => IInv
<1> SUFFICES ASSUME Init PROVE IInv
  OBVIOUS
<1> USE DEF Init
<1>1. TypeOK
  <2>1. start \in Nat /\ LookAhead \in Nat /\ opts.count \in Nat
    BY SlotAssumption DEF Option
  <2>2. <<>> \in Seq(Item) /\ <<>> \in Seq([start : Nat, end : Nat]) /\ <<>> \in Seq(Nat)
    OBVIOUS
  <2>3. QED
    BY <2>1, <2>2 DEF TypeOK
<1>2. Phases /\ Queue /\ Cover /\ Increasing /\ Progress
  BY DEF Phases, Queue, Cover, Increasing, Progress
<1>3. SlotsAreFree /\ FirstSlots
  BY DEF SlotsAreFree, FirstSlots
<1>4. QED
  BY <1>1, <1>2, <1>3 DEF IInv

LEMMA WindowIInv == IInv /\ Window => IInv'
<1> SUFFICES ASSUME IInv, Window PROVE IInv'
  OBVIOUS
<1>1. /\ TypeOK /\ pc = "window" /\ items = <<>> /\ valid = <<>> /\ merged = <<>>
      /\ slots = <<>> /\ outcome # "found"
      /\ UNCHANGED <<frozen, items, valid, merged, candidate, slots>>
  BY DEF Window, IInv, Phases
<1>2. pc' \in {"window", "fetch", "done"} /\ outcome' \in {outcome, "failed"}
  BY <1>1 DEF Window
<1>3. end' \in Nat /\ added' \in 0..LookAhead
  BY <1>1, Constants, SlotAssumption DEF Window, TypeOK
<1>4. TypeOK'
  BY <1>1, <1>2, <1>3 DEF TypeOK, frozen
<1>5. Phases' /\ Queue' /\ Cover' /\ Progress'
  BY <1>1, <1>2 DEF Phases, Queue, Cover, Progress
<1>6. Increasing' /\ SlotsAreFree' /\ FirstSlots'
  BY <1>1, <1>2 DEF Increasing, SlotsAreFree, FirstSlots
<1>7. QED
  BY <1>4, <1>5, <1>6 DEF IInv

LEMMA FetchIInv == IInv /\ Fetch => IInv'
<1> SUFFICES ASSUME IInv, Fetch PROVE IInv'
  OBVIOUS
<1>1. /\ TypeOK /\ pc = "fetch" /\ items = <<>> /\ valid = <<>> /\ merged = <<>>
      /\ slots = <<>> /\ outcome # "found"
      /\ UNCHANGED <<frozen, end, added, valid, merged, candidate, slots>>
  BY DEF Fetch, IInv, Phases
<1>2. /\ pc' \in {"sort", "done"} /\ outcome' \in {outcome, "failed"}
      /\ items' \in Schedules \cup {<<>>}
  BY <1>1 DEF Fetch
<1>3. TypeOK'
  BY <1>1, <1>2 DEF TypeOK, frozen
<1>4. Phases' /\ Queue' /\ Cover' /\ Progress'
  BY <1>1, <1>2 DEF Phases, Queue, Cover, Progress
<1>5. Increasing' /\ SlotsAreFree' /\ FirstSlots'
  BY <1>1, <1>2 DEF Increasing, SlotsAreFree, FirstSlots
<1>6. QED
  BY <1>3, <1>4, <1>5 DEF IInv

\* Sorting keeps every busy item, and no other.
LEMMA SortIInv == IInv /\ Sort => IInv'
<1> SUFFICES ASSUME IInv, Sort PROVE IInv'
  OBVIOUS
<1> DEFINE kept == {i \in DOMAIN items : Kept(items[i])}
           n == Cardinality(kept)
<1>1. /\ TypeOK /\ pc = "sort" /\ pc' = "merge" /\ valid = <<>> /\ merged = <<>>
      /\ slots = <<>> /\ outcome # "found"
      /\ UNCHANGED <<frozen, end, added, items, merged, candidate, slots, outcome>>
  BY DEF Sort, IInv, Phases
<1>2. PICK p \in Bijection(1..n, kept) :
         /\ \A j, k \in DOMAIN p : j < k => items[p[j]].start <= items[p[k]].start
         /\ valid' = [k \in DOMAIN p |-> items[p[k]]]
  BY DEF Sort
<1>3. /\ p \in [1..n -> kept]
      /\ \A i \in kept : \E k \in 1..n : p[k] = i
  BY DEF Bijection, Injection, Surjection
<1>4. n \in Nat
  <2>1. items \in Seq(Item)
    BY <1>1, Constants
  <2>2. IsFiniteSet(DOMAIN items)
    BY <2>1, FS_Interval
  <2>3. IsFiniteSet(kept)
    BY <2>2, FS_Subset
  <2>4. QED
    BY <2>3, FS_CardinalityType
<1>5. \A k \in 1..n : items[p[k]] \in Item /\ Kept(items[p[k]]) /\ p[k] \in DOMAIN items
  <2>1. items \in Seq(Item)
    BY <1>1, Constants
  <2>2. TAKE k \in 1..n
  <2>3. p[k] \in DOMAIN items /\ Kept(items[p[k]])
    BY <1>3
  <2>4. QED
    BY <2>1, <2>3, SeqElement
<1>6. valid' = [k \in 1..n |-> items[p[k]]]
  BY <1>2, <1>3
<1>7. valid' \in Seq(Item) /\ DOMAIN valid' = 1..n
  BY <1>4, <1>5, <1>6
<1>8. TypeOK'
  BY <1>1, <1>7 DEF TypeOK, frozen
<1>9. Queue'
  <2>1. ASSUME NEW k \in DOMAIN valid'
        PROVE  \E i \in DOMAIN items' : Kept(items'[i]) /\ valid'[k] = items'[i]
    BY <1>1, <1>5, <1>6, <1>7
  <2>2. ASSUME NEW j \in DOMAIN valid', NEW k \in DOMAIN valid', j < k
        PROVE  valid'[j].start <= valid'[k].start
    <3>1. j \in DOMAIN p /\ k \in DOMAIN p
      BY <1>3, <1>7
    <3>2. QED
      BY <1>2, <2>2, <3>1
  <2>3. DOMAIN merged' = {}
    BY <1>1
  <2>4. QED
    BY <2>1, <2>2, <2>3 DEF Queue
<1>10. Cover'
  <2>1. \A i \in DOMAIN items : Kept(items[i]) => \E k \in DOMAIN valid' : valid'[k] = items[i]
    BY <1>3, <1>6, <1>7
  <2>2. QED
    BY <1>1, <2>1 DEF Cover
<1>11. Phases' /\ Progress'
  BY <1>1 DEF Phases, Progress
<1>12. Increasing' /\ SlotsAreFree' /\ FirstSlots'
  BY <1>1 DEF Increasing, SlotsAreFree, FirstSlots
<1>13. QED
  BY <1>8, <1>9, <1>10, <1>11, <1>12 DEF IInv

\* Merging the next interval: the last merged interval grows to hold it, or it
\* is added as it is.  Either way it is held, and only its own ticks are added.
LEMMA MergePassIInv ==
    ASSUME IInv, Merge, valid # <<>>
    PROVE  IInv'
<1> DEFINE iv == Head(valid)
           m == Len(merged)
           Joins == merged # <<>> /\ iv.start <= Last(merged).end
           R == [start : Nat, end : Nat]
<1>1. /\ TypeOK /\ Queue /\ Cover
      /\ pc = "merge" /\ slots = <<>> /\ outcome # "found"
  BY DEF Merge, IInv, Phases
<1>2. /\ UNCHANGED <<frozen, end, added, items, slots, outcome, pc, candidate>>
      /\ valid' = Tail(valid)
      /\ merged' = IF Joins THEN ExtendLast(iv)
                            ELSE Append(merged, [start |-> iv.start, end |-> iv.end])
  BY DEF Merge
<1>3. valid \in Seq(Item) /\ merged \in Seq(R) /\ items \in Seq(Item)
  BY <1>1, Constants DEF TypeOK
<1>4. m \in Nat
  BY <1>3
<1>5. /\ valid' \in Seq(Item) /\ DOMAIN valid' = 1..(Len(valid) - 1)
      /\ \A k \in DOMAIN valid' : k + 1 \in DOMAIN valid /\ valid'[k] = valid[k + 1]
  BY <1>2, <1>3
<1>6. 1 \in DOMAIN valid /\ iv = valid[1] /\ iv \in Item
      /\ \A k \in DOMAIN valid : iv.start <= valid[k].start
  <2>1. 1 \in DOMAIN valid /\ iv = valid[1]
    BY <1>3
  <2>2. iv \in Item
    BY <1>3, <2>1, SeqElement
  <2>3. ASSUME NEW k \in DOMAIN valid
        PROVE  iv.start <= valid[k].start
    <3>1. k = 1 \/ 1 < k
      BY <1>3
    <3>2. iv.start \in Nat
      BY <2>2 DEF Item
    <3>3. QED
      BY <1>1, <2>1, <3>1, <3>2 DEF Queue
  <2>4. QED
    BY <2>1, <2>2, <2>3
<1>7. iv.start \in Nat /\ iv.end \in Nat /\ iv.start < iv.end
  <2>1. PICK i \in DOMAIN items : Kept(items[i]) /\ iv = items[i]
    BY <1>1, <1>6 DEF Queue
  <2>2. QED
    BY <1>6, <2>1 DEF Item, Kept
<1>8. \A k \in DOMAIN merged : merged[k] \in R /\ merged[k].start \in Nat
                               /\ merged[k].end \in Nat /\ merged[k].start <= iv.start
  <2> TAKE k \in DOMAIN merged
  <2>1. merged[k] \in R
    BY <1>3, SeqElement
  <2>2. merged[k].start <= iv.start
    BY <1>1, <1>6 DEF Queue
  <2>3. QED
    BY <2>1, <2>2
<1>9. \A t \in iv.start..(iv.end - 1) : BusyTick(t)
  <2>1. PICK i \in DOMAIN items : Kept(items[i]) /\ iv = items[i]
    BY <1>1, <1>6 DEF Queue
  <2>2. QED
    BY <1>7, <2>1 DEF BusyTick
<1>10. \A t : BusyTick(t)' <=> BusyTick(t)
  BY <1>2 DEF BusyTick
\* What merged' is: the old intervals, the last of them perhaps longer or one
\* more; every old interval is inside a new one, and so is iv.
<1>11. /\ merged' \in Seq(R)
       /\ \A j, k \in DOMAIN merged' : j < k => merged'[j].start <= merged'[k].start
       /\ \A k \in DOMAIN merged' : merged'[k].start <= iv.start
       /\ \A k \in DOMAIN merged' :
             /\ merged'[k].start < merged'[k].end
             /\ \A t \in merged'[k].start..(merged'[k].end - 1) : BusyTick(t)
       /\ \A k \in DOMAIN merged : /\ k \in DOMAIN merged'
                                   /\ merged'[k].start <= merged[k].start
                                   /\ merged[k].end <= merged'[k].end
       /\ \E k \in DOMAIN merged' : merged'[k].start <= iv.start /\ iv.end <= merged'[k].end
  <2>1. CASE Joins
    <3> DEFINE hi == IF iv.end > merged[m].end THEN iv.end ELSE merged[m].end
    <3>1. m \in DOMAIN merged /\ m # 0 /\ Last(merged) = merged[m]
      BY <1>3, <2>1 DEF Last
    <3>2. merged' = [merged EXCEPT ![m].end = hi]
      BY <1>2, <2>1 DEF ExtendLast
    <3>3. hi \in Nat /\ merged[m].end <= hi /\ iv.end <= hi
          /\ (hi = iv.end \/ hi = merged[m].end)
      BY <1>7, <1>8, <3>1
    <3> HIDE DEF hi, iv
    <3>4. /\ merged' \in Seq(R) /\ DOMAIN merged' = DOMAIN merged
          /\ merged'[m].start = merged[m].start /\ merged'[m].end = hi
          /\ \A k \in DOMAIN merged : k # m => merged'[k] = merged[k]
      <4>1. [merged[m] EXCEPT !.end = hi] \in R
            /\ [merged[m] EXCEPT !.end = hi].start = merged[m].start
            /\ [merged[m] EXCEPT !.end = hi].end = hi
        BY <1>8, <3>1, <3>3
      <4>2. merged' = [merged EXCEPT ![m] = [merged[m] EXCEPT !.end = hi]]
        BY <3>2
      <4> DEFINE r == [merged[m] EXCEPT !.end = hi]
      <4> HIDE DEF R, r
      <4>3. merged' = [merged EXCEPT ![m] = r]
        BY <4>2 DEF r
      <4>4. r \in R /\ r.start = merged[m].start /\ r.end = hi
        BY <4>1 DEF r
      <4>5. merged' \in Seq(R) /\ DOMAIN merged' = DOMAIN merged
        BY <1>3, <3>1, <4>3, <4>4
      <4>6. merged'[m] = r /\ \A k \in DOMAIN merged : k # m => merged'[k] = merged[k]
        BY <1>3, <3>1, <4>3
      <4>7. QED
        BY <4>4, <4>5, <4>6
    <3>5. \A k \in DOMAIN merged : merged'[k].start = merged[k].start
      BY <3>4
    <3>6. \A t \in merged[m].start..(hi - 1) : BusyTick(t)
      <4> TAKE t \in merged[m].start..(hi - 1)
      <4>1. CASE t < merged[m].end
        BY <1>1, <1>8, <3>1, <3>3, <4>1 DEF Cover
      <4>2. CASE merged[m].end <= t
        <5>1. t \in iv.start..(iv.end - 1)
          BY <1>7, <1>8, <2>1, <3>1, <3>3, <4>2
        <5>2. QED
          BY <1>9, <5>1
      <4>3. QED
        BY <1>8, <3>1, <3>3, <4>1, <4>2
    <3>7. ASSUME NEW k \in DOMAIN merged'
          PROVE  /\ merged'[k].start < merged'[k].end
                 /\ \A t \in merged'[k].start..(merged'[k].end - 1) : BusyTick(t)
      <4>1. CASE k = m
        BY <1>1, <1>8, <3>1, <3>3, <3>4, <3>6, <4>1 DEF Cover
      <4>2. CASE k # m
        BY <1>1, <3>4, <4>2 DEF Cover
      <4>3. QED
        BY <4>1, <4>2
    <3>8. \A j, k \in DOMAIN merged' : j < k => merged'[j].start <= merged'[k].start
      BY <1>1, <3>4, <3>5 DEF Cover
    <3>9. \A k \in DOMAIN merged : /\ k \in DOMAIN merged'
                                   /\ merged'[k].start <= merged[k].start
                                   /\ merged[k].end <= merged'[k].end
      BY <1>8, <3>1, <3>3, <3>4, <3>5
    <3>10. merged'[m].start <= iv.start /\ iv.end <= merged'[m].end /\ m \in DOMAIN merged'
      BY <1>8, <3>1, <3>3, <3>4
    <3>11. \A k \in DOMAIN merged' : merged'[k].start <= iv.start
      BY <1>8, <3>4, <3>5
    <3>12. QED
      BY <3>4, <3>7, <3>8, <3>9, <3>10, <3>11
  <2>2. CASE ~Joins
    <3> DEFINE r == [start |-> iv.start, end |-> iv.end]
    <3>1. r \in R /\ r.start = iv.start /\ r.end = iv.end
      BY <1>7
    <3>2. merged' = Append(merged, r)
      BY <1>2, <2>2
    <3> HIDE DEF R, r, iv
    <3>3. /\ merged' \in Seq(R) /\ DOMAIN merged' = 1..(m + 1) /\ DOMAIN merged = 1..m
          /\ merged'[m + 1] = r
          /\ \A k \in 1..m : merged'[k] = merged[k]
      BY <1>3, <3>1, <3>2
    <3>4. \A k \in DOMAIN merged' : \/ k \in DOMAIN merged /\ merged'[k] = merged[k]
                                    \/ merged'[k] = r
      <4> TAKE k \in DOMAIN merged'
      <4>1. k \in 1..m \/ k = m + 1
        BY <1>4, <3>3
      <4>2. QED
        BY <3>3, <4>1
    <3>5. ASSUME NEW k \in DOMAIN merged'
          PROVE  /\ merged'[k].start < merged'[k].end
                 /\ \A t \in merged'[k].start..(merged'[k].end - 1) : BusyTick(t)
                 /\ merged'[k].start <= iv.start
      <4>1. CASE k \in DOMAIN merged /\ merged'[k] = merged[k]
        BY <1>1, <1>8, <4>1 DEF Cover
      <4>2. CASE merged'[k] = r
        BY <1>7, <1>9, <3>1, <4>2
      <4>3. QED
        BY <3>4, <4>1, <4>2
    <3>6. ASSUME NEW j \in DOMAIN merged', NEW k \in DOMAIN merged', j < k
          PROVE  merged'[j].start <= merged'[k].start
      <4>1. j \in DOMAIN merged /\ merged'[j] = merged[j]
        BY <1>4, <3>3, <3>6
      <4>2. CASE k \in DOMAIN merged /\ merged'[k] = merged[k]
        BY <1>1, <3>6, <4>1, <4>2 DEF Cover
      <4>3. CASE merged'[k] = r
        BY <1>8, <3>1, <4>1, <4>3
      <4>4. QED
        BY <3>4, <4>2, <4>3
    <3>7. \A k \in DOMAIN merged : k \in DOMAIN merged' /\ merged'[k] = merged[k]
      BY <1>4, <3>3
    <3>8. m + 1 \in DOMAIN merged' /\ merged'[m + 1].start = iv.start
          /\ merged'[m + 1].end = iv.end
      BY <1>4, <3>1, <3>3
    <3>9. \A k \in DOMAIN merged : /\ k \in DOMAIN merged'
                                   /\ merged'[k].start <= merged[k].start
                                   /\ merged[k].end <= merged'[k].end
      BY <1>8, <3>7
    <3>10. QED
      BY <1>7, <3>3, <3>5, <3>6, <3>8, <3>9
  <2>3. QED
    BY <2>1, <2>2
<1> HIDE DEF iv
<1>12. TypeOK'
  BY <1>1, <1>2, <1>5, <1>11 DEF TypeOK, frozen
<1>13. Queue'
  <2>1. ASSUME NEW k \in DOMAIN valid'
        PROVE  \E i \in DOMAIN items : Kept(items[i]) /\ valid'[k] = items[i]
    BY <1>1, <1>5 DEF Queue
  <2>2. ASSUME NEW j \in DOMAIN valid', NEW k \in DOMAIN valid', j < k
        PROVE  valid'[j].start <= valid'[k].start
    <3>1. /\ j + 1 \in DOMAIN valid /\ k + 1 \in DOMAIN valid /\ j + 1 < k + 1
          /\ valid'[j] = valid[j + 1] /\ valid'[k] = valid[k + 1]
      BY <1>5, <2>2
    <3>2. QED
      BY <1>1, <3>1 DEF Queue
  <2>3. ASSUME NEW j \in DOMAIN merged', NEW k \in DOMAIN valid'
        PROVE  merged'[j].start <= valid'[k].start
    <3>1. k + 1 \in DOMAIN valid /\ valid'[k] = valid[k + 1]
      BY <1>5
    <3>2. iv.start <= valid'[k].start
      BY <1>6, <3>1
    <3>3. valid'[k].start \in Nat
      <4>1. valid'[k] \in Item
        BY <1>5, SeqElement
      <4>2. QED
        BY <4>1 DEF Item
    <3>4. merged'[j].start \in Nat
      <4>1. merged'[j] \in R
        BY <1>11, SeqElement
      <4>2. QED
        BY <4>1
    <3>5. merged'[j].start <= iv.start
      BY <1>11
    <3>6. QED
      BY <1>7, <3>2, <3>3, <3>4, <3>5
  <2>4. QED
    BY <1>2, <2>1, <2>2, <2>3 DEF Queue
<1>14. Cover'
  <2>1. ASSUME NEW i \in DOMAIN items, Kept(items[i])
        PROVE  \/ \E k \in DOMAIN valid' : valid'[k] = items[i]
               \/ \E k \in DOMAIN merged' :
                     merged'[k].start <= items[i].start /\ items[i].end <= merged'[k].end
    <3>1. items[i].start \in Nat /\ items[i].end \in Nat
      <4>1. items[i] \in Item
        BY <1>3, SeqElement
      <4>2. QED
        BY <4>1 DEF Item
    <3>2. CASE \E k \in DOMAIN valid : valid[k] = items[i]
      <4>1. PICK k \in DOMAIN valid : valid[k] = items[i]
        BY <3>2
      <4>2. CASE k = 1
        BY <1>6, <1>11, <4>1, <4>2
      <4>3. CASE k # 1
        <5>1. k - 1 \in DOMAIN valid' /\ (k - 1) + 1 = k
          BY <1>3, <1>5, <4>3
        <5>2. valid'[k - 1] = items[i]
          BY <1>5, <4>1, <5>1
        <5>3. QED
          BY <5>1, <5>2
      <4>4. QED
        BY <4>2, <4>3
    <3>3. CASE \E k \in DOMAIN merged :
                  merged[k].start <= items[i].start /\ items[i].end <= merged[k].end
      <4>1. PICK k \in DOMAIN merged :
                  merged[k].start <= items[i].start /\ items[i].end <= merged[k].end
        BY <3>3
      <4>2. k \in DOMAIN merged' /\ merged'[k].start <= merged[k].start
            /\ merged[k].end <= merged'[k].end
        BY <1>11
      <4>3. merged'[k].start \in Nat /\ merged'[k].end \in Nat
        <5>1. merged'[k] \in R
          BY <1>11, <4>2, SeqElement
        <5>2. QED
          BY <5>1
      <4>4. merged[k].start \in Nat /\ merged[k].end \in Nat
        BY <1>8
      <4>5. QED
        BY <3>1, <4>1, <4>2, <4>3, <4>4
    <3>4. QED
      BY <1>1, <2>1, <3>2, <3>3 DEF Cover
  <2>2. QED
    BY <1>2, <1>10, <1>11, <2>1 DEF Cover
<1>15. Phases' /\ Progress' /\ Increasing' /\ SlotsAreFree' /\ FirstSlots'
  BY <1>1, <1>2 DEF Phases, Progress, Increasing, SlotsAreFree, FirstSlots
<1>16. QED
  BY <1>12, <1>13, <1>14, <1>15 DEF IInv

\* The first candidate is on the grid, and nothing on the grid is before it.
LEMMA RoundUpIsFirst ==
    ASSUME TypeOK
    PROVE  /\ RoundUp(start) \in Nat /\ RoundUp(start) % Grid = 0
           /\ start <= RoundUp(start)
           /\ \A s \in Nat : s % Grid = 0 /\ start <= s => RoundUp(start) <= s
<1> DEFINE q == start \div Grid
<1>1. start \in Nat /\ Grid \in Nat \ {0}
  BY Constants
<1>2. q \in Nat /\ start % Grid \in 0..(Grid - 1) /\ start = q * Grid + (start % Grid)
  BY <1>1, DivMod
<1> HIDE DEF q
<1>3. CASE start % Grid = 0
  BY <1>1, <1>3 DEF RoundUp
<1>4. CASE start % Grid # 0
  <2>1. RoundUp(start) = q * Grid + Grid
    BY <1>1, <1>2, <1>4 DEF RoundUp
  <2>2. (q + 1) * Grid = q * Grid + Grid /\ q + 1 \in Nat /\ q * Grid \in Nat
    BY <1>1, <1>2
  <2>3. RoundUp(start) % Grid = 0 /\ RoundUp(start) \in Nat
    BY <1>1, <2>1, <2>2, MultipleMod
  <2>4. start <= RoundUp(start)
    BY <1>1, <1>2, <2>1, <2>2
  <2>5. ASSUME NEW s \in Nat, s % Grid = 0, start <= s
        PROVE  RoundUp(start) <= s
    <3>1. (q * Grid) % Grid = 0
      BY <1>1, <1>2, MultipleMod
    <3>2. q * Grid < s
      BY <1>1, <1>2, <1>4, <2>2, <2>5
    <3>3. q * Grid + Grid <= s
      BY <1>1, <2>2, <2>5, <3>1, <3>2, NextMultiple
    <3>4. QED
      BY <2>1, <3>3
  <2>6. QED
    BY <2>3, <2>4, <2>5
<1>5. QED
  BY <1>3, <1>4

LEMMA MergeEndIInv ==
    ASSUME IInv, Merge, valid = <<>>
    PROVE  IInv'
<1>1. /\ TypeOK /\ Queue /\ Cover
      /\ pc = "merge" /\ slots = <<>> /\ outcome # "found"
  BY DEF Merge, IInv, Phases
<1>2. /\ UNCHANGED <<frozen, end, added, items, slots, outcome, valid, merged>>
      /\ pc' = "search" /\ candidate' = RoundUp(start)
  BY DEF Merge
<1>3. /\ RoundUp(start) \in Nat /\ RoundUp(start) % Grid = 0
      /\ start <= RoundUp(start)
      /\ \A s \in Nat : s % Grid = 0 /\ start <= s => RoundUp(start) <= s
  BY <1>1, RoundUpIsFirst
<1>4. TypeOK'
  BY <1>1, <1>2, <1>3 DEF TypeOK, frozen
<1>5. Queue' /\ Cover'
  BY <1>1, <1>2 DEF Queue, Cover, BusyTick
<1>6. Progress'
  <2>1. ASSUME NEW s \in (start..end)', Free(s)', s < candidate'
        PROVE  FALSE
    <3>1. s \in Nat /\ s % Grid = 0 /\ start <= s
      BY <1>2, <2>1, Constants, <1>1 DEF Free, frozen
    <3>2. QED
      BY <1>2, <1>3, <2>1, <3>1
  <2>2. {slots'[k] : k \in DOMAIN slots'} = {}
    BY <1>1, <1>2
  <2>3. Len(slots') < opts'.count
    BY <1>1, <1>2, Constants DEF frozen
  <2>4. start' = start
    BY <1>2 DEF frozen
  <2>5. QED
    BY <1>2, <1>3, <2>1, <2>2, <2>3, <2>4 DEF Progress
<1>7. Phases' /\ Increasing' /\ SlotsAreFree' /\ FirstSlots'
  BY <1>1, <1>2 DEF Phases, Increasing, SlotsAreFree, FirstSlots
<1>8. QED
  BY <1>4, <1>5, <1>6, <1>7 DEF IInv

LEMMA SearchIInv == IInv /\ Search => IInv'
<1> SUFFICES ASSUME IInv, Search PROVE IInv'
  OBVIOUS
<1> DEFINE e == candidate + opts.duration
           free == WithinWorkingHours(candidate, e) /\ ~OverlapsAny(candidate, e)
           All == {s \in start..end : Free(s)}
<1>1. /\ TypeOK /\ Queue /\ Cover /\ Increasing /\ Progress /\ SlotsAreFree
      /\ pc = "search" /\ outcome # "found"
  BY DEF Search, IInv, Phases
<1>2. /\ UNCHANGED <<frozen, end, added, items, valid, merged>>
      /\ opts' = opts /\ start' = start
  BY DEF Search, frozen
<1>3. /\ candidate \in Nat /\ start \in Nat /\ end \in Nat /\ e \in Nat
      /\ opts.duration \in Nat \ {0} /\ opts.count \in Nat \ {0}
      /\ Grid \in Nat \ {0} /\ slots \in Seq(Nat) /\ candidate < e
  BY <1>1, Constants DEF TypeOK
<1>4. \A s : Free(s)' <=> Free(s)
  BY <1>2 DEF Free, HoursTick, BusyTick
<1>5. /\ candidate % Grid = 0 /\ start <= candidate /\ valid = <<>>
      /\ Len(slots) < opts.count
      /\ {slots[k] : k \in DOMAIN slots} = {s \in All : s < candidate}
  BY <1>1 DEF Progress
<1>6. \A k \in DOMAIN slots : slots[k] \in All /\ slots[k] < candidate /\ slots[k] \in Nat
  <2> TAKE k \in DOMAIN slots
  <2>1. slots[k] \in {s \in All : s < candidate}
    BY <1>5
  <2>2. QED
    BY <1>3, <2>1
<1>7. e <= end => (Free(candidate) <=> free)
  BY <1>1, FreeTest
<1>8. Queue' /\ Cover'
  BY <1>1, <1>2, <1>5 DEF Queue, Cover, BusyTick, Search, Found
<1> HIDE DEF e, free
<1>9. All \in SUBSET Nat /\ IsFiniteSet(All)
  <2>1. start..end \subseteq Nat /\ start \in Int /\ end \in Int
    BY <1>3
  <2>2. IsFiniteSet(start..end)
    BY <2>1, FS_Interval
  <2>3. All \in SUBSET (start..end)
    OBVIOUS
  <2>4. QED
    BY <2>1, <2>2, <2>3, FS_Subset
\* No free slot starts between a candidate and the next.
<1>10. /\ candidate + Grid \in Nat /\ (candidate + Grid) % Grid = 0
       /\ \A s \in All : s < candidate + Grid => s <= candidate
  <2>1. (candidate + Grid) % Grid = 0
    <3>1. candidate = (candidate \div Grid) * Grid /\ candidate \div Grid \in Nat
      <4>1. /\ candidate = (candidate \div Grid) * Grid + (candidate % Grid)
            /\ candidate \div Grid \in Nat
        BY <1>3, DivMod
      <4>2. (candidate \div Grid) * Grid \in Nat
        BY <1>3, <4>1
      <4>3. QED
        BY <1>5, <4>1, <4>2
    <3> DEFINE c == candidate \div Grid
    <3> HIDE DEF c
    <3>2. candidate + Grid = (c + 1) * Grid /\ c + 1 \in Nat
      BY <1>3, <3>1 DEF c
    <3>3. QED
      BY <1>3, <3>2, MultipleMod
  <2>2. ASSUME NEW s \in All, s < candidate + Grid
        PROVE  s <= candidate
    <3>1. s \in Nat /\ s % Grid = 0
      BY <1>9 DEF Free
    <3>2. candidate < s => candidate + Grid <= s
      BY <1>3, <1>5, <3>1, NextMultiple
    <3>3. QED
      BY <1>3, <2>2, <3>1, <3>2
  <2>3. QED
    BY <1>3, <2>1, <2>2
\* The search moves on from a candidate that is not free, or is taken.
<1>11. ASSUME NEW q \in Seq(Nat), Len(q) < opts.count,
              {q[k] : k \in DOMAIN q} = {s \in All : s <= candidate},
              slots' = q, Advance, UNCHANGED <<pc, outcome>>
       PROVE  Progress' /\ FirstSlots'
  <2>1. candidate' = candidate + Grid
    BY <1>11 DEF Advance
  <2>2. {s \in All : s < candidate'} = {s \in All : s <= candidate}
    <3>1. ASSUME NEW s \in All
          PROVE  s < candidate' <=> s <= candidate
      <4>1. s \in Nat
        BY <1>9
      <4>2. s <= candidate => s < candidate + Grid
        BY <1>3, <4>1
      <4>3. QED
        BY <1>10, <2>1, <4>2
    <3> HIDE DEF All
    <3>2. QED
      BY <3>1
  <2>3. {s \in start'..end' : Free(s)' /\ s < candidate'} = {s \in All : s < candidate'}
    BY <1>2, <1>4
  <2>4. start <= candidate'
    BY <1>3, <1>5, <2>1
  <2>5. Progress'
    BY <1>2, <1>5, <1>10, <1>11, <2>1, <2>2, <2>3, <2>4 DEF Progress
  <2>6. FirstSlots'
    BY <1>1, <1>11 DEF FirstSlots
  <2>7. QED
    BY <2>5, <2>6
\* The search stops with the first free slots.
<1>12. ASSUME NEW q \in Seq(Nat), Len(q) <= opts.count,
              \A j, k \in 1..Len(q) : j < k => q[j] < q[k],
              \A k \in 1..Len(q) : q[k] \in All,
              \A s \in All : \/ \E k \in 1..Len(q) : s = q[k]
                             \/ Len(q) = opts.count /\ \A k \in 1..Len(q) : q[k] < s,
              slots' = q, Found
       PROVE  Progress' /\ FirstSlots'
  <2>1. {q[k] : k \in DOMAIN q}
           = {s \in All : Cardinality({x \in All : x < s}) < opts.count}
    <3> DEFINE n == opts.count
    <3>1. n \in Nat
      BY <1>3
    <3> HIDE DEF All, n
    <3>2. /\ All \in SUBSET Nat /\ IsFiniteSet(All) /\ q \in Seq(Nat) /\ Len(q) <= n
          /\ \A s \in All : \/ \E k \in 1..Len(q) : s = q[k]
                            \/ Len(q) = n /\ \A k \in 1..Len(q) : q[k] < s
      BY <1>9, <1>12 DEF n
    <3>3. /\ \A j, k \in 1..Len(q) : j < k => q[j] < q[k]
          /\ \A k \in 1..Len(q) : q[k] \in All
      BY <1>12
    <3>4. {q[k] : k \in DOMAIN q} = {s \in All : Cardinality({x \in All : x < s}) < n}
      BY <3>1, <3>2, <3>3, FirstOfSet
    <3>5. QED
      BY <3>4 DEF n
  <2>2. {s \in start'..end' : Free(s)'} = All
    BY <1>2, <1>4
  <2>3. \A j, k \in DOMAIN q : j < k => q[j] < q[k]
    BY <1>12
  <2>4. FirstSlots'
    <3> HIDE DEF All
    <3>1. QED
      BY <1>2, <1>12, <2>1, <2>2, <2>3 DEF FirstSlots
  <2>5. Progress'
    BY <1>12 DEF Found, Progress
  <2>6. QED
    BY <2>4, <2>5
\* A free candidate joins the slots.
<1>13. ASSUME e <= end, free, slots' = Append(slots, candidate)
       PROVE  /\ slots' \in Seq(Nat) /\ Len(slots') = Len(slots) + 1
              /\ \A j, k \in 1..Len(slots') : j < k => slots'[j] < slots'[k]
              /\ {slots'[k] : k \in 1..Len(slots')} = {s \in All : s <= candidate}
  <2>1. /\ slots' \in Seq(Nat) /\ Len(slots') = Len(slots) + 1 /\ Len(slots) \in Nat
        /\ slots'[Len(slots) + 1] = candidate
        /\ \A k \in 1..Len(slots) : slots'[k] = slots[k]
    BY <1>3, <1>13
  <2>2. \A k \in 1..Len(slots') : k \in 1..Len(slots) \/ k = Len(slots) + 1
    BY <2>1
  <2>3. ASSUME NEW j \in 1..Len(slots'), NEW k \in 1..Len(slots'), j < k
        PROVE  slots'[j] < slots'[k]
    <3>1. j \in 1..Len(slots) /\ slots'[j] = slots[j] /\ j \in DOMAIN slots
      BY <1>3, <2>1, <2>3
    <3>2. CASE k \in 1..Len(slots)
      <4>1. k \in DOMAIN slots /\ slots'[k] = slots[k]
        BY <1>3, <2>1, <3>2
      <4>2. QED
        BY <1>1, <2>3, <3>1, <4>1 DEF Increasing
    <3>3. CASE k = Len(slots) + 1
      BY <1>6, <2>1, <3>1, <3>3
    <3>4. QED
      BY <2>2, <3>2, <3>3
  <2>4. candidate \in All
    <3>1. Free(candidate) /\ candidate <= end
      BY <1>3, <1>7, <1>13
    <3>2. QED
      BY <1>3, <1>5, <3>1
  <2>5. ASSUME NEW k \in 1..Len(slots')
        PROVE  slots'[k] \in All /\ slots'[k] <= candidate
    <3>1. CASE k \in 1..Len(slots)
      <4>1. k \in DOMAIN slots /\ slots'[k] = slots[k]
        BY <1>3, <2>1, <3>1
      <4>2. QED
        BY <1>3, <1>6, <4>1
    <3>2. CASE k = Len(slots) + 1
      BY <1>3, <2>1, <2>4, <3>2
    <3>3. QED
      BY <2>2, <3>1, <3>2
  <2>6. ASSUME NEW s \in All, s <= candidate
        PROVE  \E k \in 1..Len(slots') : slots'[k] = s
    <3>1. CASE s = candidate
      BY <2>1, <3>1
    <3>2. CASE s < candidate
      <4>1. PICK k \in DOMAIN slots : slots[k] = s
        BY <1>5, <3>2
      <4>2. k \in 1..Len(slots) /\ k \in 1..Len(slots')
        BY <1>3, <2>1, <4>1
      <4>3. QED
        BY <2>1, <4>1, <4>2
    <3>3. QED
      BY <1>3, <1>9, <2>6, <3>1, <3>2
  <2>7. QED
    BY <2>1, <2>3, <2>5, <2>6
<1>14. candidate + Grid \in Nat /\ candidate' \in {candidate, candidate + Grid}
       /\ pc' \in {"search", "done"} /\ outcome' \in {outcome, "found"}
       /\ (outcome' = "found" => pc' = "done")
  BY <1>1, <1>10 DEF Search, Found, Advance
<1>15. ASSUME slots' \in Seq(Nat), Len(slots') <= opts.count, Progress', FirstSlots',
              \A j, k \in 1..Len(slots') : j < k => slots'[j] < slots'[k],
              \A k \in 1..Len(slots') : slots'[k] \in All
       PROVE  IInv'
  <2>1. TypeOK'
    BY <1>1, <1>2, <1>3, <1>14, <1>15 DEF TypeOK, frozen
  <2>2. Phases'
    BY <1>1, <1>2, <1>14 DEF IInv, Phases
  <2>3. DOMAIN slots' = 1..Len(slots')
    BY <1>15
  <2>4. SlotsAreFree' /\ Increasing'
    BY <1>4, <1>15, <2>3 DEF SlotsAreFree, Increasing
  <2>5. QED
    BY <1>8, <1>15, <2>1, <2>2, <2>4 DEF IInv
<1>16. /\ \A j, k \in 1..Len(slots) : j < k => slots[j] < slots[k]
       /\ \A k \in 1..Len(slots) : slots[k] \in All
       /\ Len(slots) \in Nat /\ Len(slots) <= opts.count
  <2>1. DOMAIN slots = 1..Len(slots) /\ Len(slots) \in Nat
    BY <1>3
  <2>2. QED
    <3>1. \A j, k \in 1..Len(slots) : j < k => slots[j] < slots[k]
      BY <1>1, <2>1 DEF Increasing
    <3>2. \A k \in 1..Len(slots) : slots[k] \in All
      BY <1>6, <2>1
    <3>3. Len(slots) <= opts.count
      BY <1>3, <1>5, <2>1
    <3>4. QED
      BY <2>1, <3>1, <3>2, <3>3
<1>17. CASE e > end /\ Found /\ UNCHANGED <<candidate, slots>>
  <2>1. ASSUME NEW s \in All
        PROVE  \E k \in 1..Len(slots) : s = slots[k]
    <3>1. s \in Nat /\ s + opts.duration <= end
      BY <1>9 DEF Free
    <3>2. s < candidate
      BY <1>3, <1>17, <3>1 DEF e
    <3>3. PICK k \in DOMAIN slots : slots[k] = s
      BY <1>5, <3>2
    <3>4. k \in 1..Len(slots)
      BY <1>3, <3>3
    <3>5. QED
      BY <3>3, <3>4
  <2>2. Progress' /\ FirstSlots'
    <3> HIDE DEF All
    <3>1. QED
      BY <1>3, <1>12, <1>16, <1>17, <2>1
  <2>3. QED
    BY <1>3, <1>15, <1>16, <1>17, <2>2
<1>18. CASE e <= end /\ ~free /\ Advance /\ UNCHANGED <<pc, outcome, slots>>
  <2>1. ~Free(candidate)
    BY <1>7, <1>18
  <2>2. {slots[k] : k \in DOMAIN slots} = {s \in All : s <= candidate}
    <3>1. ASSUME NEW s \in All
          PROVE  s < candidate <=> s <= candidate
      BY <1>3, <1>9, <2>1
    <3> HIDE DEF All
    <3>2. QED
      BY <1>5, <3>1
  <2>3. Progress' /\ FirstSlots'
    <3> HIDE DEF All
    <3>1. QED
      BY <1>3, <1>5, <1>11, <1>18, <2>2
  <2>4. QED
    BY <1>3, <1>15, <1>16, <1>18, <2>3
<1>19. CASE e <= end /\ free /\ slots' = Append(slots, candidate)
            /\ Full(slots') /\ Found /\ UNCHANGED candidate
  <2>1. /\ slots' \in Seq(Nat) /\ Len(slots') = Len(slots) + 1
        /\ \A j, k \in 1..Len(slots') : j < k => slots'[j] < slots'[k]
        /\ {slots'[k] : k \in 1..Len(slots')} = {s \in All : s <= candidate}
    BY <1>13, <1>19
  <2>2. Len(slots') = opts.count
    BY <1>3, <1>5, <1>16, <1>19, <2>1 DEF Full
  <2>3. ASSUME NEW k \in 1..Len(slots')
        PROVE  slots'[k] \in All /\ slots'[k] <= candidate
    <3> HIDE DEF All
    <3>1. QED
      BY <2>1
  <2>4. ASSUME NEW s \in All, ~(\E k \in 1..Len(slots') : s = slots'[k])
        PROVE  \A k \in 1..Len(slots') : slots'[k] < s
    <3>1. ~(s <= candidate)
      <4> HIDE DEF All
      <4>1. QED
        BY <2>1, <2>4
    <3>2. s \in Nat /\ \A k \in 1..Len(slots') : slots'[k] \in Nat
      BY <1>9, <2>3
    <3>3. QED
      BY <1>3, <2>3, <3>1, <3>2
  <2>5. Progress' /\ FirstSlots'
    <3> HIDE DEF All
    <3>1. Len(slots') <= opts.count
      BY <1>3, <2>2
    <3>2. \A s \in All : \/ \E k \in 1..Len(slots') : s = slots'[k]
                         \/ Len(slots') = opts.count
                            /\ \A k \in 1..Len(slots') : slots'[k] < s
      BY <2>2, <2>4
    <3>3. QED
      BY <1>12, <1>19, <2>1, <2>3, <3>1, <3>2
  <2>6. QED
    BY <1>3, <1>15, <1>16, <2>1, <2>2, <2>3, <2>5
<1>20. CASE e <= end /\ free /\ slots' = Append(slots, candidate)
            /\ ~Full(slots') /\ Advance /\ UNCHANGED <<pc, outcome>>
  <2>1. /\ slots' \in Seq(Nat) /\ Len(slots') = Len(slots) + 1
        /\ \A j, k \in 1..Len(slots') : j < k => slots'[j] < slots'[k]
        /\ {slots'[k] : k \in 1..Len(slots')} = {s \in All : s <= candidate}
    BY <1>13, <1>20
  <2>2. Len(slots') < opts.count /\ Len(slots') <= opts.count
    BY <1>3, <1>20, <2>1 DEF Full
  <2>3. ASSUME NEW k \in 1..Len(slots')
        PROVE  slots'[k] \in All
    <3> HIDE DEF All
    <3>1. QED
      BY <2>1
  <2>4. DOMAIN slots' = 1..Len(slots')
    BY <2>1
  <2>5. Progress' /\ FirstSlots'
    <3> HIDE DEF All
    <3>1. QED
      BY <1>11, <1>20, <2>1, <2>2, <2>4
  <2>6. QED
    BY <1>3, <1>15, <2>1, <2>2, <2>3, <2>5
<1>21. QED
  BY <1>17, <1>18, <1>19, <1>20 DEF Search, e, free

LEMMA StutterIInv == IInv /\ UNCHANGED vars => IInv'
<1> SUFFICES ASSUME IInv, UNCHANGED vars PROVE IInv'
  OBVIOUS
<1> USE DEF vars, frozen
<1>1. TypeOK' /\ Phases' /\ Increasing'
  BY DEF IInv, TypeOK, Phases, Increasing
<1>2. \A s : Free(s)' <=> Free(s)
  BY DEF Free, HoursTick, BusyTick
<1>3. Queue' /\ Cover'
  BY DEF IInv, Queue, Cover, BusyTick
<1>4. Progress' /\ SlotsAreFree' /\ FirstSlots'
  BY <1>2 DEF IInv, Progress, SlotsAreFree, FirstSlots
<1>5. QED
  BY <1>1, <1>3, <1>4 DEF IInv

-----------------------------------------------------------------------------
LEMMA Invariant == Spec => []IInv
<1>1. Init => IInv
  BY InitIInv
<1>2. IInv /\ [Next]_vars => IInv'
  BY WindowIInv, FetchIInv, SortIInv, MergePassIInv, MergeEndIInv, SearchIInv,
     StutterIInv DEF Next
<1>3. QED
  BY <1>1, <1>2, PTL DEF Spec

\* Every variable of the search stays in its range, and no more slots are kept
\* than were asked for.
THEOREM TypeCorrect == Spec => []TypeOK
BY Invariant, PTL DEF IInv

\* FindFreeSlots offers no slot that is busy, outside the working hours or
\* outside the window, whatever order the schedule came in.
THEOREM SlotsFree == Spec => []SlotsAreFree
BY Invariant, PTL DEF IInv

\* The answer of FindFreeSlots is the first free slots of the window, as many as
\* were asked for or all there are.
THEOREM SlotsFirst == Spec => []FirstSlots
BY Invariant, PTL DEF IInv

=============================================================================
