---------------------------- MODULE CommandProofs ----------------------------
(***************************************************************************)
(* What holds of Command for every table of commands that satisfies its    *)
(* assumptions, every length of the lists and every budget of retries: the *)
(* types, that a request which has to be refused changes nothing at the    *)
(* server, that no message goes out without any of its attachments, that a *)
(* logged success is backed by a change, that a failed call shows, that    *)
(* nothing is changed without the yes of an operator who is asked, that a  *)
(* single change is made once at most, and that a good end means it.       *)
(***************************************************************************)
EXTENDS Command, TLAPS

\* How a handler moves from a step that belongs to it: one step on while it is
\* before its items, never back across them.
Moved ==
    /\ stage' \in {"run", "done"}
    /\ at' \in 1..(Len(prog.steps) + 1)
    /\ left' \in 0..MaxItems
    /\ at' \in Body => left' > 0
    /\ tries' \in 0..Budget
    /\ exit' \in {"none", "ok", "error", "panic"}
    /\ (stage' = "done") = (exit' # "none")
    /\ at + 1 < prog.first => at' <= at + 1
    /\ at' >= at \/ at' >= prog.first

\* In front of a step, with a well-formed command.
Running ==
    /\ TypeOK
    /\ stage = "run"
    /\ at <= Len(prog.steps)

\* A defect that the configuration's validation deals with goes no further.
Refused ==
    defect \in prog.repairs \cup prog.rejects =>
        stage \in {"config", "done"} /\ applied = 0

\* A defect that the handler looks for gets no further than where it looks.
Halted ==
    \A i \in Gates(prog, defect) : applied = 0 /\ (stage = "run" => at <= i)

\* Nothing is done before the handler runs.
Unstarted == stage \in {"config", "log"} => at = 1 /\ applied = 0 /\ carried = "all"

\* Nothing is sent before the attachments are read, nor without any of them.
Loaded ==
    cmd \notin Careless =>
        /\ carried = "none" => stage = "done" /\ applied = 0
        /\ \A i \in 1..Len(prog.steps) :
             prog.steps[i].op = "load" /\ stage = "run" /\ at <= i => applied = 0

IInv == TypeOK /\ Unstarted /\ Refused /\ Halted /\ Loaded

-----------------------------------------------------------------------------
\* What the assumptions say of the command that runs.
LEMMA ProgWellFormed ==
    ASSUME TypeOK
    PROVE  /\ WellFormed(prog)
           /\ prog.first \in Nat /\ prog.last \in Nat /\ Len(prog.steps) \in Nat
           /\ prog.first >= 2 /\ prog.first <= Len(prog.steps) + 1
           /\ prog.last >= prog.first - 1 /\ prog.last <= Len(prog.steps)
           /\ \A i \in 1..Len(prog.steps) : prog.steps[i] \in Step
<1>1. WellFormed(prog)
  BY ProgramAssumption DEF TypeOK, prog, Commands
<1>2. prog.steps \in Seq(Step)
  BY <1>1 DEF WellFormed
<1>3. Len(prog.steps) \in Nat /\ \A i \in 1..Len(prog.steps) : prog.steps[i] \in Step
  BY <1>2
<1>4. QED
  BY <1>1, <1>3 DEF WellFormed

LEMMA ReturnMoves ==
    ASSUME Running, NEW code \in {"ok", "error", "panic"}, Return(code)
    PROVE  Moved
BY ProgWellFormed DEF Running, TypeOK, Return, Moved

\* A step that is done leads on with items at hand.
LEMMA ProceedMoves ==
    ASSUME Running, NEW n \in 0..MaxItems, at \in Body => n > 0, Proceed(n)
    PROVE  Moved
<1> USE DEF Running
<1>0. /\ stage = "run" /\ exit = "none" /\ at \in Nat /\ at >= 1 /\ left \in Nat /\ left <= MaxItems
      /\ MaxItems \in Nat /\ Budget \in Nat
  BY BoundsAssumption DEF TypeOK
<1>1. /\ prog.first \in Nat /\ prog.last \in Nat /\ Len(prog.steps) \in Nat
      /\ prog.first >= 2 /\ prog.first <= Len(prog.steps) + 1
      /\ prog.last >= prog.first - 1 /\ prog.last <= Len(prog.steps)
  BY ProgWellFormed
<1>2. CASE at \in Body /\ at = prog.last /\ left > 1
  BY <1>0, <1>1, <1>2 DEF Proceed, NextItem, Goto, Moved, Body
<1>3. CASE at \in Body /\ at = prog.last /\ ~(left > 1)
  BY <1>0, <1>1, <1>3 DEF Proceed, NextItem, Goto, Moved, Body
<1>4. CASE at \in Body /\ at # prog.last
  BY <1>0, <1>1, <1>4 DEF Proceed, Goto, Moved, Body
<1>5. CASE at \notin Body /\ at + 1 = prog.first /\ n = 0
  <2>1. at' = prog.last + 1 /\ left' = 0 /\ tries' = 0 /\ UNCHANGED <<stage, exit>>
    BY <1>5 DEF Proceed, Goto
  <2>2. prog.last + 1 \in 1..(Len(prog.steps) + 1) /\ prog.last + 1 \notin Body
        /\ prog.last + 1 >= prog.first
    BY <1>1 DEF Body
  <2>3. 0 \in 0..MaxItems /\ 0 \in 0..Budget
    BY <1>0
  <2>4. ~(at + 1 < prog.first)
    BY <1>0, <1>1, <1>5
  <2>5. QED
    BY <1>0, <2>1, <2>2, <2>3, <2>4 DEF Moved
<1>6. CASE at \notin Body /\ ~(at + 1 = prog.first /\ n = 0)
  BY <1>0, <1>1, <1>6 DEF Proceed, Goto, Moved, Body
<1>7. QED
  BY <1>2, <1>3, <1>4, <1>5, <1>6

LEMMA NextItemMoves ==
    ASSUME Running, at \in Body, NextItem
    PROVE  Moved
<1>0. /\ stage = "run" /\ exit = "none" /\ at \in Nat /\ left \in Nat /\ left <= MaxItems
      /\ MaxItems \in Nat /\ Budget \in Nat
  BY BoundsAssumption DEF Running, TypeOK
<1>1. /\ prog.first \in Nat /\ prog.last \in Nat /\ Len(prog.steps) \in Nat
      /\ prog.first >= 2 /\ prog.last <= Len(prog.steps)
  BY ProgWellFormed DEF Running
<1>2. CASE left > 1
  BY <1>0, <1>1, <1>2 DEF NextItem, Goto, Moved, Body
<1>3. CASE ~(left > 1)
  BY <1>0, <1>1, <1>3 DEF NextItem, Goto, Moved, Body
<1>4. QED
  BY <1>2, <1>3

\* What a handler does about a failure, and that Stops do stop it.
LEMMA DisposeMoves ==
    ASSUME Running, NEW how \in Dispositions, how \in GoesOn => at \in Body,
           Dispose(how)
    PROVE  /\ Moved
           /\ good' \in Nat /\ bad' \in Nat /\ owed' \in BOOLEAN
           /\ how \in Stops => stage' = "done"
<1>1. good' \in Nat /\ bad' \in Nat
  BY DEF Dispose, LogRow, Running, TypeOK
<1>2. owed' \in BOOLEAN
  BY DEF Dispose, Running, TypeOK
<1>3. CASE how \in {"return", "row"}
  <2>1. Return("error")
    BY <1>3 DEF Dispose, GoesOn
  <2>2. QED
    BY <2>1, <1>1, <1>2, ReturnMoves DEF Return
<1>4. CASE how \in {"told", "calm"}
  <2>1. Return("ok")
    BY <1>4 DEF Dispose, GoesOn
  <2>2. QED
    BY <2>1, <1>1, <1>2, ReturnMoves DEF Return
<1>5. CASE how \in GoesOn
  <2>1. NextItem
    BY <1>5 DEF Dispose, GoesOn
  <2>2. QED
    BY <2>1, <1>1, <1>2, <1>5, NextItemMoves DEF Stops, GoesOn
<1>6. CASE how = "warn"
  <2>1. Proceed(left)
    BY <1>6 DEF Dispose, GoesOn
  <2>2. left \in 0..MaxItems /\ (at \in Body => left > 0)
    BY DEF Running, TypeOK
  <2>3. QED
    BY <2>1, <2>2, <1>1, <1>2, <1>6, ProceedMoves DEF Stops
<1>7. QED
  BY <1>3, <1>4, <1>5, <1>6 DEF Dispositions, GoesOn

LEMMA StepFailsMoves ==
    ASSUME Running, StepFails
    PROVE  /\ Moved
           /\ good' \in Nat /\ bad' \in Nat /\ owed' \in BOOLEAN /\ failed' \subseteq Ops
           /\ step.fail \in Stops => stage' = "done"
<1>1. at \in 1..Len(prog.steps) /\ step \in Step
  BY ProgWellFormed DEF Running, TypeOK, step
<1>2. step.fail \in Dispositions /\ step.op \in Ops
  BY <1>1 DEF Step
<1>3. step.fail \in GoesOn => at \in Body
  BY <1>1, ProgWellFormed DEF Running, WellFormed, step, Body
<1>4. Dispose(step.fail) /\ failed' = failed \cup {step.op}
  BY DEF StepFails
<1>5. failed' \subseteq Ops
  BY <1>2, <1>4 DEF Running, TypeOK
<1>6. QED
  BY <1>2, <1>3, <1>4, <1>5, DisposeMoves

LEMMA StepSucceedsMoves ==
    ASSUME Running, StepSucceeds
    PROVE  /\ Moved
           /\ good' \in Nat /\ bad' \in Nat /\ owed' \in BOOLEAN /\ failed' \subseteq Ops
<1>1. left \in 0..MaxItems /\ (at \in Body => left > 0)
  BY DEF Running, TypeOK
<1>2. QED
  BY <1>1, ProceedMoves DEF StepSucceeds, Running, TypeOK

\* An answer leads to a retry of the step, to its failure or on.
LEMMA OutcomeMoves ==
    ASSUME Running, NEW answer, Outcome(answer)
    PROVE  /\ Moved
           /\ good' \in Nat /\ bad' \in Nat /\ owed' \in BOOLEAN /\ failed' \subseteq Ops
<1>1. CASE /\ step.retried /\ tries < Budget
           /\ tries' = tries + 1
           /\ UNCHANGED <<stage, at, left, exit, rows, failed, owed>>
  BY <1>1, ProgWellFormed, BoundsAssumption DEF Running, TypeOK, Moved, rows, Body, prog
<1>2. CASE StepFails
  BY <1>2, StepFailsMoves
<1>3. CASE ~step.list /\ StepSucceeds
  BY <1>3, StepSucceedsMoves
<1>4. CASE step.list /\ Dispose(step.empty) /\ UNCHANGED failed
  <2>1. at \in 1..Len(prog.steps) /\ step \in Step
    BY ProgWellFormed DEF Running, TypeOK, step
  <2>2. step.empty \in Dispositions /\ step.empty \notin GoesOn
    BY <2>1, ProgWellFormed DEF Running, WellFormed, step, Step
  <2>3. QED
    BY <1>4, <2>2, DisposeMoves DEF Running, TypeOK
<1>5. ASSUME NEW n \in 0..MaxItems, n # 0, Proceed(n), UNCHANGED <<good, bad, failed, owed>>
      PROVE  /\ Moved
             /\ good' \in Nat /\ bad' \in Nat /\ owed' \in BOOLEAN /\ failed' \subseteq Ops
  BY <1>5, ProceedMoves, BoundsAssumption DEF Running, TypeOK
<1>6. QED
  BY <1>1, <1>2, <1>3, <1>4, <1>5 DEF Outcome

-----------------------------------------------------------------------------
LEMMA InitIInv == Init => IInv
<1> SUFFICES ASSUME Init PROVE IInv
  OBVIOUS
<1>1. cmd \in Commands /\ WellFormed(prog)
  BY ProgramAssumption DEF Init, Commands, prog
<1>2. prog.repairs \subseteq Defects /\ prog.rejects \subseteq Defects
      /\ prog.first \in 2..(Len(prog.steps) + 1) /\ prog.steps \in Seq(Step)
  BY <1>1 DEF WellFormed
<1>3. Len(prog.steps) \in Nat /\ DOMAIN prog.steps = 1..Len(prog.steps)
      /\ \A i \in 1..Len(prog.steps) : prog.steps[i] \in Step
  BY <1>2
<1>4. \A i \in DOMAIN prog.steps : prog.steps[i].about \subseteq Defects
  BY <1>3 DEF Step
<1>5. Noticed(cmd) \subseteq Defects
  BY <1>2, <1>4 DEF Noticed, prog
<1>6. Required(prog.kind) \subseteq Defects
  BY DEF Required, Defects
<1>7. defect \in Defects \cup {"none"}
  BY <1>5, <1>6 DEF Init, prog
<1>8. TypeOK
  <2>1. 1 \in 1..(Len(prog.steps) + 1) /\ 1 \notin Body
    BY <1>2, <1>3 DEF Body
  <2>2. 0 \in 0..MaxItems /\ 0 \in 0..Budget
    BY BoundsAssumption
  <2>3. QED
    BY <1>1, <1>7, <2>1, <2>2 DEF Init, TypeOK
<1>9. Unstarted /\ Refused /\ Loaded
  BY DEF Init, Unstarted, Refused, Loaded
<1>10. Halted
  BY <1>2, <1>3 DEF Init, Halted, Gates
<1>11. QED
  BY <1>8, <1>9, <1>10 DEF IInv

\* A step of the handler keeps the types when it moves and writes rows.
LEMMA MovedTyped ==
    ASSUME TypeOK, Moved, UNCHANGED run,
           good' \in Nat, bad' \in Nat, owed' \in BOOLEAN, failed' \subseteq Ops,
           log' = log, ctx' = ctx, carried' \in {"all", "some", "none"},
           agreed' \in Nat, applied' \in Nat
    PROVE  TypeOK'
<1>1. cmd' = cmd /\ defect' = defect /\ opt' = opt /\ prog' = prog /\ Body' = Body
  BY DEF run, prog, Body
<1>2. QED
  BY <1>1 DEF TypeOK, Moved

\* The rest of the invariant, for a step that changes the server only where a
\* handler changes it and finds the defects it looks for.
LEMMA MovedIInv ==
    ASSUME IInv, Running, Moved, TypeOK', UNCHANGED run,
           applied' = applied \/ step.op = "change",
           at \in Gates(prog, defect) => stage' = "done",
           \/ carried' = carried
           \/ carried' # "none" /\ step.op = "load"
           \/ step.op = "load" /\ (step.fail \in Stops => stage' = "done")
                  /\ applied' = applied
    PROVE  IInv'
<1> USE DEF IInv, Running
<1>1. cmd' = cmd /\ defect' = defect /\ prog' = prog
  BY DEF run, prog
<1>2. at \in Nat /\ at' \in Nat /\ prog.first \in Nat /\ at \in 1..Len(prog.steps)
      /\ Len(prog.steps) \in Nat
  BY ProgWellFormed DEF TypeOK, Moved
<1>3. Unstarted'
  BY DEF Unstarted, Moved
<1>4. Refused'
  BY <1>1 DEF Refused
<1>5. Halted'
  <2>1. SUFFICES ASSUME NEW i \in Gates(prog, defect)
                 PROVE  applied' = 0 /\ (stage' = "run" => at' <= i)
    BY <1>1 DEF Halted
  <2>2. applied = 0 /\ at <= i /\ i \in 1..(prog.first - 1) /\ Before(prog, "change", i)
    BY <2>1 DEF Halted, Gates
  <2>3. step.op # "change"
    BY <1>2, <2>2 DEF Before, step
  <2>4. applied' = 0
    BY <2>2, <2>3
  <2>5. CASE at = i
    BY <2>4, <2>5
  <2>6. CASE at # i
    <3>1. at + 1 < prog.first \/ at + 1 = prog.first
      BY <2>2, <1>2
    <3>2. at < i
      BY <2>2, <2>6, <1>2
    <3>3. at + 1 <= i /\ at + 1 < prog.first
      BY <3>2, <2>2, <1>2
    <3>4. at' <= at + 1
      BY <3>3 DEF Moved
    <3>5. QED
      BY <3>3, <3>4, <2>4, <2>2, <1>2
  <2>7. QED
    BY <2>5, <2>6
<1>6. Loaded'
  <2>1. SUFFICES ASSUME cmd \notin Careless
                 PROVE  /\ carried' = "none" => stage' = "done" /\ applied' = 0
                        /\ \A i \in 1..Len(prog.steps) :
                             prog.steps[i].op = "load" /\ stage' = "run" /\ at' <= i
                                 => applied' = 0
    BY <1>1 DEF Loaded
  <2>2. carried # "none"
    BY <2>1 DEF Loaded
  <2>3. cmd \in Commands
    BY DEF TypeOK
  <2>4. \A i \in 1..Len(prog.steps) :
          prog.steps[i].op = "load" =>
            i < prog.first /\ prog.steps[i].fail \in Stops /\ Before(prog, "change", i)
    BY <2>1, <2>3, LoadAssumption DEF prog
  <2>5. carried' = "none" => stage' = "done" /\ applied' = 0
    <3>1. SUFFICES ASSUME carried' = "none" PROVE stage' = "done" /\ applied' = 0
      OBVIOUS
    <3>2. step.op = "load" /\ (step.fail \in Stops => stage' = "done") /\ applied' = applied
      BY <2>2, <3>1
    <3>3. step.fail \in Stops
      BY <3>2, <2>4, <1>2 DEF step
    <3>4. applied = 0
      BY <3>2, <2>1, <1>2 DEF Loaded, step
    <3>5. QED
      BY <3>2, <3>3, <3>4
  <2>6. ASSUME NEW i \in 1..Len(prog.steps), prog.steps[i].op = "load", stage' = "run", at' <= i
        PROVE  applied' = 0
    <3>1. i < prog.first /\ Before(prog, "change", i)
      BY <2>4, <2>6
    <3>2. at <= i
      BY <3>1, <2>6, <1>2 DEF Moved
    <3>3. applied = 0
      BY <3>2, <2>1, <2>6 DEF Loaded
    <3>4. step.op # "change"
      BY <3>1, <3>2, <1>2 DEF Before, step
    <3>5. QED
      BY <3>3, <3>4
  <2>7. QED
    BY <2>5, <2>6
<1>7. QED
  BY <1>3, <1>4, <1>5, <1>6

\* Where a handler looks for a defect no other kind of step is taken.
LEMMA GateIsCheck ==
    ASSUME Running, at \in Gates(prog, defect)
    PROVE  step.op = "check" /\ step.when = "always" /\ defect \in step.about
           /\ step.fail \in Stops
BY DEF Gates, step

LEMMA StartIInv == IInv /\ (Configure \/ OpenLog \/ Interrupt) => IInv'
<1> SUFFICES ASSUME IInv, Configure \/ OpenLog \/ Interrupt PROVE IInv'
  OBVIOUS
<1> USE DEF IInv
<1>0. WellFormed(prog) /\ at \in Nat /\ prog.first \in Nat /\ Len(prog.steps) \in Nat
  BY ProgWellFormed DEF TypeOK
<1>1. CASE Configure
  <2>1. cmd' = cmd /\ prog' = prog /\ Body' = Body
    BY <1>1 DEF Configure, prog, Body
  <2>2. stage = "config" /\ applied = 0 /\ at = 1 /\ carried = "all"
    BY <1>1 DEF Configure, Unstarted
  <2>3. /\ applied' = applied /\ at' = at /\ carried' = carried
        /\ defect' = IF defect \in prog.repairs THEN "none" ELSE defect
        /\ stage' \in {"log", "done"}
        /\ defect' \in prog.rejects => stage' = "done"
    BY <1>1 DEF Configure, Return
  <2>4. "none" \notin prog.repairs
    BY <1>0 DEF WellFormed, Defects
  <2>5. TypeOK'
    BY <1>1, <2>1, <2>2 DEF TypeOK, Configure, Return, rows
  <2>6. Unstarted' /\ Refused'
    BY <2>1, <2>2, <2>3, <2>4 DEF Unstarted, Refused
  <2>7. Halted' /\ Loaded'
    BY <2>1, <2>2, <2>3 DEF Halted, Loaded
  <2>8. QED
    BY <2>5, <2>6, <2>7
<1>2. CASE OpenLog
  <2>1. cmd' = cmd /\ defect' = defect /\ opt' = opt /\ prog' = prog /\ Body' = Body
    BY <1>2 DEF OpenLog, run, prog, Body
  <2>2. stage = "log" /\ applied = 0 /\ at = 1 /\ carried = "all"
    BY <1>2 DEF OpenLog, Unstarted
  <2>3. stage' = "run" /\ applied' = 0 /\ at' = 1 /\ carried' = "all"
    BY <1>2, <2>2 DEF OpenLog
  <2>4. TypeOK'
    BY <1>2, <2>1, <2>2 DEF TypeOK, OpenLog, rows
  <2>5. Refused' /\ Unstarted' /\ Loaded'
    BY <2>1, <2>2, <2>3 DEF Refused, Unstarted, Loaded
  <2>6. Halted'
    <3>1. \A i \in Gates(prog, defect) : i \in 1..(prog.first - 1)
      BY DEF Gates
    <3>2. QED
      BY <3>1, <2>1, <2>3, <1>0 DEF Halted
  <2>7. QED
    BY <2>4, <2>5, <2>6
<1>3. CASE Interrupt
  <2>1. cmd' = cmd /\ defect' = defect /\ opt' = opt /\ prog' = prog /\ Body' = Body
    BY <1>3 DEF Interrupt, run, prog, Body
  <2>2. UNCHANGED <<stage, at, applied, carried>>
    BY <1>3 DEF Interrupt
  <2>3. TypeOK'
    BY <1>3, <2>1 DEF TypeOK, Interrupt, rows
  <2>4. QED
    BY <2>1, <2>2, <2>3 DEF Unstarted, Refused, Halted, Loaded
<1>4. QED
  BY <1>1, <1>2, <1>3

\* The steps that neither call the server nor look at anything.
LEMMA PlainIInv == IInv /\ (WriteHeader \/ Skip \/ LocalWork \/ LogSuccess) => IInv'
<1> SUFFICES ASSUME IInv, WriteHeader \/ Skip \/ LocalWork \/ LogSuccess PROVE IInv'
  OBVIOUS
<1>1. Running
  BY DEF IInv, Running, WriteHeader, Skip, LocalWork, LogSuccess, At
<1>2. UNCHANGED <<run, log, ctx, carried, agreed, applied>>
  BY DEF WriteHeader, Skip, LocalWork, LogSuccess
<1>3. TypeOK /\ left \in 0..MaxItems /\ (at \in Body => left > 0)
  BY DEF IInv, TypeOK
<1>4. Moved /\ good' \in Nat /\ bad' \in Nat /\ owed' \in BOOLEAN /\ failed' \subseteq Ops
  <2>1. CASE WriteHeader
    <3>1. Return("panic") \/ Proceed(left)
      BY <2>1 DEF WriteHeader
    <3>2. Moved
      BY <3>1, <1>1, <1>3, ReturnMoves, ProceedMoves
    <3>3. QED
      BY <2>1, <3>2, <1>3 DEF WriteHeader, TypeOK, rows
  <2>2. CASE Skip \/ LocalWork
    BY <2>2, <1>1, StepSucceedsMoves, StepFailsMoves DEF Skip, LocalWork
  <2>3. CASE LogSuccess
    <3>1. Moved
      BY <2>3, <1>1, <1>3, ProceedMoves DEF LogSuccess
    <3>2. QED
      BY <2>3, <3>1, <1>3 DEF LogSuccess, LogRow, TypeOK
  <2>4. QED
    BY <2>1, <2>2, <2>3
<1>5. TypeOK'
  BY <1>2, <1>3, <1>4, MovedTyped DEF TypeOK
<1>6. at \notin Gates(prog, defect)
  BY <1>1, GateIsCheck DEF WriteHeader, Skip, LocalWork, LogSuccess, At
<1>7. QED
  BY <1>1, <1>2, <1>4, <1>5, <1>6, MovedIInv

LEMMA LateCheckIInv == IInv /\ LateCheck => IInv'
<1> SUFFICES ASSUME IInv, LateCheck PROVE IInv'
  OBVIOUS
<1>1. Running
  BY DEF IInv, Running, LateCheck, At
<1>2. UNCHANGED <<run, log, ctx, carried, agreed, applied>>
  BY DEF LateCheck
<1>3. StepFails \/ StepSucceeds
  BY DEF LateCheck
<1>4. Moved /\ good' \in Nat /\ bad' \in Nat /\ owed' \in BOOLEAN /\ failed' \subseteq Ops
  BY <1>1, <1>3, StepFailsMoves, StepSucceedsMoves
<1>5. TypeOK'
  BY <1>1, <1>2, <1>4, MovedTyped DEF Running, TypeOK
<1>6. ASSUME at \in Gates(prog, defect) PROVE stage' = "done"
  <2>1. defect \in step.about /\ step.fail \in Stops
    BY <1>1, <1>6, GateIsCheck
  <2>2. StepFails
    BY <2>1 DEF LateCheck
  <2>3. QED
    BY <1>1, <2>1, <2>2, StepFailsMoves
<1>7. QED
  BY <1>1, <1>2, <1>4, <1>5, <1>6, MovedIInv

LEMMA LoadIInv == IInv /\ LoadAttachments => IInv'
<1> SUFFICES ASSUME IInv, LoadAttachments PROVE IInv'
  OBVIOUS
<1>1. Running /\ step.op = "load"
  BY DEF IInv, Running, LoadAttachments, At
<1>2. UNCHANGED <<run, log, ctx, agreed, applied>> /\ carried' \in {"all", "some", "none"}
  BY DEF LoadAttachments
<1>3. IF carried' = "none" THEN StepFails ELSE StepSucceeds
  BY DEF LoadAttachments
<1>4. Moved /\ good' \in Nat /\ bad' \in Nat /\ owed' \in BOOLEAN /\ failed' \subseteq Ops
  BY <1>1, <1>3, StepFailsMoves, StepSucceedsMoves
<1>5. TypeOK'
  BY <1>1, <1>2, <1>4, MovedTyped DEF Running, TypeOK
<1>6. at \notin Gates(prog, defect)
  BY <1>1, GateIsCheck
<1>7. carried' # "none" \/ (step.fail \in Stops => stage' = "done")
  BY <1>1, <1>3, StepFailsMoves
<1>8. QED
  BY <1>1, <1>2, <1>4, <1>5, <1>6, <1>7, MovedIInv

\* A call that comes back or is given up.
LEMMA CallIInv == IInv /\ (Answer \/ GiveUp) => IInv'
<1> SUFFICES ASSUME IInv, Answer \/ GiveUp PROVE IInv'
  OBVIOUS
<1>1. Running /\ step.op \in {"ask", "change"}
  BY DEF IInv, Running, Answer, GiveUp, At
<1>2. UNCHANGED <<run, log, ctx, carried, agreed>>
  BY DEF Answer, GiveUp
<1>3. \E answer : Outcome(answer)
  BY DEF Answer, GiveUp
<1>4. Moved /\ good' \in Nat /\ bad' \in Nat /\ owed' \in BOOLEAN /\ failed' \subseteq Ops
  BY <1>1, <1>3, OutcomeMoves
<1>5. applied' = applied \/ (step.op = "change" /\ applied' = applied + 1)
  BY DEF Answer, GiveUp
<1>6. applied' \in Nat
  BY <1>5 DEF IInv, TypeOK
<1>7. TypeOK'
  BY <1>1, <1>2, <1>4, <1>6, MovedTyped DEF Running, TypeOK
<1>8. at \notin Gates(prog, defect)
  BY <1>1, GateIsCheck
<1>9. QED
  BY <1>1, <1>2, <1>4, <1>5, <1>7, <1>8, MovedIInv

LEMMA PromptedIInv == IInv /\ Prompted => IInv'
<1> SUFFICES ASSUME IInv, Prompted PROVE IInv'
  OBVIOUS
<1>1. Running /\ step.op = "prompt"
  BY DEF IInv, Running, Prompted, At
<1>2. UNCHANGED <<run, log, ctx, carried, applied>>
  BY DEF Prompted
<1>3. agreed' \in Nat
  BY DEF Prompted, IInv, TypeOK
<1>4. Moved /\ good' \in Nat /\ bad' \in Nat /\ owed' \in BOOLEAN /\ failed' \subseteq Ops
  <2>1. CASE StepSucceeds
    BY <2>1, <1>1, StepSucceedsMoves
  <2>2. CASE Dispose(step.fail) /\ UNCHANGED failed
    <3>1. at \in 1..Len(prog.steps) /\ step \in Step
      BY <1>1, ProgWellFormed DEF Running, TypeOK, step
    <3>2. step.fail \in Dispositions /\ (step.fail \in GoesOn => at \in Body)
      BY <3>1, <1>1, ProgWellFormed DEF Running, WellFormed, step, Body, Step
    <3>3. QED
      BY <2>2, <3>2, <1>1, DisposeMoves DEF Running, TypeOK
  <2>3. CASE Return("error") /\ UNCHANGED <<rows, failed, owed>>
    BY <2>3, <1>1, ReturnMoves DEF Running, TypeOK, rows
  <2>4. QED
    BY <2>1, <2>2, <2>3 DEF Prompted
<1>5. TypeOK'
  BY <1>1, <1>2, <1>3, <1>4, MovedTyped DEF Running, TypeOK
<1>6. at \notin Gates(prog, defect)
  BY <1>1, GateIsCheck
<1>7. QED
  BY <1>1, <1>2, <1>4, <1>5, <1>6, MovedIInv

LEMMA FinishIInv == IInv /\ Finish => IInv'
<1> SUFFICES ASSUME IInv, Finish PROVE IInv'
  OBVIOUS
<1> USE DEF IInv
<1>1. cmd' = cmd /\ defect' = defect /\ opt' = opt /\ prog' = prog /\ Body' = Body
  BY DEF Finish, run, prog, Body
<1>2. stage = "run" /\ stage' = "done" /\ UNCHANGED <<at, left, tries, applied, carried>>
      /\ exit' \in {"ok", "error"}
  BY DEF Finish, Return
<1>3. TypeOK'
  BY <1>1, <1>2 DEF TypeOK, Finish, rows
<1>4. Unstarted' /\ Refused' /\ Halted'
  BY <1>1, <1>2 DEF Unstarted, Refused, Halted
<1>5. Loaded'
  BY <1>1, <1>2 DEF Loaded
<1>6. QED
  BY <1>3, <1>4, <1>5

LEMMA NextIInv == IInv /\ [Next]_vars => IInv'
<1> SUFFICES ASSUME IInv, [Next]_vars PROVE IInv'
  OBVIOUS
<1>1. CASE Configure \/ OpenLog \/ Interrupt
  BY <1>1, StartIInv
<1>2. CASE WriteHeader \/ Skip \/ LocalWork \/ LogSuccess
  BY <1>2, PlainIInv
<1>3. CASE LateCheck
  BY <1>3, LateCheckIInv
<1>4. CASE LoadAttachments
  BY <1>4, LoadIInv
<1>5. CASE Answer \/ GiveUp
  BY <1>5, CallIInv
<1>6. CASE Prompted
  BY <1>6, PromptedIInv
<1>7. CASE Finish
  BY <1>7, FinishIInv
<1>8. CASE UNCHANGED vars
  <2>1. prog' = prog /\ Body' = Body
    BY <1>8 DEF vars, prog, Body
  <2>2. TypeOK'
    BY <1>8, <2>1 DEF vars, IInv, TypeOK
  <2>3. QED
    BY <1>8, <2>1, <2>2 DEF vars, IInv, Unstarted, Refused, Halted, Loaded
<1>9. QED
  BY <1>1, <1>2, <1>3, <1>4, <1>5, <1>6, <1>7, <1>8 DEF Next, OwnSteps

\* The invariant that the theorems below are read off.
LEMMA IInvHolds == Spec => []IInv
BY InitIInv, NextIInv, PTL DEF Spec

-----------------------------------------------------------------------------
\* A success that has been logged, or is about to be, has its change.
Backed ==
    prog.kind \in Changing /\ cmd \notin Trusting =>
        /\ good <= applied
        /\ stage = "run" /\ at <= Len(prog.steps) /\ step.op = "row" => good < applied

CallOps == {"ask", "change"}

\* A call that has failed is in the log and will be in the exit status.
Shown ==
    /\ stage \in {"config", "log"} => failed = {} /\ good = 0 /\ owed = FALSE
    /\ failed \cap CallOps # {} /\ log = "open" /\ cmd \notin Unlogged => bad > 0
    /\ cmd \notin Tolerant =>
         /\ failed \cap CallOps # {} => owed \/ (stage = "done" /\ exit = "error")
         /\ owed => /\ stage = "run" => at >= prog.first
                    /\ stage = "done" => exit = "error"

Reported == Backed /\ Shown

\* A change that is confirmed by its answer alone.
CleanChange ==
    /\ step.op = "change" /\ step.when = "always"
    /\ step.believes = {"ok"} /\ ~step.list /\ step.fail # "warn"

\* Where a step leads when it does not end the command.
LEMMA ProceedGoes ==
    ASSUME NEW n, Proceed(n)
    PROVE  UNCHANGED <<stage, exit>> /\ at' \in {at + 1, prog.first, prog.last + 1}
BY DEF Proceed, NextItem, Goto

LEMMA DisposeGoes ==
    ASSUME TypeOK, NEW how \in Dispositions, Dispose(how)
    PROVE  /\ good' = good /\ bad' >= bad
           /\ log = "open" /\ how \in {"row", "told", "next", "owe"} => bad' > 0
           /\ owed' = (owed \/ how = "owe")
           /\ how \in {"return", "row"} => stage' = "done" /\ exit' = "error"
           /\ how \in GoesOn => UNCHANGED <<stage, exit>>
                                /\ at' \in {prog.first, prog.last + 1}
           /\ stage' = "done" \/ at' \in {at + 1, prog.first, prog.last + 1}
           /\ stage' = "done" /\ stage = "run" => how \in Stops
           /\ how # "warn" => stage' = "done" \/ at' \in {prog.first, prog.last + 1}
<1>1. good' = good /\ bad' >= bad
      /\ (log = "open" /\ how \in {"row", "told", "next", "owe"} => bad' > 0)
  BY DEF Dispose, LogRow, TypeOK
<1>2. owed' = (owed \/ how = "owe")
  BY DEF Dispose
<1>3. CASE how \in {"return", "row"}
  <2>1. stage' = "done" /\ exit' = "error"
    BY <1>3 DEF Dispose, GoesOn, Return
  <2>2. QED
    BY <1>1, <1>2, <1>3, <2>1 DEF GoesOn, Stops
<1>4. CASE how \in {"told", "calm"}
  <2>1. stage' = "done"
    BY <1>4 DEF Dispose, GoesOn, Return
  <2>2. QED
    BY <1>1, <1>2, <1>4, <2>1 DEF GoesOn, Stops
<1>5. CASE how \in GoesOn
  <2>1. NextItem
    BY <1>5 DEF Dispose, GoesOn
  <2>2. UNCHANGED <<stage, exit>> /\ at' \in {prog.first, prog.last + 1}
    BY <2>1 DEF NextItem, Goto
  <2>3. QED
    BY <1>1, <1>2, <1>5, <2>2 DEF GoesOn, Stops
<1>6. CASE how = "warn"
  <2>1. Proceed(left)
    BY <1>6 DEF Dispose, GoesOn
  <2>2. UNCHANGED <<stage, exit>> /\ at' \in {at + 1, prog.first, prog.last + 1}
    BY <2>1, ProceedGoes
  <2>3. QED
    BY <1>1, <1>2, <1>6, <2>2 DEF GoesOn, Stops
<1>7. QED
  BY <1>3, <1>4, <1>5, <1>6 DEF Dispositions, GoesOn

LEMMA StepTyped ==
    ASSUME Running
    PROVE  at \in 1..Len(prog.steps) /\ step \in Step /\ step.fail \in Dispositions
           /\ step.op \in Ops /\ step.empty \in Dispositions
           /\ step.empty \notin GoesOn /\ (step.fail \in GoesOn => at \in Body)
           /\ (step.list => at < prog.first)
<1>1. at \in 1..Len(prog.steps) /\ step \in Step
  BY ProgWellFormed DEF Running, TypeOK, step
<1>2. QED
  BY <1>1, ProgWellFormed DEF Running, WellFormed, step, Step, Body

\* A step that logs no success keeps the successes backed: a row is reached
\* only from a clean change that the server has made.
LEMMA BackedStep ==
    ASSUME IInv, TypeOK', Backed, Running, UNCHANGED run, good' = good,
           applied' >= applied,
           \/ stage' = "done"
           \/ at' \in {prog.first, prog.last + 1}
           \/ at' = at /\ step.op # "row"
           \/ at' = at + 1 /\ (CleanChange => applied' = applied + 1)
    PROVE  Backed'
<1>1. cmd' = cmd /\ prog' = prog
  BY DEF run, prog
<1>2. SUFFICES ASSUME prog.kind \in Changing, cmd \notin Trusting
               PROVE  /\ good <= applied'
                      /\ stage' = "run" /\ at' <= Len(prog.steps)
                           /\ prog.steps[at'].op = "row" => good < applied'
  BY <1>1 DEF Backed, step
<1>3. good \in Nat /\ applied \in Nat /\ applied' \in Nat /\ at \in Nat /\ at' \in Nat
      /\ at' >= 1 /\ Len(prog.steps) \in Nat /\ cmd \in Commands
  BY <1>1, ProgWellFormed DEF IInv, TypeOK
<1>4. good <= applied
  BY <1>2 DEF Backed
<1>5. ASSUME stage' = "run", at' <= Len(prog.steps), prog.steps[at'].op = "row"
      PROVE  good < applied'
  <2>1. Confirmed(prog)
    BY <1>2, <1>3, ConfirmAssumption DEF prog
  <2>2. /\ at' # prog.first /\ at' # prog.last + 1
        /\ prog.steps[at' - 1].op = "change" /\ prog.steps[at' - 1].when = "always"
        /\ prog.steps[at' - 1].believes = {"ok"} /\ ~prog.steps[at' - 1].list
        /\ prog.steps[at' - 1].fail # "warn"
    BY <2>1, <1>3, <1>5 DEF Confirmed
  <2>3. at' # at
    BY <1>3, <1>5, <2>2 DEF step
  <2>4. at' = at + 1 /\ (CleanChange => applied' = applied + 1)
    BY <1>5, <2>2, <2>3
  <2>5. at' - 1 = at
    BY <2>4, <1>3
  <2>6. CleanChange
    BY <2>2, <2>5 DEF CleanChange, step
  <2>7. QED
    BY <2>4, <2>6, <1>3, <1>4
<1>6. QED
  BY <1>3, <1>4, <1>5

\* A step keeps the failures shown when it adds none, or shows the one it adds.
LEMMA ShownStep ==
    ASSUME IInv, Shown, Running, Moved, UNCHANGED run, log' = log, bad' \in Nat,
           bad' >= bad, owed => owed', owed' => owed \/ at \in Body,
           stage' = "done" /\ cmd \notin Tolerant /\ at >= prog.first => exit' = "error",
           \/ failed' \cap CallOps = failed \cap CallOps
           \/ /\ log = "open" /\ cmd \notin Unlogged => bad' > 0
              /\ cmd \notin Tolerant => owed' \/ (stage' = "done" /\ exit' = "error")
    PROVE  Shown'
<1>1. cmd' = cmd /\ prog' = prog
  BY DEF run, prog
<1>2. at \in Nat /\ at' \in Nat /\ prog.first \in Nat /\ bad \in Nat /\ stage = "run"
  BY ProgWellFormed DEF Running, TypeOK, Moved
<1>3. stage' \notin {"config", "log"}
  BY DEF Moved
<1>4. failed' \cap CallOps # {} /\ log' = "open" /\ cmd' \notin Unlogged => bad' > 0
  BY <1>1, <1>2 DEF Shown
<1>5. ASSUME cmd \notin Tolerant
      PROVE  /\ failed' \cap CallOps # {} => owed' \/ (stage' = "done" /\ exit' = "error")
             /\ owed' => /\ stage' = "run" => at' >= prog.first
                         /\ stage' = "done" => exit' = "error"
  <2>1. failed \cap CallOps # {} => owed
    BY <1>2, <1>5 DEF Shown
  <2>2. failed' \cap CallOps # {} => owed' \/ (stage' = "done" /\ exit' = "error")
    BY <1>5, <2>1
  <2>3. owed' => at >= prog.first
    BY <1>2, <1>5 DEF Shown, Body
  <2>4. at >= prog.first => at' >= prog.first
    BY <1>2 DEF Moved
  <2>5. QED
    BY <1>5, <2>2, <2>3, <2>4
<1>6. QED
  BY <1>1, <1>3, <1>4, <1>5 DEF Shown

\* The end of a command that shows its failures is an error from its items on.
LEMMA LateStops ==
    ASSUME Running, cmd \notin Tolerant, at >= prog.first
    PROVE  step.op # "header" /\ step.fail \notin {"told", "calm"}
<1>1. cmd \in Commands
  BY DEF Running, TypeOK
<1>2. Returned(prog)
  BY <1>1, ReturnedAssumption DEF prog
<1>3. at \in prog.first..Len(prog.steps)
  BY StepTyped, ProgWellFormed DEF Running, TypeOK
<1>4. QED
  BY <1>2, <1>3 DEF Returned, step

\* What StepFails and StepSucceeds do, for both halves.
LEMMA FailsGoes ==
    ASSUME Running, StepFails
    PROVE  /\ good' = good /\ bad' >= bad
           /\ owed => owed'
           /\ owed' => owed \/ at \in Body
           /\ stage' = "done" /\ cmd \notin Tolerant /\ at >= prog.first => exit' = "error"
           /\ stage' = "done" \/ at' \in {at + 1, prog.first, prog.last + 1}
           /\ step.fail # "warn" => stage' = "done" \/ at' \in {prog.first, prog.last + 1}
           /\ failed' = failed \cup {step.op}
<1>1. TypeOK /\ stage = "run"
  BY DEF Running
<1>2. step.fail \in Dispositions /\ Dispose(step.fail) /\ failed' = failed \cup {step.op}
  BY StepTyped DEF StepFails
<1>3. step.fail = "owe" => at \in Body
  BY StepTyped DEF GoesOn
<1>4. owed' = (owed \/ step.fail = "owe")
  BY <1>1, <1>2, DisposeGoes
<1>5. ASSUME stage' = "done", cmd \notin Tolerant, at >= prog.first PROVE exit' = "error"
  <2>1. step.fail \in Stops
    BY <1>1, <1>2, <1>5, DisposeGoes
  <2>2. step.fail \in {"return", "row"}
    BY <2>1, <1>5, LateStops DEF Stops
  <2>3. QED
    BY <2>2, <1>1, <1>2, DisposeGoes
<1>6. QED
  BY <1>1, <1>2, <1>3, <1>4, <1>5, DisposeGoes

LEMMA SucceedsGoes ==
    ASSUME Running, StepSucceeds
    PROVE  /\ UNCHANGED <<good, bad, failed, owed, stage, exit>>
           /\ at' \in {at + 1, prog.first, prog.last + 1}
BY ProceedGoes DEF StepSucceeds

LEMMA InitReported == Init => Reported
BY DEF Init, Reported, Backed, Shown, CallOps

\* Before the handler runs, and after its last step.
LEMMA EndsReported ==
    IInv /\ IInv' /\ Reported /\ (Configure \/ OpenLog \/ Interrupt \/ Finish) => Reported'
<1> SUFFICES ASSUME IInv, IInv', Reported, Configure \/ OpenLog \/ Interrupt \/ Finish
             PROVE  Reported'
  OBVIOUS
<1>1. cmd' = cmd /\ prog' = prog
  BY DEF Configure, OpenLog, Interrupt, Finish, run, prog
<1>2. UNCHANGED <<good, bad, failed, owed, applied>>
  BY DEF Configure, OpenLog, Interrupt, Finish, rows
<1>3. CASE Configure
  <2>1. stage = "config" /\ stage' \in {"log", "done"} /\ log' = log
    BY <1>3 DEF Configure, Return
  <2>2. QED
    BY <1>1, <1>2, <2>1 DEF Reported, Backed, Shown
<1>4. CASE OpenLog
  <2>1. stage = "log" /\ stage' = "run" /\ at = 1 /\ at' = 1 /\ failed = {} /\ owed = FALSE
    BY <1>4 DEF OpenLog, Reported, Shown, IInv, Unstarted
  <2>2. Shown'
    BY <1>1, <1>2, <2>1 DEF Shown
  <2>3. Backed'
    <3>1. SUFFICES ASSUME prog.kind \in Changing, cmd \notin Trusting,
                          1 <= Len(prog.steps), prog.steps[1].op = "row"
                   PROVE  FALSE
      BY <1>1, <1>2, <2>1 DEF Backed, Reported, step
    <3>2. cmd \in Commands /\ Len(prog.steps) \in Nat
      BY ProgWellFormed DEF IInv, TypeOK
    <3>3. Confirmed(prog)
      BY <3>1, <3>2, ConfirmAssumption DEF prog
    <3>4. QED
      BY <3>1, <3>2, <3>3 DEF Confirmed
  <2>4. QED
    BY <2>2, <2>3 DEF Reported
<1>5. CASE Interrupt
  <2>1. UNCHANGED <<stage, at, log, exit>>
    BY <1>5 DEF Interrupt
  <2>2. QED
    BY <1>1, <1>2, <2>1 DEF Reported, Backed, Shown, step
<1>6. CASE Finish
  <2>1. stage = "run" /\ stage' = "done" /\ log' = log
        /\ exit' = (IF owed THEN "error" ELSE "ok")
    BY <1>6 DEF Finish, Return
  <2>2. Backed'
    BY <1>1, <1>2, <2>1 DEF Reported, Backed
  <2>3. Shown'
    BY <1>1, <1>2, <2>1 DEF Reported, Shown
  <2>4. QED
    BY <2>2, <2>3 DEF Reported
<1>7. QED
  BY <1>3, <1>4, <1>5, <1>6

\* A step that leaves the server alone, logs no success and fails no call.
LEMMA QuietReported ==
    ASSUME IInv, IInv', Reported, Running, Moved, UNCHANGED run, log' = log,
           applied' = applied, ~CleanChange, good' = good, bad' >= bad,
           owed => owed', owed' => owed \/ at \in Body,
           stage' = "done" /\ cmd \notin Tolerant /\ at >= prog.first => exit' = "error",
           failed' \cap CallOps = failed \cap CallOps,
           stage' = "done" \/ at' \in {at + 1, prog.first, prog.last + 1}
    PROVE  Reported'
<1>1. TypeOK' /\ bad' \in Nat /\ applied \in Nat
  BY DEF IInv, TypeOK
<1>2. applied' >= applied
  BY <1>1
<1>3. Shown'
  BY <1>1, ShownStep DEF Reported
<1>4. Backed'
  BY <1>1, <1>2, BackedStep DEF Reported
<1>5. QED
  BY <1>3, <1>4 DEF Reported

LEMMA LocalReported ==
    IInv /\ IInv' /\ Reported
      /\ (WriteHeader \/ Skip \/ LateCheck \/ LocalWork \/ LoadAttachments \/ Prompted)
    => Reported'
<1> SUFFICES ASSUME IInv, IInv', Reported,
                    WriteHeader \/ Skip \/ LateCheck \/ LocalWork \/ LoadAttachments
                      \/ Prompted
             PROVE  Reported'
  OBVIOUS
<1>1. Running
  BY DEF IInv, Running, WriteHeader, Skip, LateCheck, LocalWork, LoadAttachments, Prompted, At
<1>2. UNCHANGED run /\ log' = log /\ applied' = applied
  BY DEF WriteHeader, Skip, LateCheck, LocalWork, LoadAttachments, Prompted
<1>3. bad \in Nat /\ left \in 0..MaxItems /\ (at \in Body => left > 0) /\ TypeOK
  BY DEF IInv, TypeOK
<1>4. ~CleanChange
  BY DEF WriteHeader, Skip, LateCheck, LocalWork, LoadAttachments, Prompted, At, CleanChange
<1>5. CASE StepSucceeds
  <2>1. Moved
    BY <1>1, <1>5, StepSucceedsMoves
  <2>2. UNCHANGED <<good, bad, failed, owed, stage, exit>>
        /\ at' \in {at + 1, prog.first, prog.last + 1}
    BY <1>1, <1>5, SucceedsGoes
  <2>3. stage' # "done" /\ bad' >= bad
    BY <1>1, <1>3, <2>2 DEF Running
  <2>4. QED
    BY <1>1, <1>2, <1>4, <2>1, <2>2, <2>3, QuietReported
<1>6. CASE StepFails /\ step.op \notin CallOps
  <2>1. Moved
    BY <1>1, <1>6, StepFailsMoves
  <2>2. failed' \cap CallOps = failed \cap CallOps
    BY <1>1, <1>6, FailsGoes
  <2>3. QED
    BY <1>1, <1>2, <1>4, <1>6, <2>1, <2>2, FailsGoes, QuietReported
<1>7. CASE WriteHeader
  <2>1. UNCHANGED <<good, bad, failed, owed>> /\ (Return("panic") \/ Proceed(left))
    BY <1>7 DEF WriteHeader, rows
  <2>2. bad' >= bad /\ Moved
    BY <1>1, <1>3, <2>1, ReturnMoves, ProceedMoves
  <2>3. cmd \notin Tolerant => ~(at >= prog.first)
    BY <1>1, <1>7, LateStops DEF WriteHeader, At
  <2>4. stage' = "done" \/ at' \in {at + 1, prog.first, prog.last + 1}
    BY <2>1, ProceedGoes DEF Return
  <2>5. QED
    BY <1>1, <1>2, <1>4, <2>1, <2>2, <2>3, <2>4, QuietReported
<1>8. CASE Dispose(step.fail) /\ UNCHANGED failed /\ step.op = "prompt"
  <2>1. step.fail \in Dispositions /\ (step.fail \in GoesOn => at \in Body)
    BY <1>1, StepTyped
  <2>2. Moved
    BY <1>1, <1>8, <2>1, DisposeMoves
  <2>3. owed' = (owed \/ step.fail = "owe") /\ good' = good /\ bad' >= bad
        /\ (stage' = "done" \/ at' \in {at + 1, prog.first, prog.last + 1})
    BY <1>3, <1>8, <2>1, DisposeGoes
  <2>4. ASSUME stage' = "done", cmd \notin Tolerant, at >= prog.first PROVE exit' = "error"
    <3>1. step.fail \in Stops
      BY <1>1, <1>3, <1>8, <2>1, <2>4, DisposeGoes DEF Running
    <3>2. step.fail \in {"return", "row"}
      BY <1>1, <2>4, <3>1, LateStops DEF Stops
    <3>3. QED
      BY <1>3, <1>8, <2>1, <3>2, DisposeGoes
  <2>5. QED
    BY <1>1, <1>2, <1>4, <1>8, <2>1, <2>2, <2>3, <2>4, QuietReported DEF GoesOn
<1>9. CASE Return("error") /\ UNCHANGED <<rows, failed, owed>>
  <2>1. stage' = "done" /\ exit' = "error" /\ UNCHANGED <<good, bad, failed, owed>>
    BY <1>9 DEF Return, rows
  <2>2. bad' >= bad /\ Moved
    BY <1>1, <1>3, <1>9, <2>1, ReturnMoves
  <2>3. QED
    BY <1>1, <1>2, <1>4, <2>1, <2>2, QuietReported
<1>10. QED
  <2>1. Skip => StepSucceeds
    BY DEF Skip
  <2>2. LateCheck \/ LocalWork \/ LoadAttachments =>
          StepSucceeds \/ (StepFails /\ step.op \notin CallOps)
    BY DEF LateCheck, LocalWork, LoadAttachments, At, CallOps
  <2>3. Prompted => \/ StepSucceeds
                    \/ Dispose(step.fail) /\ UNCHANGED failed /\ step.op = "prompt"
                    \/ Return("error") /\ UNCHANGED <<rows, failed, owed>>
    BY DEF Prompted, At
  <2>4. QED
    BY <1>5, <1>6, <1>7, <1>8, <1>9, <2>1, <2>2, <2>3

\* The row of a success: the change it stands for has been counted.
LEMMA RowReported == IInv /\ IInv' /\ Reported /\ LogSuccess => Reported'
<1> SUFFICES ASSUME IInv, IInv', Reported, LogSuccess PROVE Reported'
  OBVIOUS
<1>1. Running /\ step.op = "row" /\ cmd' = cmd /\ prog' = prog /\ TypeOK /\ TypeOK'
  BY DEF IInv, Running, LogSuccess, At, run, prog
<1>2. UNCHANGED <<run, log, applied, failed, owed>> /\ bad' = bad /\ good' <= good + 1
      /\ UNCHANGED <<stage, exit>> /\ at' \in {at + 1, prog.first, prog.last + 1}
  BY <1>1, ProceedGoes DEF LogSuccess, LogRow, TypeOK
<1>3. Moved
  BY <1>1, ProceedMoves DEF LogSuccess, TypeOK
<1>4. Shown'
  BY <1>1, <1>2, <1>3, ShownStep DEF Reported, Running, TypeOK
<1>5. Backed'
  <2>1. SUFFICES ASSUME prog.kind \in Changing, cmd \notin Trusting
                 PROVE  good' <= applied /\ ~(at' <= Len(prog.steps)
                                                /\ prog.steps[at'].op = "row")
    BY <1>1, <1>2 DEF Backed, step
  <2>2. good < applied /\ good \in Nat /\ good' \in Nat /\ applied \in Nat
    BY <1>1, <2>1 DEF Reported, Backed, Running, TypeOK
  <2>3. cmd \in Commands /\ at \in Nat /\ at' \in Nat /\ at' >= 1 /\ Len(prog.steps) \in Nat
    BY <1>1, <1>3, ProgWellFormed DEF TypeOK
  <2>4. Confirmed(prog)
    BY <2>1, <2>3, ConfirmAssumption DEF prog
  <2>5. ASSUME at' <= Len(prog.steps), prog.steps[at'].op = "row" PROVE FALSE
    <3>1. at' # prog.first /\ at' # prog.last + 1 /\ prog.steps[at' - 1].op = "change"
      BY <2>3, <2>4, <2>5 DEF Confirmed
    <3>2. at' = at + 1
      BY <1>2, <3>1
    <3>3. at' - 1 = at
      BY <2>3, <3>2
    <3>4. QED
      BY <1>1, <3>1, <3>3 DEF step
  <2>6. QED
    BY <1>2, <2>2, <2>5
<1>6. QED
  BY <1>4, <1>5 DEF Reported

\* A call that fails, as its disposition has it.
LEMMA CallFailsShown ==
    ASSUME IInv, IInv', Shown, Running, StepFails, UNCHANGED run, log' = log,
           step.op \in {"ask", "change"}, ~(prog.answers \subseteq step.believes)
    PROVE  Shown'
<1>1. TypeOK /\ TypeOK' /\ cmd \in Commands /\ at \in 1..Len(prog.steps) /\ bad' \in Nat
  BY StepTyped DEF IInv, TypeOK
<1>2. at \in Calls(prog)
  BY <1>1 DEF Calls, step
<1>3. step.fail \in Dispositions /\ Dispose(step.fail)
  BY StepTyped DEF StepFails
<1>4. log = "open" /\ cmd \notin Unlogged => bad' > 0
  <2>1. cmd \notin Unlogged => step.fail \in {"row", "told", "next", "owe"}
    BY <1>1, <1>2, LoggedAssumption DEF prog, step
  <2>2. QED
    BY <1>1, <1>3, <2>1, DisposeGoes
<1>5. cmd \notin Tolerant => owed' \/ (stage' = "done" /\ exit' = "error")
  <2>1. cmd \notin Tolerant => Returned(prog)
    BY <1>1, ReturnedAssumption DEF prog
  <2>2. cmd \notin Tolerant => step.fail \in {"return", "row", "owe"}
    BY <1>2, <2>1 DEF Returned, step
  <2>3. QED
    BY <1>1, <1>3, <2>2, DisposeGoes
<1>6. Moved
  BY StepFailsMoves
<1>7. /\ bad' >= bad /\ (owed => owed') /\ (owed' => owed \/ at \in Body)
      /\ (stage' = "done" /\ cmd \notin Tolerant /\ at >= prog.first => exit' = "error")
  BY FailsGoes
<1>8. QED
  BY <1>1, <1>4, <1>5, <1>6, <1>7, ShownStep

\* A call that is retried, fails, or has succeeded.
LEMMA OutcomeReported ==
    ASSUME IInv, IInv', Reported, Running, UNCHANGED run, log' = log,
           step.op \in {"ask", "change"},
           NEW answer \in prog.answers, Outcome(answer),
           applied' >= applied,
           answer = "ok" /\ step.op = "change" => applied' = applied + 1
    PROVE  Reported'
<1>1. TypeOK /\ TypeOK' /\ bad \in Nat /\ good \in Nat /\ bad' \in Nat /\ Backed /\ Shown
  BY DEF IInv, TypeOK, Reported
<1>2. Moved /\ stage = "run" /\ step.op # "row"
  BY OutcomeMoves DEF Running
<1>3. CASE tries' = tries + 1 /\ UNCHANGED <<stage, at, left, exit, rows, failed, owed>>
  <2>1. UNCHANGED <<stage, at, exit, good, bad, failed, owed>>
    BY <1>3 DEF rows
  <2>2. Backed'
    BY <1>1, <1>2, <2>1, BackedStep
  <2>3. Shown'
    BY <1>1, <1>2, <2>1, ShownStep
  <2>4. QED
    BY <2>2, <2>3 DEF Reported
<1>4. CASE ~GoodAnswer(answer) /\ StepFails
  <2>1. ~(prog.answers \subseteq step.believes)
    BY <1>4 DEF GoodAnswer
  <2>2. Shown'
    BY <1>1, <1>4, <2>1, CallFailsShown
  <2>3. good' = good /\ (step.fail # "warn" => stage' = "done" \/ at' \in {prog.first, prog.last + 1})
        /\ (stage' = "done" \/ at' \in {at + 1, prog.first, prog.last + 1})
    BY <1>4, FailsGoes
  <2>4. Backed'
    BY <1>1, <2>3, BackedStep DEF CleanChange
  <2>5. QED
    BY <2>2, <2>4 DEF Reported
<1>5. CASE GoodAnswer(answer) /\ ~step.list /\ StepSucceeds
  <2>1. UNCHANGED <<good, bad, failed, owed, stage, exit>>
        /\ at' \in {at + 1, prog.first, prog.last + 1}
    BY <1>5, SucceedsGoes
  <2>2. CleanChange => applied' = applied + 1
    BY <1>5 DEF CleanChange, GoodAnswer
  <2>3. Backed'
    BY <1>1, <2>1, <2>2, BackedStep
  <2>4. Shown'
    BY <1>1, <1>2, <2>1, ShownStep
  <2>5. QED
    BY <2>3, <2>4 DEF Reported
<1>6. CASE step.list /\ Dispose(step.empty) /\ UNCHANGED failed
  <2>1. step.empty \in Dispositions /\ step.empty \notin GoesOn /\ at < prog.first
    BY <1>6, StepTyped
  <2>2. owed' = owed /\ good' = good /\ bad' >= bad
        /\ (stage' = "done" \/ at' \in {at + 1, prog.first, prog.last + 1})
    BY <1>1, <1>6, <2>1, DisposeGoes DEF GoesOn, TypeOK
  <2>3. ~(at >= prog.first)
    BY <1>1, <2>1, ProgWellFormed DEF TypeOK
  <2>4. Backed'
    BY <1>1, <1>6, <2>2, BackedStep DEF CleanChange
  <2>5. Shown'
    BY <1>1, <1>2, <1>6, <2>2, <2>3, ShownStep
  <2>6. QED
    BY <2>4, <2>5 DEF Reported
<1>7. ASSUME step.list, NEW n, Proceed(n), UNCHANGED <<good, bad, failed, owed>>
      PROVE  Reported'
  <2>1. UNCHANGED <<stage, exit>> /\ at' \in {at + 1, prog.first, prog.last + 1}
    BY <1>7, ProceedGoes
  <2>2. Backed'
    BY <1>1, <1>7, <2>1, BackedStep DEF CleanChange
  <2>3. Shown'
    BY <1>1, <1>2, <1>7, <2>1, ShownStep
  <2>4. QED
    BY <2>2, <2>3 DEF Reported
<1>8. QED
  BY <1>3, <1>4, <1>5, <1>6, <1>7 DEF Outcome

LEMMA CallReported == IInv /\ IInv' /\ Reported /\ (Answer \/ GiveUp) => Reported'
<1> SUFFICES ASSUME IInv, IInv', Reported, Answer \/ GiveUp PROVE Reported'
  OBVIOUS
<1>1. Running /\ step.op \in {"ask", "change"}
  BY DEF IInv, Running, Answer, GiveUp, At
<1>2. UNCHANGED run /\ log' = log /\ applied \in Nat
  BY DEF Answer, GiveUp, IInv, TypeOK
<1>3. CASE Answer
  <2>1. PICK answer \in prog.answers :
          /\ \E done \in Done(answer) :
               applied' = IF step.op = "change" /\ done THEN applied + 1 ELSE applied
          /\ Outcome(answer)
    BY <1>3 DEF Answer
  <2>2. applied' >= applied
    BY <1>2, <2>1
  <2>3. answer = "ok" /\ step.op = "change" => applied' = applied + 1
    BY <2>1 DEF Done
  <2>4. QED
    BY <1>1, <1>2, <2>1, <2>2, <2>3, OutcomeReported
<1>4. CASE GiveUp
  <2>1. Outcome("lost") /\ applied' \in {applied, applied + 1}
    BY <1>4 DEF GiveUp
  <2>2. "lost" \in prog.answers
    BY ProgWellFormed DEF IInv, WellFormed
  <2>3. applied' >= applied
    BY <1>2, <2>1
  <2>4. QED
    BY <1>1, <1>2, <2>1, <2>2, <2>3, OutcomeReported
<1>5. QED
  BY <1>3, <1>4

LEMMA NextReported == IInv /\ IInv' /\ Reported /\ [Next]_vars => Reported'
<1> SUFFICES ASSUME IInv, IInv', Reported, [Next]_vars PROVE Reported'
  OBVIOUS
<1>1. CASE UNCHANGED vars
  BY <1>1 DEF vars, Reported, Backed, Shown, step, prog
<1>2. CASE Next
  BY <1>2, EndsReported, LocalReported, RowReported, CallReported DEF Next, OwnSteps
<1>3. QED
  BY <1>1, <1>2

LEMMA ReportedHolds == Spec => []Reported
<1>1. Init => Reported
  BY InitReported
<1>2. QED
  BY <1>1, NextReported, IInvHolds, PTL DEF Spec

-----------------------------------------------------------------------------
(***************************************************************************)
(* What the operator has agreed to.  Only the yes of a question in force   *)
(* leads past it; the one asked for all the items leaves a yes for each of *)
(* those that are still to be changed, the one asked for an item leaves a  *)
(* yes for it until it is changed.                                         *)
(***************************************************************************)

\* The option as this run has it.
Setting == IF opt THEN "opt" ELSE "plain"

\* The items from here on whose change, at c, has not been tried.
Pending(c) ==
    CASE at > prog.last -> 0
      [] at \in (c + 1)..prog.last -> left - 1
      [] OTHER -> left

\* Past question q, a yes is left over for every change still to be made.
YesToAll(q, c) ==
    AsksForAll(prog, q) /\ stage = "run" /\ at > q => applied + Pending(c) <= agreed

YesToItem(q, c) ==
    AsksForEach(prog, q, c) /\ stage = "run" /\ at \in (q + 1)..c => applied < agreed

Consent ==
    HasPrompt(cmd) =>
        /\ applied <= agreed
        /\ \A q \in Asks(prog, Setting), c \in prog.first..prog.last :
              prog.steps[c].op = "change" => YesToAll(q, c) /\ YesToItem(q, c)

\* Where a step leads, and with how many items.
Led ==
    \/ stage' = "done"
    \/ at' = at /\ left' = left /\ step.retried
    \/ at' = at + 1 /\ left' = left
    \/ at' = at + 1 /\ step.list /\ step.op # "prompt"
    \/ at \in Body /\ left > 1 /\ at' = prog.first /\ left' = left - 1
    \/ at' = prog.last + 1

LEMMA NextItemLed ==
    ASSUME Running, at \in Body, NextItem
    PROVE  Led
BY DEF NextItem, Goto, Led

LEMMA ProceedLed ==
    ASSUME Running, Proceed(left)
    PROVE  Led
<1>1. CASE at \in Body /\ at = prog.last
  BY <1>1, NextItemLed DEF Proceed
<1>2. CASE ~(at \in Body /\ at = prog.last)
  BY <1>2 DEF Proceed, Goto, Led
<1>3. QED
  BY <1>1, <1>2

LEMMA DisposeLed ==
    ASSUME Running, NEW how \in Dispositions, how \in GoesOn => at \in Body,
           Dispose(how)
    PROVE  Led
<1>1. CASE how \in Stops
  BY <1>1 DEF Dispose, Return, Stops, GoesOn, Led
<1>2. CASE how \in GoesOn
  BY <1>2, NextItemLed DEF Dispose, GoesOn
<1>3. CASE how = "warn"
  BY <1>3, ProceedLed DEF Dispose, GoesOn
<1>4. QED
  BY <1>1, <1>2, <1>3 DEF Dispositions, Stops, GoesOn

LEMMA EitherLed ==
    ASSUME Running, StepFails \/ StepSucceeds
    PROVE  Led
<1>1. CASE StepFails
  BY <1>1, StepTyped, DisposeLed DEF StepFails
<1>2. CASE StepSucceeds
  BY <1>2, ProceedLed DEF StepSucceeds
<1>3. QED
  BY <1>1, <1>2

LEMMA OutcomeLed ==
    ASSUME Running, step.op # "prompt", NEW answer, Outcome(answer)
    PROVE  Led
<1>1. CASE step.retried /\ UNCHANGED <<stage, at, left, exit, rows, failed, owed>>
  BY <1>1 DEF Led
<1>2. CASE StepFails \/ StepSucceeds
  BY <1>2, EitherLed
<1>3. CASE step.list /\ Dispose(step.empty)
  BY <1>3, StepTyped, DisposeLed
<1>4. ASSUME step.list, NEW n, Proceed(n)
      PROVE  Led
  <2>1. at < prog.first /\ at \notin Body
    <3>1. at < prog.first /\ at \in Nat /\ prog.first \in Nat /\ prog.last \in Nat
      BY <1>4, StepTyped, ProgWellFormed DEF Running, TypeOK
    <3>2. QED
      BY <3>1 DEF Body
  <2>2. QED
    BY <1>4, <2>1 DEF Proceed, Goto, Led
<1>5. QED
  BY <1>1, <1>2, <1>3, <1>4 DEF Outcome

\* What the assumption on questions says of the command that runs.
LEMMA OneChange ==
    ASSUME TypeOK, HasPrompt(cmd)
    PROVE  \E c \in prog.first..prog.last :
              /\ ~prog.steps[c].retried
              /\ \A i \in 1..Len(prog.steps) : prog.steps[i].op = "change" => i = c
              /\ \E q \in Asks(prog, Setting) : AsksForAll(prog, q) \/ AsksForEach(prog, q, c)
<1>1. Consents(prog)
  BY PromptAssumption DEF TypeOK, prog
<1>2. Setting \in {"opt", "plain"}
  BY DEF Setting
<1>3. QED
  BY <1>1, <1>2 DEF Consents

\* A step of the handler keeps the consent when only a change changes something
\* and only a yes leads past a question.
LEMMA ConsentStep ==
    ASSUME IInv, Running, Moved, Consent, UNCHANGED run, Led,
           applied' \in {applied, applied + 1},
           applied' # applied => step.op = "change",
           agreed' \in Nat, agreed' >= agreed,
           at \in Asks(prog, Setting) /\ step.fail # "warn" /\ stage' # "done"
              /\ at' = at + 1 /\ at' <= prog.last
                => left' = left /\ agreed' = agreed + (IF at \in Body THEN 1 ELSE left)
    PROVE  Consent'
<1>1. cmd' = cmd /\ prog' = prog /\ Setting' = Setting
  BY DEF run, prog, Setting
<1>2. /\ at \in 1..Len(prog.steps) /\ at \in Nat /\ at' \in Nat /\ left \in Nat /\ left' \in Nat
      /\ applied \in Nat /\ agreed \in Nat /\ applied' \in Nat /\ stage = "run"
      /\ TypeOK /\ (at \in Body => left > 0)
  <2>1. at \in Nat /\ at' \in Nat /\ left \in Nat /\ left' \in Nat
    BY ProgWellFormed, BoundsAssumption DEF IInv, TypeOK, Moved
  <2>2. QED
    BY <2>1, StepTyped DEF IInv, TypeOK, Running
<1>3. /\ prog.first \in Nat /\ prog.last \in Nat /\ Len(prog.steps) \in Nat
      /\ prog.first >= 2 /\ prog.last <= Len(prog.steps)
  BY <1>2, ProgWellFormed
<1>4. SUFFICES ASSUME HasPrompt(cmd)
               PROVE  /\ applied' <= agreed'
                      /\ \A q \in Asks(prog, Setting), c \in prog.first..prog.last :
                           prog.steps[c].op = "change" => YesToAll(q, c)' /\ YesToItem(q, c)'
  BY <1>1 DEF Consent
<1>5. PICK c \in prog.first..prog.last :
         /\ ~prog.steps[c].retried
         /\ \A i \in 1..Len(prog.steps) : prog.steps[i].op = "change" => i = c
         /\ \E q \in Asks(prog, Setting) : AsksForAll(prog, q) \/ AsksForEach(prog, q, c)
  BY <1>2, <1>4, OneChange
<1>6. applied <= agreed /\ c \in Nat /\ prog.first <= c /\ c <= prog.last
  BY <1>3, <1>4 DEF Consent
<1>7. step.op = "change" => at = c
  BY <1>2, <1>5 DEF step
<1>8. applied' <= agreed'
  <2>1. CASE applied' = applied
    BY <2>1, <1>2, <1>6
  <2>2. CASE applied' # applied
    <3>1. at = c /\ step.op = "change" /\ at \in Body /\ left > 0
      BY <2>2, <1>2, <1>3, <1>6, <1>7 DEF Body
    <3>2. PICK q \in Asks(prog, Setting) : AsksForAll(prog, q) \/ AsksForEach(prog, q, c)
      BY <1>5
    <3>3. YesToAll(q, c) /\ YesToItem(q, c) /\ q \in Nat
      BY <1>3, <1>4, <3>1 DEF Consent, Asks, step
    <3>4. AsksForAll(prog, q) => at > q /\ Pending(c) = left
      BY <1>2, <1>3, <1>6, <3>1, <3>3 DEF AsksForAll, Pending
    <3>5. AsksForEach(prog, q, c) => at \in (q + 1)..c
      BY <1>3, <1>6, <3>1, <3>3 DEF AsksForEach
    <3>6. applied + 1 <= agreed
      BY <1>2, <3>1, <3>2, <3>3, <3>4, <3>5 DEF YesToAll, YesToItem
    <3>7. QED
      BY <1>2, <3>6
  <2>3. QED
    BY <2>1, <2>2
<1>9. ASSUME NEW q \in Asks(prog, Setting), prog.steps[c].op = "change"
      PROVE  YesToAll(q, c)' /\ YesToItem(q, c)'
  <2>1. q \in Nat /\ q \in 1..Len(prog.steps) /\ prog.steps[q].op = "prompt"
    BY <1>3 DEF Asks
  <2>2. YesToAll(q, c) /\ YesToItem(q, c)
    BY <1>4, <1>9 DEF Consent
  <2>3. ASSUME AsksForAll(prog, q), stage' = "run", at' > q
        PROVE  applied' + Pending(c)' <= agreed'
    <3>1. q < prog.first /\ prog.steps[q].fail \in Stops
      BY <2>3 DEF AsksForAll
    <3>2. at > q => applied + Pending(c) <= agreed
      BY <1>2, <2>2, <2>3 DEF YesToAll
    <3>3. /\ at' > prog.last => Pending(c)' = 0
          /\ at' <= prog.last /\ at' > c => Pending(c)' = left' - 1
          /\ at' <= c => Pending(c)' = left'
      BY <1>1, <1>2, <1>3, <1>6 DEF Pending
    <3>4. /\ at > prog.last => Pending(c) = 0
          /\ at <= prog.last /\ at > c => Pending(c) = left - 1
          /\ at <= c => Pending(c) = left
      BY <1>2, <1>3, <1>6 DEF Pending
    <3>5. CASE at' = at /\ left' = left /\ step.retried
      <4>1. applied' = applied
        BY <1>5, <1>7, <3>5 DEF step
      <4>2. Pending(c)' = Pending(c)
        BY <1>2, <1>3, <1>6, <3>3, <3>4, <3>5
      <4>3. Pending(c) \in Int
        BY <1>2, <1>3, <1>6, <3>4
      <4>4. QED
        BY <1>2, <2>3, <3>2, <3>5, <4>1, <4>2, <4>3
    <3>6. CASE at' = at + 1 /\ left' = left
      <4>1. CASE at = q
        <5>1. step.fail # "warn" /\ step.op # "change" /\ at' <= c /\ at' <= prog.last /\ at \notin Body
          BY <1>2, <1>3, <1>6, <2>1, <3>1, <3>6, <4>1 DEF step, Stops, Body
        <5>2. agreed' = agreed + left /\ applied' = applied
          BY <1>9, <2>3, <3>6, <4>1, <5>1
        <5>3. QED
          BY <1>2, <1>6, <3>3, <3>6, <5>1, <5>2
      <4>2. CASE at > q /\ at = c
        BY <1>2, <1>3, <1>6, <3>2, <3>3, <3>4, <3>6, <4>2 DEF Body
      <4>3. CASE at > q /\ at # c
        <5>1. applied' = applied
          BY <1>7, <4>3
        <5>2. Pending(c)' <= Pending(c) /\ Pending(c)' \in Int /\ Pending(c) \in Int
          BY <1>2, <1>3, <1>6, <3>3, <3>4, <3>6, <4>3 DEF Body
        <5>3. QED
          BY <1>2, <3>2, <4>3, <5>1, <5>2
      <4>4. QED
        BY <1>2, <2>1, <2>3, <3>6, <4>1, <4>2, <4>3
    <3>7. CASE at' = at + 1 /\ step.list /\ step.op # "prompt"
      <4>1. at < q
        BY <1>2, <2>3, <3>7 DEF AsksForAll, step
      <4>2. QED
        BY <1>2, <2>1, <2>3, <3>7, <4>1
    <3>8. CASE at \in Body /\ left > 1 /\ at' = prog.first /\ left' = left - 1
      <4>1. at > q /\ Pending(c)' = left - 1 /\ at <= prog.last
        BY <1>2, <1>3, <1>6, <2>1, <3>1, <3>3, <3>8 DEF Body
      <4>2. at # c => applied' = applied
        BY <1>7
      <4>3. applied + Pending(c) <= agreed
        BY <3>2, <4>1
      <4>4. CASE at <= c
        <5>1. applied + left <= agreed
          BY <3>4, <4>3, <4>4
        <5>2. applied' <= applied + 1
          BY <1>2
        <5>3. /\ applied \in Int /\ applied' \in Int /\ left \in Int
              /\ agreed \in Int /\ agreed' \in Int /\ agreed <= agreed'
          BY <1>2
        <5>4. \A v, u, n, m, k \in Int :
                 v + n <= m /\ u <= v + 1 /\ m <= k => u + (n - 1) <= k
          OBVIOUS
        <5>5. applied' + (left - 1) <= agreed'
          BY <5>1, <5>2, <5>3, <5>4
        <5>6. QED
          BY <4>1, <5>5
      <4>5. CASE at > c
        <5>1. applied + (left - 1) <= agreed /\ applied' = applied
          BY <1>2, <1>6, <3>4, <4>1, <4>2, <4>3, <4>5
        <5>2. QED
          BY <1>2, <4>1, <5>1
      <4>6. QED
        BY <1>2, <1>6, <4>4, <4>5
    <3>9. CASE at' = prog.last + 1
      BY <1>2, <1>3, <1>8, <3>3, <3>9
    <3>10. QED
      BY <2>3, <3>5, <3>6, <3>7, <3>8, <3>9 DEF Led
  <2>4. ASSUME AsksForEach(prog, q, c), stage' = "run", at' \in (q + 1)..c
        PROVE  applied' < agreed'
    <3>1. prog.first <= q /\ q < c /\ prog.steps[q].fail # "warn"
      BY <1>3, <1>6, <2>1, <2>4 DEF AsksForEach
    <3>2. at \in (q + 1)..c => applied < agreed
      BY <1>2, <2>2, <2>4 DEF YesToItem
    <3>3. CASE at' = at /\ left' = left /\ step.retried
      <4>1. applied' = applied
        BY <1>5, <1>7, <3>3 DEF step
      <4>2. QED
        BY <1>2, <2>4, <3>2, <3>3, <4>1
    <3>4. CASE at' = at + 1
      <4>1. at \in q..(c - 1) /\ at # c /\ at' <= prog.last
        BY <1>2, <1>3, <1>6, <2>1, <2>4, <3>4
      <4>2. applied' = applied
        BY <1>7, <4>1
      <4>3. CASE at = q
        <5>1. at \in Body /\ step.fail # "warn"
          BY <1>3, <1>6, <2>1, <3>1, <4>3 DEF Body, step
        <5>2. agreed' = agreed + 1
          BY <1>9, <2>4, <3>4, <4>1, <4>3, <5>1
        <5>3. QED
          BY <1>2, <1>6, <4>2, <5>2
      <4>4. CASE at # q
        <5>1. at \in (q + 1)..c
          BY <1>2, <1>6, <2>1, <4>1, <4>4
        <5>2. QED
          BY <1>2, <3>2, <4>2, <5>1
      <4>5. QED
        BY <4>3, <4>4
    <3>5. at' # prog.first /\ at' # prog.last + 1
      BY <1>2, <1>3, <1>6, <2>1, <2>4, <3>1
    <3>6. QED
      BY <2>4, <3>3, <3>4, <3>5 DEF Led
  <2>5. QED
    BY <1>1, <2>3, <2>4 DEF YesToAll, YesToItem
<1>10. \A d \in prog.first..prog.last : prog.steps[d].op = "change" => d = c
  BY <1>3, <1>5
<1>11. QED
  BY <1>8, <1>9, <1>10

LEMMA EndsConsent ==
    IInv /\ IInv' /\ Consent /\ (Configure \/ OpenLog \/ Interrupt \/ Finish) => Consent'
<1> SUFFICES ASSUME IInv, IInv', Consent, Configure \/ OpenLog \/ Interrupt \/ Finish
             PROVE  Consent'
  OBVIOUS
<1>1. cmd' = cmd /\ prog' = prog /\ Setting' = Setting /\ UNCHANGED <<applied, agreed>>
  BY DEF Configure, OpenLog, Interrupt, Finish, run, prog, Setting
<1>2. CASE stage' # "run"
  BY <1>1, <1>2 DEF Consent, YesToAll, YesToItem
<1>3. CASE OpenLog
  <2>1. at' = 1
    BY <1>3 DEF OpenLog, IInv, Unstarted
  <2>2. \A q \in Asks(prog, Setting) : q \in Nat /\ q >= 1
    BY ProgWellFormed DEF IInv, Asks
  <2>3. \A q \in Asks(prog, Setting) : ~(1 > q) /\ \A c : 1 \notin (q + 1)..c
    BY <2>2
  <2>4. QED
    BY <1>1, <2>1, <2>3 DEF Consent, YesToAll, YesToItem
<1>4. CASE Interrupt
  BY <1>1, <1>4 DEF Interrupt, Consent, YesToAll, YesToItem, Pending
<1>5. QED
  BY <1>2, <1>3, <1>4 DEF Configure, Finish, Return

\* A step other than a question in force, and one that makes no change.
LEMMA PlainConsent ==
    IInv /\ Consent
      /\ (WriteHeader \/ Skip \/ LateCheck \/ LocalWork \/ LoadAttachments \/ LogSuccess)
    => Consent'
<1> SUFFICES ASSUME IInv, Consent,
                    WriteHeader \/ Skip \/ LateCheck \/ LocalWork \/ LoadAttachments
                      \/ LogSuccess
             PROVE  Consent'
  OBVIOUS
<1>1. Running
  BY DEF IInv, Running, WriteHeader, Skip, LateCheck, LocalWork, LoadAttachments, LogSuccess, At
<1>2. UNCHANGED run /\ applied' = applied /\ agreed' = agreed
  BY DEF WriteHeader, Skip, LateCheck, LocalWork, LoadAttachments, LogSuccess
<1>3. left \in 0..MaxItems /\ (at \in Body => left > 0) /\ agreed \in Nat
  BY DEF IInv, TypeOK
<1>4. Return("panic") \/ StepFails \/ StepSucceeds \/ Proceed(left)
  BY DEF WriteHeader, Skip, LateCheck, LocalWork, LoadAttachments, LogSuccess
<1>5. Moved /\ Led
  <2>1. CASE Return("panic")
    BY <1>1, <2>1, ReturnMoves DEF Return, Led
  <2>2. CASE StepFails \/ StepSucceeds
    BY <1>1, <2>2, StepFailsMoves, StepSucceedsMoves, EitherLed
  <2>3. CASE Proceed(left)
    BY <1>1, <1>3, <2>3, ProceedMoves, ProceedLed
  <2>4. QED
    BY <1>4, <2>1, <2>2, <2>3
<1>6. at \notin Asks(prog, Setting)
  <2>1. step.op # "prompt" \/ step.when \in {"maybe", IF opt THEN "plain" ELSE "opt"}
    BY DEF WriteHeader, Skip, LateCheck, LocalWork, LoadAttachments, LogSuccess, At
  <2>2. QED
    BY <2>1 DEF Asks, Setting, step
<1>7. agreed' \in Nat /\ agreed' >= agreed
  BY <1>2, <1>3
<1>8. QED
  BY <1>1, <1>2, <1>5, <1>6, <1>7, ConsentStep

LEMMA CallConsent == IInv /\ Consent /\ (Answer \/ GiveUp) => Consent'
<1> SUFFICES ASSUME IInv, Consent, Answer \/ GiveUp PROVE Consent'
  OBVIOUS
<1>1. Running /\ step.op \in {"ask", "change"}
  BY DEF IInv, Running, Answer, GiveUp, At
<1>2. UNCHANGED run /\ agreed' = agreed /\ agreed \in Nat
  BY DEF Answer, GiveUp, IInv, TypeOK
<1>3. \E answer : Outcome(answer)
  BY DEF Answer, GiveUp
<1>4. Moved /\ Led
  BY <1>1, <1>3, OutcomeMoves, OutcomeLed
<1>5. applied' \in {applied, applied + 1} /\ (applied' # applied => step.op = "change")
  BY DEF Answer, GiveUp
<1>6. at \notin Asks(prog, Setting)
  BY <1>1 DEF Asks, step
<1>7. agreed' \in Nat /\ agreed' >= agreed
  BY <1>2
<1>8. QED
  BY <1>1, <1>2, <1>4, <1>5, <1>6, <1>7, ConsentStep

\* Only a yes leads to the next step from a question.
LEMMA PromptedConsent == IInv /\ Consent /\ Prompted => Consent'
<1> SUFFICES ASSUME IInv, Consent, Prompted PROVE Consent'
  OBVIOUS
<1>1. Running /\ step.op = "prompt"
  BY DEF IInv, Running, Prompted, At
<1>2. UNCHANGED run /\ applied' = applied
  BY DEF Prompted
<1>3. /\ left \in Nat /\ left <= MaxItems /\ agreed \in Nat /\ at \in Nat
      /\ prog.first \in Nat /\ prog.last \in Nat /\ (at \in Body => left > 0)
  BY ProgWellFormed, BoundsAssumption DEF IInv, TypeOK
<1>4. step.fail \in Dispositions /\ (step.fail \in GoesOn => at \in Body)
  BY <1>1, StepTyped
<1>5. CASE agreed' = agreed + (IF at \in Body THEN 1 ELSE left) /\ StepSucceeds
  <2>1. Moved /\ Led
    BY <1>1, <1>5, StepSucceedsMoves, EitherLed
  <2>2. agreed' \in Nat /\ agreed' >= agreed
    BY <1>3, <1>5
  <2>3. at' = at + 1 /\ at' <= prog.last => left' = left
    <3>1. CASE at \in Body /\ at = prog.last
      BY <1>3, <3>1
    <3>2. CASE ~(at \in Body /\ at = prog.last) /\ ~(at \notin Body /\ at + 1 = prog.first /\ left = 0)
      BY <1>5, <3>2 DEF StepSucceeds, Proceed, Goto
    <3>3. CASE at \notin Body /\ at + 1 = prog.first /\ left = 0
      BY <1>3, <1>5, <3>3 DEF StepSucceeds, Proceed, Goto
    <3>4. QED
      BY <3>1, <3>2, <3>3
  <2>4. QED
    BY <1>1, <1>2, <1>5, <2>1, <2>2, <2>3, ConsentStep
<1>6. CASE agreed' = agreed /\ Dispose(step.fail)
  <2>1. Moved /\ Led
    BY <1>1, <1>4, <1>6, DisposeMoves, DisposeLed
  <2>2. agreed' \in Nat /\ agreed' >= agreed
    BY <1>3, <1>6
  <2>3. ~(step.fail # "warn" /\ stage' # "done" /\ at' = at + 1 /\ at' <= prog.last)
    <3>1. SUFFICES ASSUME step.fail # "warn", stage' # "done", at' = at + 1, at' <= prog.last
                   PROVE  FALSE
      OBVIOUS
    <3>2. step.fail \in GoesOn
      BY <1>1, <1>4, <1>6, <3>1, DisposeMoves DEF Dispositions, GoesOn, Stops
    <3>3. at \in Body /\ at' \in {prog.first, prog.last + 1}
      BY <1>1, <1>4, <1>6, <3>2, DisposeGoes DEF Running
    <3>4. QED
      BY <1>3, <3>1, <3>3 DEF Body
  <2>4. QED
    BY <1>1, <1>2, <2>1, <2>2, <2>3, ConsentStep
<1>7. CASE agreed' = agreed /\ Return("error")
  <2>1. Moved /\ Led /\ stage' = "done"
    BY <1>1, <1>7, ReturnMoves DEF Return, Led
  <2>2. agreed' \in Nat /\ agreed' >= agreed
    BY <1>3, <1>7
  <2>3. QED
    BY <1>1, <1>2, <2>1, <2>2, ConsentStep
<1>8. QED
  BY <1>5, <1>6, <1>7 DEF Prompted

LEMMA ConsentHolds == Spec => []Consent
<1>1. Init => Consent
  BY DEF Init, Consent, YesToAll, YesToItem
<1>2. IInv /\ IInv' /\ Consent /\ [Next]_vars => Consent'
  <2> SUFFICES ASSUME IInv, IInv', Consent, [Next]_vars PROVE Consent'
    OBVIOUS
  <2>1. CASE UNCHANGED vars
    BY <2>1 DEF vars, Consent, YesToAll, YesToItem, Pending, prog, Setting
  <2>2. CASE Next
    BY <2>2, EndsConsent, PlainConsent, CallConsent, PromptedConsent DEF Next, OwnSteps
  <2>3. QED
    BY <2>1, <2>2
<1>3. QED
  BY <1>1, <1>2, IInvHolds, PTL DEF Spec

-----------------------------------------------------------------------------
(***************************************************************************)
(* Sending: how often a change in front of the items is made, and what a   *)
(* good end says of it.  MCCommand names the commands of the four          *)
(* providers that are of these two forms.                                  *)
(***************************************************************************)

\* A command of the one form makes one change at most; one of the other form has
\* made a change when it ends well.
AtMostOnce == OneSend(prog) => applied <= 1

WellMeansMade == Decisive(prog) # {} /\ exit = "ok" => applied > 0

InForce(s) == s.when # IF opt THEN "plain" ELSE "opt"

\* Nothing has been changed in front of a change that is still to be made.
Once ==
    OneSend(prog) =>
        /\ applied <= 1
        /\ \A i \in 1..Len(prog.steps) :
             /\ prog.steps[i].op = "change" /\ InForce(prog.steps[i])
             /\ stage # "done" /\ at <= i
             => applied = 0

\* Past a decisive change it has been made.
Made ==
    \A c \in Decisive(prog) :
        (stage = "run" /\ at > c) \/ exit = "ok" => applied > 0

Sends == Once /\ Made

LEMMA SendsStep ==
    ASSUME IInv, Running, Moved, Led, Sends, UNCHANGED run,
           applied' \in {applied, applied + 1},
           applied' # applied => step.op = "change" /\ InForce(step),
           stage' = "done" /\ exit' = "ok" => EndsWell(step),
           Decides(step) =>
               (stage' = "done" /\ exit' = "error") \/ at' = at \/ applied' = applied + 1
    PROVE  Sends'
<1>1. prog' = prog /\ opt' = opt
  BY DEF run, prog
<1>2. /\ at \in 1..Len(prog.steps) /\ at \in Nat /\ at' \in Nat /\ prog.first \in Nat
      /\ applied \in Nat /\ applied' \in Nat /\ Len(prog.steps) \in Nat /\ stage = "run"
      /\ prog.last \in Nat /\ prog.last + 1 >= prog.first
  BY ProgWellFormed, StepTyped DEF IInv, TypeOK, Running, Moved
<1>3. Once'
  <2>1. SUFFICES ASSUME OneSend(prog)
                 PROVE  /\ applied' <= 1
                        /\ \A i \in 1..Len(prog.steps) :
                             /\ prog.steps[i].op = "change" /\ InForce(prog.steps[i])
                             /\ stage' # "done" /\ at' <= i
                             => applied' = 0
    BY <1>1 DEF Once, InForce
  <2>2. ASSUME NEW i \in 1..Len(prog.steps), prog.steps[i].op = "change",
               stage' # "done", at' <= i
        PROVE  at <= i /\ (at = i => step.retried)
    <3>1. i < prog.first /\ i \in Nat
      BY <1>2, <2>1, <2>2 DEF OneSend
    <3>2. at <= i
      BY <1>2, <2>2, <3>1 DEF Moved
    <3>3. at \notin Body
      BY <1>2, <3>1, <3>2 DEF Body
    <3>4. at' # at + 1 \/ at # i
      BY <1>2, <2>2, <3>1
    <3>5. at' # prog.last + 1
      BY <1>2, <2>2, <3>1
    <3>6. QED
      BY <2>2, <3>2, <3>3, <3>4, <3>5 DEF Led
  <2>3. CASE applied' = applied
    BY <1>2, <2>1, <2>2, <2>3 DEF Sends, Once
  <2>4. CASE applied' # applied
    <3>1. step.op = "change" /\ InForce(step) /\ ~step.retried
      BY <1>2, <2>1, <2>4 DEF OneSend, step
    <3>2. applied = 0 /\ applied' = 1
      BY <1>2, <2>1, <2>4, <3>1 DEF Sends, Once, step
    <3>3. ASSUME NEW i \in 1..Len(prog.steps), prog.steps[i].op = "change",
                 InForce(prog.steps[i]), stage' # "done", at' <= i
          PROVE  FALSE
      <4>1. CASE i = at
        BY <2>2, <3>1, <3>3, <4>1
      <4>2. CASE i # at
        <5>1. {prog.steps[at].when, prog.steps[i].when} = {"opt", "plain"}
          BY <1>2, <2>1, <3>1, <3>3, <4>2 DEF OneSend, step
        <5>2. QED
          BY <3>1, <3>3, <5>1 DEF InForce, step
      <4>3. QED
        BY <4>1, <4>2
    <3>4. QED
      BY <3>2, <3>3
  <2>5. QED
    BY <2>3, <2>4
<1>4. Made'
  <2>1. SUFFICES ASSUME NEW c \in Decisive(prog),
                        (stage' = "run" /\ at' > c) \/ exit' = "ok"
                 PROVE  applied' > 0
    BY <1>1 DEF Made
  <2>2. /\ c \in Nat /\ c < prog.first /\ Decides(prog.steps[c])
        /\ \A i \in 1..(c - 1) : ~EndsWell(prog.steps[i])
    BY <1>2 DEF Decisive
  <2>3. exit' = "ok" => stage' = "done"
    BY DEF Moved
  <2>4. CASE at > c
    <3>1. applied > 0
      BY <1>2, <2>4 DEF Sends, Made
    <3>2. QED
      BY <1>2, <3>1
  <2>5. CASE at = c
    <3>1. Decides(step) /\ ~EndsWell(step)
      BY <2>2, <2>5 DEF Decides, EndsWell, step
    <3>2. stage' = "run" /\ at' > c
      BY <2>1, <2>3, <3>1
    <3>3. applied' = applied + 1
      BY <1>2, <2>2, <2>5, <3>1, <3>2
    <3>4. QED
      BY <1>2, <3>3
  <2>6. CASE at < c
    <3>1. at \in 1..(c - 1)
      BY <1>2, <2>2, <2>6
    <3>2. stage' = "run" /\ at' > c
      BY <2>1, <2>2, <2>3, <3>1 DEF step
    <3>3. at' <= at + 1
      BY <1>2, <2>2, <2>6 DEF Moved
    <3>4. QED
      BY <1>2, <2>2, <2>6, <3>2, <3>3
  <2>7. QED
    BY <1>2, <2>2, <2>4, <2>5, <2>6
<1>5. QED
  BY <1>3, <1>4 DEF Sends

\* A step that did not go well ends the command well only by its disposition.
LEMMA DisposeEnds ==
    ASSUME Running, NEW how \in Dispositions, Dispose(how),
           stage' = "done", exit' = "ok"
    PROVE  how \in {"told", "calm"}
<1>1. how \in Stops
  BY StepTyped, DisposeGoes DEF Running
<1>2. ~(how \in {"return", "row"})
  BY DisposeGoes DEF Running
<1>3. QED
  BY <1>1, <1>2 DEF Stops

LEMMA ProceedStays ==
    ASSUME Running, NEW n, Proceed(n)
    PROVE  stage' # "done"
BY DEF Running, Proceed, NextItem, Goto

LEMMA EndsSends ==
    IInv /\ IInv' /\ Sends /\ (Configure \/ OpenLog \/ Interrupt \/ Finish) => Sends'
<1> SUFFICES ASSUME IInv, IInv', Sends, Configure \/ OpenLog \/ Interrupt \/ Finish
             PROVE  Sends'
  OBVIOUS
<1>1. cmd' = cmd /\ prog' = prog /\ opt' = opt /\ applied' = applied /\ at' = at
  BY DEF Configure, OpenLog, Interrupt, Finish, Return, run, prog
<1>2. Once'
  <2>1. stage' # "done" => stage # "done"
    BY DEF Configure, OpenLog, Interrupt, Finish, Return
  <2>2. QED
    BY <1>1, <2>1 DEF Sends, Once, InForce
<1>3. Made'
  <2>1. SUFFICES ASSUME NEW c \in Decisive(prog),
                        (stage' = "run" /\ at > c) \/ exit' = "ok"
                 PROVE  applied > 0
    BY <1>1 DEF Made
  <2>2. /\ c \in 1..Len(prog.steps) /\ Len(prog.steps) \in Nat /\ at \in Nat
        /\ exit = "ok" => stage = "done"
    BY ProgWellFormed DEF Decisive, IInv, TypeOK
  <2>3. CASE Configure
    BY <2>1, <2>2, <2>3 DEF Configure, Return, IInv, TypeOK
  <2>4. CASE OpenLog
    <3>1. at = 1 /\ exit' # "ok"
      BY <2>2, <2>4 DEF OpenLog, IInv, Unstarted
    <3>2. QED
      BY <2>1, <2>2, <3>1
  <2>5. CASE Interrupt
    BY <2>1, <2>5 DEF Interrupt, Sends, Made
  <2>6. CASE Finish
    <3>1. stage = "run" /\ at > c
      BY <2>2, <2>6 DEF Finish
    <3>2. QED
      BY <3>1 DEF Sends, Made
  <2>7. QED
    BY <2>3, <2>4, <2>5, <2>6
<1>4. QED
  BY <1>2, <1>3 DEF Sends

LEMMA PlainSends ==
    IInv /\ Sends
      /\ (WriteHeader \/ Skip \/ LateCheck \/ LocalWork \/ LoadAttachments \/ LogSuccess)
    => Sends'
<1> SUFFICES ASSUME IInv, Sends,
                    WriteHeader \/ Skip \/ LateCheck \/ LocalWork \/ LoadAttachments
                      \/ LogSuccess
             PROVE  Sends'
  OBVIOUS
<1>1. Running
  BY DEF IInv, Running, WriteHeader, Skip, LateCheck, LocalWork, LoadAttachments, LogSuccess, At
<1>2. UNCHANGED run /\ applied' = applied
  BY DEF WriteHeader, Skip, LateCheck, LocalWork, LoadAttachments, LogSuccess
<1>3. left \in 0..MaxItems /\ (at \in Body => left > 0)
  BY DEF IInv, TypeOK
<1>4. Return("panic") \/ StepFails \/ StepSucceeds \/ Proceed(left)
  BY DEF WriteHeader, Skip, LateCheck, LocalWork, LoadAttachments, LogSuccess
<1>5. Moved /\ Led
  <2>1. CASE Return("panic")
    BY <1>1, <2>1, ReturnMoves DEF Return, Led
  <2>2. CASE StepFails \/ StepSucceeds
    BY <1>1, <2>2, StepFailsMoves, StepSucceedsMoves, EitherLed
  <2>3. CASE Proceed(left)
    BY <1>1, <1>3, <2>3, ProceedMoves, ProceedLed
  <2>4. QED
    BY <1>4, <2>1, <2>2, <2>3
<1>6. stage' = "done" /\ exit' = "ok" => EndsWell(step)
  <2>1. CASE Return("panic")
    BY <2>1 DEF Return
  <2>2. CASE StepFails
    BY <1>1, <2>2, StepTyped, DisposeEnds DEF StepFails, EndsWell
  <2>3. CASE StepSucceeds \/ Proceed(left)
    BY <1>1, <2>3, ProceedStays DEF StepSucceeds
  <2>4. QED
    BY <1>4, <2>1, <2>2, <2>3
<1>7. ~Decides(step)
  BY DEF Decides, WriteHeader, Skip, LateCheck, LocalWork, LoadAttachments, LogSuccess, At
<1>8. QED
  BY <1>1, <1>2, <1>5, <1>6, <1>7, SendsStep

LEMMA CallSends == IInv /\ Sends /\ (Answer \/ GiveUp) => Sends'
<1> SUFFICES ASSUME IInv, Sends, Answer \/ GiveUp PROVE Sends'
  OBVIOUS
<1>1. Running /\ step.op \in {"ask", "change"} /\ InForce(step)
  BY DEF IInv, Running, Answer, GiveUp, At, InForce
<1>2. UNCHANGED run
  BY DEF Answer, GiveUp
<1>3. PICK answer :
        /\ Outcome(answer)
        /\ \E done \in Done(answer) :
             applied' = IF step.op = "change" /\ done THEN applied + 1 ELSE applied
  BY DEF Answer, GiveUp
<1>4. Moved /\ Led
  BY <1>1, <1>3, OutcomeMoves, OutcomeLed
<1>5. applied' \in {applied, applied + 1} /\ (applied' # applied => step.op = "change")
  BY <1>3
<1>6. /\ stage' = "done" /\ exit' = "ok" => EndsWell(step)
      /\ Decides(step) =>
            (stage' = "done" /\ exit' = "error") \/ at' = at \/ applied' = applied + 1
  <2>1. CASE UNCHANGED <<stage, at, left, exit, rows, failed, owed>>
    BY <1>1, <2>1 DEF Running
  <2>2. CASE ~GoodAnswer(answer) /\ StepFails
    BY <1>1, <2>2, StepTyped, DisposeEnds, DisposeGoes DEF StepFails, EndsWell, Decides, Running
  <2>3. CASE GoodAnswer(answer) /\ ~step.list /\ StepSucceeds
    <3>1. stage' # "done"
      BY <1>1, <2>3, ProceedStays DEF StepSucceeds
    <3>2. Decides(step) => applied' = applied + 1
      BY <1>3, <2>3 DEF Decides, GoodAnswer, Done
    <3>3. QED
      BY <3>1, <3>2
  <2>4. CASE step.list /\ Dispose(step.empty)
    BY <1>1, <2>4, StepTyped, DisposeEnds DEF EndsWell, Decides
  <2>5. CASE step.list /\ \E n \in 0..MaxItems : Proceed(n)
    BY <1>1, <2>5, ProceedStays DEF Decides
  <2>6. QED
    BY <1>3, <2>1, <2>2, <2>3, <2>4, <2>5 DEF Outcome
<1>7. QED
  BY <1>1, <1>2, <1>4, <1>5, <1>6, SendsStep

LEMMA PromptedSends == IInv /\ Sends /\ Prompted => Sends'
<1> SUFFICES ASSUME IInv, Sends, Prompted PROVE Sends'
  OBVIOUS
<1>1. Running /\ step.op = "prompt"
  BY DEF IInv, Running, Prompted, At
<1>2. UNCHANGED run /\ applied' = applied
  BY DEF Prompted
<1>3. step.fail \in Dispositions /\ (step.fail \in GoesOn => at \in Body)
  BY <1>1, StepTyped
<1>4. /\ Moved /\ Led
      /\ stage' = "done" /\ exit' = "ok" => EndsWell(step)
  <2>1. CASE StepSucceeds
    BY <1>1, <2>1, StepSucceedsMoves, EitherLed, ProceedStays DEF StepSucceeds
  <2>2. CASE Dispose(step.fail)
    BY <1>1, <1>3, <2>2, DisposeMoves, DisposeLed, DisposeEnds DEF EndsWell
  <2>3. CASE Return("error")
    BY <1>1, <2>3, ReturnMoves DEF Return, Led
  <2>4. QED
    BY <2>1, <2>2, <2>3 DEF Prompted
<1>5. ~Decides(step)
  BY <1>1 DEF Decides
<1>6. QED
  BY <1>1, <1>2, <1>4, <1>5, SendsStep

LEMMA SendsHolds == Spec => []Sends
<1>1. Init => Sends
  <2> SUFFICES ASSUME Init PROVE Sends
    OBVIOUS
  <2>1. stage = "config" /\ exit = "none" /\ applied = 0
    BY DEF Init
  <2>2. QED
    BY <2>1 DEF Sends, Once, Made
<1>2. IInv /\ IInv' /\ Sends /\ [Next]_vars => Sends'
  <2> SUFFICES ASSUME IInv, IInv', Sends, [Next]_vars PROVE Sends'
    OBVIOUS
  <2>1. CASE UNCHANGED vars
    BY <2>1 DEF vars, Sends, Once, Made, InForce, prog
  <2>2. CASE Next
    BY <2>2, EndsSends, PlainSends, CallSends, PromptedSends DEF Next, OwnSteps
  <2>3. QED
    BY <2>1, <2>2
<1>3. QED
  BY <1>1, <1>2, IInvHolds, PTL DEF Spec

-----------------------------------------------------------------------------
\* Every variable of a run keeps its range: the index of the handler's step and
\* its items never leave the table of the command.
THEOREM TypeCorrect == Spec => []TypeOK
<1>1. IInv => TypeOK
  BY DEF IInv
<1>2. QED
  BY <1>1, IInvHolds, PTL

\* Whatever the table of commands, if each defect is repaired, refused or looked
\* for by an unconditional check before any change (GateAssumption), then a
\* request with that defect changes nothing at the server.
THEOREM BadRequestsNeverLeave == Spec => []BadRequestsStayHome
<1>1. IInv => BadRequestsStayHome
  <2> SUFFICES ASSUME IInv,
                      defect \in Noticed(cmd) \cup Required(prog.kind),
                      <<cmd, defect>> \notin Unchecked
               PROVE  applied = 0
    BY DEF BadRequestsStayHome
  <2>1. cmd \in Commands
    BY DEF IInv, TypeOK
  <2>2. CASE defect \in prog.repairs \cup prog.rejects
    BY <2>2 DEF IInv, Refused
  <2>3. CASE Gates(prog, defect) # {}
    BY <2>3 DEF IInv, Halted
  <2>4. QED
    BY <2>1, <2>2, <2>3, GateAssumption DEF prog
<1>2. QED
  BY <1>1, IInvHolds, PTL

\* Whatever the table of commands, one that reads its attachments before it
\* sends and stops when none can be read never sends without any of them.
THEOREM NeverEmptyHandedHolds == Spec => []NeverEmptyHanded
<1>1. IInv => NeverEmptyHanded
  BY DEF IInv, Loaded, TypeOK, NeverEmptyHanded
<1>2. QED
  BY <1>1, IInvHolds, PTL

\* Whatever the table of commands, one that logs a success only right after a
\* change whose confirmation it has waited for (ConfirmAssumption) never has
\* more SUCCESS rows than the server has made changes.
THEOREM SuccessIsBackedHolds == Spec => []SuccessIsBacked
<1>1. Reported => SuccessIsBacked
  BY DEF Reported, Backed, SuccessIsBacked
<1>2. QED
  BY <1>1, ReportedHolds, PTL

\* Whatever the table of commands, a call that has failed is in the log of each
\* that is not named in Unlogged, and in the exit status of each that is not
\* named in Tolerant.
THEOREM FailuresAlwaysShow == Spec => []FailuresShow
<1>1. Reported => FailuresShow
  BY DEF Reported, Shown, FailuresShow, CallOps
<1>2. QED
  BY <1>1, ReportedHolds, PTL

\* Whatever the table of commands, one that asks in front of its one change per
\* item (PromptAssumption) never changes more items than the operator has said
\* yes to, one by one or all at once.
THEOREM NothingUnconfirmedHolds == Spec => []NothingUnconfirmed
<1>1. Consent => NothingUnconfirmed
  BY DEF Consent, NothingUnconfirmed
<1>2. QED
  BY <1>1, ConsentHolds, PTL

\* Whatever the table of commands, a command with one change in each setting of
\* its option, in front of the items and not retried, makes it once at most: a
\* lost answer, an error or an interrupt never sends a message a second time.
THEOREM SentAtMostOnce == Spec => []AtMostOnce
<1>1. Sends => AtMostOnce
  BY DEF Sends, Once, AtMostOnce
<1>2. QED
  BY <1>1, SendsHolds, PTL

\* Whatever the table of commands, if a change is made in every run, believed
\* only when it is confirmed and returned as an error otherwise, and nothing in
\* front of it ends the command well, then a run that ends well has made it.
THEOREM GoodEndMeansMade == Spec => []WellMeansMade
<1>1. Sends => WellMeansMade
  BY DEF Sends, Made, WellMeansMade
<1>2. QED
  BY <1>1, SendsHolds, PTL
==============================================================================
