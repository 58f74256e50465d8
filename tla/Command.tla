------------------------------- MODULE Command -------------------------------
(***************************************************************************)
(* One invocation of a command of the HTTP-based providers (EWS, JMAP,     *)
(* Graph, Gmail): the configuration is read and validated, the file logger *)
(* is opened, and the handler runs step by step against a server that may  *)
(* refuse, answer nonsense or nothing, while the operator may interrupt.   *)
(* What a command does is data: Program gives each command its steps; the  *)
(* actions here are what the steps of every handler have in common.        *)
(***************************************************************************)
EXTENDS Steps

CONSTANTS Program,      \* the commands, by name
          MaxItems,     \* length of the longest list a server returns
          Budget,       \* retries of a call under the retry loop
          Unchecked,    \* <<command, defect>>: what a command does not look for
          Trusting,     \* commands that log a success the server did not confirm
          Unlogged,     \* commands that return a failed call's error without a row
          Tolerant,     \* commands that end well although a call has failed
          Careless      \* commands that send with none of the attachments

VARIABLES
    cmd, defect, opt,   \* this run: command, what is wrong with it, its option
    stage,      \* "config", "log", "run" or "done"
    at,         \* index of the next step
    left,       \* items of the list still to do, the current one included
    tries,      \* retries of the current call
    log,        \* the file logger: "none" yet, "open", or "nil" after a failure
    ctx,        \* "live" or "cancelled"
    carried,    \* how much of the attachments asked for was read
    good, bad,  \* SUCCESS and FAILURE rows written
    failed,     \* history: the kinds of steps that failed
    owed,       \* an error to be returned at the end
    agreed,     \* items the operator agreed to
    applied,    \* history: changes the server made
    exit        \* "none" yet, "ok", "error" or "panic"

vars == <<cmd, defect, opt, stage, at, left, tries, log, ctx, carried, good, bad,
          failed, owed, agreed, applied, exit>>

run == <<cmd, defect, opt>>
rows == <<good, bad>>

Commands == DOMAIN Program
prog == Program[cmd]
step == prog.steps[at]
Body == prog.first .. prog.last

\* What has to be noticed before a change of this kind is made.
Required(kind) ==
    CASE kind = "send" -> {"to", "template", "rendering"}
      [] kind = "draft" -> {"template", "rendering"}
      [] kind = "invite" -> {"start", "timeformat", "window"}
      [] kind = "respond" -> {"itemid", "response"}
      [] kind = "delete" -> {"criteria", "count"}
      [] OTHER -> {}

\* The defects a command replaces by a default or looks for, before its handler
\* or in it.
Noticed(c) ==
    Program[c].repairs \cup Program[c].rejects
        \cup UNION {Program[c].steps[i].about : i \in DOMAIN Program[c].steps}

\* The dispositions that end the command, and those that belong to an item.
Stops == {"return", "row", "told", "calm"}
GoesOn == {"next", "owe", "pass"}

WellFormed(p) ==
    /\ p.kind \in Kinds
    /\ p.repairs \subseteq Defects /\ p.rejects \subseteq Defects
    /\ p.guarded \in BOOLEAN /\ p.deadline \in BOOLEAN
    /\ p.answers \subseteq Answers /\ "lost" \in p.answers
    /\ p.steps \in Seq(Step)
    /\ p.first \in 2..(Len(p.steps) + 1)
    /\ p.last \in (p.first - 1)..Len(p.steps)
    /\ \A i \in 1..Len(p.steps) :
         /\ p.steps[i].fail \in GoesOn => i \in p.first..p.last
         /\ p.steps[i].empty \notin GoesOn
         /\ p.steps[i].list => i < p.first

Before(p, op, i) == \A j \in 1..Len(p.steps) : p.steps[j].op = op => i < j

Changing == {"send", "draft", "invite", "respond", "delete"}

\* A success is logged right after a change whose confirmation was waited for.
Confirmed(p) ==
    \A i \in 1..Len(p.steps) : p.steps[i].op = "row" =>
        /\ i > 1 /\ i # p.first /\ i # p.last + 1
        /\ p.steps[i - 1].op = "change" /\ p.steps[i - 1].when = "always"
        /\ p.steps[i - 1].believes = {"ok"} /\ ~p.steps[i - 1].list
        /\ p.steps[i - 1].fail # "warn"

\* The calls that can fail.
Calls(p) ==
    {i \in 1..Len(p.steps) : p.steps[i].op \in {"ask", "change"}
                                 /\ ~(p.answers \subseteq p.steps[i].believes)}

\* An error is returned at once, or owed by an item and returned at the end.
Returned(p) ==
    /\ \A i \in Calls(p) : p.steps[i].fail \in {"return", "row", "owe"}
    /\ \A i \in p.first..Len(p.steps) :
         p.steps[i].op # "header" /\ p.steps[i].fail \notin {"told", "calm"}

\* Where a handler looks for a defect: before its items and before any change.
Gates(p, d) ==
    {i \in 1..(p.first - 1) :
       /\ i <= Len(p.steps) /\ Before(p, "change", i)
       /\ p.steps[i].op = "check" /\ p.steps[i].when = "always"
       /\ p.steps[i].fail \in Stops /\ d \in p.steps[i].about}

HasPrompt(c) ==
    \E i \in DOMAIN Program[c].steps : Program[c].steps[i].op = "prompt"

\* The questions put to the operator with this setting of the option.
Asks(p, setting) ==
    {i \in 1..Len(p.steps) : /\ p.steps[i].op = "prompt"
                             /\ p.steps[i].when \in {"always", setting}}

\* A question asked once for all the items, after they have been listed; one
\* asked for each item, before what is done to it at i.  A no leads away.
AsksForAll(p, q) ==
    /\ q < p.first
    /\ p.steps[q].fail \in Stops
    /\ \A i \in 1..Len(p.steps) : p.steps[i].list => i < q

AsksForEach(p, q, i) == q \in p.first..(i - 1) /\ p.steps[q].fail # "warn"

\* One change for each item, made once, and in both settings of the option one
\* of the two questions in front of it.
Consents(p) ==
    \E i \in p.first..p.last :
        /\ ~p.steps[i].retried
        /\ \A j \in 1..Len(p.steps) : p.steps[j].op = "change" => j = i
        /\ \A setting \in {"opt", "plain"} : \E q \in Asks(p, setting) :
               AsksForAll(p, q) \/ AsksForEach(p, q, i)

\* The changes are not retried, and only one is made in a setting of the option.
OneSend(p) ==
    \A i \in 1..Len(p.steps) : p.steps[i].op = "change" =>
        /\ i < p.first /\ ~p.steps[i].retried
        /\ \A j \in 1..Len(p.steps) : p.steps[j].op = "change" /\ j # i =>
              {p.steps[i].when, p.steps[j].when} = {"opt", "plain"}

\* The step ends the command without an error although it did not go well.
EndsWell(s) == s.fail \in {"told", "calm"} \/ (s.list /\ s.empty \in {"told", "calm"})

\* A change that every run gets to or fails, and whose answer confirms it.
Decides(s) ==
    /\ s.op = "change" /\ s.when = "always" /\ s.believes = {"ok"} /\ ~s.list
    /\ s.fail \in {"return", "row"}

Decisive(p) ==
    {c \in 1..Len(p.steps) : /\ c < p.first /\ Decides(p.steps[c])
                             /\ \A i \in 1..(c - 1) : ~EndsWell(p.steps[i])}

ASSUME BoundsAssumption == MaxItems \in Nat /\ Budget \in Nat

ASSUME ProgramAssumption == \A c \in Commands : WellFormed(Program[c])

ASSUME GateAssumption ==
    \A c \in Commands : \A d \in Noticed(c) \cup Required(Program[c].kind) :
        \/ <<c, d>> \in Unchecked
        \/ d \in Program[c].repairs \cup Program[c].rejects
        \/ Gates(Program[c], d) # {}

\* A command that takes care of its attachments reads them before it sends.
ASSUME LoadAssumption ==
    \A c \in Commands \ Careless : \A i \in 1..Len(Program[c].steps) :
        Program[c].steps[i].op = "load" =>
            /\ i < Program[c].first
            /\ Program[c].steps[i].fail \in Stops
            /\ Before(Program[c], "change", i)

\* A command that changes something logs its success only when it was confirmed.
ASSUME ConfirmAssumption ==
    \A c \in Commands \ Trusting :
        Program[c].kind \in Changing => Confirmed(Program[c])

ASSUME LoggedAssumption ==
    \A c \in Commands \ Unlogged : \A i \in Calls(Program[c]) :
        Program[c].steps[i].fail \in {"row", "told", "next", "owe"}

ASSUME ReturnedAssumption == \A c \in Commands \ Tolerant : Returned(Program[c])

ASSUME PromptAssumption == \A c \in Commands : HasPrompt(c) => Consents(Program[c])

HasOption(c) ==
    \E i \in DOMAIN Program[c].steps : Program[c].steps[i].when \in {"opt", "plain"}

Init ==
    /\ cmd \in Commands
    /\ defect \in {"none"} \cup Noticed(cmd) \cup Required(Program[cmd].kind)
    /\ opt \in IF HasOption(cmd) THEN BOOLEAN ELSE {FALSE}
    /\ stage = "config"
    /\ at = 1 /\ left = 0 /\ tries = 0
    /\ log = "none"
    /\ ctx = "live"
    /\ carried = "all"
    /\ good = 0 /\ bad = 0
    /\ failed = {} /\ owed = FALSE
    /\ agreed = 0
    /\ applied = 0
    /\ exit = "none"

-----------------------------------------------------------------------------
\* The command returns.
Return(code) ==
    /\ stage' = "done"
    /\ exit' = code
    /\ UNCHANGED <<at, left, tries>>

Goto(i, items) ==
    /\ at' = i
    /\ left' = items
    /\ tries' = 0
    /\ UNCHANGED <<stage, exit>>

\* Mutant: the item that is done is counted as one to do.
NextItemMiscounted ==
    IF left > 0 THEN Goto(prog.first, left - 1) ELSE Goto(prog.last + 1, 0)

\* The next item, or what comes after the last one.
NextItem ==
    IF left > 1 THEN Goto(prog.first, left - 1) ELSE Goto(prog.last + 1, 0)

\* The step after this one, with so many items at hand: a body is gone through
\* once for each of them.
Proceed(items) ==
    IF at \in Body
    THEN IF at = prog.last THEN NextItem ELSE Goto(at + 1, items)
    ELSE IF at + 1 = prog.first /\ items = 0 THEN Goto(prog.last + 1, 0)
         ELSE Goto(at + 1, items)

\* A row reaches the log only when there is one.
LogRow(good1, bad1) ==
    /\ good' = IF log = "open" THEN good + good1 ELSE good
    /\ bad' = IF log = "open" THEN bad + bad1 ELSE bad

\* Mutant: a failed item is passed over.
DisposeQuietly(how) ==
    /\ UNCHANGED <<good, bad, owed>>
    /\ CASE how \in {"return", "row"} -> Return("error")
         [] how \in {"told", "calm"} -> Return("ok")
         [] how \in GoesOn -> NextItem
         [] how = "warn" -> Proceed(left)

\* What the handler does about a step that did not go well.
Dispose(how) ==
    /\ LogRow(0, IF how \in {"row", "told", "next", "owe"} THEN 1 ELSE 0)
    /\ owed' = (owed \/ how = "owe")
    /\ CASE how \in {"return", "row"} -> Return("error")
         [] how \in {"told", "calm"} -> Return("ok")
         [] how \in GoesOn -> NextItem
         [] how = "warn" -> Proceed(left)

StepFails ==
    /\ failed' = failed \cup {step.op}
    /\ Dispose(step.fail)

StepSucceeds ==
    /\ Proceed(left)
    /\ UNCHANGED <<good, bad, failed, owed>>

At(op) ==
    /\ stage = "run"
    /\ at <= Len(prog.steps)
    /\ step.op = op
    /\ step.when # IF opt THEN "plain" ELSE "opt"

-----------------------------------------------------------------------------
\* LoadConfigFile, ConfigFromViper and validateConfiguration: a configuration
\* that is refused ends the run before there is a log.
Configure ==
    /\ stage = "config"
    /\ defect' = IF defect \in prog.repairs THEN "none" ELSE defect
    /\ IF defect' \in prog.rejects
       THEN Return("error")
       ELSE stage' = "log" /\ UNCHANGED <<at, left, tries, exit>>
    /\ UNCHANGED <<cmd, opt, log, ctx, carried, rows, failed, owed, agreed,
                   applied>>

\* InitLoggers: a logger that cannot be opened is only warned about.
OpenLog ==
    /\ stage = "log"
    /\ log' \in {"open", "nil"}
    /\ stage' = "run"
    /\ UNCHANGED <<run, at, left, tries, ctx, carried, rows, failed, owed,
                   agreed, applied, exit>>

\* ShouldWriteHeader and WriteHeader.  A handler that does not ask whether there
\* is a logger dereferences nil here, the first place it uses it.
WriteHeader ==
    /\ At("header")
    /\ IF log = "nil" /\ ~prog.guarded THEN Return("panic") ELSE Proceed(left)
    /\ UNCHANGED <<run, log, ctx, carried, rows, failed, owed, agreed,
                   applied>>

\* A step that belongs to the other setting of the option, or that this
\* configuration does not ask for.
Skip ==
    /\ stage = "run"
    /\ at <= Len(prog.steps)
    /\ step.when \in {"maybe", IF opt THEN "plain" ELSE "opt"}
    /\ StepSucceeds
    /\ UNCHANGED <<run, log, ctx, carried, agreed, applied>>

\* Mutant: the handler leaves the check to the validation.
LateCheckSkipped ==
    /\ At("check")
    /\ StepSucceeds
    /\ UNCHANGED <<run, log, ctx, carried, agreed, applied>>

LateCheck ==
    /\ At("check")
    /\ IF defect \in step.about THEN StepFails ELSE StepSucceeds
    /\ UNCHANGED <<run, log, ctx, carried, agreed, applied>>

LocalWork ==
    /\ At("local")
    /\ StepFails \/ StepSucceeds
    /\ UNCHANGED <<run, log, ctx, carried, agreed, applied>>

\* Mutant: no attachment at all is good enough.
LoadAttachmentsAny ==
    /\ At("load")
    /\ carried' \in {"all", "some", "none"}
    /\ StepSucceeds
    /\ UNCHANGED <<run, log, ctx, agreed, applied>>

\* LoadAttachments skips what it cannot read and fails when nothing is left.
LoadAttachments ==
    /\ At("load")
    /\ carried' \in {"all", "some", "none"}
    /\ IF carried' = "none" THEN StepFails ELSE StepSucceeds
    /\ UNCHANGED <<run, log, ctx, agreed, applied>>

\* What a server makes of a change: whether it did it, by the answer.
Done(answer) ==
    CASE answer = "ok" -> {TRUE}
      [] answer \in {"garbled", "lost"} -> BOOLEAN
      [] OTHER -> {FALSE}

\* Mutant: a reply that cannot be decoded is taken for success.
GoodAnswerLenient(answer) == answer \in step.believes \cup {"garbled", "error"}

GoodAnswer(answer) == answer \in step.believes

\* The call comes back: again, an error, or on to what was asked for.
Outcome(answer) ==
    \/ /\ step.retried /\ tries < Budget /\ ctx = "live"
       /\ answer \in {"throttled", "lost"} /\ ~GoodAnswer(answer)
       /\ tries' = tries + 1
       /\ UNCHANGED <<stage, at, left, exit, rows, failed, owed>>
    \/ /\ ~(step.retried /\ tries < Budget /\ answer = "throttled")
            \/ ctx = "cancelled"
       /\ ~GoodAnswer(answer)
       /\ StepFails
    \/ /\ GoodAnswer(answer)
       /\ IF ~step.list THEN StepSucceeds
          ELSE \E n \in 0..MaxItems :
                 IF n = 0 THEN Dispose(step.empty) /\ UNCHANGED failed
                 ELSE Proceed(n) /\ UNCHANGED <<good, bad, failed, owed>>

\* The server answers an outstanding call.
Answer ==
    /\ At("ask") \/ At("change")
    /\ \E answer \in prog.answers :
         /\ \E done \in Done(answer) :
              applied' = IF step.op = "change" /\ done THEN applied + 1 ELSE applied
         /\ Outcome(answer)
    /\ UNCHANGED <<run, log, ctx, carried, agreed>>

\* Mutant: a call is given up only when its own time is over.
GiveUpDeadline ==
    /\ At("ask") \/ At("change")
    /\ prog.deadline
    /\ \E done \in Done("lost") :
         applied' = IF step.op = "change" /\ done THEN applied + 1 ELSE applied
    /\ Outcome("lost")
    /\ UNCHANGED <<run, log, ctx, carried, agreed>>

\* A call that has no answer is given up when the context is cancelled, or when
\* the client's own timeout has passed if it has one.
GiveUp ==
    /\ At("ask") \/ At("change")
    /\ prog.deadline \/ ctx = "cancelled"
    /\ \E done \in Done("lost") :
         applied' = IF step.op = "change" /\ done THEN applied + 1 ELSE applied
    /\ Outcome("lost")
    /\ UNCHANGED <<run, log, ctx, carried, agreed>>

\* Mutant: anything but a clear no is a yes.
PromptedLenient ==
    /\ At("prompt")
    /\ agreed' \in {agreed, agreed + (IF at \in Body THEN 1 ELSE left)}
    /\ StepSucceeds
    /\ UNCHANGED <<run, log, ctx, carried, applied>>

\* The operator says yes, to this item or before the first one to all of them;
\* says anything else, or stdin ends; or stdin cannot be read.
Prompted ==
    /\ At("prompt")
    /\ \/ /\ agreed' = agreed + (IF at \in Body THEN 1 ELSE left)
          /\ StepSucceeds
       \/ /\ agreed' = agreed
          /\ Dispose(step.fail) /\ UNCHANGED failed
       \/ /\ agreed' = agreed
          /\ Return("error") /\ UNCHANGED <<rows, failed, owed>>
    /\ UNCHANGED <<run, log, ctx, carried, applied>>

LogSuccess ==
    /\ At("row")
    /\ LogRow(1, 0)
    /\ Proceed(left)
    /\ UNCHANGED <<run, log, ctx, carried, failed, owed, agreed,
                   applied>>

\* The handler has done all its steps.
Finish ==
    /\ stage = "run"
    /\ at > Len(prog.steps)
    /\ Return(IF owed THEN "error" ELSE "ok")
    /\ UNCHANGED <<run, log, ctx, carried, rows, failed, owed, agreed,
                   applied>>

\* SIGINT or SIGTERM: the signal goroutine, started after the validation,
\* cancels the context.
Interrupt ==
    /\ stage \in {"log", "run"}
    /\ ctx = "live"
    /\ ctx' = "cancelled"
    /\ UNCHANGED <<run, stage, at, left, tries, log, carried, rows, failed,
                   owed, agreed, applied, exit>>

\* What the program does by itself, without server or operator.
OwnSteps ==
    \/ Configure \/ OpenLog \/ WriteHeader \/ Skip \/ LateCheck \/ LocalWork
    \/ LoadAttachments \/ GiveUp \/ LogSuccess \/ Finish

Next == OwnSteps \/ Answer \/ Prompted \/ Interrupt

Spec == Init /\ [][Next]_vars /\ WF_vars(OwnSteps)

-----------------------------------------------------------------------------
\* Every variable stays in its range.
TypeOK ==
    /\ cmd \in Commands
    /\ defect \in Defects \cup {"none"}
    /\ opt \in BOOLEAN
    /\ stage \in {"config", "log", "run", "done"}
    /\ at \in 1..(Len(prog.steps) + 1)
    /\ left \in 0..MaxItems
    /\ at \in Body => left > 0
    /\ tries \in 0..Budget
    /\ log \in {"none", "open", "nil"}
    /\ ctx \in {"live", "cancelled"}
    /\ carried \in {"all", "some", "none"}
    /\ good \in Nat /\ bad \in Nat
    /\ failed \subseteq Ops
    /\ owed \in BOOLEAN
    /\ agreed \in Nat /\ applied \in Nat
    /\ exit \in {"none", "ok", "error", "panic"}
    /\ (stage = "done") = (exit # "none")

\* A request that the command refuses, or that has to be refused, changes
\* nothing at the server, wherever in the run it is noticed: a deletion without
\* criteria, an invitation that ends before it starts, a mail to nobody
\* (the validateConfiguration of every provider, and the late checks).
BadRequestsStayHome ==
    /\ defect \in Noticed(cmd) \cup Required(prog.kind)
    /\ <<cmd, defect>> \notin Unchecked
    => applied = 0

\* There are never more SUCCESS rows than changes the server has made: a refusal
\* inside a reply whose HTTP status is 200, a reply that cannot be decoded and
\* an error of the previous item are not taken for success.
SuccessIsBacked ==
    prog.kind \in Changing /\ cmd \notin Trusting => good <= applied

\* A call that failed shows: as a FAILURE row when there is a log, and in the
\* exit status.  The exceptions are named, command by command.
FailuresShow ==
    stage = "done" /\ failed \cap {"ask", "change"} # {} =>
        /\ log = "open" => bad > 0 \/ cmd \in Unlogged
        /\ exit = "error" \/ cmd \in Tolerant

\* A message goes out with some of the attachments it was given, or it does not
\* go out (email.go 36: "Returns an error only if every requested path failed").
NeverEmptyHanded ==
    applied > 0 /\ cmd \notin Careless => carried # "none"

\* Where the operator is asked, nothing is removed that he has not said yes to,
\* one by one or before the first: a no, the end of stdin or an error of the
\* item before is never counted as a yes (removeMessages).
NothingUnconfirmed == HasPrompt(cmd) => applied <= agreed

\* docs/protocols/jmap.md 84 says of sendmail: "Builds an email via Email/set and
\* submits it via EmailSubmission/set."  A run that ends well has submitted it.
SentMeansSubmitted == cmd = "jmap_sendmail" /\ exit = "ok" => applied > 0

\* Every run of a command whose client has a timeout comes to an end whatever
\* the server does, and so does an interrupted run of any command, unless it is
\* waiting for the operator to answer a question.
Ends ==
    (prog.deadline \/ ctx = "cancelled") /\ ~HasPrompt(cmd) ~> stage = "done"
==============================================================================
