# gomailtesttool: specifications and proofs

TLA+ models of `gomailtest`, the command-line and HTTP tool that tests mail
systems over SMTP, POP3, IMAP, JMAP, EWS, Microsoft Graph and Gmail. Paths
below are relative to `src/`. `PROJECT.json` lists the components, the runs, the
mutants that show each property can fail, the hazards, and for every definition
the lines of the source it stands for.

    tlc -workers 2 -config MCRetry.cfg MCRetry      # a run
    tlapm SmtpSessionProofs.tla                     # the proofs of a module

## 1. The system

One process per invocation. A cobra command fills a `Config` from flags,
environment and an optional YAML file, validates it, opens the action log and
runs one action of one protocol against one server, then exits. `gomailtest
serve` instead stays up and runs the two `sendmail` actions for HTTP and MCP
requests, each on a goroutine of its own. There is no shared memory between
actions except in `serve`; what is shared is on disk (the day's log file, the
day's export directory) and on the server (the mailbox).

| Component | State it keeps | Operations | What makes it hard | What must hold |
|---|---|---|---|---|
| retry loop (`common/retry`, `msgraph/utils.go`, `gmail/utils.go`) | attempt, delay, last error | run, classify, wait | lost replies, late indexing, Retry-After, cancellation racing the timer, overflow of the shift | result backed by what happened; bounded, spaced out, stops on cancel |
| SMTP session (`protocols/smtp`, `smtp/protocol`) | connection, TLS state, capabilities, SASL exchange, transaction | connect, EHLO, STARTTLS, AUTH, MAIL/RCPT/DATA, close | refusals, breaks and silence at every stage; SASL challenges; two EHLO paths; net/smtp on the same connection | nothing sent as somebody else or in clear where an upgrade applies; report agrees with the server |
| POP3 and IMAP clients | connection, TLS state, capabilities, chosen mechanism, mailbox | connect, STLS/STARTTLS, CAPA, login, list, fetch, delete | mechanisms chosen twice, capabilities of before TLS, replies cut short by the end of the connection, deletion at QUIT, flags and EXPUNGE, other clients | no secret in clear where TLS was asked for; success means logged in; nothing removed that was not exported or selected |
| JMAP, EWS, Graph and Gmail commands | configuration, session or SDK client, logger, list, retries, owed error | 54 commands: probe, list, send, draft, invite, respond, schedule, export, delete | each command checks other things, at another place; a refusal inside a 200; a lost reply; one item of several failing; a logger that could not be opened; prompts | bad requests change nothing; a SUCCESS row has a change behind it; failures show; runs end on interrupt |
| export and delete loops | list, counter, files | search, fetch, write, remove, row | colliding names, torn files, crashes between steps | removed means saved; rows are true |
| action log (`common/logger`) | file, header decision, buffer, columns | header, row, flush, close | several writers of one file, failing writes, kills | header first and once, order, bounded loss |
| findtimeslot (`common/timeslot`, Graph, EWS, Gmail) | window, merged intervals, candidate | window, fetch, merge, search | boundaries, nested and adjacent intervals, weekends | no busy slot offered, no earlier free one skipped |
| serve (`serve`) | configuration, per-request log, context and send | REST and MCP handlers, shutdown | concurrent requests, 60 s sends, a 70 s write timeout, a 10 s shutdown, clients that leave | an answer agrees with the send and with the log; the key guards every send; an interrupt ends it |
| rate limiter (`common/ratelimit`) | none of its own: a wrapper | wait, allow, reserve | | not modelled |
| bootstrap | signal context, loggers | set up | one-shot signal goroutine; a logger that cannot be opened is only warned about | a signal cancels; a command without a log still does its work |
| mime, template, email, validation, security, network, tls, exchange hints, devtools | none | pure functions | formatting | not modelled |

How they interact: an action calls its client; the Graph and Gmail actions wrap
each call in the retry loop; the clients report to the action, which writes rows
to the action log and, when exporting, files to the export directory. The signal
context of bootstrap cancels the retry loop, dialling and the HTTP clients.
`serve` calls the same `SendMail` and `SendEmail` as the commands.

How the modules divide this: `Retry`, `ActionLog` and `TimeSlot` model what many
actions share, on its own. `SmtpSession` and `MailLogin` are the sessions of the
text protocols up to the mailbox, `MailArchive` what export and delete do to it.
`Command` is the life of one command of the HTTP providers; it takes the
retry loop as a budget of retries and the log as open or missing, which `Retry`
and `ActionLog` look into. `Serve` is many sends at once. `Handoff` is the
abstract specification of a send.

## 2. The modules

### Retry: the retry loops

`caller` says which copy of the loop runs: `graph` (`RetryWithBackoffFunc` with
`isRetryableGraphError`), `fetch` (`fetchMessagesWithRetry`, which also retries an
empty result), `gmail` (`retryGmail`). `Call` is one pass of the loop body: the
operation, the classification, and the return or the timer. `TimerFires` and
`CtxDone` are the two cases of the `select`; with both ready either is taken, as
in Go. `Tick` is time. `RoundTrip`, `Cancel` and `Index` are the environment: a
reply may be lost after the request was applied, the context is cancelled at any
moment, a message becomes visible to search late. `Wrap` keeps the product in a
word of `WordBits` bits, so that the shift overflows.

### SmtpSession, Handoff: one SMTP action

`stage` is the point the client has reached. `cfg` ranges over every
configuration that `validateConfiguration` accepts and `srv` over what a server
offers and does; both are fixed for a run. Each action is one exchange with every
outcome: accepted, refused, broken before or after the server acted, or silent
(`srv.mute`). `AfterEhlo...` are the decisions of the four actions. Auth and the
mail transaction go through net/smtp, whose SASL loop is `Sasl`: a challenge that
a mechanism answers with no data ends that loop without an error. A server may
challenge any mechanism, PLAIN too, needed or not, up to `MaxChallenges` times;
it agrees only after the `Responses` the mechanism needs. `peer` is the
server's side, `delivered` the recipients it has taken the message for, which it
does before the client reads its reply. `clear` records what crossed the
connection before TLS.

`Handoff` is what any sending command promises: the message is handed over at
most once, for all recipients at once, success is reported only after that, and
nothing happens after the report. `ImplementsHandoff` is the refinement, with
`report` mapped to the result of sendmail. `ServeProofs` states it of each request
of the server too, with the answer as its report, and with the moment the server
lets the message go in the place of the one the backend takes it: that one is not
bounded by the answer.

### MailArchive: export and delete

One module for exportmessages and deletemessages of POP3, IMAP, JMAP, EWS and
Graph: the loops are the same up to the points where they differ, and those are
explicit: how a file is named (`MayName`), who counts what (`Dele` counts a
refused deletion, the others do not), and how a message is removed (POP3: marks
that QUIT commits; IMAP: `CheckDeleted`, `StoreFlag`, `Expunge`, with and without
UIDPLUS; the others: one request). A file is opened with truncation and then
written: two steps, so that a crash leaves it torn. `FetchCut` is a POP3 message
that the end of the connection cuts short, which `ReadMultilineResponse` takes for
the whole; the session it came over is gone, so that nothing is deleted after it.
`OtherFlags` is another IMAP client. Runs share the export directory of the day
and the mailbox.

### MailLogin: a POP3 or IMAP session up to the mailbox

`stage` is the next exchange: greeting, the offer of TLS (teststarttls looks for it,
the others ask unseen), the upgrade, the handshake, capabilities, login, mailbox,
items. In each the connection may break (`Breaks`); what an action does then is in
`WithoutTLS`, `GreetingNeeded`, `AfterCaps`. The mechanism is chosen twice, by the
handler (`Chosen`) and again by the client (`Mechanism`), and the secret follows
from both. `sent` remembers each secret with the channel it crossed and the
channel the capabilities behind the choice were learned over. IMAP's exchanges are
calls of go-imap, modelled from how `imap_client.go` uses them.

### Command, Steps, and the four tables: the commands of EWS, JMAP, Graph and Gmail

`Command` is the life common to all commands: `Configure` (LoadConfigFile,
ConfigFromViper, validateConfiguration), `OpenLog` (a logger that cannot be opened
is only warned about), then the handler's steps one by one, `Finish`. What
differs is data: `EwsCommands`, `JmapCommands`, `GraphCommands` and `GmailCommands`
give every command its steps in the vocabulary of `Steps`, which says of each step
what it does (`Ops`) and what the handler does when it fails (`Dispositions`). So
the table row of a command is its handler: the order of header, client, checks,
calls, rows, and after each the error path of the code. A list call fixes how
often the steps of the body are taken.

`defect` is the one thing wrong with the configuration; a command `rejects` it in
the validation, checks for it later, `repairs` it by a default, or does not look.
`Answers` are what can become of a call, with the refusal of the whole inside a
reply of status 200 ("error"), and the reply that confirms nothing or denies the
operation only further down ("unconfirmed"); `believes` is what the code takes for
success. `FailuresShow` speaks of the failures a handler notices: what one believes
shows nowhere (ews autodiscover, a probe, is such a case; section 6). `Done` says what the server has made of it, which for a lost or garbled
reply is open. `Interrupt` cancels the context at any moment.

Five constants list the commands that differ from the rest, by name, in
`MCCommand.tla`; each is a fact about the code, and each property says what
holds of all the others:

- `Unchecked`: Graph and Gmail do not look at the order of an invitation's times;
  Gmail lets a mail without recipients through when there is a bearer token and no
  mailbox.
- `Trusting`: JMAP and Graph's sendmail log a SUCCESS for a reply that does not
  confirm the send.
- `Unlogged`: Graph's and Gmail's reads return the error of a failed call without
  a row.
- `Tolerant`: in a loop over messages a failed one does not show in the exit
  status; Graph's sendinvite always ends well.
- `Careless`: Graph sends with none of the attachments when none can be read.

The assumptions of `Command` say in terms of the table what the handlers of the
others have in common; `Consents` (`PromptAssumption`) says that a command which
asks puts its question in front of its one change per item, in both settings of
its option. `OneSend` and `Decisive` describe two forms of sending
commands, and `MCCommand` names the commands of each.

### Serve: requests to gomailtest serve

Each request is a process of its own: `Arrive`, `Admit` or `Refuse` (key, route,
body, configuration, validation, in the order of the code), `Submit`, for SMTP the
session up to the message (`Talk`), `Conclude` (row, if there is one, and status), `Close` (the deferred flush), `Finish` (the answer
is written out, and the context is over). `Tick` is the minute of the send and the
write timeout after it, `Leave` a client that goes away, `Interrupt`, `Drained` and
`Expire` the shutdown with its ten seconds, `ListenFails` a listener that fails.
MCP on stdio is the same handler without a key, and returns at once on interrupt.
net/http and the MCP library are modelled from how `server.go` and `mcp.go` use
them.

`mail` is where the message is: held here, underway, or taken. It leaves once,
after SMTP's DATA or with the request to Graph (`LetGo`); from then on the backend
takes it whenever it will (`Apply`), also after the handler has given up and
answered, or the process is gone. A send may end without a row, also with the
logger open: the EHLO after STARTTLS, the Message-ID of SMTP (`TalkFails`), the message
or MIME file of Graph (`DialFails`). `AnsweredIsLogged` says what can be said then:
the answer was 500 and the message never left, nor will.

### ActionLog: the log file

Writers are runs of one action on one day, or requests to `serve`. `Check` and
`WriteHeader` are two steps, as in the code. A CSV writer keeps lines in
`buffer`; a line is two pieces so that a full buffer, or a failing write, ends in
the middle of one. `broken` is the sticky error of the csv and bufio writers. JSON
writes the object and its newline with two calls. `declares` is false for the
actions of Graph and Gmail that never call `WriteHeader`.

### TimeSlot: findtimeslot

The loops of `AddWorkingDays`, `mergeIntervals` and `FindFreeSlots` are steps,
with the schedule request between the window and the merge. `sort.Slice` leaves
intervals that start together in any order. `Free` is the reference: it looks at
every tick of a slot and every item as fetched, never at the merged intervals.

## 3. The runs

| Run | Shows | Bounds, and why they are enough |
|---|---|---|
| `retry` | results are backed by what happened, not-found only at the end, cancellation, spacing | 7 attempts of a base delay of 1 in a 5-bit word: the shift overflows at the fifth, as 64 bits do at the 34th; caps of 4 and 5 and Retry-After 0, 1, 3, 9 lie on both sides of each other |
| `smtp` | authentication, encryption, reporting, handoff, deadlines | every valid configuration up to methods of one class; servers that differ in every bit a decision reads; two recipients so that one of several can be refused; up to three challenges, one more than any mechanism answers, for each mechanism; one mute stage at a time |
| `archive` | removed means saved, only selected messages removed, rows | three messages, two mailboxes, two names: any naming with a collision, and a third message that has nothing to do with it; two runs, so that one finds what the other left; count 2 below 3 |
| `actionlog` | header first, order, completeness, bounded loss | two writers, three rows, a flush every two: rows before, at and after a flush, and both orders of every pair of steps |
| `timeslot` | soundness and completeness of the answer, termination | days of 8 ticks and a grid of 2; up to three items chosen around one Friday; durations on and off the grid; windows over a weekend |
| `command` | bad requests change nothing, SUCCESS rows are backed, failures show, attachments, prompts, ending | all 54 commands, each with every defect it can meet; lists of up to two items, so that one can fail and another not; one retry, so that a reply is lost and the repetition succeeds |
| `login` | secrets and TLS, success means accepted, a broken connection shows | every valid configuration of POP3 and IMAP; in clear a server lists nothing, STARTTLS, or all; over TLS nothing, XOAUTH2 or PLAIN; it takes either secret, both or none |
| `serve` | answers agree with sends, the log with answers, key, shutdown | two requests: one is waited for or cut off while the other is done, or its message is taken after its answer; every way to send and every reason to be refused; four configurations |

Four more runs check one sentence of the repository each and find it violated:
see `findings` in `PROJECT.json` and section 6.

Deadlock checking is off in all of them: an action ends, and stays ended.

**Fairness.** Four runs need it. `Spec` of SmtpSession has weak fairness of
the client's exchanges: the process keeps running, and an exchange with a server
that is not silent, or whose read has a deadline, comes to an end. No fairness is
assumed of a silent server. `Spec` of TimeSlot has weak fairness of `Next`: the
loop keeps running. `Spec` of Command has weak fairness of `OwnSteps`, the steps the
program takes without server or operator, among them `GiveUp`: a call whose client
has a timeout, or whose context is cancelled, is given up. None is assumed of
`Answer`, so that a server may be silent for ever, nor of `Prompted`. `Serve` has
weak fairness, for each request, of its handler, of time and of the handler's look at
a cancelled context (`GiveUp`), and of the end of the shutdown; none of backends,
clients or the operator. `BuildFails`, crashes, cancellation and the other client
are never forced to happen.

## 4. What is proved

Eight proof modules, one per component; every theorem holds for every value of the
constants, and between them they state every invariant and every safety property
of a step that the runs check. In each, the invariants the runs check are not inductive; the module
defines a strengthening `IInv`, proves `Inductive` (`IInvHolds` in CommandProofs: `Spec => []IInv`) with one
lemma per action or group of like actions, and derives the rest from it. ActionLog
and Command need further invariants on top (`PInv`; `Reported`, `Consent`, `Sends`),
each proved from the ones before it.

| Module | Proved | What the strengthening adds |
|---|---|---|
| `RetryProofs` | `TypeOK`, `ResultSound`, `NotFoundOnlyAtTheEnd`, `CancelStopsRetries`, `SpacedOut` | where the loop stands fixes how many operations it has run; a request is applied as often as replies were lost until the last one succeeds; what has been waited and what is left add up to the delay asked for, which `NextDelayBounds` shows to be at least the base delay or the cap |
| `SmtpSessionProofs` | `TypeOK`, `AuthSound`, `SendsAsUser`, `NothingInClear`, `ReportSound`, `ImplementsHandoff` | which actions get how far; a connection in clear after EHLO is one the action does not upgrade; the server's envelope follows the client's loop; the last reply of the SASL exchange tells where the server stands: a challenge left unanswered leaves it waiting, so that it refuses MAIL; whatever it challenges, a nil from Auth without its agreement ends in a challenge that PLAIN, XOAUTH2, GSSAPI or an unprompted LOGIN did not answer |
| `MailArchiveProofs` | `TypeOK`, `Preserved`, `RemovesOnlySelected`, `RowsAreTrue`, and that `--count` is respected | a listed message comes up once, so its file is not opened again while it is marked; without UIDPLUS every other message flagged after the check was flagged by another client; what is marked or removed is on disk already |
| `ActionLogProofs` | `TypeOK`, `HeaderFirst`, `ClosedIsComplete`, `InOrder`, `BoundedLoss` | a writer gets to its rows past a file that is not empty, or with a failed write of the header that lets nothing of it through any more; `PInv`: the pieces of a writer in the file and then those in its buffer are its lines one after the other, and the buffer is shorter than a flush interval; a step of one writer only lengthens the file, which leaves what is known of the others |
| `CommandProofs` | `TypeOK`, `BadRequestsStayHome`, `SuccessIsBacked`, `FailuresShow`, `NeverEmptyHanded`, `NothingUnconfirmed`; and that a change that is not retried is made once at most (`SentAtMostOnce`), and a good end means that it was made (`GoodEndMeansMade`) | how far the handler can have come with this defect (a bad request never passes the step that looks for it); a confirmed change stands in front of every row, so that rows lag behind changes by the call that is being logged; a failure is in a row, in the exit status, or owed until the end; past a question to the operator there is a yes left over for every change still to be made; nothing has been changed in front of a change still to be made |
| `MailLoginProofs` | `TypeOK`, `NothingInClear`, `AuthSound`, `BrokenShows` | which stages go with which channel: past the handshake of an upgrade the channel is TLS or the action is testconnect; capabilities are those of the channel as it is now; a broken connection leaves only certain stages |
| `ServeProofs` | `TypeOK`, `AnswersAreTrue`, `AnsweredIsLogged`; and that each request is a `Handoff` (`EachRequestIsHandoff`) | what is known of a request by how far it has come, request by request: its message is held here until it is let go and no later; before its answer it has no row, past `Close` its row, if there is one, is in the file, and without one its message is still held; it is authorised as soon as it sends. The backend's `Apply` has no guard but that the message is underway, and none of this depends on when it comes |
| `TimeSlotProofs` | `TypeOK`, `SlotsAreFree`, `FirstSlots` | what is to be merged is of the schedule, sorted, and starts after what is merged; a tick is busy exactly if an interval, merged or to be merged, covers it; the search has found every free slot before its candidate. The lemmas on days and the grid show that the test of two ends by `WithinWorkingHours` is that of every tick in between |

`ImplementsHandoff` and `EachRequestIsHandoff` are proved as refinements: `Init` maps to
the initial state of `Handoff`, and every step under `IInv` to a step of it or a
stutter. `Handoff` has no fairness, so nothing of it is left to TLC. In Serve the
message counts as handed over when the server lets it go: that is what its handler
controls, and at most once, never past the answer, success only after it are then
facts about the handler. Whether a backend has taken it is another matter: for an
SMTP success `AnswersAreTrue` says so, for Graph's nothing can (section 6), and a
failure leaves it open. The commands of `Command` do not refine
`Handoff` step by step: an answer there makes the change and may end the command at
once. `SentAtMostOnce` and `GoodEndMeansMade` are what is left of the promise. The
first covers all sending commands of EWS, JMAP and Graph but graph respondmeeting,
which, like those of Gmail, is retried, so that a lost reply can have it made twice. The
second leaves out those named in `Trusting`, and Graph's sendinvite.

Assumptions on the constants: `RetryAssumption` (types), `PowerAssumption` (powers
of two are naturals, of which the provers know nothing) and `OverflowAssumption`
(an overflowing product is never positive and below the base delay). The last is
a fact about 64-bit durations explained in `Retry.tla`. `SessionAssumption` and
`InputAssumption` (configurations are validated, servers are records of the
type), `ArchiveAssumption`, `LogAssumption`, `LoginAssumption` and `ServeAssumption`
(types), `SlotAssumption` (types; a working day begins and ends within a day, as
`timeslot.go:21` says of its hours and as the callers set them). The theorems of Command hold of any table that satisfies
`ProgramAssumption` (well formed), `GateAssumption` (what has to be noticed is
looked for before anything is changed), `LoadAssumption`, `ConfirmAssumption`,
`LoggedAssumption`, `ReturnedAssumption` and `PromptAssumption` (the shape of the
commands the exceptions do not name); `BoundsAssumption` types its bounds. These are conditions
on the text of a handler, step by step; the theorems say what follows of its
runs, for lists and retry budgets of any size. TLC evaluates each assumption in the
runs of its module, those of Command on the 54 handlers themselves.

Model-checked only: the liveness properties `DeadlinesHold`, `SearchEnds`, `Ends` and
`RequestsEnd`, which need fairness and ENABLED. No proof needs an induction over
data: `TimeSlot` sorts by a permutation and merges one interval a step, so that its
loops are inductions over the steps of the behaviour.

## 5. What is not modelled

- Token acquisition, HTTP, TLS and DNS: libraries outside the repository. What
  they can do to an action is in the environment actions.
- Message building, templates, validation, masking, printing and parsing: pure
  functions on strings.
- Templates, MX lookup and raw messages of SMTP's sendmail, beyond whether they
  fail; what the calls of the HTTP providers carry, so that a call addressed to the
  wrong mailbox would go unnoticed; how go-imap, the Graph and Google SDKs and the
  MCP library work inside.
- Gmail's browser login (`gmail/auth.go`), a listed hazard: a second callback finds
  the channel full, and the deferred `Shutdown`, which has no deadline, then waits
  for its handler for ever. The flow ends in a browser and a token endpoint.
- The file names of Gmail's export: that loop is in `Command`, its files in no
  module.
- The rate limiter: a wrapper of `golang.org/x/time/rate` without state of its own.
- Memory and file-system failures other than failing opens and writes; loss of
  power (a process kill is modelled).

## 6. Where the code and its documents disagree

Each of these is the counterexample of a run:

| Run | Sentence | What the code does |
|---|---|---|
| `smtp_hang` | `responses.go:13` "prevents indefinite hangs" | the handshake, AUTH and the transaction have no deadline |
| `archive_overwrite` | `docs/protocols/pop3.md:167` "Delete each message after successful export" | one Message-ID, one file: the earlier export is overwritten |
| `json_columns` | `json.go:149` "always returns true" | false for a file with content: the second run of a day logs nothing |
| `command_blind` | `docs/protocols/jmap.md:84` "submits it via `EmailSubmission/set`" | a reply that lists the message as not created, or has no responses, is logged as SUCCESS |

These were met while modelling; the models contain them, as exceptions their
properties name or as steps they take:

- `gmail/utils.go:167` "exponential backoff": no guard against overflow, past the
  33rd retry there is no delay (`Retry`; `SpacedOut` leaves this caller out).
- `smtp_client.go:374` "235 Authentication successful" is also said when the
  mechanism leaves a challenge unanswered: PLAIN, XOAUTH2, GSSAPI, and LOGIN at a
  prompt it does not know (`AuthSound`).
- `docs/protocols/pop3.md:38` "authenticates. Supports USER/PASS, APOP, XOAUTH2":
  a challenge to XOAUTH2 counts as success, and only testauth stops there
  (`Credentials`); APOP is refused before anything is sent (`LoginUser`). A `+ `
  in answer to PASS would count too; no server of the model gives it.
- `docs/protocols/smtp.md:196` "Force STARTTLS usage": the flag is only validated.
- `docs/TOOLS.md:134` "JSON Logging" for all protocols: most actions of Graph and
  Gmail never declare columns, and the JSON logger then refuses their rows.
- "--password will be ignored (using XOAUTH2)" (`pop3/config.go:362`,
  `imap/config.go:361`): the password is sent if the server does not list XOAUTH2.
- `pop3/protocol/responses.go:92`: the end of the connection ends a multiline reply.
  A message cut short is exported as whole (`FetchCut`).
- `bootstrap.go:36` says that the callers decide whether a missing file logger is
  fatal. POP3, IMAP, EWS, JMAP and the test actions of SMTP warn and then
  dereference nil (`WriteHeader`, exit "panic").
- `msgraph/handlers.go:301`: the response handler of `SendEmail` returns neither
  result nor error, so that a refused send is a SUCCESS, for serve as well
  (`Trusting`, `Replied`).
- `autodiscover.go:101` checks the error code of the user's settings, but the tags of
  the structs (28-36) look for it in a `UserResponse` inside the `UserResponse`: it is
  never found, nor are the settings, and such a reply is a SUCCESS (`EwsAutodiscover`
  believes "unconfirmed").
- `email.go:36` says that loading fails only if every attachment failed; Graph's
  `buildMessage` logs that error and sends without any (`Careless`).
- `serve/server.go:49` "handler timeout is 60s; extra 10s for response flush":
  an SMTP send does not look at its context once it talks to the server, so that it
  may outlast both, and a mail that went out is answered by nothing (`Finish`).
- Serve answers 500 without a row when the EHLO after STARTTLS fails
  (`sendmail.go:164`) or a Message-ID is invalid (`sendmail.go:229`, `251`,
  `handlers.go:286`), although `smtp_handler.go:35` opened a logger for the request.
- A send to Graph given up at its minute is answered with 500 and a FAILURE row, and may
  be applied afterwards (`Apply`).
- `bootstrap.go:25`: the signal goroutine reads one signal, and a prompt does not
  look at the context: a removal that waits for the operator cannot be interrupted
  (`Ends` leaves it out).
- A failed message of an export or deletion is in the log but not in the exit status
  (`Tolerant`).

## 7. Plan

Done: the sessions, the archive, the log, the retry loop and findtimeslot; the
commands of the HTTP providers; the login of POP3 and IMAP; serve; the proofs of
their safety properties. Left, in order:

1. Gmail's export and its files in `MailArchive`.
2. Serve over `SmtpSession` rather than over a backend that takes the message or not:
   `IsHandoff` says of the session what `EachRequestIsHandoff` says of the request.
3. Gmail's browser login.
4. Proofs of Retry across calls: that a command which is retried makes its change at
   most once more than replies were lost, for `Command` as `ResultSound` says it of one
   call.
