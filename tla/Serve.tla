-------------------------------- MODULE Serve --------------------------------
(***************************************************************************)
(* gomailtest serve: requests to send a message, over REST, over MCP on    *)
(* the same HTTP server, or over MCP on stdio, each in a goroutine of its  *)
(* own.  A request passes the key, its body, the configuration and the     *)
(* validation, then sends for at most a minute, logs a row to a logger of  *)
(* its own and is answered.  A message on its way to the backend may be    *)
(* taken at any later moment, also after the handler has given up.         *)
(* Clients leave, time passes, the operator interrupts: the server then    *)
(* takes no more requests and waits for those it has, but for ten seconds  *)
(* only.                                                                   *)
(***************************************************************************)
EXTENDS Integers

CONSTANTS Requests,     \* names of the requests that may come
          Configs,      \* what the server may be started with
          Asks          \* what each may ask

VARIABLES
    config,     \* what the server was started with; fixed once it runs
    phase,      \* "start", "up", "draining" or "down"
    exit,       \* "none" yet, "ok" or "error"
    req,        \* what each request asks
    at,         \* how far each has come
    present,    \* its client waits for the answer
    ctx,        \* "live" or "cancelled": the context its handler passes on
    age,        \* 0, 1 past the minute of the send, 2 past WriteTimeout
    mail,       \* its message: "held" here, "underway" or "taken" by the backend
    log,        \* its logger: "none", "open" or "nil"
    row,        \* its row: "none", "SUCCESS" or "FAILURE"
    flushed,    \* the row is in the file
    answer,     \* the status it was given, 0 before
    told        \* history: the answer has reached the client

vars == <<config, phase, exit, req, at, present, ctx, age, mail, log, row,
          flushed, answer, told>>

server == <<config, phase, exit>>
client == <<present, told>>
logging == <<log, row, flushed>>

\* stdio mode; the API key, the MCP endpoint and the backends it has.
Config == [stdio : BOOLEAN, key : BOOLEAN, mcp : BOOLEAN,
           backends : SUBSET {"smtp", "graph"}]

Routes == [via : {"rest", "mcp"}, to : {"smtp", "graph", "ews"}]

Request == [route : Routes, key : {"right", "wrong", "none"},
            body : {"good", "garbled", "invalid"}]

\* There is no EWS tool.
ASSUME ServeAssumption ==
    /\ Configs \subseteq Config
    /\ Asks \in [Requests -> SUBSET Request]
    /\ \A r \in Requests : \A q \in Asks[r] : q.route.via = "mcp" => q.route.to # "ews"

NoRequest == [route |-> [via |-> "rest", to |-> "ews"], key |-> "none", body |-> "garbled"]

\* "talk" is SMTP's session up to the message.
Steps == {"idle", "check", "dial", "talk", "sent", "reply", "flush", "done"}

Sending == {"dial", "talk", "sent"}

Rest(r) == req[r].route.via = "rest"
To(r) == req[r].route.to
Serving == phase \in {"up", "draining"}

Init ==
    /\ config \in Configs
    /\ phase = "start" /\ exit = "none"
    /\ req = [r \in Requests |-> NoRequest]
    /\ at = [r \in Requests |-> "idle"]
    /\ present = [r \in Requests |-> FALSE]
    /\ ctx = [r \in Requests |-> "live"]
    /\ age = [r \in Requests |-> 0]
    /\ mail = [r \in Requests |-> "held"]
    /\ log = [r \in Requests |-> "none"]
    /\ row = [r \in Requests |-> "none"]
    /\ flushed = [r \in Requests |-> FALSE]
    /\ answer = [r \in Requests |-> 0]
    /\ told = [r \in Requests |-> FALSE]

-----------------------------------------------------------------------------
Stop(code) == phase' = "down" /\ exit' = code

\* RunE: a configuration file that cannot be read, or no API key where there is
\* to be a socket, ends it; a backend without its settings or client is left out.
Start ==
    /\ phase = "start"
    /\ \/ Stop("error") /\ UNCHANGED config
       \/ /\ config.stdio \/ config.key
          /\ phase' = "up" /\ UNCHANGED exit
          /\ \/ UNCHANGED config
             \/ config' = [config EXCEPT !.backends = @ \ {"graph"}]
    /\ UNCHANGED <<req, at, client, ctx, age, mail, logging, answer>>

\* A request comes in: over HTTP, or on stdin, where there is no key to send.
Arrive(r) ==
    /\ phase = "up"
    /\ at[r] = "idle"
    /\ \E q \in Asks[r] :
         /\ config.stdio => q.route.via = "mcp" /\ q.key = "none"
         /\ req' = [req EXCEPT ![r] = q]
    /\ at' = [at EXCEPT ![r] = "check"]
    /\ present' = [present EXCEPT ![r] = TRUE]
    /\ UNCHANGED <<server, ctx, age, mail, logging, answer, told>>

\* apiKeyMiddleware: on a socket, the key that was configured, and never none.
Authorized(r) == config.stdio \/ (config.key /\ req[r].key = "right")

\* The status a request is refused with, 0 if it is not: key, route, body and
\* configuration come before the validation, in this order.  Graph's missing
\* client, which the code reports after the validation, counts as missing
\* settings here.
Refusal(r) ==
    IF ~Authorized(r) THEN 401
    ELSE IF ~Rest(r) /\ ~config.stdio /\ ~config.mcp THEN 405
    ELSE IF Rest(r) /\ To(r) = "ews" THEN 501
    ELSE IF req[r].body = "garbled" THEN 400
    ELSE IF To(r) \notin config.backends THEN 503
    ELSE IF req[r].body = "invalid" THEN 400
    ELSE 0

\* The middleware and the first half of a handler.  A REST handler opens its
\* logger, or warns and goes on without.
Admit(r) ==
    /\ Serving
    /\ at[r] = "check"
    /\ Refusal(r) = 0
    /\ at' = [at EXCEPT ![r] = "dial"]
    /\ \E l \in IF Rest(r) THEN {"open", "nil"} ELSE {"nil"} : log' = [log EXCEPT ![r] = l]
    /\ UNCHANGED <<server, req, client, ctx, age, mail, row, flushed, answer>>

Refuse(r) ==
    /\ Serving
    /\ at[r] = "check"
    /\ Refusal(r) # 0
    /\ answer' = [answer EXCEPT ![r] = Refusal(r)]
    /\ at' = [at EXCEPT ![r] = "flush"]
    /\ UNCHANGED <<server, req, client, ctx, age, mail, logging>>

-----------------------------------------------------------------------------
\* The send is over: the row it leaves, if any, to the logger, which may have
\* room for it in its buffer, and the status.
Conclude(r, status) ==
    /\ at' = [at EXCEPT ![r] = "reply"]
    /\ answer' = [answer EXCEPT ![r] = IF status = "SUCCESS" THEN 200 ELSE 500]
    /\ IF log[r] = "open" /\ status # "none"
       THEN /\ row' = [row EXCEPT ![r] = status]
            /\ \E f \in BOOLEAN : flushed' = [flushed EXCEPT ![r] = f]
       ELSE UNCHANGED <<row, flushed>>
    /\ UNCHANGED <<server, req, client, ctx, age, mail, log>>

\* The message goes out, after SMTP's DATA or in the request to Graph.
LetGo(r) ==
    /\ at' = [at EXCEPT ![r] = "sent"]
    /\ mail' = [mail EXCEPT ![r] = "underway"]

\* SMTP's connection, or the request to Graph: both are made under the context.
Submit(r) ==
    /\ Serving
    /\ at[r] = "dial"
    /\ ctx[r] = "live"
    /\ IF To(r) = "graph" THEN LetGo(r)
       ELSE at' = [at EXCEPT ![r] = "talk"] /\ UNCHANGED mail
    /\ UNCHANGED <<server, req, client, ctx, age, logging, answer>>

\* There is no connection; or Graph's message cannot be built, for its Message-ID
\* or its MIME file, which leaves no row.
DialFails(r) ==
    /\ Serving
    /\ at[r] = "dial"
    /\ \/ Conclude(r, "FAILURE")
       \/ To(r) = "graph" /\ Conclude(r, "none")

\* EHLO, STARTTLS, AUTH, the building of the message, MAIL, RCPT and DATA: none
\* looks at the context, but for the rate limiter.
Talk(r) ==
    /\ Serving
    /\ at[r] = "talk"
    /\ LetGo(r)
    /\ UNCHANGED <<server, req, client, ctx, age, logging, answer>>

\* One of them fails: the EHLO after STARTTLS and the Message-ID without a row.
TalkFails(r) ==
    /\ Serving
    /\ at[r] = "talk"
    /\ Conclude(r, "FAILURE") \/ Conclude(r, "none")

\* The backend takes what is on its way, whatever becomes of its reply, of the
\* handler and of the process.
Apply(r) ==
    /\ mail[r] = "underway"
    /\ mail' = [mail EXCEPT ![r] = "taken"]
    /\ UNCHANGED <<server, req, at, client, ctx, age, logging, answer>>

\* Mutant: SendMail does not wait for the reply to the message.
RepliedUnread(r) == TRUE

\* A reply that SendMail or SendEmail takes for success: SMTP's says that the
\* message was taken, Graph's is any response.
Replied(r) == To(r) = "smtp" => mail[r] = "taken"

Sent(r) ==
    /\ Serving
    /\ at[r] = "sent"
    /\ Replied(r)
    /\ To(r) = "graph" => ctx[r] = "live"
    /\ Conclude(r, "SUCCESS")

\* A refusal, or no reply: the message may be taken all the same.
SendFails(r) ==
    /\ Serving
    /\ at[r] = "sent"
    /\ Conclude(r, "FAILURE")

\* Once the context is cancelled Graph's client gives up, and so does the dialler;
\* an SMTP session reads on.
GiveUp(r) ==
    /\ ctx[r] = "cancelled"
    /\ DialFails(r) \/ (To(r) = "graph" /\ SendFails(r))

\* The deferred Close.
Close(r) ==
    /\ Serving
    /\ at[r] = "reply"
    /\ flushed' = [flushed EXCEPT ![r] = row[r] # "none"]
    /\ at' = [at EXCEPT ![r] = "flush"]
    /\ UNCHANGED <<server, req, client, ctx, age, mail, log, row, answer>>

\* The handler has returned: the server writes out the answer, which was only
\* buffered until now, if the connection is still there and in time, and the
\* request's context is over.
Finish(r) ==
    /\ Serving
    /\ at[r] = "flush"
    /\ told' = [told EXCEPT ![r] = present[r] /\ (age[r] < 2 \/ config.stdio)]
    /\ at' = [at EXCEPT ![r] = "done"]
    /\ present' = [present EXCEPT ![r] = FALSE]
    /\ ctx' = [ctx EXCEPT ![r] = "cancelled"]
    /\ age' = [age EXCEPT ![r] = 0]
    /\ UNCHANGED <<server, req, mail, logging, answer>>

-----------------------------------------------------------------------------
Busy(r) == at[r] \notin {"idle", "done"}

\* Mutant: the clock runs on.
TickPast(r) ==
    /\ Serving
    /\ at[r] \in Sending
    /\ age[r] <= 2
    /\ age' = [age EXCEPT ![r] = @ + 1]
    /\ ctx' = [ctx EXCEPT ![r] = "cancelled"]
    /\ UNCHANGED <<server, req, at, client, mail, logging, answer>>

\* Mutant: the send has the context of its caller, with no deadline.
TickUntimed(r) ==
    /\ Serving
    /\ at[r] \in Sending
    /\ age[r] < 2
    /\ age' = [age EXCEPT ![r] = @ + 1]
    /\ UNCHANGED <<server, req, at, client, ctx, mail, logging, answer>>

\* Time passes in a send: after a minute its context is cancelled, after ten
\* seconds more its connection cannot be written to.
Tick(r) ==
    /\ Serving
    /\ at[r] \in Sending
    /\ age[r] < 2
    /\ age' = [age EXCEPT ![r] = @ + 1]
    /\ ctx' = [ctx EXCEPT ![r] = "cancelled"]
    /\ UNCHANGED <<server, req, at, client, mail, logging, answer>>

\* A client leaves: net/http cancels the context of a REST request, the MCP
\* library that of a call or not.
Leave(r) ==
    /\ Serving
    /\ Busy(r) /\ present[r]
    /\ present' = [present EXCEPT ![r] = FALSE]
    /\ \/ ctx' = [ctx EXCEPT ![r] = "cancelled"]
       \/ ~Rest(r) /\ UNCHANGED ctx
    /\ UNCHANGED <<server, req, at, age, mail, logging, answer, told>>

\* The interrupt, or the end of stdin: Shutdown waits, stdio returns at once.
Interrupt ==
    /\ phase = "up"
    /\ IF config.stdio THEN Stop("ok") ELSE phase' = "draining" /\ UNCHANGED exit
    /\ UNCHANGED <<config, req, at, client, ctx, age, mail, logging, answer>>

\* The listener fails: Run returns without waiting for anything.
ListenFails ==
    /\ phase = "up" /\ ~config.stdio
    /\ Stop("error")
    /\ UNCHANGED <<config, req, at, client, ctx, age, mail, logging, answer>>

\* Mutant: a request that has its answer is not waited for.
IdleEarly == \A r \in Requests : at[r] \in {"idle", "reply", "flush", "done"}

\* No connection is in use.
Idle == \A r \in Requests : ~Busy(r)

\* Shutdown: all requests are done, or ten seconds have gone by and the process
\* ends with those it has.
Drained ==
    /\ phase = "draining"
    /\ Idle
    /\ Stop("ok")
    /\ UNCHANGED <<config, req, at, client, ctx, age, mail, logging, answer>>

Expire ==
    /\ phase = "draining"
    /\ ~Idle
    /\ Stop("error")
    /\ UNCHANGED <<config, req, at, client, ctx, age, mail, logging, answer>>

\* What a handler does without waiting for a backend.
Handle(r) == Admit(r) \/ Refuse(r) \/ Close(r) \/ Finish(r)

Backend(r) ==
    \/ Submit(r) \/ Talk(r) \/ Apply(r) \/ Sent(r)
    \/ DialFails(r) \/ TalkFails(r) \/ SendFails(r)

Next ==
    \/ Start \/ Interrupt \/ ListenFails \/ Drained \/ Expire
    \/ \E r \in Requests : Arrive(r) \/ Handle(r) \/ Backend(r) \/ Tick(r) \/ Leave(r)

\* Time passes, handlers are scheduled and look at their contexts.  A backend
\* owes nothing, nor does a client or the operator.
Fairness ==
    /\ WF_vars(Drained \/ Expire)
    /\ \A r \in Requests : WF_vars(Handle(r)) /\ WF_vars(Tick(r)) /\ WF_vars(GiveUp(r))

Spec == Init /\ [][Next]_vars /\ Fairness

-----------------------------------------------------------------------------
\* Every variable stays in its range.
TypeOK ==
    /\ config \in Config
    /\ phase \in {"start", "up", "draining", "down"}
    /\ exit \in {"none", "ok", "error"}
    /\ (phase = "down") = (exit # "none")
    /\ req \in [Requests -> Request]
    /\ at \in [Requests -> Steps]
    /\ present \in [Requests -> BOOLEAN]
    /\ ctx \in [Requests -> {"live", "cancelled"}]
    /\ age \in [Requests -> 0..2]
    /\ mail \in [Requests -> {"held", "underway", "taken"}]
    /\ log \in [Requests -> {"none", "open", "nil"}]
    /\ row \in [Requests -> {"none", "SUCCESS", "FAILURE"}]
    /\ flushed \in [Requests -> BOOLEAN]
    /\ answer \in [Requests -> {0, 200, 400, 401, 405, 500, 501, 503}]
    /\ told \in [Requests -> BOOLEAN]

\* A client told that its mail was sent over SMTP has had it taken; one told that
\* its request was refused has had nothing sent, and nothing is on its way,
\* however its send, its leaving and the shutdown interleave; and nothing is sent
\* on a socket without the key, over MCP either ("MCP must not be an auth
\* bypass", server.go 94).
AnswersAreTrue ==
    \A r \in Requests :
      /\ told[r] /\ answer[r] = 200 =>
           req[r].body = "good" /\ (To(r) = "smtp" => mail[r] = "taken")
      /\ answer[r] \notin {0, 200, 500} => mail[r] = "held" /\ row[r] = "none"
      /\ mail[r] # "held" => req[r].body = "good" /\ (config.stdio \/ req[r].key = "right")

\* The log accounts for every message that left, as far as anybody can tell: when
\* a REST client has its answer, and when the server has ended well, a send that
\* has a logger has its row in the file, which says what the answer said; or it
\* was answered as failed and its message never left, so that the backend will
\* not take it later either.  (Close is deferred, the answer written out after
\* it, and Shutdown waits for both.  Every return without a row comes before the
\* message is let go: sendmail.go 164-167, 229-231, 251-257, handlers.go 286-294.
\* A file that cannot be written is ActionLog's matter.)
AnsweredIsLogged ==
    \A r \in Requests :
      (told[r] \/ (exit = "ok" /\ ~config.stdio)) /\ log[r] = "open" =>
        \/ /\ answer[r] \in {200, 500}
           /\ flushed[r]
           /\ row[r] = IF answer[r] = 200 THEN "SUCCESS" ELSE "FAILURE"
        \/ answer[r] = 500 /\ row[r] = "none" /\ mail[r] = "held"

\* An interrupt ends the server, whatever the backends do; and a request to
\* Graph is answered or given up, even if Graph never answers.  (One to SMTP
\* need not be: SmtpSession.)
RequestsEnd ==
    /\ phase = "draining" ~> phase = "down"
    /\ \A r \in Requests :
         at[r] \in Sending /\ To(r) = "graph" ~> at[r] = "done" \/ phase = "down"
==============================================================================
