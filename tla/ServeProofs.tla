----------------------------- MODULE ServeProofs -----------------------------
(***************************************************************************)
(* What holds of Serve for any requests and configurations: its answers    *)
(* are true, whoever has one, or sees the server end well, can rely on the *)
(* log, and each request by itself is a Handoff of its message, by the      *)
(* server to the backend's side.                                           *)
(***************************************************************************)
EXTENDS Serve, TLAPS

\* A request that may be sent.
Entitled(r) == req[r].body = "good" /\ (config.stdio \/ req[r].key = "right")

Unsent(r) ==
    /\ answer[r] = 0 /\ mail[r] = "held" /\ ~flushed[r]
    /\ row[r] = "none" /\ log[r] = "none"

Refused(r) ==
    /\ answer[r] \in {400, 401, 405, 501, 503} /\ mail[r] = "held"
    /\ row[r] = "none" /\ log[r] = "none"

Concluded(r) ==
    /\ answer[r] \in {200, 500}
    /\ Entitled(r)
    /\ answer[r] = 200 /\ To(r) = "smtp" => mail[r] = "taken"
    /\ log[r] \in {"open", "nil"}
    /\ log[r] = "open" =>
         \/ row[r] = IF answer[r] = 200 THEN "SUCCESS" ELSE "FAILURE"
         \/ row[r] = "none" /\ answer[r] = 500 /\ mail[r] = "held"

\* What is known of a request by how far it has come.
Sound(r) ==
    /\ at[r] \in {"idle", "check"} => Unsent(r)
    /\ at[r] \in Sending =>
         /\ Entitled(r)
         /\ answer[r] = 0 /\ ~flushed[r] /\ row[r] = "none"
         /\ log[r] \in {"open", "nil"}
         /\ (mail[r] = "held") = (at[r] # "sent")
    /\ at[r] = "reply" => Concluded(r)
    /\ at[r] \in {"flush", "done"} =>
         Refused(r) \/ (Concluded(r) /\ (row[r] # "none" => flushed[r]))
    /\ at[r] # "done" => ~told[r]

\* Nothing comes in before the start, and nothing is left after an orderly end.
Orderly ==
    /\ phase = "start" => \A r \in Requests : at[r] = "idle"
    /\ exit = "ok" /\ ~config.stdio => \A r \in Requests : at[r] \in {"idle", "done"}

IInv == TypeOK /\ (\A r \in Requests : Sound(r)) /\ Orderly

\* The state of one request.
request(r) == <<req[r], at[r], answer[r], mail[r], log[r], row[r], flushed[r], told[r]>>

-----------------------------------------------------------------------------
LEMMA InitIInv == Init => IInv
<1> SUFFICES ASSUME Init PROVE IInv
  OBVIOUS
<1>1. TypeOK
  <2>1. config \in Config
    BY ServeAssumption DEF Init
  <2>2. NoRequest \in Request
    BY DEF NoRequest, Request, Routes
  <2>3. QED
    BY <2>1, <2>2 DEF Init, TypeOK, Steps
<1>2. ASSUME NEW r \in Requests PROVE Sound(r)
  BY DEF Init, Sound, Unsent, Sending
<1>3. Orderly
  BY DEF Init, Orderly
<1>4. QED
  BY <1>1, <1>2, <1>3 DEF IInv

\* The steps of a request r in what it has of the server.
Step(r) == Arrive(r) \/ Handle(r) \/ Backend(r) \/ Tick(r) \/ Leave(r)

LEMMA ConcludeType ==
    ASSUME NEW r \in Requests, NEW status \in {"SUCCESS", "FAILURE", "none"}, TypeOK,
           Conclude(r, status)
    PROVE  TypeOK'
<1>1. at' \in [Requests -> Steps] /\ answer' \in [Requests -> {0, 200, 400, 401, 405, 500, 501, 503}]
  BY DEF Conclude, TypeOK, Steps
<1>2. row' \in [Requests -> {"none", "SUCCESS", "FAILURE"}] /\ flushed' \in [Requests -> BOOLEAN]
  BY DEF Conclude, TypeOK
<1>3. UNCHANGED <<config, phase, exit, req, present, told, ctx, age, mail, log>>
  BY DEF Conclude, server, client
<1>4. QED
  BY <1>1, <1>2, <1>3 DEF TypeOK

LEMMA StepType ==
    ASSUME NEW r \in Requests, TypeOK, Step(r)
    PROVE  TypeOK'
<1> USE DEF server, client, logging
<1>1. CASE Arrive(r)
  <2>1. PICK q \in Request : req' = [req EXCEPT ![r] = q]
    BY <1>1, ServeAssumption DEF Arrive
  <2>2. at' \in [Requests -> Steps] /\ present' \in [Requests -> BOOLEAN]
    BY <1>1 DEF Arrive, TypeOK, Steps
  <2>3. UNCHANGED <<config, phase, exit, told, ctx, age, mail, log, row, flushed, answer>>
    BY <1>1 DEF Arrive
  <2>4. QED
    BY <2>1, <2>2, <2>3 DEF TypeOK
<1>2. CASE Admit(r)
  <2>1. at' \in [Requests -> Steps] /\ log' \in [Requests -> {"none", "open", "nil"}]
    BY <1>2 DEF Admit, TypeOK, Steps
  <2>2. UNCHANGED <<config, phase, exit, req, present, told, ctx, age, mail, row, flushed,
                    answer>>
    BY <1>2 DEF Admit
  <2>3. QED
    BY <2>1, <2>2 DEF TypeOK
<1>3. CASE Refuse(r)
  <2>1. Refusal(r) \in {0, 400, 401, 405, 501, 503}
    BY DEF Refusal
  <2>2. /\ at' \in [Requests -> Steps]
        /\ answer' \in [Requests -> {0, 200, 400, 401, 405, 500, 501, 503}]
    BY <1>3, <2>1 DEF Refuse, TypeOK, Steps
  <2>3. UNCHANGED <<config, phase, exit, req, present, told, ctx, age, mail, log, row,
                    flushed>>
    BY <1>3 DEF Refuse
  <2>4. QED
    BY <2>2, <2>3 DEF TypeOK
<1>4. CASE Close(r) \/ Finish(r)
  <2>1. /\ at' \in [Requests -> Steps]
        /\ flushed' \in [Requests -> BOOLEAN]
        /\ told' \in [Requests -> BOOLEAN]
        /\ present' \in [Requests -> BOOLEAN]
        /\ ctx' \in [Requests -> {"live", "cancelled"}]
        /\ age' \in [Requests -> 0..2]
    <3>1. CASE Close(r)
      BY <3>1 DEF Close, TypeOK, Steps
    <3>2. CASE Finish(r)
      <4>1. /\ at' \in [Requests -> Steps]
            /\ ctx' \in [Requests -> {"live", "cancelled"}]
            /\ age' \in [Requests -> 0..2]
        BY <3>2 DEF Finish, TypeOK, Steps
      <4>2. /\ flushed' \in [Requests -> BOOLEAN]
            /\ told' \in [Requests -> BOOLEAN]
            /\ present' \in [Requests -> BOOLEAN]
        BY <3>2 DEF Finish, TypeOK
      <4>3. QED
        BY <4>1, <4>2
    <3>3. QED
      BY <1>4, <3>1, <3>2
  <2>2. UNCHANGED <<config, phase, exit, req, mail, log, row, answer>>
    BY <1>4 DEF Close, Finish
  <2>3. QED
    BY <2>1, <2>2 DEF TypeOK
<1>5. CASE Submit(r) \/ Talk(r) \/ Apply(r)
  <2>1. at' \in [Requests -> Steps]
    BY <1>5 DEF Submit, Talk, LetGo, Apply, TypeOK, Steps
  <2>2. mail' \in [Requests -> {"held", "underway", "taken"}]
    BY <1>5 DEF Submit, Talk, LetGo, Apply, TypeOK
  <2>3. UNCHANGED <<config, phase, exit, req, present, told, ctx, age, log, row, flushed,
                    answer>>
    BY <1>5 DEF Submit, Talk, Apply
  <2>4. QED
    BY <2>1, <2>2, <2>3 DEF TypeOK
<1>6. CASE DialFails(r) \/ TalkFails(r) \/ Sent(r) \/ SendFails(r)
  BY <1>6, ConcludeType DEF DialFails, TalkFails, Sent, SendFails
<1>7. CASE Tick(r) \/ Leave(r)
  <2>1. /\ present' \in [Requests -> BOOLEAN]
        /\ ctx' \in [Requests -> {"live", "cancelled"}]
        /\ age' \in [Requests -> 0..2]
    <3>1. CASE Tick(r)
      BY <3>1 DEF Tick, TypeOK
    <3>2. CASE Leave(r)
      BY <3>2 DEF Leave, TypeOK
    <3>3. QED
      BY <1>7, <3>1, <3>2
  <2>2. UNCHANGED <<config, phase, exit, req, at, told, mail, log, row, flushed, answer>>
    BY <1>7 DEF Tick, Leave
  <2>3. QED
    BY <2>1, <2>2 DEF TypeOK
<1>8. QED
  BY <1>1, <1>2, <1>3, <1>4, <1>5, <1>6, <1>7 DEF Step, Handle, Backend

\* What is not refused is entitled to be sent.
LEMMA AdmittedEntitled ==
    ASSUME NEW r \in Requests, TypeOK, Refusal(r) = 0
    PROVE  Entitled(r)
<1>1. req[r].body \in {"good", "garbled", "invalid"}
  BY DEF TypeOK, Request
<1>2. QED
  BY <1>1 DEF Refusal, Authorized, Entitled

LEMMA ConcludeSound ==
    ASSUME NEW r \in Requests, NEW status \in {"SUCCESS", "FAILURE", "none"}, TypeOK,
           Sound(r), at[r] \in Sending, Conclude(r, status),
           status = "SUCCESS" /\ To(r) = "smtp" => mail[r] = "taken",
           status = "none" => at[r] # "sent"
    PROVE  Sound(r)'
<1>1. /\ at'[r] = "reply" /\ answer'[r] = IF status = "SUCCESS" THEN 200 ELSE 500
      /\ log[r] = "open" => row'[r] = IF status = "none" THEN row[r] ELSE status
  BY DEF Conclude, TypeOK
<1>2. UNCHANGED <<config, req, told, mail, log>>
  BY DEF Conclude, server, client
<1>3. /\ Entitled(r)' /\ log[r] \in {"open", "nil"} /\ ~told[r]
      /\ row[r] = "none"
      /\ status = "none" => mail[r] = "held"
  BY <1>2 DEF Sound, Sending, Entitled
<1>4. Concluded(r)'
  BY <1>1, <1>2, <1>3 DEF Concluded, To
<1>5. QED
  BY <1>1, <1>2, <1>3, <1>4 DEF Sound, Sending

\* A step of a request keeps what is known of it.
LEMMA StepSound ==
    ASSUME NEW r \in Requests, TypeOK, Sound(r), Step(r)
    PROVE  Sound(r)'
<1> USE DEF server, client, logging
<1>1. CASE Arrive(r)
  <2>1. at[r] = "idle" /\ at'[r] = "check"
    BY <1>1 DEF Arrive, TypeOK
  <2>2. UNCHANGED <<told, mail, log, row, flushed, answer>>
    BY <1>1 DEF Arrive
  <2>3. QED
    BY <2>1, <2>2 DEF Sound, Unsent, Sending
<1>2. CASE Admit(r)
  <2>1. /\ at[r] = "check" /\ at'[r] = "dial" /\ log'[r] \in {"open", "nil"}
    BY <1>2 DEF Admit, TypeOK
  <2>2. UNCHANGED <<config, req, told, mail, row, flushed, answer>>
    BY <1>2 DEF Admit
  <2>3. Entitled(r)'
    BY <1>2, <2>2, AdmittedEntitled DEF Admit, Entitled
  <2>4. QED
    BY <2>1, <2>2, <2>3 DEF Sound, Unsent, Sending
<1>3. CASE Refuse(r)
  <2>1. Refusal(r) \in {400, 401, 405, 501, 503}
    BY <1>3 DEF Refusal, Refuse
  <2>2. at[r] = "check" /\ at'[r] = "flush" /\ answer'[r] = Refusal(r)
    BY <1>3 DEF Refuse, TypeOK
  <2>3. UNCHANGED <<told, mail, log, row, flushed>>
    BY <1>3 DEF Refuse
  <2>4. QED
    BY <2>1, <2>2, <2>3 DEF Sound, Unsent, Refused, Sending
<1>4. CASE Close(r)
  <2>1. at[r] = "reply" /\ at'[r] = "flush" /\ flushed'[r] = (row[r] # "none")
    BY <1>4 DEF Close, TypeOK
  <2>2. UNCHANGED <<config, req, told, mail, log, row, answer>>
    BY <1>4 DEF Close
  <2>3. Concluded(r) /\ Concluded(r)'
    BY <2>1, <2>2 DEF Sound, Concluded, Entitled, To
  <2>4. QED
    BY <2>1, <2>2, <2>3 DEF Sound, Sending, Concluded
<1>5. CASE Finish(r)
  <2>1. at[r] = "flush" /\ at'[r] = "done"
    BY <1>5 DEF Finish, TypeOK
  <2>2. UNCHANGED <<config, req, mail, log, row, flushed, answer>>
    BY <1>5 DEF Finish
  <2>3. QED
    BY <2>1, <2>2 DEF Sound, Sending, Refused, Concluded, Entitled, To
<1>6. CASE Submit(r) \/ Talk(r)
  <2>1. /\ at[r] \in {"dial", "talk"} /\ at'[r] \in {"talk", "sent"}
        /\ mail'[r] = IF at'[r] = "sent" THEN "underway" ELSE mail[r]
    BY <1>6 DEF Submit, Talk, LetGo, TypeOK
  <2>2. UNCHANGED <<config, req, told, log, row, flushed, answer>>
    BY <1>6 DEF Submit, Talk
  <2>3. QED
    BY <2>1, <2>2 DEF Sound, Sending, Entitled
<1>7. CASE DialFails(r) \/ TalkFails(r) \/ SendFails(r)
  BY <1>7, ConcludeSound DEF DialFails, TalkFails, SendFails, Sending
<1>8. CASE Sent(r)
  BY <1>8, ConcludeSound DEF Sent, Replied, Sending
<1>9. CASE Tick(r) \/ Leave(r)
  <2>1. UNCHANGED <<config, req, at, told, mail, log, row, flushed, answer>>
    BY <1>9 DEF Tick, Leave
  <2>2. QED
    BY <2>1 DEF Sound, Unsent, Refused, Concluded, Entitled, To
<1>10. CASE Apply(r)
  <2>1. mail[r] = "underway" /\ mail'[r] = "taken"
    BY <1>10 DEF Apply, TypeOK
  <2>2. UNCHANGED <<config, req, at, told, log, row, flushed, answer>>
    BY <1>10 DEF Apply
  <2>3. at[r] \in {"sent", "reply", "flush", "done"}
    BY <2>1 DEF Sound, Unsent, Sending, TypeOK, Steps
  <2>4. Concluded(r) => Concluded(r)'
    BY <2>1, <2>2 DEF Concluded, Entitled, To
  <2>5. ~Refused(r)
    BY <2>1 DEF Refused
  <2>6. QED
    BY <2>1, <2>2, <2>3, <2>4, <2>5 DEF Sound, Sending, Entitled
<1>11. QED
  BY <1>1, <1>2, <1>3, <1>4, <1>5, <1>6, <1>7, <1>8, <1>9, <1>10 DEF Step, Handle, Backend

\* A step of a request leaves the others and the server alone.
LEMMA StepFrame ==
    ASSUME NEW r \in Requests, TypeOK, Step(r)
    PROVE  /\ UNCHANGED server
           /\ \A s \in Requests \ {r} : request(s)' = request(s)
<1> USE DEF server, client, logging, request
<1>1. CASE Arrive(r)
  BY <1>1 DEF Arrive, TypeOK
<1>2. CASE Admit(r) \/ Refuse(r)
  BY <1>2 DEF Admit, Refuse, TypeOK
<1>3. CASE Close(r) \/ Finish(r)
  BY <1>3 DEF Close, Finish, TypeOK
<1>4. CASE Submit(r) \/ Talk(r) \/ Apply(r)
  BY <1>4 DEF Submit, Talk, LetGo, Apply, TypeOK
<1>5. CASE DialFails(r) \/ TalkFails(r) \/ SendFails(r) \/ Sent(r)
  BY <1>5 DEF DialFails, TalkFails, SendFails, Sent, Conclude, TypeOK
<1>6. CASE Tick(r) \/ Leave(r)
  BY <1>6 DEF Tick, Leave, TypeOK
<1>7. QED
  BY <1>1, <1>2, <1>3, <1>4, <1>5, <1>6 DEF Step, Handle, Backend

LEMMA UnchangedSound ==
    ASSUME NEW r \in Requests, Sound(r), config' = config, request(r)' = request(r)
    PROVE  Sound(r)'
BY DEF Sound, Unsent, Refused, Concluded, Entitled, To, request

\* A handler takes a step while the server runs, so that neither end of it is
\* touched; a backend may at any time, but moves no handler.
LEMMA StepIInv == ASSUME NEW r \in Requests, IInv, Step(r) PROVE IInv'
<1>1. TypeOK'
  BY StepType DEF IInv
<1>2. ASSUME NEW s \in Requests PROVE Sound(s)'
  BY <1>2, StepSound, StepFrame, UnchangedSound DEF IInv, server
<1>3. phase \in {"up", "draining"} \/ at' = at
  BY DEF Step, Arrive, Handle, Admit, Refuse, Close, Finish, Backend, Submit, Talk,
     DialFails, TalkFails, Apply, Sent, SendFails, Tick, Leave, Serving
<1>4. Orderly'
  <2>1. UNCHANGED <<config, phase, exit>>
    BY StepFrame DEF IInv, server
  <2>2. QED
    BY <1>3, <2>1 DEF Orderly, IInv, TypeOK
<1>5. QED
  BY <1>1, <1>2, <1>4 DEF IInv

\* The server starts, is interrupted, and ends.
LEMMA ServerIInv ==
    IInv /\ (Start \/ Interrupt \/ ListenFails \/ Drained \/ Expire) => IInv'
<1> SUFFICES ASSUME IInv, Start \/ Interrupt \/ ListenFails \/ Drained \/ Expire PROVE IInv'
  OBVIOUS
<1> USE DEF client, logging
<1>1. UNCHANGED <<req, at, present, told, ctx, age, mail, log, row, flushed, answer>>
  BY DEF Start, Interrupt, ListenFails, Drained, Expire
<1>2. config' \in Config
  BY DEF Start, Interrupt, ListenFails, Drained, Expire, IInv, TypeOK, Config
<1>3. /\ phase' \in {"up", "draining", "down"} /\ exit' \in {"none", "ok", "error"}
      /\ (phase' = "down") = (exit' # "none")
  BY DEF Start, Interrupt, ListenFails, Drained, Expire, Stop, IInv, TypeOK
<1>4. TypeOK'
  BY <1>1, <1>2, <1>3 DEF IInv, TypeOK
<1>5. ASSUME NEW r \in Requests PROVE Sound(r)'
  <2>1. CASE Start
    BY <2>1, <1>1 DEF IInv, Orderly, Sound, Unsent, Sending, Start
  <2>2. CASE ~Start
    BY <2>2, <1>1, UnchangedSound DEF IInv, Interrupt, ListenFails, Drained, Expire, request
  <2>3. QED
    BY <2>1, <2>2
<1>6. Orderly'
  <2>1. CASE Start
    BY <2>1, <1>1, <1>3 DEF IInv, Orderly, Start, Stop
  <2>2. CASE Interrupt \/ ListenFails \/ Expire
    BY <2>2, <1>1, <1>3 DEF IInv, TypeOK, Orderly, Interrupt, ListenFails, Expire, Stop
  <2>3. CASE Drained
    BY <2>3, <1>1, <1>3 DEF Orderly, Drained, Idle, Busy
  <2>4. QED
    BY <2>1, <2>2, <2>3
<1>7. QED
  BY <1>4, <1>5, <1>6 DEF IInv

LEMMA StutterIInv == IInv /\ UNCHANGED vars => IInv'
<1> SUFFICES ASSUME IInv, UNCHANGED vars PROVE IInv'
  OBVIOUS
<1> USE DEF vars
<1>1. TypeOK' /\ Orderly'
  BY DEF IInv, TypeOK, Orderly
<1>2. ASSUME NEW r \in Requests PROVE Sound(r)'
  BY UnchangedSound DEF IInv, request
<1>3. QED
  BY <1>1, <1>2 DEF IInv

\* IInv holds in every state: what is known of each request follows it from
\* step to step, and the server touches none (server.go, send.go).
THEOREM Inductive == Spec => []IInv
<1>1. IInv /\ [Next]_vars => IInv'
  BY StepIInv, ServerIInv, StutterIInv DEF Next, Step
<1>2. QED
  BY <1>1, InitIInv, PTL DEF Spec

\* Every variable stays in its range.
THEOREM TypeCorrect == Spec => []TypeOK
<1>1. IInv => TypeOK
  BY DEF IInv
<1>2. QED
  BY <1>1, Inductive, PTL

\* The answers of the REST handlers and of the MCP tools are true, for any
\* number of requests, and nothing is sent without the key.
THEOREM AnswersAreTrueHolds == Spec => []AnswersAreTrue
<1>1. IInv => AnswersAreTrue
  <2> SUFFICES ASSUME IInv, NEW r \in Requests
               PROVE  /\ told[r] /\ answer[r] = 200 =>
                           req[r].body = "good" /\ (To(r) = "smtp" => mail[r] = "taken")
                      /\ answer[r] \notin {0, 200, 500} => mail[r] = "held" /\ row[r] = "none"
                      /\ mail[r] # "held" =>
                           req[r].body = "good" /\ (config.stdio \/ req[r].key = "right")
    BY DEF AnswersAreTrue
  <2>1. Sound(r) /\ at[r] \in Steps
    BY DEF IInv, TypeOK
  <2>2. CASE at[r] \in {"idle", "check", "dial", "talk", "sent"}
    BY <2>1, <2>2 DEF Sound, Unsent, Entitled, Sending
  <2>3. CASE at[r] \in {"reply", "flush", "done"}
    BY <2>1, <2>3 DEF Sound, Refused, Concluded, Entitled
  <2>4. QED
    BY <2>1, <2>2, <2>3 DEF Steps
<1>2. QED
  BY <1>1, Inductive, PTL

\* Who has an answer, or sees the server end well, finds the row in the log, or
\* the message never left and the answer says that it failed; for any number of
\* requests, however late a backend takes what is on its way.
THEOREM AnsweredIsLoggedHolds == Spec => []AnsweredIsLogged
<1>1. IInv => AnsweredIsLogged
  <2> SUFFICES ASSUME IInv, NEW r \in Requests, told[r] \/ (exit = "ok" /\ ~config.stdio),
                      log[r] = "open"
               PROVE  \/ /\ answer[r] \in {200, 500} /\ flushed[r]
                         /\ row[r] = IF answer[r] = 200 THEN "SUCCESS" ELSE "FAILURE"
                      \/ answer[r] = 500 /\ row[r] = "none" /\ mail[r] = "held"
    BY DEF AnsweredIsLogged
  <2>1. Sound(r)
    BY DEF IInv
  <2>2. at[r] = "done"
    BY <2>1 DEF IInv, Orderly, Sound, Unsent
  <2>3. QED
    BY <2>1, <2>2 DEF Sound, Refused, Concluded
<1>2. QED
  BY <1>1, Inductive, PTL
-----------------------------------------------------------------------------
\* A send, as its handler sees it: the message is handed over when it leaves for
\* the backend, which may take it then or, as far as the handler knows, later.
LetOut(r) == IF mail[r] = "held" THEN {} ELSE {r}

Reported(r) ==
    CASE answer[r] = 0 -> "none"
      [] answer[r] = 200 -> "ok"
      [] OTHER -> "failed"

Send(r) == INSTANCE Handoff WITH
               Recipients <- {r}, delivered <- LetOut(r), report <- Reported(r)

\* A step of another request, and of the server, does not touch the send of r.
LEMMA OthersStutter ==
    ASSUME NEW r \in Requests, request(r)' = request(r)
    PROVE  UNCHANGED Send(r)!handoffVars
BY DEF request, Send!handoffVars, LetOut, Reported

\* A request of its own: the message leaves, or the answer is set.
LEMMA OwnSend ==
    ASSUME NEW r \in Requests, IInv, Step(r)
    PROVE  Send(r)!HandoffNext \/ UNCHANGED Send(r)!handoffVars
<1> USE DEF Send!HandoffNext, Send!HandOver, Send!Report, Send!handoffVars, LetOut, Reported
<1>0. Sound(r) /\ at[r] \in Steps /\ TypeOK
  BY DEF IInv, TypeOK
<1>1. CASE (Submit(r) \/ Talk(r)) /\ mail' # mail
  <2>1. /\ at[r] \in {"dial", "talk"} /\ mail'[r] = "underway"
        /\ UNCHANGED answer
    BY <1>0, <1>1 DEF Submit, Talk, LetGo, TypeOK
  <2>2. answer[r] = 0 /\ mail[r] = "held"
    BY <1>0, <2>1 DEF Sound, Sending
  <2>3. QED
    BY <2>1, <2>2
<1>2. CASE DialFails(r) \/ TalkFails(r) \/ SendFails(r)
  <2>1. at[r] \in Sending /\ answer'[r] = 500 /\ UNCHANGED mail
    BY <1>0, <1>2 DEF DialFails, TalkFails, SendFails, Conclude, TypeOK, Sending
  <2>2. answer[r] = 0
    BY <1>0, <2>1 DEF Sound
  <2>3. QED
    BY <2>1, <2>2
<1>3. CASE Sent(r)
  <2>1. at[r] = "sent" /\ answer'[r] = 200 /\ UNCHANGED mail
    BY <1>0, <1>3 DEF Sent, Conclude, TypeOK
  <2>2. answer[r] = 0 /\ mail[r] # "held"
    BY <1>0, <2>1 DEF Sound, Sending
  <2>3. QED
    BY <2>1, <2>2
<1>4. CASE Refuse(r)
  <2>1. /\ at[r] = "check" /\ answer'[r] \in {400, 401, 405, 501, 503}
        /\ UNCHANGED mail
    BY <1>0, <1>4 DEF Refuse, Refusal, TypeOK
  <2>2. answer[r] = 0
    BY <1>0, <2>1 DEF Sound, Unsent
  <2>3. QED
    BY <2>1, <2>2
<1>5. CASE Apply(r)
  <2>1. mail[r] = "underway" /\ mail'[r] = "taken" /\ UNCHANGED answer
    BY <1>0, <1>5 DEF Apply, TypeOK
  <2>2. QED
    BY <2>1
<1>6. CASE \/ Arrive(r) \/ Admit(r) \/ Close(r) \/ Finish(r) \/ Tick(r) \/ Leave(r)
           \/ (Submit(r) \/ Talk(r)) /\ mail' = mail
  <2>1. UNCHANGED <<mail, answer>>
    BY <1>6 DEF Arrive, Admit, Close, Finish, Submit, Talk, Tick, Leave
  <2>2. QED
    BY <2>1
<1>7. QED
  BY <1>1, <1>2, <1>3, <1>4, <1>5, <1>6 DEF Step, Handle, Backend

\* Every request is a handoff of its own, however many there are and however
\* they interleave with each other, with clients that leave and with the
\* shutdown: the server lets its message out at most once and never once the
\* answer is set, and the answer is success only if it has.  (When the backend
\* takes it is not bounded by the answer: a send to Graph that was given up at
\* its minute and answered with 500 may still be applied; send.go, mcp.go.)
THEOREM EachRequestIsHandoff == ASSUME NEW r \in Requests PROVE Spec => Send(r)!HandoffSpec
<1>1. Init => Send(r)!HandoffInit
  BY DEF Init, Send!HandoffInit, LetOut, Reported
<1>2. IInv /\ [Next]_vars => [Send(r)!HandoffNext]_(Send(r)!handoffVars)
  <2> SUFFICES ASSUME IInv, [Next]_vars
               PROVE  Send(r)!HandoffNext \/ UNCHANGED Send(r)!handoffVars
    OBVIOUS
  <2>1. CASE Step(r)
    BY <2>1, OwnSend
  <2>2. CASE \E s \in Requests \ {r} : Step(s)
    <3>1. UNCHANGED request(r)
      BY <2>2, StepFrame DEF IInv
    <3>2. QED
      BY <3>1, OthersStutter
  <2>3. CASE Start \/ Interrupt \/ ListenFails \/ Drained \/ Expire \/ UNCHANGED vars
    <3>1. UNCHANGED request(r)
      BY <2>3 DEF Start, Interrupt, ListenFails, Drained, Expire, vars, request, client, logging
    <3>2. QED
      BY <3>1, OthersStutter
  <2>4. QED
    BY <2>1, <2>2, <2>3 DEF Next, Step
<1>3. QED
  BY <1>1, <1>2, Inductive, PTL DEF Spec, Send!HandoffSpec
==============================================================================
