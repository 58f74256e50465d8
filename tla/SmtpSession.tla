----------------------------- MODULE SmtpSession -----------------------------
(***************************************************************************)
(* One run of an SMTP action: testconnect, teststarttls, testauth or       *)
(* sendmail (internal/protocols/smtp) against one server.  The session     *)
(* goes through Connect, EHLO, the STARTTLS upgrade, AUTH and the mail     *)
(* transaction; the last two are done by the standard library's smtp       *)
(* client on top of the same connection.  cfg is the validated             *)
(* configuration, srv what this server offers; both are fixed for the run. *)
(* Each action is one exchange: a command, what the server makes of it,    *)
(* and the reply, which may be a refusal or never arrive.                  *)
(***************************************************************************)
EXTENDS Integers

CONSTANTS Configs,      \* configurations to explore
          Servers,      \* servers to explore
          NRcpt,        \* size of the envelope: To, Cc and Bcc together
          MaxChallenges \* bound on the challenges of one SASL exchange

ASSUME SessionAssumption == NRcpt \in Nat \ {0} /\ MaxChallenges \in Nat

TokenMechs == {"XOAUTH2", "OAUTHBEARER"}
PasswordMechs == {"GSSAPI", "CRAM-MD5", "NTLM", "PLAIN", "LOGIN"}
Mechs == TokenMechs \cup PasswordMechs

\* Ports by what the code does with them: "std" is 25 and 587, "alt" is 2525,
\* 2526 and 1025.
Config == [action : {"testconnect", "teststarttls", "testauth", "sendmail"},
           smtps : BOOLEAN, starttls : BOOLEAN, noStartTLS : BOOLEAN,
           port : {"std", "alt", "other"},
           creds : {"none", "password", "token"},
           method : Mechs \cup {"auto"}]

Stages == {"dial", "handshake", "banner", "ehlo", "starttls", "ehlo2", "auth",
           "sasl", "mail", "rcpt", "data", "body", "reply", "done"}

Server == [starttls : BOOLEAN,          \* advertises STARTTLS
           mechs : SUBSET Mechs,        \* advertises these with AUTH
           authInClear : BOOLEAN,       \* ... before TLS too
           valid : BOOLEAN,             \* knows the credentials
           relay : BOOLEAN,             \* takes mail without authentication
           strict : BOOLEAN,            \* refuses an empty EHLO argument
           prompts : BOOLEAN,           \* LOGIN prompts "Username:" "Password:"
           mute : Stages \cup {"never"}]    \* falls silent at this stage

\* validateConfiguration
ValidConfig(c) ==
    /\ ~(c.smtps /\ c.starttls)
    /\ ~(c.starttls /\ c.noStartTLS)
    /\ c.action = "teststarttls" => c.smtps \/ ~c.noStartTLS
    /\ c.action = "testauth" =>
         /\ c.creds # "none"
         /\ c.method \in TokenMechs => c.creds = "token"

ASSUME InputAssumption ==
    /\ Configs \subseteq {c \in Config : ValidConfig(c)}
    /\ Servers \subseteq Server

VARIABLES
    cfg, srv,   \* this run's configuration and server
    stage,      \* what the client does next
    tls,        \* the connection is encrypted
    mech,       \* SASL mechanism in use
    steps,      \* SASL responses sent after the AUTH command
    reply,      \* last reply of the SASL exchange or of the message
    authOK,     \* Auth returned nil
    rcpt,       \* recipients accepted so far
    row,        \* status of the CSV row written
    result,     \* what the action returned
    peer,       \* the server: [phase, authed, rcpts]
    delivered,  \* the recipients the server has taken the message for
    clear       \* history: what crossed the connection unencrypted

vars == <<cfg, srv, stage, tls, mech, steps, reply, authOK, rcpt, row, result,
          peer, delivered, clear>>

Init ==
    /\ cfg \in Configs
    /\ srv \in Servers
    /\ stage = "dial"
    /\ tls = FALSE
    /\ mech = "none" /\ steps = 0 /\ reply = "none"
    /\ authOK = FALSE
    /\ rcpt = 0
    /\ row = "none" /\ result = "none"
    /\ peer = [phase |-> "command", authed |-> FALSE, rcpts |-> {}]
    /\ delivered = {}
    /\ clear = {}

-----------------------------------------------------------------------------
\* The action returns; the deferred Close drops the connection.
Finish(res, status) ==
    /\ stage' = "done"
    /\ result' = res
    /\ row' = status
    /\ UNCHANGED <<mech, steps, reply, authOK, rcpt>>

Goto(s) ==
    /\ stage' = s
    /\ UNCHANGED <<mech, steps, reply, authOK, rcpt, row, result>>

Silent == srv.mute = stage

\* AUTH as the server advertises it on the connection as it is now.
Offered == IF tls \/ srv.authInClear THEN srv.mechs ELSE {}

HasCreds == cfg.creds # "none"

\* Mutant: sendmail's automatic upgrade stops at the standard ports too.
UpgradePortsStd == {"std"}

\* The ports on which the action upgrades by itself.
UpgradePorts == IF cfg.action = "sendmail" THEN {"std", "alt"} ELSE {"std"}

\* The condition of the automatic upgrade: --starttls plays no part in it.
Upgrades ==
    /\ ~cfg.smtps
    /\ ~cfg.noStartTLS
    /\ cfg.port \in UpgradePorts
    /\ srv.starttls

\* selectAuthMechanism: the method asked for, or the first of the preference
\* order the server offers; the token mechanisms count only with a token.
Preference == <<"XOAUTH2", "OAUTHBEARER", "GSSAPI", "CRAM-MD5", "NTLM",
                "PLAIN", "LOGIN">>

Eligible == IF cfg.method = "auto"
            THEN IF cfg.creds = "token" THEN Mechs ELSE PasswordMechs
            ELSE {cfg.method}

SelectAuthMechanism ==
    IF Offered \cap Eligible = {} THEN "none"
    ELSE LET Candidate(i) == Preference[i] \in Offered \cap Eligible
             first == CHOOSE i \in 1..7 :
                          Candidate(i) /\ \A j \in 1..(i - 1) : ~Candidate(j)
         IN  Preference[first]

-----------------------------------------------------------------------------
\* The server's side.  A command is accepted, and then it takes the server to
\* the state given; or refused; or the connection breaks before or after.  A
\* server in the middle of a SASL exchange takes any line for a response to
\* its challenge, refuses it and ends the exchange.
Exchange(accepted, answer) ==
    \/ peer.phase = "command" /\ peer' = accepted /\ answer = "ok"
    \/ peer.phase = "command" /\ peer' \in {peer, accepted} /\ answer = "lost"
    \/ peer' = [peer EXCEPT !.phase = "command"] /\ answer \in {"refused", "lost"}

\* The credentials the client has are the ones the mechanism needs.
Right(m) == srv.valid /\ cfg.creds = IF m \in TokenMechs THEN "token" ELSE "password"

\* Responses the server needs, after AUTH and the initial response to it, before
\* it can know who it talks to.
Responses(m) ==
    CASE m \in TokenMechs \cup {"PLAIN"} -> 0
      [] m \in {"CRAM-MD5", "NTLM"} -> 1
      [] m \in {"LOGIN", "GSSAPI"} -> 2

\* The server's reply to the AUTH command (n = 0) or to the nth response.  It may
\* challenge any mechanism, needed or not: to have the reason of a refusal
\* acknowledged, or because it has not taken the initial response.
SaslReply(m, n, answer) ==
    \/ /\ n < MaxChallenges
       /\ answer = "334"
       /\ peer' = [peer EXCEPT !.phase = "sasl"]
    \/ /\ n >= Responses(m) /\ Right(m)
       /\ answer = "235"
       /\ peer' = [peer EXCEPT !.phase = "command", !.authed = TRUE]
    \/ /\ answer \in {"5xx", "lost"}
       /\ peer' = [peer EXCEPT !.phase = "command"]

-----------------------------------------------------------------------------
\* Connect: the dialer, which gives up after --timeout.
Dial ==
    /\ stage = "dial"
    /\ \/ Finish("failed", "FAILURE")
       \/ ~Silent /\ Goto(IF cfg.smtps THEN "handshake" ELSE "banner")
    /\ UNCHANGED <<cfg, srv, tls, peer, delivered, clear>>

\* The TLS handshake of SMTPS or of STARTTLS: it has no deadline.
Handshake ==
    /\ stage = "handshake"
    /\ ~Silent
    /\ \/ Finish("failed", "FAILURE") /\ UNCHANGED tls
       \/ tls' = TRUE /\ Goto(IF cfg.smtps THEN "banner" ELSE "ehlo2")
    /\ UNCHANGED <<cfg, srv, peer, delivered, clear>>

\* The banner, read with a deadline.
Banner ==
    /\ stage = "banner"
    /\ \/ Finish("failed", "FAILURE")
       \/ ~Silent /\ Goto("ehlo")
    /\ UNCHANGED <<cfg, srv, tls, peer, delivered, clear>>

\* testconnect stops here.
AfterEhloTestConnect ==
    /\ cfg.action = "testconnect"
    /\ Finish("ok", "SUCCESS")

\* teststarttls on SMTPS only repeats EHLO; else STARTTLS must be on offer.
AfterEhloTestStartTLS ==
    /\ cfg.action = "teststarttls"
    /\ IF cfg.smtps THEN Goto("ehlo2")
       ELSE IF srv.starttls THEN Goto("starttls") ELSE Finish("failed", "FAILURE")

\* testauth wants AUTH advertised before it upgrades.
AfterEhloTestAuth ==
    /\ cfg.action = "testauth"
    /\ IF Offered = {} THEN Finish("failed", "FAILURE")
       ELSE Goto(IF Upgrades THEN "starttls" ELSE "auth")

\* Mutant: credentials are used on an upgraded connection only.
AfterEhloSendMailUnauth ==
    /\ cfg.action = "sendmail"
    /\ Goto(IF Upgrades THEN "starttls" ELSE "mail")

\* sendmail authenticates when it has credentials.
AfterEhloSendMail ==
    /\ cfg.action = "sendmail"
    /\ Goto(IF Upgrades THEN "starttls" ELSE IF HasCreds THEN "auth" ELSE "mail")

\* The first EHLO, and what the action decides from the capabilities.
Ehlo ==
    /\ stage = "ehlo"
    /\ \/ Finish("failed", "FAILURE")
       \/ /\ ~Silent
          /\ AfterEhloTestConnect \/ AfterEhloTestStartTLS \/ AfterEhloTestAuth
             \/ AfterEhloSendMail
    /\ UNCHANGED <<cfg, srv, tls, peer, delivered, clear>>

\* Mutant: a failed upgrade is only logged.
StartTLSOptional ==
    /\ stage = "starttls"
    /\ \/ Goto(IF HasCreds THEN "auth" ELSE "mail")
       \/ ~Silent /\ Goto("handshake")
    /\ UNCHANGED <<cfg, srv, tls, peer, delivered, clear>>

\* StartTLS up to the 220: anything else, or nothing before the deadline, ends
\* the action.
StartTLS ==
    /\ stage = "starttls"
    /\ \/ Finish("failed", "FAILURE")
       \/ ~Silent /\ Goto("handshake")
    /\ UNCHANGED <<cfg, srv, tls, peer, delivered, clear>>

\* Mutant: the EHLO on the encrypted connection is read without a deadline.
EhloAgainUnbounded ==
    /\ stage = "ehlo2"
    /\ ~Silent
    /\ \/ cfg.action = "teststarttls" /\ Finish("ok", "SUCCESS")
       \/ cfg.action # "teststarttls" /\ Finish("failed", "none")
       \/ /\ cfg.action # "teststarttls"
          /\ Goto(IF HasCreds THEN "auth" ELSE "mail")
    /\ UNCHANGED <<cfg, srv, tls, peer, delivered, clear>>

\* EHLO on the encrypted connection.  For teststarttls its failure is a
\* warning; for the other two it ends the action without a row.
EhloAgain ==
    /\ stage = "ehlo2"
    /\ \/ cfg.action = "teststarttls" /\ Finish("ok", "SUCCESS")
       \/ cfg.action # "teststarttls" /\ Finish("failed", "none")
       \/ /\ cfg.action # "teststarttls" /\ ~Silent
          /\ Goto(IF HasCreds THEN "auth" ELSE "mail")
    /\ UNCHANGED <<cfg, srv, tls, peer, delivered, clear>>

-----------------------------------------------------------------------------
\* Auth: the mechanism, the library's Hello (EHLO, else HELO), and the AUTH
\* command.  GSSAPI may fail before that, when there is no Kerberos ticket.
Auth ==
    /\ stage = "auth"
    /\ SelectAuthMechanism = "none" \/ ~Silent
    /\ \/ Finish("failed", "FAILURE") /\ UNCHANGED <<peer, clear>>
       \/ /\ SelectAuthMechanism # "none"
          /\ stage' = "sasl"
          /\ mech' = SelectAuthMechanism
          /\ clear' = IF tls THEN clear ELSE clear \cup {"credentials"}
          /\ \E answer \in {"334", "235", "5xx", "lost"} :
                /\ SaslReply(mech', 0, answer)
                /\ reply' = answer
          /\ UNCHANGED <<steps, authOK, rcpt, row, result>>
    /\ UNCHANGED <<cfg, srv, tls, delivered>>

\* Mutant: OAUTHBEARER has nothing to say to the error challenge either.
AnswersPasswordOnly == mech \in {"CRAM-MD5", "NTLM"} \/ (mech = "LOGIN" /\ srv.prompts)

\* The mechanism's Next answers a challenge with data.  PLAIN and XOAUTH2 never
\* do, LOGIN only when it knows the prompt, GSSAPI not to the first challenge, so
\* that it never sees a second.
Answers ==
    \/ mech \in {"CRAM-MD5", "NTLM", "OAUTHBEARER"}
    \/ mech = "LOGIN" /\ srv.prompts

\* Auth returned nil: testauth is done, sendmail goes on to the message.
AuthDone ==
    /\ authOK' = TRUE
    /\ IF cfg.action = "testauth"
       THEN stage' = "done" /\ result' = "ok" /\ row' = "SUCCESS"
       ELSE stage' = "mail" /\ UNCHANGED <<result, row>>
    /\ UNCHANGED <<mech, steps, reply, rcpt>>

\* One round of the library's SASL loop: a 235 ends it; a refusal fails it, and so
\* does a challenge that cannot be decoded or that the mechanism can make nothing
\* of, after a "*" and a QUIT whose replies are waited for; any other challenge
\* goes to the mechanism, and when that has nothing to say the loop ends without
\* an error, the challenge unanswered.
Sasl ==
    /\ stage = "sasl"
    /\ \/ reply = "235" /\ AuthDone /\ UNCHANGED peer
       \/ /\ reply # "235"
          /\ reply = "lost" \/ ~Silent
          /\ Finish("failed", "FAILURE") /\ UNCHANGED peer
       \/ reply = "334" /\ ~Answers /\ AuthDone /\ UNCHANGED peer
       \/ /\ reply = "334" /\ Answers /\ ~Silent
          /\ steps' = steps + 1
          /\ \E answer \in {"334", "235", "5xx", "lost"} :
                SaslReply(mech, steps + 1, answer) /\ reply' = answer
          /\ UNCHANGED <<stage, mech, authOK, rcpt, row, result>>
    /\ UNCHANGED <<cfg, srv, tls, delivered, clear>>

\* The message cannot be built, or its Message-ID not set: the latter leaves
\* no row.
BuildFails ==
    /\ stage = "mail"
    /\ \E status \in {"FAILURE", "none"} : Finish("failed", status)
    /\ UNCHANGED <<cfg, srv, tls, peer, delivered, clear>>

\* MAIL FROM.  Without Auth the library says hello first, with an empty name.
Mail ==
    /\ stage = "mail"
    /\ ~Silent
    /\ \E answer \in {"ok", "refused", "lost"} :
        /\ Exchange(peer, answer)
        /\ IF answer = "ok"
           THEN /\ srv.relay \/ peer.authed
                /\ mech = "none" => ~srv.strict
                /\ Goto("rcpt")
           ELSE Finish("failed", "FAILURE")
    /\ UNCHANGED <<cfg, srv, tls, delivered, clear>>

\* Mutant: a refused recipient is skipped.
RcptLenient ==
    /\ stage = "rcpt"
    /\ ~Silent
    /\ \E answer \in {"ok", "refused", "lost"} :
        /\ Exchange([peer EXCEPT !.rcpts = @ \cup {rcpt + 1}], answer)
        /\ IF answer = "lost" THEN Finish("failed", "FAILURE")
           ELSE /\ rcpt' = rcpt + 1
                /\ stage' = IF rcpt + 1 = NRcpt THEN "data" ELSE "rcpt"
                /\ UNCHANGED <<mech, steps, reply, authOK, row, result>>
    /\ UNCHANGED <<cfg, srv, tls, delivered, clear>>

\* Mutant: the loop over the recipients runs once more.
RcptOneMore ==
    /\ stage = "rcpt"
    /\ ~Silent
    /\ \E answer \in {"ok", "refused", "lost"} :
        /\ Exchange([peer EXCEPT !.rcpts = @ \cup {rcpt + 1}], answer)
        /\ IF answer # "ok" THEN Finish("failed", "FAILURE")
           ELSE /\ rcpt' = rcpt + 1
                /\ stage' = IF rcpt = NRcpt THEN "data" ELSE "rcpt"
                /\ UNCHANGED <<mech, steps, reply, authOK, row, result>>
    /\ UNCHANGED <<cfg, srv, tls, delivered, clear>>

\* RCPT TO for the next recipient: one refusal ends the action.
Rcpt ==
    /\ stage = "rcpt"
    /\ ~Silent
    /\ \E answer \in {"ok", "refused", "lost"} :
        /\ Exchange([peer EXCEPT !.rcpts = @ \cup {rcpt + 1}], answer)
        /\ IF answer # "ok" THEN Finish("failed", "FAILURE")
           ELSE /\ rcpt' = rcpt + 1
                /\ stage' = IF rcpt + 1 = NRcpt THEN "data" ELSE "rcpt"
                /\ UNCHANGED <<mech, steps, reply, authOK, row, result>>
    /\ UNCHANGED <<cfg, srv, tls, delivered, clear>>

\* DATA: 354, or the action ends.
Data ==
    /\ stage = "data"
    /\ ~Silent
    /\ \E answer \in {"ok", "refused", "lost"} :
        /\ Exchange([peer EXCEPT !.phase = "data"], answer)
        /\ IF answer = "ok" THEN Goto("body") ELSE Finish("failed", "FAILURE")
    /\ UNCHANGED <<cfg, srv, tls, delivered, clear>>

\* The message and its final dot; the server takes it, refuses it, or the
\* connection breaks, before or after it took it.
Body ==
    /\ stage = "body"
    /\ ~Silent
    /\ stage' = "reply"
    /\ clear' = IF tls THEN clear ELSE clear \cup {"message"}
    /\ peer' = [peer EXCEPT !.phase = "command"]
    /\ \E taken \in BOOLEAN :
        /\ delivered' = IF taken THEN peer.rcpts ELSE delivered
        /\ reply' \in IF taken THEN {"250", "lost"} ELSE {"5xx", "lost"}
    /\ UNCHANGED <<cfg, srv, tls, mech, steps, authOK, rcpt, row, result>>

\* Mutant: a connection that breaks after the final dot counts as sent.
ReplyLenient ==
    /\ stage = "reply"
    /\ ~Silent
    /\ IF reply # "5xx" THEN Finish("ok", "SUCCESS") ELSE Finish("failed", "FAILURE")
    /\ UNCHANGED <<cfg, srv, tls, peer, delivered, clear>>

\* The reply to the message decides what is reported.
Reply ==
    /\ stage = "reply"
    /\ ~Silent
    /\ IF reply = "250" THEN Finish("ok", "SUCCESS") ELSE Finish("failed", "FAILURE")
    /\ UNCHANGED <<cfg, srv, tls, peer, delivered, clear>>

Exchanges == \/ Dial \/ Handshake \/ Banner \/ Ehlo \/ StartTLS \/ EhloAgain
             \/ Auth \/ Sasl \/ Mail \/ Rcpt \/ Data \/ Body \/ Reply

Next == Exchanges \/ BuildFails

\* The process keeps running: reads with a deadline return, and so does every
\* exchange with a server that is not silent.
Spec == Init /\ [][Next]_vars /\ WF_vars(Exchanges)

-----------------------------------------------------------------------------
\* Every variable stays in its range.
TypeOK ==
    /\ cfg \in Configs
    /\ srv \in Servers
    /\ stage \in Stages
    /\ tls \in BOOLEAN
    /\ mech \in Mechs \cup {"none"}
    /\ steps \in 0..MaxChallenges
    /\ reply \in {"none", "334", "235", "250", "5xx", "lost"}
    /\ authOK \in BOOLEAN
    /\ rcpt \in 0..NRcpt
    /\ row \in {"none", "SUCCESS", "FAILURE"}
    /\ result \in {"none", "ok", "failed"}
    /\ peer \in [phase : {"command", "sasl", "data"}, authed : BOOLEAN,
                 rcpts : SUBSET (1..NRcpt)]
    /\ delivered \in SUBSET (1..NRcpt)
    /\ clear \in SUBSET {"credentials", "message"}

\* When Auth returns nil for a session the server has not authenticated, it has
\* left a challenge unanswered, whatever order challenges and refusals come in;
\* and only the mechanisms that may have nothing to say do that: PLAIN, XOAUTH2,
\* GSSAPI, and LOGIN when it does not know the prompt (smtp_client.go 369-374,
\* 557-582, 597-601, 737-747).
AuthSound ==
    authOK /\ ~peer.authed =>
        /\ reply = "334"
        /\ mech \in {"PLAIN", "XOAUTH2", "GSSAPI"} \/ (mech = "LOGIN" /\ ~srv.prompts)

\* sendmail with credentials never sends as somebody else: even when Auth has
\* returned nil for an exchange the server never finished, no message goes out
\* on the session (sendmail.go 171-216, smtp_client.go 380-466).
SendsAsUser == (delivered # {} /\ HasCreds) => peer.authed

\* Where the action upgrades by itself, neither credentials nor message cross
\* the connection before TLS, also when the upgrade fails half way
\* (sendmail.go 127-169, testauth.go 114-157).
NothingInClear ==
    clear # {} =>
        /\ ~cfg.smtps
        /\ (srv.starttls /\ ~cfg.noStartTLS) =>
             cfg.port = "other" \/ (cfg.action = "testauth" /\ cfg.port = "alt")

\* The row, the exit status and what the server did agree: a SUCCESS row for
\* nil and only for nil, a failure after the message was taken only when the
\* final reply was lost, and no such message goes without a row
\* (sendmail.go 261-308).
ReportSound ==
    stage = "done" =>
        /\ row = "SUCCESS" <=> result = "ok"
        /\ (result = "failed" /\ delivered # {}) => (reply = "lost" /\ row = "FAILURE")
        /\ (result = "ok" /\ cfg.action = "sendmail") => reply = "250"

H == INSTANCE Handoff
     WITH Recipients <- 1..NRcpt,
          report <- IF cfg.action = "sendmail" THEN result ELSE "none"

\* A sendmail session is a handoff: at most once, for all recipients at once,
\* success only after it and nothing after the report (smtp_client.go 380-466).
ImplementsHandoff == H!HandoffSpec

\* A read with a deadline ends: a server that falls silent at the banner, an
\* EHLO or STARTTLS does not hold the action up (responses.go 110-130).
DeadlinesHold ==
    LET timed == stage \in {"dial", "banner", "ehlo", "starttls", "ehlo2"}
    IN  timed ~> ~timed

\* responses.go 13: "This prevents indefinite hangs when communicating with
\* misbehaving servers."
NoHang == <>(stage = "done")
=============================================================================
