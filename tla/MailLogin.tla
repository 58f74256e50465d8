------------------------------ MODULE MailLogin ------------------------------
(***************************************************************************)
(* A POP3 or IMAP session of one action, from the connection to the        *)
(* mailbox: greeting, STLS or STARTTLS, capabilities, the choice of a      *)
(* mechanism, the login, the listing.  POP3 speaks for itself; IMAP goes   *)
(* through a library, except in teststarttls.  Every exchange may be       *)
(* refused, and the connection may break in each.                          *)
(***************************************************************************)
EXTENDS Integers

CONSTANTS Configs, Servers      \* the configurations and servers to explore

VARIABLES
    config,     \* the flags, as validated; fixed
    server,     \* what the server offers and accepts; fixed
    stage,      \* the next exchange
    channel,    \* "none", "clear" or "tls"
    broke,      \* the stage in which the connection broke, or "none"
    caps,       \* [known, list, seen]: the capabilities learned, and over what
    mech,       \* the mechanism the login uses
    sent,       \* history: [secret, channel, seen] of each secret sent
    accepted,   \* history: the server has accepted the login
    row,        \* the last row: "none", "SUCCESS" or "FAILURE"
    exit        \* "none" yet, "ok" or "error"

vars == <<config, server, stage, channel, broke, caps, mech, sent, accepted, row, exit>>

frozen == <<config, server>>
link == <<channel, broke>>
login == <<mech, sent, accepted>>
report == <<row, exit>>

Mechs == {"XOAUTH2", "PLAIN", "LOGIN", "USER", "APOP"}
Actions == {"testconnect", "teststarttls", "testauth", "listmail", "listfolders",
            "exportmessages", "deletemessages"}
LoggingIn == Actions \ {"testconnect", "teststarttls"}
Archiving == {"exportmessages", "deletemessages"}
Stages == {"dial", "greet", "offer", "tls", "handshake", "caps", "check",
           "login", "pass", "mailbox", "items", "done"}

Config == [proto : {"pop3", "imap"}, action : Actions,
           tls : {"implicit", "starttls", "none"}, auth : {"auto"} \cup Mechs,
           token : BOOLEAN, password : BOOLEAN]

\* validateConfiguration of both protocols.
ValidConfig(c) ==
    /\ c.proto = "pop3" => c.action # "listfolders"
    /\ c.auth \in {"auto", "XOAUTH2"}
                    \cup IF c.proto = "pop3" THEN {"USER", "APOP"} ELSE {"PLAIN", "LOGIN"}
    /\ c.action \in LoggingIn =>
         /\ c.token \/ c.password
         /\ c.auth = "XOAUTH2" => c.token

\* What the server lists in clear and over TLS, and the secrets it takes; some
\* answer a bad token with a challenge that describes the error.
Server == [clear : SUBSET {"STARTTLS", "XOAUTH2", "PLAIN"},
           tls : SUBSET {"XOAUTH2", "PLAIN"},
           takes : SUBSET {"token", "password"}, challenges : BOOLEAN]

ASSUME LoginAssumption ==
    /\ Configs \subseteq {c \in Config : ValidConfig(c)}
    /\ Servers \subseteq Server

Unknown == [known |-> FALSE, list |-> {}, seen |-> "none"]

Pop3 == config.proto = "pop3"
Action == config.action

Init ==
    /\ config \in Configs
    /\ server \in Servers
    /\ stage = "dial" /\ channel = "none" /\ broke = "none"
    /\ caps = Unknown
    /\ mech = "none" /\ sent = {} /\ accepted = FALSE
    /\ row = "none" /\ exit = "none"

-----------------------------------------------------------------------------
Goto(s) == stage' = s /\ UNCHANGED report

\* A row and the end of the action.
Succeed == stage' = "done" /\ row' = "SUCCESS" /\ exit' = "ok"
Fail == stage' = "done" /\ row' = "FAILURE" /\ exit' = "error"
FailUnlogged == stage' = "done" /\ exit' = "error" /\ UNCHANGED row

Up == broke = "none"

\* The connection breaks in this exchange, if it has not before.
Breaks == broke' = (IF Up THEN stage ELSE broke) /\ UNCHANGED channel

\* The exchange is carried out, or the connection is not there to do it.
Works == Up /\ UNCHANGED link

\* TCP, and TLS at once where it is implicit: no session if it fails.
Dial ==
    /\ stage = "dial"
    /\ \/ Fail /\ UNCHANGED channel
       \/ channel' = (IF config.tls = "implicit" THEN "tls" ELSE "clear") /\ Goto("greet")
    /\ UNCHANGED <<frozen, broke, caps, login>>

\* What follows the greeting.
AfterGreeting ==
    IF Action = "teststarttls"
    THEN IF config.tls = "implicit" THEN "check" ELSE "offer"
    ELSE IF config.tls = "starttls" THEN "tls" ELSE "caps"

\* A greeting that does not come ends the session, but for the two places that
\* do not ask for one: the IMAP library's plain and implicit connections, and
\* the IMAPS test, which only warns.
GreetingNeeded ==
    \/ Pop3
    \/ IF Action = "teststarttls" THEN config.tls # "implicit" ELSE config.tls = "starttls"

Greet ==
    /\ stage = "greet"
    /\ \/ Works /\ Goto(AfterGreeting)
       \/ Works /\ GreetingNeeded /\ Fail
       \/ Breaks /\ IF GreetingNeeded THEN Fail ELSE Goto(AfterGreeting)
    /\ UNCHANGED <<frozen, caps, login>>

\* teststarttls looks for STLS or STARTTLS first.
Offer ==
    /\ stage = "offer"
    /\ \/ Works /\ IF "STARTTLS" \in server.clear THEN Goto("tls") ELSE Fail
       \/ Breaks /\ Fail
    /\ UNCHANGED <<frozen, caps, login>>

\* Mutant: the listings too go on without TLS.
WithoutTLSLenient ==
    IF Pop3 /\ Action \in {"testconnect", "listmail"} THEN Goto("caps") ELSE Fail

\* testconnect of POP3 only warns when STLS fails; the others give up.
WithoutTLS ==
    IF Pop3 /\ Action = "testconnect" THEN Goto("caps") ELSE Fail

\* STLS or STARTTLS, asked for without looking at the capabilities.
StartTLS ==
    /\ stage = "tls"
    /\ \/ Works /\ Goto("handshake")
       \/ Works /\ WithoutTLS
       \/ Breaks /\ WithoutTLS
    /\ UNCHANGED <<frozen, caps, login>>

\* The handshake; the reader is a new one, so nothing read before is kept.
Handshake ==
    /\ stage = "handshake"
    /\ \/ /\ Up /\ channel' = "tls" /\ UNCHANGED broke
          /\ Goto(IF Action = "teststarttls" THEN "check" ELSE "caps")
       \/ Breaks /\ WithoutTLS
    /\ UNCHANGED <<frozen, caps, login>>

-----------------------------------------------------------------------------
Offered == IF channel = "tls" THEN server.tls ELSE server.clear

\* Mutant: the return of testconnect is missing.
AfterCapsNoReturn ==
    IF Action = "testconnect"
    THEN stage' = "login" /\ row' = "SUCCESS" /\ exit' = "ok"
    ELSE Goto("login")

AfterCaps == IF Action = "testconnect" THEN Succeed ELSE Goto("login")

\* CAPA or CAPABILITY on the connection as it is now.  A refusal is an empty
\* list for POP3 and none for IMAP; an error is forgotten; a POP3 list that the
\* end of the connection cuts short is taken as it is.
Capabilities ==
    /\ stage = "caps"
    /\ \/ Works /\ caps' = [known |-> TRUE, list |-> Offered, seen |-> channel]
       \/ /\ Works
          /\ caps' = IF Pop3 THEN [known |-> TRUE, list |-> {}, seen |-> channel] ELSE Unknown
       \/ Breaks /\ caps' = Unknown
       \/ /\ Up /\ Pop3 /\ Breaks
          /\ \E part \in SUBSET Offered :
               caps' = [known |-> TRUE, list |-> part, seen |-> channel]
    /\ AfterCaps
    /\ UNCHANGED <<frozen, login>>

\* teststarttls asks for the capabilities over TLS, and only warns.
Check ==
    /\ stage = "check"
    /\ Works \/ Breaks
    /\ Succeed
    /\ UNCHANGED <<frozen, caps, login>>

\* The handler's choice: the token goes to the client only where the mechanism
\* is XOAUTH2, and the password without it.
Chosen ==
    IF config.auth # "auto" THEN config.auth
    ELSE IF config.token /\ caps.known /\ "XOAUTH2" \in caps.list THEN "XOAUTH2"
    ELSE IF Pop3 THEN "USER"
    ELSE IF config.token \/ (caps.known /\ "PLAIN" \in caps.list) THEN "PLAIN"
    ELSE "LOGIN"

PassesToken == config.token /\ Chosen = "XOAUTH2"

\* Auth of the client chooses again from what it was passed.
Mechanism ==
    IF config.auth # "auto" THEN config.auth
    ELSE IF PassesToken /\ caps.known /\ "XOAUTH2" \in caps.list THEN "XOAUTH2"
    ELSE IF Pop3 THEN "USER"
    ELSE IF caps.known /\ "PLAIN" \in caps.list THEN "PLAIN"
    ELSE "LOGIN"

\* The secret the mechanism sends; none where only the other one was given.
Secret ==
    IF PassesToken THEN "token" ELSE IF config.password THEN "password" ELSE "none"

Sends == sent' = sent \cup
    IF Secret = "none" THEN {}
    ELSE {[secret |-> Secret, channel |-> channel, seen |-> caps.seen]}

LoggedIn == IF Action = "testauth" THEN Succeed ELSE Goto("mailbox")

\* USER: the name alone.  APOP is refused before anything is sent.
LoginUser ==
    /\ stage = "login"
    /\ Mechanism \in {"USER", "APOP"}
    /\ mech' = Mechanism
    /\ IF Mechanism = "APOP"
       THEN Fail /\ UNCHANGED link
       ELSE \/ Works /\ (Goto("pass") \/ Fail)
            \/ Breaks /\ Fail
    /\ UNCHANGED <<frozen, caps, sent, accepted>>

\* Mutant: the reply to the credentials is not looked at.
CredentialsUnread ==
    /\ stage \in {"login", "pass"}
    /\ stage = "login" => Mechanism \notin {"USER", "APOP"}
    /\ mech' = Mechanism
    /\ IF Up THEN Sends ELSE UNCHANGED sent
    /\ \/ Works /\ accepted' = (Secret \in server.takes) /\ LoggedIn
       \/ Breaks /\ UNCHANGED accepted /\ Fail
    /\ UNCHANGED <<frozen, caps>>

\* PASS, AUTH XOAUTH2, AUTHENTICATE or LOGIN, with its reply.  POP3 takes a
\* challenge for a positive answer: a token the server is refusing is accepted.
Credentials ==
    /\ stage \in {"login", "pass"}
    /\ stage = "login" => Mechanism \notin {"USER", "APOP"}
    /\ mech' = Mechanism
    /\ IF Up THEN Sends ELSE UNCHANGED sent
    /\ \/ Works /\ Secret \in server.takes /\ accepted' = TRUE /\ LoggedIn
       \/ Works /\ UNCHANGED accepted /\ Fail
       \/ /\ Works /\ Pop3 /\ Mechanism = "XOAUTH2" /\ server.challenges
          /\ Secret \notin server.takes
          /\ UNCHANGED accepted /\ LoggedIn
       \/ /\ Breaks /\ Fail
          /\ accepted' \in BOOLEAN
          /\ accepted' => Up /\ Secret \in server.takes
    /\ UNCHANGED <<frozen, caps>>

-----------------------------------------------------------------------------
\* Listings of IMAP messages end here; the folders and the messages of the
\* others come up one by one.
AfterMailbox ==
    \/ Succeed
    \/ ~(~Pop3 /\ Action = "listmail") /\ Goto("items")

\* Mutant: a listing cut short is taken for a whole one by IMAP too.
MailboxCut ==
    /\ stage = "mailbox"
    /\ \/ Works /\ accepted /\ AfterMailbox
       \/ Works /\ Fail
       \/ Breaks /\ (Fail \/ (accepted /\ AfterMailbox))
    /\ UNCHANGED <<frozen, caps, login>>

\* STAT and LIST, or SELECT and SEARCH, FETCH or LIST: nothing to do is a
\* success.  POP3 takes a list cut short for a whole one, and an export may find
\* no directory to write to, which it does not log.
Mailbox ==
    /\ stage = "mailbox"
    /\ \/ Works /\ accepted /\ AfterMailbox
       \/ Works /\ Fail
       \/ Works /\ accepted /\ Action = "exportmessages" /\ FailUnlogged
       \/ Breaks /\ (Fail \/ (accepted /\ Up /\ Pop3 /\ AfterMailbox))
    /\ UNCHANGED <<frozen, caps, login>>

\* The items: a listing logs what it has of each, an archive a row for each, a
\* SUCCESS when a POP3 one has found nothing; what fails on the way does not
\* show in the exit, but for the QUIT of a POP3 archive that has done something.
Items ==
    /\ stage = "items"
    /\ Works \/ Breaks
    /\ stage' = "done"
    /\ \/ row' = "SUCCESS" /\ exit' = "ok"
       \/ Action \in Archiving /\ row' = "FAILURE" /\ exit' = "ok"
       \/ Action \in Archiving /\ Pop3 /\ row' \in {"SUCCESS", "FAILURE"} /\ exit' = "error"
    /\ UNCHANGED <<frozen, caps, login>>

Next ==
    \/ Dial \/ Greet \/ Offer \/ StartTLS \/ Handshake
    \/ Capabilities \/ Check \/ LoginUser \/ Credentials
    \/ Mailbox \/ Items

Spec == Init /\ [][Next]_vars

-----------------------------------------------------------------------------
\* Every variable stays in its range.
TypeOK ==
    /\ config \in Configs /\ server \in Servers
    /\ stage \in Stages
    /\ channel \in {"none", "clear", "tls"}
    /\ broke \in Stages \cup {"none"}
    /\ caps \in [known : BOOLEAN, list : SUBSET (server.clear \cup server.tls),
                seen : {"none", "clear", "tls"}]
    /\ mech \in Mechs \cup {"none"}
    /\ sent \subseteq [secret : {"token", "password"}, channel : {"clear", "tls"},
                       seen : {"none", "clear", "tls"}]
    /\ accepted \in BOOLEAN
    /\ row \in {"none", "SUCCESS", "FAILURE"}
    /\ exit \in {"none", "ok", "error"}
    /\ (stage = "done") = (exit # "none")

\* With --starttls, --pop3s or --imaps no secret crosses in clear, nor is its
\* mechanism chosen from capabilities learned in clear, whatever was refused or
\* broke before (testauth.go, listmail.go and exportmessages.go of both).
NothingInClear ==
    config.tls # "none" => \A s \in sent : s.channel = "tls" /\ s.seen # "clear"

\* An action that has to log in succeeds only if the server has accepted the
\* login.  The exception is POP3's XOAUTH2, where a challenge counts as one, and
\* then no action but testauth gets any further.
AuthSound ==
    Action \in LoggingIn /\ row = "SUCCESS" =>
        \/ accepted
        \/ Pop3 /\ mech = "XOAUTH2" /\ server.challenges /\ Action = "testauth"

\* What is let pass: the last check of teststarttls, a greeting nobody asked for,
\* a failed STLS or CAPA in testconnect, a POP3 list that was cut short.
Forgiven ==
    \/ broke \in {"none", "check", "items"}
    \/ broke = "greet" /\ ~GreetingNeeded /\ Action \notin LoggingIn
    \/ broke = "caps" /\ Action = "testconnect"
    \/ broke \in {"tls", "handshake"} /\ Pop3 /\ Action = "testconnect"
    \/ broke = "mailbox" /\ Pop3

\* A connection that breaks before the mailbox is read ends the action with a
\* FAILURE row and an error, even if it is only noticed in a later exchange.
BrokenShows ==
    stage = "done" /\ ~Forgiven => row = "FAILURE" /\ exit = "error"
==============================================================================
