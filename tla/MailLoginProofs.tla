--------------------------- MODULE MailLoginProofs ---------------------------
(***************************************************************************)
(* What holds of MailLogin for every set of configurations and servers:    *)
(* nothing secret crosses in clear where TLS was asked for, a success was  *)
(* accepted by the server, and a broken connection shows.                  *)
(***************************************************************************)
EXTENDS MailLogin, TLAPS

\* The stages after the capabilities belong to the actions that log in, and
\* with TLS asked for they are reached over TLS only.
Secure ==
    /\ stage \in {"login", "pass", "mailbox", "items"} => Action \in LoggingIn
    /\ stage = "check" => Action = "teststarttls"
    /\ stage = "caps" => Action # "teststarttls"
    /\ stage \notin {"dial", "done"} => channel # "none"
    /\ config.tls = "implicit" => channel = "tls" \/ stage \in {"dial", "done"}
    /\ Action \in LoggingIn /\ config.tls # "none"
         => /\ stage \in {"caps", "login", "pass"} => channel = "tls"
            /\ caps.seen # "clear"

\* Past the login the server has accepted it, or answered with a challenge; an
\* action that logs in has written no row so far.
Welcome ==
    /\ stage \in {"mailbox", "items"}
         => accepted \/ (Pop3 /\ mech = "XOAUTH2" /\ server.challenges)
    /\ stage = "items" => accepted
    /\ stage # "done" => row = "none"

\* What may have broken in a session that goes on.
Limping ==
    stage # "done" =>
        /\ broke \in {"none", "greet", "tls", "handshake", "caps", "mailbox"}
        /\ broke = "greet" => ~GreetingNeeded
        /\ broke \in {"tls", "handshake"} => Pop3 /\ Action = "testconnect"
        /\ broke = "mailbox" => Pop3
        /\ stage \in {"dial", "greet", "offer", "tls", "handshake"} => broke = "none"
        /\ stage = "check" => broke \in {"none", "greet"}
        /\ stage = "items" => broke \in {"none", "mailbox"}

IInv == TypeOK /\ NothingInClear /\ Secure /\ AuthSound /\ Welcome /\ BrokenShows /\ Limping

-----------------------------------------------------------------------------
LEMMA InitIInv == Init => IInv
<1> SUFFICES ASSUME Init PROVE IInv
  OBVIOUS
<1> USE DEF Init
<1>1. TypeOK /\ NothingInClear
  BY DEF TypeOK, NothingInClear, Unknown, Stages
<1>2. Secure /\ AuthSound /\ Welcome
  BY DEF Secure, AuthSound, Welcome, Unknown
<1>3. BrokenShows /\ Limping
  BY DEF BrokenShows, Limping
<1>4. QED
  BY <1>1, <1>2, <1>3 DEF IInv

LEMMA Valid == TypeOK => config \in Config /\ server \in Server
BY LoginAssumption DEF TypeOK

\* The connection, the greeting and TLS.
LEMMA LinkIInv ==
    IInv /\ (Dial \/ Greet \/ Offer \/ StartTLS \/ Handshake) => IInv'
<1> SUFFICES ASSUME IInv, Dial \/ Greet \/ Offer \/ StartTLS \/ Handshake PROVE IInv'
  OBVIOUS
<1> USE DEF IInv, frozen, login, report
<1>1. UNCHANGED <<config, server, caps, mech, sent, accepted>>
  BY DEF Dial, Greet, Offer, StartTLS, Handshake
<1>2. /\ stage \in {"dial", "greet", "offer", "tls", "handshake"}
      /\ row = "none" /\ exit = "none"
  BY DEF Dial, Greet, Offer, StartTLS, Handshake, TypeOK, Welcome
<1>3. \/ stage' \in {"greet", "offer", "tls", "handshake", "caps", "check"}
           /\ row' = "none" /\ exit' = "none"
      \/ stage' = "done" /\ row' = "FAILURE" /\ exit' = "error"
  BY <1>2 DEF Dial, Greet, Offer, StartTLS, Handshake, Goto, Fail, WithoutTLS, AfterGreeting
<1>4. /\ channel' \in {"none", "clear", "tls"}
      /\ broke' \in {broke, stage}
  BY DEF Dial, Greet, Offer, StartTLS, Handshake, TypeOK, Works, Breaks, link
<1>5. TypeOK' /\ NothingInClear'
  BY <1>1, <1>3, <1>4 DEF TypeOK, NothingInClear, Stages
<1>6. Secure'
  <2>1. config.tls \in {"implicit", "starttls", "none"} /\ config' = config
    BY <1>1, Valid DEF Config
  <2>2. CASE Dial
    BY <2>1, <2>2, <1>1, <1>3 DEF Secure, Dial, Goto, Fail, Action
  <2>3. CASE Greet
    BY <2>1, <2>3, <1>1, <1>3 DEF Secure, Greet, Goto, Fail, AfterGreeting, Works, Breaks, link,
       Action, LoggingIn
  <2>4. CASE Offer \/ StartTLS
    BY <2>1, <2>4, <1>1, <1>3 DEF Secure, Offer, StartTLS, Goto, Fail, WithoutTLS, Works,
       Breaks, link, Action, LoggingIn
  <2>5. CASE Handshake
    BY <2>1, <2>5, <1>1, <1>3 DEF Secure, Handshake, Goto, Fail, WithoutTLS, Works,
       Breaks, link, Action, LoggingIn
  <2>6. QED
    BY <2>2, <2>3, <2>4, <2>5
<1>7. AuthSound' /\ Welcome'
  BY <1>1, <1>3 DEF AuthSound, Welcome
<1>8. BrokenShows'
  BY <1>3 DEF BrokenShows
<1>9. Limping'
  <2> USE DEF Limping, Goto, Fail, Works, Breaks, link, Up, GreetingNeeded, Pop3, Action
  <2>1. CASE Dial \/ Offer
    BY <2>1, <1>1 DEF Dial, Offer
  <2>2. CASE Greet
    BY <2>2, <1>1 DEF Greet, AfterGreeting
  <2>3. CASE StartTLS \/ Handshake
    BY <2>3, <1>1 DEF StartTLS, Handshake, WithoutTLS
  <2>4. QED
    BY <2>1, <2>2, <2>3
<1>10. QED
  BY <1>5, <1>6, <1>7, <1>8, <1>9

Capability ==
    [known : BOOLEAN, list : SUBSET (server.clear \cup server.tls), seen : {"none", "clear", "tls"}]

\* The capabilities, and the check that ends teststarttls.
LEMMA CapsIInv == IInv /\ (Capabilities \/ Check) => IInv'
<1> SUFFICES ASSUME IInv, Capabilities \/ Check PROVE IInv'
  OBVIOUS
<1> USE DEF IInv, frozen, login, report
<1>1. /\ UNCHANGED <<config, server, channel, mech, sent, accepted>>
      /\ broke' = broke \/ (broke' = stage /\ broke = "none")
      /\ stage \in {"caps", "check"} /\ row = "none" /\ exit = "none"
  BY DEF Capabilities, Check, Works, Breaks, link, Up, TypeOK, Welcome
<1>2. \/ /\ stage' = "done" /\ row' = "SUCCESS" /\ exit' = "ok"
         /\ stage = "caps" => Action = "testconnect"
         /\ Action \in {"testconnect", "teststarttls"}
      \/ /\ stage' = "login" /\ row' = row /\ exit' = exit
         /\ Action \notin {"testconnect", "teststarttls"} /\ stage = "caps"
  BY <1>1 DEF Capabilities, Check, AfterCaps, Succeed, Goto, Secure
<1>3. caps' \in Capability /\ caps'.seen \in {"none", caps.seen, channel}
  <2>1. CASE Check
    BY <2>1 DEF Check, TypeOK, Capability
  <2>2. CASE Capabilities
    <3>1. /\ caps'.known \in BOOLEAN /\ caps'.seen \in {"none", channel}
          /\ caps'.list \subseteq server.clear \cup server.tls
          /\ caps' = [known |-> caps'.known, list |-> caps'.list, seen |-> caps'.seen]
      <4>1. PICK known \in BOOLEAN, list \in SUBSET (server.clear \cup server.tls),
                 seen \in {"none", channel} :
              caps' = [known |-> known, list |-> list, seen |-> seen]
        BY <2>2, Valid DEF Capabilities, Unknown, Offered, Server
      <4>2. QED
        BY <4>1
    <3>2. QED
      BY <3>1 DEF TypeOK, Capability
  <2>3. QED
    BY <2>1, <2>2
<1>4. TypeOK'
  <2>1. caps' \in Capability'
    BY <1>1, <1>3 DEF Capability
  <2>2. stage' \in Stages /\ broke' \in Stages \cup {"none"} /\ (stage' = "done") = (exit' # "none")
        /\ row' \in {"none", "SUCCESS", "FAILURE"} /\ exit' \in {"none", "ok", "error"}
    BY <1>1, <1>2 DEF TypeOK, Stages
  <2>3. QED
    BY <1>1, <2>1, <2>2 DEF TypeOK, Capability
<1>5. NothingInClear' /\ Secure'
  <2>1. stage = "caps" /\ Action \in LoggingIn /\ config.tls # "none" => channel = "tls"
    BY DEF Secure
  <2>2. Action' = Action /\ (Action \notin {"testconnect", "teststarttls"} => Action \in LoggingIn)
    BY <1>1, Valid DEF Action, Config, LoggingIn
  <2>3. NothingInClear'
    BY <1>1 DEF NothingInClear
  <2>4. Secure'
    BY <1>1, <1>2, <1>3, <2>1, <2>2 DEF Secure, LoggingIn
  <2>5. QED
    BY <2>3, <2>4
<1>6. AuthSound' /\ Welcome'
  BY <1>1, <1>2 DEF AuthSound, Welcome, Action, LoggingIn
<1>7. BrokenShows' /\ Limping'
  BY <1>1, <1>2 DEF BrokenShows, Limping, Forgiven, GreetingNeeded, Pop3, Action, LoggingIn, Secure
<1>8. QED
  BY <1>4, <1>5, <1>6, <1>7

\* The name and the secrets.
LEMMA LoginIInv == IInv /\ (LoginUser \/ Credentials) => IInv'
<1> SUFFICES ASSUME IInv, LoginUser \/ Credentials PROVE IInv'
  OBVIOUS
<1> USE DEF IInv, frozen, login, report
<1>1. /\ UNCHANGED <<config, server, channel, caps>>
      /\ broke' = broke \/ (broke' = stage /\ broke = "none" /\ stage' = "done")
      /\ stage \in {"login", "pass"} /\ row = "none" /\ exit = "none"
      /\ Action \in LoggingIn
  BY DEF LoginUser, Credentials, Works, Breaks, link, Up, TypeOK, Welcome, Secure, Fail
<1>2. \/ stage' = "pass" /\ row' = row /\ exit' = exit
      \/ stage' = "mailbox" /\ row' = row /\ exit' = exit
      \/ stage' = "done" /\ row' = "FAILURE" /\ exit' = "error"
      \/ stage' = "done" /\ row' = "SUCCESS" /\ exit' = "ok" /\ Action = "testauth"
  BY DEF LoginUser, Credentials, LoggedIn, Goto, Fail, Succeed
<1>3. mech' \in Mechs
  <2>1. Mechanism \in Mechs
    BY Valid DEF Mechanism, Config, Mechs
  <2>2. QED
    BY <2>1 DEF LoginUser, Credentials
<1>4. \/ sent' = sent
      \/ /\ Secret # "none"
         /\ sent' = sent \cup {[secret |-> Secret, channel |-> channel, seen |-> caps.seen]}
  BY DEF LoginUser, Credentials, Sends
<1>5. accepted' \in BOOLEAN
  BY DEF LoginUser, Credentials, TypeOK
<1>6. stage' = "mailbox" \/ row' = "SUCCESS"
        => accepted' \/ (Pop3 /\ mech' = "XOAUTH2" /\ server.challenges)
  BY <1>1 DEF LoginUser, Credentials, Goto, Fail, LoggedIn, Succeed
<1>7. broke' # broke \/ broke # "none" => row' = "FAILURE" /\ exit' = "error" /\ stage' = "done"
  BY DEF LoginUser, Credentials, Works, Breaks, link, Up, Fail
<1>8. TypeOK'
  <2>1. Secret \in {"token", "password", "none"} /\ channel \in {"none", "clear", "tls"}
    BY DEF Secret, TypeOK
  <2>2. channel # "none"
    BY <1>1 DEF Secure
  <2>3. sent' \subseteq [secret : {"token", "password"}, channel : {"clear", "tls"},
                         seen : {"none", "clear", "tls"}]
    BY <1>4, <2>1, <2>2 DEF TypeOK
  <2>4. stage' \in Stages /\ broke' \in Stages \cup {"none"} /\ (stage' = "done") = (exit' # "none")
        /\ row' \in {"none", "SUCCESS", "FAILURE"} /\ exit' \in {"none", "ok", "error"}
    BY <1>1, <1>2 DEF TypeOK, Stages
  <2>5. QED
    BY <1>1, <1>3, <1>5, <2>3, <2>4 DEF TypeOK
<1>9. NothingInClear' /\ Secure'
  <2>1. config.tls # "none" => channel = "tls" /\ caps.seen # "clear"
    BY <1>1 DEF Secure
  <2>2. NothingInClear'
    BY <1>1, <1>4, <2>1 DEF NothingInClear
  <2>3. Secure'
    BY <1>1, <1>2 DEF Secure, Action, LoggingIn
  <2>4. QED
    BY <2>2, <2>3
<1>10. AuthSound' /\ Welcome'
  BY <1>1, <1>2, <1>6 DEF AuthSound, Welcome, Action, Pop3, LoggingIn
<1>11. BrokenShows' /\ Limping'
  BY <1>1, <1>2, <1>7 DEF BrokenShows, Limping, Forgiven, Action, Pop3
<1>12. QED
  BY <1>8, <1>9, <1>10, <1>11

\* The mailbox and its items.
LEMMA MailboxIInv == IInv /\ (Mailbox \/ Items) => IInv'
<1> SUFFICES ASSUME IInv, Mailbox \/ Items PROVE IInv'
  OBVIOUS
<1> USE DEF IInv, frozen, login, report
<1>1. /\ UNCHANGED <<config, server, channel, caps, mech, sent, accepted>>
      /\ broke' = broke \/ (broke' = stage /\ broke = "none")
      /\ stage \in {"mailbox", "items"} /\ row = "none" /\ exit = "none"
      /\ Action \in LoggingIn
  BY DEF Mailbox, Items, Works, Breaks, link, Up, TypeOK, Welcome, Secure
<1>2. \/ stage' = "items" /\ stage = "mailbox" /\ row' = row /\ exit' = exit
      \/ stage' = "done" /\ row' \in {"none", "SUCCESS", "FAILURE"} /\ exit' \in {"ok", "error"}
  BY <1>1 DEF Mailbox, Items, AfterMailbox, Goto, Fail, FailUnlogged, Succeed
<1>3. stage' = "items" \/ row' = "SUCCESS" => accepted
  BY <1>1 DEF Mailbox, Items, AfterMailbox, Goto, Fail, FailUnlogged, Succeed, Welcome
<1>4. TypeOK'
  BY <1>1, <1>2 DEF TypeOK, Stages
<1>5. NothingInClear' /\ Secure' /\ AuthSound' /\ Welcome'
  BY <1>1, <1>2, <1>3 DEF NothingInClear, Secure, AuthSound, Welcome, Action, Pop3, LoggingIn
<1>6. BrokenShows' /\ Limping'
  <2>1. CASE Items
    BY <1>1, <1>2, <2>1 DEF Items, BrokenShows, Limping, Forgiven, Action, Pop3, LoggingIn
  <2>2. CASE Mailbox
    <3>1. broke' = "none" \/ (Pop3 /\ broke' = "mailbox")
            \/ (stage' = "done" /\ row' = "FAILURE" /\ exit' = "error")
      BY <1>1, <2>2 DEF Mailbox, Works, Breaks, link, Up, Fail, Goto
    <3>2. QED
      BY <1>1, <1>2, <3>1 DEF BrokenShows, Limping, Forgiven, Action, Pop3, LoggingIn
  <2>3. QED
    BY <2>1, <2>2
<1>7. QED
  BY <1>4, <1>5, <1>6

LEMMA StutterIInv == IInv /\ UNCHANGED vars => IInv'
BY DEF IInv, vars, TypeOK, NothingInClear, Secure, AuthSound, Welcome, BrokenShows, Limping,
       Forgiven, GreetingNeeded, Action, Pop3

\* The inductive invariant.
THEOREM Inductive == Spec => []IInv
<1>1. IInv /\ [Next]_vars => IInv'
  BY LinkIInv, CapsIInv, LoginIInv, MailboxIInv, StutterIInv DEF Next
<1>2. QED
  BY InitIInv, <1>1, PTL DEF Spec

-----------------------------------------------------------------------------
\* Every variable stays in its range.
THEOREM TypeCorrect == Spec => []TypeOK
<1>1. IInv => TypeOK
  BY DEF IInv
<1>2. QED
  BY <1>1, Inductive, PTL

\* Where TLS was asked for no secret crosses in clear, and no mechanism is
\* chosen from what was learned in clear.
THEOREM SecretsStayCovered == Spec => []NothingInClear
<1>1. IInv => NothingInClear
  BY DEF IInv
<1>2. QED
  BY <1>1, Inductive, PTL

\* A success after a login was accepted by the server, but for POP3's challenge.
THEOREM LoginsAreSound == Spec => []AuthSound
<1>1. IInv => AuthSound
  BY DEF IInv
<1>2. QED
  BY <1>1, Inductive, PTL

\* A connection that breaks before the mailbox is read shows in row and exit.
THEOREM BreaksShow == Spec => []BrokenShows
<1>1. IInv => BrokenShows
  BY DEF IInv
<1>2. QED
  BY <1>1, Inductive, PTL
=============================================================================
