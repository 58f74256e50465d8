-------------------------- MODULE SmtpSessionProofs --------------------------
(***************************************************************************)
(* What holds of SmtpSession for every configuration, every server and     *)
(* every size of the envelope: a message goes out under the credentials it *)
(* was to go out under, or not at all; nothing crosses in clear that an    *)
(* automatic upgrade should have covered; the row, the exit status and the *)
(* server agree; and sendmail is a handoff.                                *)
(***************************************************************************)
EXTENDS SmtpSession, TLAPS

\* The stages before AUTH, and those of the mail transaction.
Opening == {"dial", "handshake", "banner", "ehlo", "starttls", "ehlo2"}
Mailing == {"mail", "rcpt", "data", "body", "reply"}

\* Nothing is reported before the end.
Unreported ==
    /\ stage # "done" => result = "none" /\ row = "none"
    /\ stage = "done" => result # "none"

\* Which actions come how far.
Route ==
    /\ stage \in {"starttls", "ehlo2"} => cfg.action # "testconnect"
    /\ stage = "handshake" => cfg.smtps \/ cfg.action # "testconnect"
    /\ stage \in {"auth", "sasl"} => cfg.action \in {"testauth", "sendmail"}
    /\ stage \in Mailing => cfg.action = "sendmail"

\* A connection still in clear after EHLO is one the action does not upgrade.
Encrypted ==
    /\ cfg.smtps /\ stage \notin {"dial", "handshake", "done"} => tls
    /\ stage = "ehlo2" => tls
    /\ stage \in Mailing \cup {"auth", "sasl"} => tls \/ (~cfg.smtps /\ ~Upgrades)
    /\ NothingInClear

\* The server's envelope follows the client's loop, and the message goes to
\* the whole of it.
Envelope ==
    /\ stage \in Opening \cup {"auth", "sasl", "mail"} => rcpt = 0 /\ peer.rcpts = {}
    /\ stage = "rcpt" => rcpt < NRcpt /\ peer.rcpts = 1..rcpt
    /\ stage \in {"data", "body"} => peer.rcpts = 1..NRcpt
    /\ stage \notin {"reply", "done"} => delivered = {}
    /\ delivered \in {{}, 1..NRcpt}

\* The last reply of the SASL exchange tells where the server stands in it.
SaslState ==
    /\ stage \in Opening \cup {"auth"} => steps = 0
    /\ stage \in Opening \cup {"auth", "sasl"} => ~authOK
    /\ stage = "sasl" => mech # "none" /\ reply \in {"334", "235", "5xx", "lost"}
    /\ stage = "sasl" /\ reply = "334" => peer.phase = "sasl" /\ steps < MaxChallenges
    /\ stage = "sasl" /\ reply = "235" => peer.authed
    /\ AuthSound

\* With credentials, or when Auth has returned nil, the mail transaction is
\* authenticated, or the server is still waiting for the response to a challenge
\* and will refuse MAIL.
Claimed == HasCreds \/ authOK

Identity ==
    /\ stage = "mail" /\ Claimed => peer.authed \/ peer.phase = "sasl"
    /\ stage \in {"rcpt", "data", "body", "reply"} /\ Claimed => peer.authed
    /\ SendsAsUser

\* What was handed over when the last reply is read.
Settled ==
    /\ stage = "reply" => /\ reply = "250" => delivered = 1..NRcpt
                          /\ delivered # {} => reply \in {"250", "lost"}
    /\ ReportSound

IInv == TypeOK /\ Unreported /\ Route /\ Encrypted /\ Envelope /\ SaslState
        /\ Identity /\ Settled

-----------------------------------------------------------------------------
\* What is known of the configuration and the server in every state.
LEMMA Inputs ==
    ASSUME TypeOK
    PROVE  /\ cfg \in Config /\ ValidConfig(cfg)
           /\ srv \in Server
           /\ NRcpt \in Nat \ {0}
BY SessionAssumption, InputAssumption DEF TypeOK

\* The mechanism chosen is a mechanism.
LEMMA SelectType ==
    ASSUME TypeOK
    PROVE  SelectAuthMechanism \in Mechs \cup {"none"}
<1> DEFINE C(i) == Preference[i] \in Offered \cap Eligible
<1>1. \A i \in 1..7 : Preference[i] \in Mechs
  BY DEF Preference, Mechs, TokenMechs, PasswordMechs
<1>2. CASE Offered \cap Eligible = {}
  BY <1>2 DEF SelectAuthMechanism
<1>3. CASE Offered \cap Eligible # {}
  <2>1. PICK m \in Offered \cap Eligible : TRUE
    BY <1>3
  <2>2. m \in Mechs
    BY Inputs, <2>1 DEF Offered, Server
  <2>3. \E i \in 1..7 : Preference[i] = m
    BY <2>2 DEF Preference, Mechs, TokenMechs, PasswordMechs
  <2>4. \E i \in 1..7 : C(i)
    BY <2>1, <2>3
  <2>5. \E i \in 1..7 : C(i) /\ \A j \in 1..(i - 1) : ~C(j)
    BY <2>4
  <2>6. QED
    BY <1>1, <1>3, <2>5 DEF SelectAuthMechanism
<1>4. QED
  BY <1>2, <1>3

-----------------------------------------------------------------------------
LEMMA InitIInv == Init => IInv
<1> SUFFICES ASSUME Init PROVE IInv
  OBVIOUS
<1> USE DEF Init
<1>1. TypeOK
  <2>1. peer \in [phase : {"command", "sasl", "data"}, authed : BOOLEAN,
                 rcpts : SUBSET (1..NRcpt)]
    OBVIOUS
  <2>2. delivered \in SUBSET (1..NRcpt) /\ clear \in SUBSET {"credentials", "message"}
    OBVIOUS
  <2>3. rcpt \in 0..NRcpt /\ steps \in 0..MaxChallenges
    BY SessionAssumption
  <2>4. stage \in Stages /\ tls \in BOOLEAN /\ authOK \in BOOLEAN
    BY DEF Stages
  <2>5. QED
    BY <2>1, <2>2, <2>3, <2>4 DEF TypeOK
<1>2. Unreported /\ Route /\ Encrypted
  BY DEF Unreported, Route, Encrypted, Mailing, NothingInClear
<1>3. Envelope /\ SaslState
  BY DEF Envelope, SaslState, AuthSound
<1>4. Identity /\ Settled
  BY DEF Identity, SendsAsUser, Settled, ReportSound
<1>5. QED
  BY <1>1, <1>2, <1>3, <1>4 DEF IInv

\* Up to AUTH nothing has been sent, and the connection is what the action
\* decided to make of it.
LEMMA OpeningIInv ==
    IInv /\ (Dial \/ Handshake \/ Banner \/ Ehlo \/ StartTLS \/ EhloAgain) => IInv'
<1> SUFFICES ASSUME IInv, Dial \/ Handshake \/ Banner \/ Ehlo \/ StartTLS \/ EhloAgain
             PROVE  IInv'
  OBVIOUS
<1> USE DEF IInv
<1>1. /\ stage \in Opening
      /\ UNCHANGED <<cfg, srv, mech, steps, reply, authOK, rcpt, peer, delivered, clear>>
  BY DEF Dial, Handshake, Banner, Ehlo, StartTLS, EhloAgain, Finish, Goto, Opening,
         AfterEhloTestConnect, AfterEhloTestStartTLS, AfterEhloTestAuth, AfterEhloSendMail
<1>2. \/ /\ stage' = "done" /\ result' \in {"ok", "failed"}
         /\ row' \in {"none", "SUCCESS", "FAILURE"}
         /\ row' = "SUCCESS" <=> result' = "ok"
         /\ result' = "ok" => cfg.action # "sendmail"
      \/ /\ stage' \in Opening \cup {"auth", "mail"} /\ UNCHANGED <<result, row>>
  BY DEF Dial, Handshake, Banner, Ehlo, StartTLS, EhloAgain, Finish, Goto, Opening,
         AfterEhloTestConnect, AfterEhloTestStartTLS, AfterEhloTestAuth, AfterEhloSendMail
<1>3. tls' \in BOOLEAN
  BY DEF TypeOK, Dial, Handshake, Banner, Ehlo, StartTLS, EhloAgain
<1>4. TypeOK'
  BY <1>1, <1>2, <1>3 DEF TypeOK, Opening, Stages
<1>5. Unreported'
  BY <1>1, <1>2 DEF Unreported, Opening
<1>6. Route'
  <2>1. cfg \in Config /\ ValidConfig(cfg)
    BY Inputs
  <2>2. CASE Dial \/ Banner
    BY <2>2 DEF Route, Dial, Banner, Finish, Goto, Mailing
  <2>3. CASE Handshake
    BY <2>3 DEF Route, Handshake, Finish, Goto, Mailing
  <2>4. CASE Ehlo
    BY <2>4 DEF Route, Ehlo, Finish, Goto, Mailing, AfterEhloTestConnect, AfterEhloTestStartTLS, AfterEhloTestAuth,
           AfterEhloSendMail
  <2>5. CASE StartTLS
    BY <2>5 DEF Route, StartTLS, Finish, Goto, Mailing
  <2>6. CASE EhloAgain
    BY <2>1, <2>6 DEF Route, Config, ValidConfig, HasCreds, EhloAgain, Finish, Goto, Mailing
  <2>7. QED
    BY <2>2, <2>3, <2>4, <2>5, <2>6
<1>7. Encrypted'
  <2>1. cfg.smtps /\ stage' \notin {"dial", "handshake", "done"} => tls'
    BY DEF Encrypted, Dial, Handshake, Banner, Ehlo, StartTLS, EhloAgain, Finish, Goto,
           AfterEhloTestConnect, AfterEhloTestStartTLS, AfterEhloTestAuth, AfterEhloSendMail,
           Upgrades
  <2>2. stage' = "ehlo2" => tls'
    BY DEF Encrypted, Dial, Handshake, Banner, Ehlo, StartTLS, EhloAgain, Finish, Goto,
           AfterEhloTestConnect, AfterEhloTestStartTLS, AfterEhloTestAuth, AfterEhloSendMail
  <2>3. stage' \in {"auth", "mail"} => tls' \/ (~cfg.smtps /\ ~Upgrades)
    <3>1. CASE Ehlo
      BY <3>1 DEF Encrypted, Ehlo, Finish, Goto, AfterEhloTestConnect, AfterEhloTestStartTLS, AfterEhloTestAuth,
           AfterEhloSendMail
    <3>2. CASE EhloAgain
      BY <3>2 DEF Encrypted, EhloAgain, Finish, Goto
    <3>3. CASE Dial \/ Handshake \/ Banner \/ StartTLS
      BY <3>3 DEF Dial, Handshake, Banner, StartTLS, Finish, Goto
    <3>4. QED
      BY <3>1, <3>2, <3>3
  <2>4. Upgrades' = Upgrades /\ (NothingInClear' <=> NothingInClear)
    BY <1>1 DEF Upgrades, UpgradePorts, NothingInClear
  <2>5. QED
    BY <2>1, <2>2, <2>3, <2>4, <1>1, <1>2 DEF Encrypted, Opening, Mailing
<1>8. Envelope'
  BY <1>1, <1>2 DEF Envelope, Opening
<1>9. SaslState'
  BY <1>1, <1>2 DEF SaslState, AuthSound, Opening
<1>10. Identity'
  <2>1. stage' = "mail" => ~HasCreds
    BY DEF HasCreds, Dial, Handshake, Banner, Ehlo, StartTLS, EhloAgain, Finish, Goto,
           AfterEhloTestConnect, AfterEhloTestStartTLS, AfterEhloTestAuth, AfterEhloSendMail
  <2>2. stage \in Opening => ~authOK
    BY DEF SaslState
  <2>3. QED
    BY <2>1, <2>2, <1>1, <1>2 DEF Identity, SendsAsUser, Claimed, HasCreds, Opening
<1>11. Settled'
  BY <1>1, <1>2 DEF Settled, ReportSound, Envelope, Opening
<1>12. QED
  BY <1>4, <1>5, <1>6, <1>7, <1>8, <1>9, <1>10, <1>11

-----------------------------------------------------------------------------
\* The AUTH command and its first reply.
LEMMA AuthIInv == IInv /\ Auth => IInv'
<1> SUFFICES ASSUME IInv, Auth PROVE IInv'
  OBVIOUS
<1> USE DEF IInv
<1>1. stage = "auth" /\ UNCHANGED <<cfg, srv, tls, delivered>>
  BY DEF Auth
<1>2. cfg.action \in {"testauth", "sendmail"} /\ steps = 0 /\ delivered = {}
  BY <1>1 DEF Route, SaslState, Envelope
<1>3. ~authOK
  BY <1>1 DEF SaslState
<1>4. CASE Finish("failed", "FAILURE") /\ UNCHANGED <<peer, clear>>
  <2> USE DEF Finish
  <2>1. TypeOK'
    BY <1>1, <1>4 DEF TypeOK, Stages
  <2>2. Unreported' /\ Route' /\ Identity' /\ Settled'
    BY <1>1, <1>2, <1>4 DEF Unreported, Route, Identity, SendsAsUser, Claimed, HasCreds, Settled,
                            ReportSound, Mailing
  <2>3. Encrypted'
    BY <1>1, <1>4 DEF Encrypted, Mailing, NothingInClear
  <2>4. Envelope' /\ SaslState'
    BY <1>1, <1>2, <1>4 DEF Envelope, SaslState, AuthSound, Opening
  <2>5. QED
    BY <2>1, <2>2, <2>3, <2>4
<1>5. CASE ~(Finish("failed", "FAILURE") /\ UNCHANGED <<peer, clear>>)
  <2>1. /\ SelectAuthMechanism # "none"
        /\ stage' = "sasl" /\ mech' = SelectAuthMechanism
        /\ clear' = IF tls THEN clear ELSE clear \cup {"credentials"}
        /\ reply' \in {"334", "235", "5xx", "lost"}
        /\ SaslReply(mech', 0, reply')
        /\ UNCHANGED <<steps, authOK, rcpt, row, result>>
    BY <1>5 DEF Auth
  <2>2. mech' \in Mechs /\ mech' # "none"
    BY <2>1, SelectType
  <2>3. /\ peer'.phase \in {"command", "sasl"}
        /\ peer' = [peer EXCEPT !.phase = peer'.phase, !.authed = peer'.authed]
        /\ peer.authed => peer'.authed
        /\ peer'.authed \in BOOLEAN
    BY <2>1 DEF SaslReply, TypeOK
  <2>4. reply' = "334" => peer'.phase = "sasl" /\ 0 < MaxChallenges
    BY <2>1 DEF SaslReply, TypeOK
  <2>5. reply' = "235" => peer'.authed
    BY <2>1 DEF SaslReply, TypeOK
  <2>6. TypeOK'
    <3>1. peer' \in [phase : {"command", "sasl", "data"}, authed : BOOLEAN,
                     rcpts : SUBSET (1..NRcpt)]
      BY <2>3 DEF TypeOK
    <3>2. QED
      BY <3>1, <1>1, <2>1, <2>2 DEF TypeOK, Stages
  <2>7. Unreported' /\ Route'
    BY <1>1, <1>2, <2>1 DEF Unreported, Route, Mailing
  <2>8. Encrypted'
    <3>1. Upgrades' = Upgrades
      BY <1>1 DEF Upgrades, UpgradePorts
    <3>2. tls \/ (~cfg.smtps /\ ~Upgrades)
      BY <1>1 DEF Encrypted
    <3>3. cfg.port \in {"std", "alt", "other"}
      BY Inputs DEF Config
    <3>4. NothingInClear'
      BY <3>2, <3>3, <1>1, <1>2, <2>1
         DEF Encrypted, NothingInClear, Upgrades, UpgradePorts
    <3>5. QED
      BY <3>1, <3>2, <3>4, <1>1, <2>1 DEF Encrypted, Mailing
  <2>9. Envelope'
    BY <1>1, <1>2, <2>1, <2>3 DEF Envelope, Opening, TypeOK
  <2>10. SaslState'
    BY <1>1, <1>2, <1>3, <2>1, <2>2, <2>3, <2>4, <2>5 DEF SaslState, AuthSound, Opening
  <2>11. Identity' /\ Settled'
    BY <1>1, <1>2, <2>1, <2>3 DEF Identity, SendsAsUser, Claimed, HasCreds, Settled, ReportSound
  <2>12. QED
    BY <2>6, <2>7, <2>8, <2>9, <2>10, <2>11
<1>6. QED
  BY <1>4, <1>5

\* One round of the SASL loop.
LEMMA SaslIInv == IInv /\ Sasl => IInv'
<1> SUFFICES ASSUME IInv, Sasl PROVE IInv'
  OBVIOUS
<1> USE DEF IInv
<1>1. stage = "sasl" /\ UNCHANGED <<cfg, srv, tls, delivered, clear>>
  BY DEF Sasl
<1>2. /\ cfg.action \in {"testauth", "sendmail"} /\ delivered = {}
      /\ rcpt = 0 /\ peer.rcpts = {} /\ ~authOK /\ mech \in Mechs
  BY <1>1 DEF Route, Envelope, SaslState, TypeOK
<1>3. Encrypted'
  <2>1. Upgrades' = Upgrades /\ (NothingInClear' <=> NothingInClear)
    BY <1>1 DEF Upgrades, UpgradePorts, NothingInClear
  <2>2. stage' \in {"sasl", "mail", "done"}
    BY <1>1 DEF Sasl, AuthDone, Finish
  <2>3. QED
    BY <2>1, <2>2, <1>1 DEF Encrypted
<1>4. CASE (reply = "235" \/ (reply = "334" /\ ~Answers)) /\ AuthDone /\ UNCHANGED peer
  <2>1. peer.authed \/ (reply = "334" /\ peer.phase = "sasl" /\ ~Answers)
    BY <1>1, <1>4 DEF SaslState
  <2>2. \/ stage' = "done" /\ result' = "ok" /\ row' = "SUCCESS" /\ cfg.action = "testauth"
        \/ stage' = "mail" /\ UNCHANGED <<result, row>> /\ cfg.action = "sendmail"
    BY <1>2, <1>4 DEF AuthDone
  <2>3. authOK' = TRUE /\ UNCHANGED <<mech, steps, reply, rcpt, peer>>
    BY <1>4 DEF AuthDone
  <2>4. peer.authed \/ (/\ reply = "334"
                        /\ \/ mech \in {"PLAIN", "XOAUTH2", "GSSAPI"}
                           \/ mech = "LOGIN" /\ ~srv.prompts)
    BY <2>1, <1>2 DEF Answers, Mechs, TokenMechs, PasswordMechs
  <2>5. TypeOK'
    BY <2>2, <2>3, <1>1 DEF TypeOK, Stages
  <2>6. Unreported' /\ Route'
    BY <2>2, <1>1 DEF Unreported, Route, Mailing
  <2>7. Envelope' /\ SaslState'
    BY <2>2, <2>3, <2>4, <1>1, <1>2 DEF Envelope, SaslState, AuthSound, Opening
  <2>8. Identity' /\ Settled'
    BY <2>1, <2>2, <2>3, <1>1, <1>2 DEF Identity, SendsAsUser, Claimed, HasCreds, Settled, ReportSound
  <2>9. QED
    BY <2>5, <2>6, <2>7, <2>8, <1>3
<1>5. CASE Finish("failed", "FAILURE") /\ UNCHANGED peer
  <2> USE DEF Finish
  <2>1. TypeOK'
    BY <1>1, <1>5 DEF TypeOK, Stages
  <2>2. Unreported' /\ Route'
    BY <1>1, <1>5 DEF Unreported, Route, Mailing
  <2>3. Envelope' /\ SaslState'
    BY <1>1, <1>2, <1>5 DEF Envelope, SaslState, AuthSound, Opening
  <2>4. Identity' /\ Settled'
    BY <1>1, <1>2, <1>5 DEF Identity, SendsAsUser, Claimed, HasCreds, Settled, ReportSound
  <2>5. QED
    BY <2>1, <2>2, <2>3, <2>4, <1>3
<1>6. CASE reply = "334" /\ Answers /\ steps' = steps + 1
  <2>1. /\ UNCHANGED <<stage, mech, authOK, rcpt, row, result>>
        /\ reply' \in {"334", "235", "5xx", "lost"}
        /\ SaslReply(mech, steps + 1, reply')
    BY <1>6, <1>1, <1>2 DEF Sasl, AuthDone, Finish, TypeOK
  <2>2. steps' \in 0..MaxChallenges
    <3>1. steps \in 0..MaxChallenges /\ steps < MaxChallenges /\ MaxChallenges \in Nat
      BY <1>1, <1>6, SessionAssumption DEF SaslState, TypeOK
    <3>2. QED
      BY <3>1, <1>6
  <2>3. /\ peer' \in [phase : {"command", "sasl", "data"}, authed : BOOLEAN,
                      rcpts : SUBSET (1..NRcpt)]
        /\ peer'.rcpts = {}
    BY <2>1, <1>2 DEF SaslReply, TypeOK
  <2>4. reply' = "334" => peer'.phase = "sasl" /\ steps' < MaxChallenges
    BY <2>1, <1>6 DEF SaslReply, TypeOK
  <2>5. reply' = "235" => peer'.authed
    BY <2>1 DEF SaslReply, TypeOK
  <2>6. TypeOK'
    BY <2>1, <2>2, <2>3, <1>1 DEF TypeOK
  <2>7. Unreported' /\ Route'
    BY <2>1, <1>1 DEF Unreported, Route, Mailing
  <2>8. Envelope' /\ SaslState'
    BY <2>1, <2>3, <2>4, <2>5, <1>1, <1>2 DEF Envelope, SaslState, AuthSound, Opening
  <2>9. Identity' /\ Settled'
    BY <2>1, <1>1, <1>2 DEF Identity, SendsAsUser, Claimed, HasCreds, Settled, ReportSound
  <2>10. QED
    BY <2>6, <2>7, <2>8, <2>9, <1>3
<1>7. QED
  BY <1>4, <1>5, <1>6 DEF Sasl

\* The mail transaction: a message goes to the recipients the server accepted,
\* and to all of them.
LEMMA MailingIInv ==
    IInv /\ (BuildFails \/ Mail \/ Rcpt \/ Data \/ Body \/ Reply) => IInv'
<1> SUFFICES ASSUME IInv, BuildFails \/ Mail \/ Rcpt \/ Data \/ Body \/ Reply
             PROVE  IInv'
  OBVIOUS
<1> USE DEF IInv
<1>1. stage \in Mailing /\ UNCHANGED <<cfg, srv, tls, mech, steps, authOK>>
  BY DEF BuildFails, Mail, Rcpt, Data, Body, Reply, Finish, Goto, Mailing
<1>2. cfg.action = "sendmail" /\ result = "none" /\ row = "none"
  BY <1>1 DEF Route, Unreported, Mailing
<1>3. stage' \in Mailing \cup {"done"}
  BY DEF BuildFails, Mail, Rcpt, Data, Body, Reply, Finish, Goto, Mailing
<1>4. \/ stage' \in Mailing /\ UNCHANGED <<result, row>>
      \/ stage' = "done" /\ result' = "failed" /\ row' \in {"none", "FAILURE"}
      \/ stage' = "done" /\ result' = "ok" /\ row' = "SUCCESS"
  BY DEF BuildFails, Mail, Rcpt, Data, Body, Reply, Finish, Goto, Mailing
<1>5. /\ peer' \in [phase : {"command", "sasl", "data"}, authed : BOOLEAN,
                    rcpts : SUBSET (1..NRcpt)]
      /\ peer'.authed = peer.authed
  <2>1. stage = "rcpt" => rcpt + 1 \in 1..NRcpt
    BY Inputs DEF Envelope, TypeOK
  <2>2. CASE BuildFails \/ Reply
    BY <2>2 DEF BuildFails, Reply, TypeOK
  <2>3. CASE Mail
    BY <2>3 DEF Mail, Exchange, TypeOK
  <2>4. CASE Rcpt
    BY <2>1, <2>4 DEF Rcpt, Exchange, TypeOK
  <2>5. CASE Data
    BY <2>5 DEF Data, Exchange, TypeOK
  <2>6. CASE Body
    BY <2>6 DEF Body, TypeOK
  <2>7. QED
    BY <2>2, <2>3, <2>4, <2>5, <2>6
<1>6. Encrypted'
  <2>1. Upgrades' = Upgrades
    BY <1>1 DEF Upgrades, UpgradePorts
  <2>2. tls \/ (~cfg.smtps /\ ~Upgrades)
    BY <1>1 DEF Encrypted
  <2>3. cfg.port \in {"std", "alt", "other"}
    BY Inputs DEF Config
  <2>4. NothingInClear'
    <3>1. clear' = clear \/ ~tls
      BY DEF BuildFails, Mail, Rcpt, Data, Body, Reply
    <3>2. QED
      BY <3>1, <2>2, <2>3, <1>1, <1>2
         DEF Encrypted, NothingInClear, Upgrades, UpgradePorts
  <2>5. QED
    BY <2>1, <2>2, <2>4, <1>1, <1>3 DEF Encrypted, Mailing
<1>7. SaslState'
  <2>1. AuthSound'
    <3>1. CASE Body
      BY <3>1, <1>1, <1>5 DEF Identity, Claimed, Body, AuthSound
    <3>2. CASE ~Body
      <4>1. UNCHANGED reply
        BY <3>2 DEF BuildFails, Mail, Rcpt, Data, Reply, Finish, Goto
      <4>2. QED
        BY <4>1, <1>1, <1>5 DEF SaslState, AuthSound
    <3>3. QED
      BY <3>1, <3>2
  <2>2. QED
    BY <2>1, <1>1, <1>3 DEF SaslState, Opening, Mailing
<1>8. Unreported' /\ Route'
  BY <1>1, <1>2, <1>4 DEF Unreported, Route, Mailing
<1>9. Envelope' /\ rcpt' \in 0..NRcpt
  <2>1. NRcpt \in Nat \ {0} /\ rcpt \in 0..NRcpt
    BY Inputs DEF TypeOK
  <2>2. CASE stage' = "done"
    <3>1. UNCHANGED <<rcpt, delivered>>
      BY <2>2 DEF BuildFails, Mail, Rcpt, Data, Body, Reply, Finish, Goto
    <3>2. QED
      BY <3>1, <2>1, <2>2 DEF Envelope, Opening
  <2>3. CASE Mail /\ stage' = "rcpt"
    <3>1. 1..0 = {}
      OBVIOUS
    <3>2. rcpt' = 0 /\ peer'.rcpts = {} /\ delivered' = {}
      BY <2>3 DEF Mail, Goto, Finish, Exchange, Envelope
    <3>3. QED
      BY <3>1, <3>2, <2>1, <2>3 DEF Envelope, Opening
  <2>4. CASE Rcpt /\ stage' # "done"
    <3>1. /\ rcpt' = rcpt + 1
          /\ stage' = IF rcpt + 1 = NRcpt THEN "data" ELSE "rcpt"
          /\ peer' = [peer EXCEPT !.rcpts = @ \cup {rcpt + 1}]
          /\ UNCHANGED delivered
      BY <2>4 DEF Rcpt, Finish, Exchange
    <3>2. stage = "rcpt" /\ rcpt < NRcpt /\ peer.rcpts = 1..rcpt /\ delivered = {}
      BY <2>4 DEF Rcpt, Envelope
    <3>3. peer'.rcpts = peer.rcpts \cup {rcpt + 1}
      BY <3>1 DEF TypeOK
    <3>4. 1..(rcpt + 1) = (1..rcpt) \cup {rcpt + 1}
      BY <2>1
    <3>5. peer'.rcpts = 1..rcpt'
      BY <3>1, <3>2, <3>3, <3>4
    <3>6. rcpt' <= NRcpt /\ rcpt' \in Nat /\ (stage' = "data" => rcpt' = NRcpt)
          /\ (stage' = "rcpt" => rcpt' < NRcpt) /\ stage' \in {"data", "rcpt"}
      BY <3>1, <3>2, <2>1
    <3>7. QED
      BY <3>1, <3>2, <3>5, <3>6, <2>1 DEF Envelope, Opening
  <2>5. CASE Data /\ stage' = "body"
    BY <2>1, <2>5 DEF Data, Goto, Finish, Exchange, Envelope, Opening, TypeOK
  <2>6. CASE Body
    BY <2>1, <2>6 DEF Body, Envelope, Opening
  <2>7. QED
    BY <2>2, <2>3, <2>4, <2>5, <2>6 DEF BuildFails, Mail, Data, Reply, Finish, Goto
<1>10. Identity'
  <2>1. CASE Mail /\ stage' = "rcpt"
    <3>1. peer.phase = "command"
      BY <2>1 DEF Mail, Exchange, Finish
    <3>2. Claimed => peer.authed
      BY <3>1, <2>1 DEF Identity, Mail
    <3>3. QED
      BY <3>2, <2>1, <1>1, <1>5 DEF Identity, SendsAsUser, Claimed, HasCreds, Mail
  <2>2. CASE (Rcpt \/ Data) /\ stage' # "done"
    BY <2>2, <1>1, <1>5 DEF Identity, SendsAsUser, Claimed, HasCreds, Rcpt, Data, Finish, Goto
  <2>3. CASE Body
    BY <2>3, <1>1, <1>5 DEF Identity, SendsAsUser, Claimed, HasCreds, Body
  <2>4. CASE stage' = "done"
    <3>1. UNCHANGED delivered
      BY <2>4 DEF BuildFails, Mail, Rcpt, Data, Body, Reply
    <3>2. QED
      BY <3>1, <2>4, <1>1, <1>5 DEF Identity, SendsAsUser, Claimed, HasCreds
  <2>5. QED
    BY <2>1, <2>2, <2>3, <2>4 DEF BuildFails, Mail, Reply, Finish, Goto
<1>11. Settled'
  <2>1. CASE BuildFails \/ Mail \/ Rcpt \/ Data
    <3>1. delivered = {} /\ delivered' = {} /\ stage' # "reply" /\ result' # "ok"
          /\ row' # "SUCCESS"
      BY <2>1, <1>2 DEF BuildFails, Mail, Rcpt, Data, Finish, Goto, Envelope
    <3>2. QED
      BY <3>1 DEF Settled, ReportSound
  <2>2. CASE Body
    BY <2>2 DEF Body, Settled, ReportSound, Envelope
  <2>3. CASE Reply
    BY <2>3, <1>2 DEF Reply, Finish, Settled, ReportSound
  <2>4. QED
    BY <2>1, <2>2, <2>3
<1>12. TypeOK'
  <2>1. delivered' \in SUBSET (1..NRcpt)
    BY <1>9 DEF Envelope
  <2>2. clear' \in SUBSET {"credentials", "message"}
    BY DEF TypeOK, BuildFails, Mail, Rcpt, Data, Body, Reply
  <2>3. reply' \in {"none", "334", "235", "250", "5xx", "lost"}
    BY DEF TypeOK, BuildFails, Mail, Rcpt, Data, Body, Reply, Finish, Goto
  <2>4. stage' \in Stages
    BY <1>3 DEF Mailing, Stages
  <2>5. row' \in {"none", "SUCCESS", "FAILURE"} /\ result' \in {"none", "ok", "failed"}
    BY <1>2, <1>4
  <2>6. QED
    BY <2>1, <2>2, <2>3, <2>4, <2>5, <1>1, <1>5, <1>9 DEF TypeOK
<1>13. QED
  BY <1>6, <1>7, <1>8, <1>9, <1>10, <1>11, <1>12

LEMMA StutterIInv == IInv /\ UNCHANGED vars => IInv'
<1> SUFFICES ASSUME IInv, UNCHANGED vars PROVE IInv'
  OBVIOUS
<1> USE DEF IInv, vars
<1>1. TypeOK' /\ Unreported' /\ Route' /\ Envelope'
  BY DEF TypeOK, Unreported, Route, Envelope
<1>2. Encrypted'
  BY DEF Encrypted, NothingInClear, Upgrades, UpgradePorts
<1>3. SaslState'
  BY DEF SaslState, AuthSound
<1>4. Identity' /\ Settled'
  BY DEF Identity, SendsAsUser, Claimed, HasCreds, Settled, ReportSound
<1>5. QED
  BY <1>1, <1>2, <1>3, <1>4

\* The inductive invariant.
THEOREM Inductive == Spec => []IInv
<1>1. IInv /\ [Next]_vars => IInv'
  BY OpeningIInv, AuthIInv, SaslIInv, MailingIInv, StutterIInv DEF Next, Exchanges
<1>2. QED
  BY InitIInv, <1>1, PTL DEF Spec

-----------------------------------------------------------------------------
\* The variables stay in their ranges.
THEOREM TypeCorrect == Spec => []TypeOK
<1>1. IInv => TypeOK
  BY DEF IInv
<1>2. QED
  BY <1>1, Inductive, PTL

\* Auth returns nil without the server's agreement only over a challenge left
\* unanswered, and only for PLAIN, XOAUTH2, GSSAPI and a LOGIN that does not know
\* the prompt, however many challenges a server sends.
THEOREM AuthIsSound == Spec => []AuthSound
<1>1. IInv => AuthSound
  BY DEF IInv, SaslState
<1>2. QED
  BY <1>1, Inductive, PTL

\* sendmail with credentials sends under them, or not at all.
THEOREM NeverSendsAsAnother == Spec => []SendsAsUser
<1>1. IInv => SendsAsUser
  BY DEF IInv, Identity
<1>2. QED
  BY <1>1, Inductive, PTL

\* Nothing crosses in clear where the action upgrades by itself.
THEOREM UpgradeCoversAll == Spec => []NothingInClear
<1>1. IInv => NothingInClear
  BY DEF IInv, Encrypted
<1>2. QED
  BY <1>1, Inductive, PTL

\* The row, the exit status and the server agree at the end.
THEOREM ReportsAreSound == Spec => []ReportSound
<1>1. IInv => ReportSound
  BY DEF IInv, Settled
<1>2. QED
  BY <1>1, Inductive, PTL

\* sendmail implements the handoff: every step of a session is a step of it.
THEOREM IsHandoff == Spec => ImplementsHandoff
<1>1. Init => H!HandoffInit
  BY DEF Init, H!HandoffInit
<1>2. IInv /\ [Next]_vars => [H!HandoffNext]_(H!handoffVars)
  <2> SUFFICES ASSUME IInv, [Next]_vars
               PROVE  H!HandoffNext \/ UNCHANGED H!handoffVars
    OBVIOUS
  <2>1. CASE UNCHANGED <<cfg, delivered, result>>
    BY <2>1 DEF H!handoffVars
  <2>2. CASE Next /\ UNCHANGED <<cfg, delivered>> /\ result' # result
    <3>1. result = "none" /\ result' \in {"ok", "failed"}
      BY <2>2 DEF IInv, Unreported, Next, Exchanges, Dial, Handshake, Banner, Ehlo, StartTLS,
                 EhloAgain, Auth, Sasl, BuildFails, Mail, Rcpt, Data, Body, Reply, AuthDone,
                 Finish, Goto, AfterEhloTestConnect, AfterEhloTestStartTLS,
                 AfterEhloTestAuth, AfterEhloSendMail
    <3>2. cfg.action = "sendmail" /\ result' = "ok" => Reply /\ reply = "250"
      BY <2>2 DEF Next, Exchanges, Dial, Handshake, Banner, Ehlo, StartTLS,
                 EhloAgain, Auth, Sasl, BuildFails, Mail, Rcpt, Data, Body, Reply, AuthDone,
                 Finish, Goto, AfterEhloTestConnect, AfterEhloTestStartTLS,
                 AfterEhloTestAuth, AfterEhloSendMail
    <3>3. cfg.action = "sendmail" /\ result' = "ok" => delivered = 1..NRcpt
      BY <3>2 DEF Reply, IInv, Settled
    <3>4. QED
      BY <3>1, <3>3, <2>2 DEF H!HandoffNext, H!Report, H!handoffVars
  <2>3. CASE Body
    <3>1. cfg.action = "sendmail" /\ result = "none" /\ delivered = {}
          /\ peer.rcpts = 1..NRcpt
      BY <2>3 DEF Body, IInv, Route, Mailing, Unreported, Envelope
    <3>2. delivered' \in {{}, 1..NRcpt} /\ UNCHANGED <<cfg, result>>
      BY <3>1, <2>3 DEF Body
    <3>3. QED
      BY <3>1, <3>2 DEF H!HandoffNext, H!HandOver, H!handoffVars
  <2>4. QED
    <3>1. Next /\ ~Body => UNCHANGED <<cfg, delivered>>
      BY DEF Next, Exchanges, Dial, Handshake, Banner, Ehlo, StartTLS, EhloAgain, Auth, Sasl,
             BuildFails, Mail, Rcpt, Data, Reply
    <3>2. QED
      BY <3>1, <2>1, <2>2, <2>3 DEF vars
<1>3. QED
  BY <1>1, <1>2, Inductive, PTL DEF Spec, ImplementsHandoff, H!HandoffSpec
=============================================================================
