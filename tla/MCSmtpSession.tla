---------------------------- MODULE MCSmtpSession ----------------------------
\* Small instances of SmtpSession: the configurations and servers that tell
\* its decisions apart.
EXTENDS SmtpSession

MCConfigs ==
    {c \in Config :
        /\ ValidConfig(c)
        /\ c.method \in {"auto", "XOAUTH2", "PLAIN"}
        /\ c.action \in {"testconnect", "teststarttls"} =>
             c.creds = "none" /\ c.method = "auto"
        /\ c.creds = "none" => c.method = "auto"
        /\ c.smtps => c.port = "other"}

\* Servers that answer to the end.
MCServers ==
    {s \in [starttls : BOOLEAN, authInClear : BOOLEAN, valid : BOOLEAN,
            relay : BOOLEAN, strict : BOOLEAN, prompts : BOOLEAN,
            mechs : {{}, {"PLAIN", "LOGIN"}, {"LOGIN"}, {"XOAUTH2", "NTLM"},
                     {"OAUTHBEARER", "CRAM-MD5", "PLAIN"}, {"GSSAPI"}},
            mute : {"never"}] :
        /\ s.mechs = {} => s.valid /\ ~s.authInClear
        /\ "LOGIN" \notin s.mechs => s.prompts
        /\ s.strict => s.relay}

\* One server that falls silent, at each stage in turn.
MCMuteServers ==
    {s \in [starttls : BOOLEAN, authInClear : {TRUE}, valid : {TRUE},
            relay : {TRUE}, strict : {FALSE}, prompts : {TRUE},
            mechs : {{"PLAIN", "LOGIN"}}, mute : Stages] : TRUE}

MCAllServers == MCServers \cup MCMuteServers
=============================================================================
