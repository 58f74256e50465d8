----------------------------- MODULE MCMailLogin -----------------------------
\* Instances of MailLogin: every valid configuration, against servers that list
\* in clear nothing, STARTTLS alone or all they have, and over TLS what they like.
EXTENDS MailLogin

MCConfigs == {c \in Config : ValidConfig(c)}

MCServers ==
    {s \in Server : /\ s.clear \in {{}, {"STARTTLS"}, {"STARTTLS", "XOAUTH2", "PLAIN"}}
                    /\ s.takes # {"password"} \/ ~s.challenges
                    /\ s.tls \in {{}, {"XOAUTH2"}, {"PLAIN"}}}
=============================================================================
