------------------------------ MODULE MCCommand ------------------------------
\* Module Command over all commands, with the exceptions its properties name.
EXTENDS Command, EwsCommands, JmapCommands, GraphCommands, GmailCommands, TLC

MCProgram == EwsProgram @@ JmapProgram @@ GraphProgram @@ GmailProgram

\* Invitations whose end precedes their start are left to Graph and Gmail, and a
\* Gmail mail to nobody, which needs a bearer token without a mailbox, to Gmail.
MCUnchecked ==
    {<<"graph_sendinvite", "window">>, <<"gmail_sendinvite", "window">>,
     <<"gmail_sendmail", "to">>}

MCTrusting == {"jmap_sendmail", "graph_sendmail"}

MCUnlogged ==
    {"graph_getevents", "graph_getinbox", "graph_listfolders", "graph_listmail",
     "graph_exportinbox", "graph_searchandexport", "graph_exportmessages",
     "graph_removemessages", "graph_exportbearertoken", "gmail_getinbox",
     "gmail_exportmessages", "gmail_deletemessages", "gmail_getevents",
     "gmail_getschedule", "gmail_findtimeslot", "gmail_listfolders",
     "gmail_listmail", "gmail_testauth", "gmail_exportbearertoken"}

\* One message of several that fails leaves the others to be done; Graph's
\* sendinvite has nothing to return.
MCTolerant ==
    {"ews_exportmessages", "ews_deletemessages", "jmap_exportmessages",
     "jmap_deletemessages", "graph_exportmessages", "gmail_exportmessages",
     "gmail_deletemessages", "gmail_getinbox", "gmail_listmail", "graph_sendinvite"}

MCCareless == {"graph_sendmail", "graph_draft"}

\* The commands of the two forms that CommandProofs speaks of: those that make
\* one change, without a retry, and those that end well only when it was made.
ASSUME OneSendAssumption ==
    {c \in DOMAIN MCProgram : OneSend(MCProgram[c]) /\ MCProgram[c].kind \in Changing}
        = {"ews_sendmail", "ews_draft", "ews_sendinvite", "ews_respondmeeting",
           "jmap_sendmail", "graph_sendmail", "graph_draft", "graph_sendinvite"}

ASSUME DecisiveAssumption ==
    {c \in DOMAIN MCProgram : Decisive(MCProgram[c]) # {}}
        = {"ews_sendmail", "ews_draft", "ews_sendinvite", "ews_respondmeeting",
           "graph_draft", "graph_respondmeeting",
           "gmail_sendmail", "gmail_draft", "gmail_sendinvite"}
==============================================================================
