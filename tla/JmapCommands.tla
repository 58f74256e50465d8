---------------------------- MODULE JmapCommands ----------------------------
(***************************************************************************)
(* The commands of gomailtest jmap as tables for module Command.  Every    *)
(* handler writes its header first, takes the logger for granted, and      *)
(* discovers the session before anything else; the HTTP client gives up    *)
(* after 30 seconds.                                                       *)
(***************************************************************************)
EXTENDS Steps

\* ConfigFromViper puts defaults in the place of what is not positive.
JmapProvider ==
    [repairs |-> {"count", "port"}, guarded |-> FALSE, deadline |-> TRUE,
     answers |-> Answers]

\* What validateConfiguration refuses, with LoadConfigFile before it.
JmapFlags ==
    {"configfile", "host", "port", "address", "ipflags", "authmethod", "loglevel",
     "output"}
JmapLogin == JmapFlags \cup {"secret"}

Jmap(kind, rejects, setup, handler) ==
    Cmd(kind, JmapProvider, rejects, setup, handler)

\* GET of the session resource, decoded and with an API address in it.
Discover == Ask("row")

\* A method call and the look at its response.
GetMailboxes == Ask("row")

\* Email/query or Email/get; what becomes of an empty list is the handler's.
Query(fail, empty) == AskList(fail, empty)

\* Email/set with destroy: the id has to be among the destroyed.
DeleteEmails == Change("next")

\* Email/set and EmailSubmission/set in one request.  Only a response named
\* "error" is noticed: one that lists the message as not created, or has no
\* responses at all, passes for success.
SendEmailCall == Believing(Change("row"), {"unconfirmed"})

\* The same for a message that was uploaded and is imported with Email/import.
SendRawEmailCall == Believing(Change("row"), {"unconfirmed"})

UploadBlob == Ask("row")
DownloadBlob == Ask("next")

-----------------------------------------------------------------------------
JmapTestConnect == Handler(<<Header, Discover, Row>>, <<>>)

JmapTestAuth == Handler(<<Header, Discover, Row>>, <<>>)

JmapListFolders ==
    Handler(<<Header, Discover, [GetMailboxes EXCEPT !.list = TRUE]>>, <<Row>>)

\* The inbox is one of the mailboxes or there is none.
JmapListMail ==
    Handler(<<Header, Discover, GetMailboxes, Local("row"), Query("row", "calm"),
              Query("row", "calm")>>, <<Row>>)

\* The option is a Message-ID of one's own: the message is then built here,
\* uploaded as a whole and imported.  Otherwise the attachments are uploaded
\* one by one.  Either way the session has to have the submission capability
\* and an account.
JmapSendMail ==
    Handler(<<Header, Discover, Check({"sender"}, "row"), Maybe(GetMailboxes),
              Load("row"),
              IfOpt(Local("row")), IfOpt(UploadBlob), IfOpt(SendRawEmailCall),
              IfPlain(UploadBlob), IfPlain(Local("row")), IfPlain(SendEmailCall),
              Row>>, <<>>)

\* With --delete each message is destroyed once its file is written.
JmapExportMessages ==
    Handler(<<Header, Discover, Local("return"), Query("row", "told"),
              Query("row", "told"), Local("return")>>,
            <<DownloadBlob, Local("next"), IfOpt(DeleteEmails), Row>>)

JmapDeleteMessages ==
    Handler(<<Header, Discover, Local("return"), Query("row", "told"),
              Query("row", "told")>>, <<DeleteEmails, Row>>)

-----------------------------------------------------------------------------
\* The RunE of each command.
JmapTestConnectCmd == Jmap("probe", JmapFlags, <<>>, JmapTestConnect)
JmapTestAuthCmd == Jmap("probe", JmapLogin, <<>>, JmapTestAuth)
JmapListFoldersCmd == Jmap("read", JmapLogin, <<>>, JmapListFolders)
JmapListMailCmd == Jmap("read", JmapLogin, <<>>, JmapListMail)

\* resolveTemplate runs before the handler and only returns its error.
JmapSendMailCmd ==
    Jmap("send", JmapLogin \cup {"to", "template", "messageid"},
         <<Check({"rendering"}, "return")>>, JmapSendMail)

JmapExportMessagesCmd ==
    Jmap("export", JmapLogin \cup {"criteria"}, <<>>, JmapExportMessages)
JmapDeleteMessagesCmd ==
    Jmap("delete", JmapLogin \cup {"criteria"}, <<>>, JmapDeleteMessages)

JmapProgram ==
    [jmap_testconnect |-> JmapTestConnectCmd, jmap_testauth |-> JmapTestAuthCmd,
     jmap_listfolders |-> JmapListFoldersCmd, jmap_listmail |-> JmapListMailCmd,
     jmap_sendmail |-> JmapSendMailCmd,
     jmap_exportmessages |-> JmapExportMessagesCmd,
     jmap_deletemessages |-> JmapDeleteMessagesCmd]
==============================================================================
