----------------------------- MODULE EwsCommands -----------------------------
(***************************************************************************)
(* The commands of gomailtest ews as tables for module Command: what each  *)
(* looks for in its configuration, and its handler step by step.  Every    *)
(* handler writes its header first and takes the logger for granted; the   *)
(* client's timeout is always set.                                         *)
(***************************************************************************)
EXTENDS Steps

\* ConfigFromViper puts defaults in the place of what is not positive.
EwsRepairs == {"count", "timeout"}

EwsProvider ==
    [repairs |-> EwsRepairs, guarded |-> FALSE, deadline |-> TRUE,
     answers |-> Answers]

\* What validateConfiguration refuses, with LoadConfigFile before it.
EwsFlags == {"configfile", "host", "port", "proxy", "ipflags"}
EwsLogin == EwsFlags \cup {"user", "secret"}
EwsMessage == EwsLogin \cup {"to", "template", "messageid"}
EwsFreeBusyFlags ==
    {"mailbox", "start", "timeformat", "window", "timezone", "interval"}

Ews(kind, rejects, setup, handler) ==
    Cmd(kind, EwsProvider, rejects, setup, handler)

\* NewEWSClient, whose error is logged.
EwsClient == Local("row")

\* SendSOAPAction, the decoding of the reply and the check of its ResponseClass.
Soap == Ask("row")
SoapChange == Change("row")

\* resolveEventWindow, before there is a header.
EventWindow == Check({"timeformat", "window"}, "return")

-----------------------------------------------------------------------------
\* Probe: any HTTP answer will do, the endpoint is alive.
EwsTestConnect ==
    Handler(<<Header, EwsClient,
              Believing(Soap, Answers \ {"lost"}), Row>>, <<>>)

EwsTestAuth == Handler(<<Header, EwsClient, Soap, Row>>, <<>>)

\* Only an error code of the whole response is noticed.  The user's own, looked
\* for one level too deep (its path says UserResponse twice), never is, and an
\* answer without any settings is good too.
EwsAutodiscover ==
    Handler(<<Header, EwsClient, Believing(Soap, {"unconfirmed"}), Row>>, <<>>)

EwsGetFolder == Handler(<<Header, EwsClient, Soap, Row>>, <<>>)

\* No folders, no rows.
EwsListFolders == Handler(<<Header, EwsClient, AskList("row", "warn")>>, <<Row>>)

EwsListMail == Handler(<<Header, EwsClient, AskList("row", "calm")>>, <<Row>>)

\* Attachments that cannot be read are skipped unless none is left.
EwsSendMail == Handler(<<Header, EwsClient, Load("row"), SoapChange, Row>>, <<>>)

\* The window is put in order by the handler.
EwsSendInvite ==
    Handler(<<Check({"timeformat", "window"}, "return"), Header, EwsClient,
              SoapChange, Row>>, <<>>)

EwsRespondMeeting ==
    Handler(<<Check({"response"}, "return"), Header, EwsClient, SoapChange, Row>>,
            <<>>)

EwsGetEvents ==
    Handler(<<EventWindow, Header, EwsClient, AskList("row", "calm")>>, <<Row>>)

EwsGetSchedule == Handler(<<EventWindow, Header, EwsClient, Soap, Row>>, <<>>)

\* The free slots of the reply are computed without a further call.
EwsFindTimeSlot ==
    Handler(<<Check({"timeformat", "window"}, "return"), Header, EwsClient,
              [Soap EXCEPT !.list = TRUE, !.empty = "calm"]>>, <<Row>>)

\* One reply for all mailboxes with a response for each: one that is refused
\* makes the command fail once the others are logged.
EwsFreeBusy ==
    Handler(<<Check({"timezone", "timeformat"}, "return"), Header, EwsClient,
              AskList("row", "row")>>, <<Local("owe"), Row>>)

\* GetItem, the file, and DeleteItem with --delete; a message that fails is
\* logged and left behind.
EwsExportMessages ==
    Handler(<<Header, EwsClient, AskList("row", "told"), Local("return")>>,
            <<Ask("next"), Local("next"), IfOpt(Change("next")), Row>>)

\* deleteEWSMessage for each message found.
EwsDeleteMessages ==
    Handler(<<Header, EwsClient, AskList("row", "told")>>, <<Change("next"), Row>>)

-----------------------------------------------------------------------------
\* The RunE of each command.
EwsTestConnectCmd == Ews("probe", EwsFlags, <<>>, EwsTestConnect)
EwsTestAuthCmd == Ews("probe", EwsLogin, <<>>, EwsTestAuth)
EwsAutodiscoverCmd ==
    Ews("probe", EwsFlags \cup {"user", "address"}, <<>>, EwsAutodiscover)
EwsGetFolderCmd == Ews("read", EwsLogin, <<>>, EwsGetFolder)
EwsListFoldersCmd == Ews("read", EwsLogin, <<>>, EwsListFolders)
EwsListMailCmd == Ews("read", EwsLogin, <<>>, EwsListMail)

\* resolveTemplate runs before the handler and only returns its error.
EwsSendMailCmd ==
    Ews("send", EwsMessage, <<Check({"rendering"}, "return")>>, EwsSendMail)
EwsDraftCmd ==
    Ews("draft", EwsMessage, <<Check({"rendering"}, "return")>>, EwsSendMail)

EwsExportMessagesCmd ==
    Ews("export", EwsLogin \cup {"criteria"}, <<>>, EwsExportMessages)
EwsDeleteMessagesCmd ==
    Ews("delete", EwsLogin \cup {"criteria"}, <<>>, EwsDeleteMessages)
EwsGetEventsCmd == Ews("read", EwsLogin \cup {"timeformat"}, <<>>, EwsGetEvents)
EwsSendInviteCmd ==
    Ews("invite", EwsLogin \cup {"to", "start", "timeformat"}, <<>>, EwsSendInvite)
EwsRespondMeetingCmd ==
    Ews("respond", EwsLogin \cup {"itemid", "response"}, <<>>, EwsRespondMeeting)
EwsGetScheduleCmd ==
    Ews("read", EwsLogin \cup {"onemailbox", "timeformat"}, <<>>, EwsGetSchedule)
EwsFindTimeSlotCmd ==
    Ews("read", EwsLogin \cup {"onemailbox", "duration", "timeformat"}, <<>>,
        EwsFindTimeSlot)
EwsFreeBusyCmd == Ews("read", EwsLogin \cup EwsFreeBusyFlags, <<>>, EwsFreeBusy)

EwsProgram ==
    [ews_testconnect |-> EwsTestConnectCmd, ews_testauth |-> EwsTestAuthCmd,
     ews_autodiscover |-> EwsAutodiscoverCmd, ews_getfolder |-> EwsGetFolderCmd,
     ews_listfolders |-> EwsListFoldersCmd, ews_listmail |-> EwsListMailCmd,
     ews_sendmail |-> EwsSendMailCmd, ews_draft |-> EwsDraftCmd,
     ews_exportmessages |-> EwsExportMessagesCmd,
     ews_deletemessages |-> EwsDeleteMessagesCmd,
     ews_getevents |-> EwsGetEventsCmd, ews_sendinvite |-> EwsSendInviteCmd,
     ews_respondmeeting |-> EwsRespondMeetingCmd,
     ews_getschedule |-> EwsGetScheduleCmd,
     ews_findtimeslot |-> EwsFindTimeSlotCmd, ews_freebusy |-> EwsFreeBusyCmd]
==============================================================================
