---------------------------- MODULE GmailCommands ----------------------------
(***************************************************************************)
(* The commands of gomailtest gmail as tables for module Command.  All of  *)
(* them start with setup, write rows only when there is a logger, and make *)
(* every call, those that send included, under the retry loop.             *)
(***************************************************************************)
EXTENDS Steps

\* ConfigFromViper puts defaults in the place of what is not positive.
GmailProvider ==
    [repairs |-> {"count", "retries"}, guarded |-> TRUE, deadline |-> FALSE,
     answers |-> StatusAnswers]

\* authMethodCount and the files of the method.
GmailAuth == {"authcount", "keyfile"}

\* The part of validateConfiguration that all actions share, with LoadConfigFile
\* before it.
GmailConfig ==
    GmailAuth \cup {"configfile", "mailbox", "attachment", "header", "template",
                    "priority", "address", "timeformat", "output"}

\* setup, without the parts module Command has as actions of its own: the
\* context, the loggers, the proxy environment.
Gmail(kind, rejects, before, handler) ==
    Cmd(kind, GmailProvider, rejects, before, handler)

\* newGmailService, and newCalendarService: a token source, whose error is only
\* returned.  The first call asks it for a token.
GmailService == Local("return")
CalendarService == Local("return")

GmailRead(empty) == Retried(AskList("return", empty))
GmailChange == Retried(Change("row"))

\* buildRawMessage: no attachment left and a message that cannot be built are
\* returned without a row.
BuildRawMessage == <<Load("return"), Local("return")>>

-----------------------------------------------------------------------------
GmailSendEmail == Handler(BuildRawMessage \o <<GmailChange, Row>>, <<>>)
GmailSaveDraft == Handler(BuildRawMessage \o <<GmailChange, Row>>, <<>>)

GmailListLabels == Handler(<<GmailRead("warn")>>, <<Row>>)

\* A message that cannot be read is left out of the list.  The rows, which the code
\* writes when it has read them all, are here with each.
GmailListMailByLabel ==
    Handler(<<GmailRead("calm")>>, <<Retried(Ask("pass")), Row>>)

\* exportMessageToEML of each message found.
GmailExportEML == <<Retried(Ask("next")), Local("next")>>
GmailExportMessages ==
    Handler(<<GmailRead("calm"), Local("return")>>, GmailExportEML \o <<Row>>)

\* Trash for each message found.
GmailDeleteMessages ==
    Handler(<<GmailRead("calm")>>, <<Retried(Change("next")), Row>>)

GmailListEvents == Handler(<<GmailRead("calm")>>, <<Row>>)

\* The free/busy reply may lack the calendar asked for or carry its error.
GmailGetSchedule ==
    Handler(<<Check({"timeformat", "window"}, "return"), Retried(Ask("return")),
              Local("row"), Row>>, <<>>)
GmailFindTimeSlot ==
    Handler(<<Check({"timeformat", "window"}, "return"), Retried(Ask("return")),
              Local("row"), Row>>, <<>>)

\* The order of start and end is left to the server.
GmailCreateInvite ==
    Handler(<<Check({"timeformat"}, "return"), GmailChange, Row>>, <<>>)

GmailTestAuth == Handler(<<Retried(Ask("return")), Row>>, <<>>)

\* Any HTTP answer will do.
GmailTestConnect ==
    Handler(<<Header, Local("row"), Believing(Ask("row"), StatusAnswers \ {"lost"}),
              Row>>, <<>>)

\* The token is asked for once.
GmailExportBearerToken == Handler(<<Ask("return"), Row>>, <<>>)

-----------------------------------------------------------------------------
\* The RunE of each command.  Without any recipient a mail goes to the mailbox,
\* which a bearer token makes optional: "to" is then noticed by nobody.
GmailSendMailCmd ==
    Gmail("send", GmailConfig, <<Check({"rendering"}, "return"), GmailService>>,
          GmailSendEmail)
GmailDraftCmd ==
    Gmail("draft", GmailConfig, <<Check({"rendering"}, "return"), GmailService>>,
          GmailSaveDraft)
GmailGetInboxCmd == Gmail("read", GmailConfig, <<GmailService>>, GmailListMailByLabel)
GmailExportMessagesCmd ==
    Gmail("export", GmailConfig \cup {"criteria", "messageid"}, <<GmailService>>,
          GmailExportMessages)
GmailDeleteMessagesCmd ==
    Gmail("delete", GmailConfig \cup {"criteria", "messageid"}, <<GmailService>>,
          GmailDeleteMessages)
GmailGetEventsCmd == Gmail("read", GmailConfig, <<CalendarService>>, GmailListEvents)
GmailSendInviteCmd ==
    Gmail("invite", GmailConfig \cup {"start"}, <<CalendarService>>, GmailCreateInvite)
GmailGetScheduleCmd ==
    Gmail("read", GmailConfig \cup {"onemailbox"}, <<CalendarService>>, GmailGetSchedule)
GmailFindTimeSlotCmd ==
    Gmail("read", GmailConfig \cup {"onemailbox", "duration"}, <<CalendarService>>,
          GmailFindTimeSlot)
GmailListFoldersCmd == Gmail("read", GmailConfig, <<GmailService>>, GmailListLabels)
GmailListMailCmd == Gmail("read", GmailConfig, <<GmailService>>, GmailListMailByLabel)
GmailTestAuthCmd == Gmail("probe", GmailConfig, <<GmailService>>, GmailTestAuth)

\* The probe has a validation of its own and a client with a timeout.
GmailTestConnectCmd ==
    [Gmail("probe", {"configfile", "output"}, <<>>, GmailTestConnect)
       EXCEPT !.deadline = TRUE]
GmailExportBearerTokenCmd ==
    Gmail("probe", GmailConfig, <<Local("return")>>, GmailExportBearerToken)

GmailProgram ==
    [gmail_sendmail |-> GmailSendMailCmd, gmail_draft |-> GmailDraftCmd,
     gmail_getinbox |-> GmailGetInboxCmd,
     gmail_exportmessages |-> GmailExportMessagesCmd,
     gmail_deletemessages |-> GmailDeleteMessagesCmd,
     gmail_getevents |-> GmailGetEventsCmd, gmail_sendinvite |-> GmailSendInviteCmd,
     gmail_getschedule |-> GmailGetScheduleCmd,
     gmail_findtimeslot |-> GmailFindTimeSlotCmd,
     gmail_listfolders |-> GmailListFoldersCmd, gmail_listmail |-> GmailListMailCmd,
     gmail_testauth |-> GmailTestAuthCmd, gmail_testconnect |-> GmailTestConnectCmd,
     gmail_exportbearertoken |-> GmailExportBearerTokenCmd]
==============================================================================
