---------------------------- MODULE GraphCommands ----------------------------
(***************************************************************************)
(* The commands of gomailtest msgraph as tables for module Command.  The   *)
(* handlers do without a logger when there is none; the SDK's client has   *)
(* no timeout, so that a call ends when it is answered or interrupted.  A  *)
(* reply of the SDK that does not say error has done the operation.        *)
(***************************************************************************)
EXTENDS Steps

\* ConfigFromViper puts defaults in the place of what is not positive.
GraphProvider ==
    [repairs |-> {"count", "retries"}, guarded |-> TRUE, deadline |-> FALSE,
     answers |-> StatusAnswers]

\* validateAuthConfiguration: exactly one credential, or a delegated flow.
GraphAuth == {"authcount", "keyfile"}

\* The start of validateConfiguration, which every action on a mailbox shares,
\* with LoadConfigFile before it.
GraphConfig ==
    {"configfile", "tenant", "mailbox"} \cup GraphAuth
        \cup {"attachment", "header", "template", "priority", "address",
              "timeformat", "output"}

GraphMessage == GraphConfig \cup {"messageid"}
GraphMime == {"mime"}
GraphSelection == {"criteria", "messageid"}

\* NewGraphServiceClient, getCredential before it, whose error is only returned.
\* With --verbose a token is asked for, to be shown if one is given.
GraphClient == <<Local("return"), Maybe(Believing(Ask("warn"), StatusAnswers))>>

Graph(kind, rejects, setup, handler) ==
    Cmd(kind, GraphProvider, rejects, setup, handler)

\* retryWithBackoff around a call of the SDK; its error is only returned.
GraphRead(empty) == Retried(AskList("return", empty))

\* searchMessages: the error is returned without a row, an empty result is fine.
SearchMessages == GraphRead("calm")

-----------------------------------------------------------------------------
\* A row for each event and one that sums them up.
GraphListEvents == Ending(Handler(<<GraphRead("calm")>>, <<Row>>), <<Row>>)

\* buildMessage logs an error about the attachments and sends without them.
BuildMessage == Load("warn")

\* Not under the retry loop.  The response handler that looks for the message id
\* returns neither a result nor an error, so that the SDK reports no error
\* whatever the status of the reply.  The option is a complete MIME message.
GraphSendEmail ==
    Handler(<<IfOpt(Local("return")), IfPlain(BuildMessage),
              Believing(Change("row"), StatusAnswers \ {"lost"}), Row>>, <<>>)

GraphSaveDraft == Handler(<<BuildMessage, Change("row"), Row>>, <<>>)

\* The start is now and the end an hour later unless given; their order is not
\* looked at.  There is nothing to return: the command ends well.
GraphCreateInvite == Handler(<<Change("told"), Row>>, <<>>)

GraphListMailFolders == Handler(<<GraphRead("warn")>>, <<Row>>)
GraphListMailInFolder == Handler(<<GraphRead("calm")>>, <<Row>>)

\* getScheduleViaPost or, as option, getScheduleViaGet; a schedule without a
\* view is an error.
ViaPost == IfPlain(Retried(Ask("row")))
ViaGet == IfOpt(Retried(Ask("row")))

GraphGetSchedule ==
    Handler(<<Check({"timeformat", "window"}, "return"), ViaGet, ViaPost,
              Local("row"), Row>>, <<>>)

\* The free slots are computed here, and a row says when there are none.
GraphFindTimeSlot ==
    Handler(<<Check({"timeformat", "window"}, "return"), ViaGet,
              [ViaPost EXCEPT !.list = TRUE, !.empty = "row"], Row>>, <<>>)

\* A message that cannot be written is only counted: the one row of the command
\* tells how many were.
GraphExportInbox ==
    Ending(Handler(<<GraphRead("calm"), Local("return")>>, <<Local("pass")>>), <<Row>>)

GraphSearchAndExport ==
    Handler(<<SearchMessages, Local("return")>>, <<Local("return"), Row>>)

\* exportMessageToEML or exportMessageViaExportItems for each, and the message
\* deleted with --delete, once: this call is not retried.
GraphExportMessages ==
    Handler(<<SearchMessages, Local("return")>>,
            <<Retried(Ask("next")), Local("next"), IfOpt(Change("next")), Row>>)

\* The option is --confirmdelete: one question for all messages instead of one
\* for each.  A message without an id and a failed removal are owed to the end.
GraphRemoveMessages ==
    Handler(<<SearchMessages, IfOpt(Prompt("calm"))>>,
            <<IfPlain(Prompt("pass")), Local("owe"), Change("owe"), Row>>)

GraphRespondMeeting == Handler(<<Retried(Change("row")), Row>>, <<>>)

\* Only a 401 fails the check of the mailbox; "refused" stands for it.
VerifyMailboxAccess ==
    Maybe(Believing(Retried(Ask("row")), {"throttled", "garbled", "lost"}))

GraphTestAuth ==
    Handler(<<Header, Local("row"), Ask("row"), VerifyMailboxAccess, Row>>, <<>>)

\* Any HTTP answer will do.
GraphTestConnect ==
    Handler(<<Header, Local("row"), Believing(Ask("row"), StatusAnswers \ {"lost"}),
              Row>>, <<>>)

\* A token is acquired and printed; this command has no file log.
GraphExportBearerToken == Handler(<<Ask("return")>>, <<>>)

-----------------------------------------------------------------------------
\* The RunE of each command.
GraphGetEventsCmd == Graph("read", GraphConfig, GraphClient, GraphListEvents)

\* Without any recipient the mail goes to the mailbox itself.  A template is
\* rendered before the client is built; with a MIME message it is refused.
GraphSendMailCmd ==
    [Graph("send", GraphMessage \cup GraphMime,
           <<Check({"rendering"}, "return")>> \o GraphClient,
           GraphSendEmail) EXCEPT !.repairs = @ \cup {"to"}]
GraphDraftCmd ==
    Graph("draft", GraphMessage, <<Check({"rendering"}, "return")>> \o GraphClient,
          GraphSaveDraft)
GraphSendInviteCmd ==
    [Graph("invite", GraphConfig, GraphClient, GraphCreateInvite)
       EXCEPT !.repairs = @ \cup {"start"}]
GraphGetInboxCmd == Graph("read", GraphConfig, GraphClient, GraphListMailInFolder)
GraphListFoldersCmd == Graph("read", GraphConfig, GraphClient, GraphListMailFolders)
GraphListMailCmd == Graph("read", GraphConfig, GraphClient, GraphListMailInFolder)
GraphGetScheduleCmd ==
    Graph("read", GraphConfig \cup {"method", "onemailbox"}, GraphClient,
          GraphGetSchedule)
GraphFindTimeSlotCmd ==
    Graph("read", GraphConfig \cup {"method", "onemailbox", "duration"}, GraphClient,
          GraphFindTimeSlot)
GraphExportInboxCmd == Graph("export", GraphConfig, GraphClient, GraphExportInbox)
GraphSearchAndExportCmd ==
    Graph("export", GraphConfig \cup GraphSelection, GraphClient, GraphSearchAndExport)
GraphExportMessagesCmd ==
    Graph("export", GraphConfig \cup GraphSelection \cup {"method"}, GraphClient,
          GraphExportMessages)
GraphRemoveMessagesCmd ==
    Graph("delete", GraphConfig \cup GraphSelection, GraphClient, GraphRemoveMessages)
GraphRespondMeetingCmd ==
    Graph("respond", GraphConfig \cup {"itemid", "response"}, GraphClient,
          GraphRespondMeeting)

\* The commands with a validation of their own.
GraphTestAuthCmd ==
    Graph("probe", {"configfile", "tenant", "mailbox", "output"} \cup GraphAuth, <<>>,
          GraphTestAuth)
GraphTestConnectCmd ==
    [Graph("probe", {"configfile", "output"}, <<>>, GraphTestConnect)
       EXCEPT !.deadline = TRUE]
GraphExportBearerTokenCmd ==
    Graph("probe", {"configfile", "tenant", "output"} \cup GraphAuth,
          <<Local("return")>>, GraphExportBearerToken)

GraphProgram ==
    [graph_getevents |-> GraphGetEventsCmd, graph_sendmail |-> GraphSendMailCmd,
     graph_draft |-> GraphDraftCmd, graph_sendinvite |-> GraphSendInviteCmd,
     graph_getinbox |-> GraphGetInboxCmd, graph_listfolders |-> GraphListFoldersCmd,
     graph_listmail |-> GraphListMailCmd, graph_getschedule |-> GraphGetScheduleCmd,
     graph_findtimeslot |-> GraphFindTimeSlotCmd,
     graph_exportinbox |-> GraphExportInboxCmd,
     graph_searchandexport |-> GraphSearchAndExportCmd,
     graph_exportmessages |-> GraphExportMessagesCmd,
     graph_removemessages |-> GraphRemoveMessagesCmd,
     graph_respondmeeting |-> GraphRespondMeetingCmd,
     graph_testauth |-> GraphTestAuthCmd, graph_testconnect |-> GraphTestConnectCmd,
     graph_exportbearertoken |-> GraphExportBearerTokenCmd]
==============================================================================
