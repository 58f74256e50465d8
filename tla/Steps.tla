-------------------------------- MODULE Steps --------------------------------
(***************************************************************************)
(* The vocabulary in which the command tables (EwsCommands, JmapCommands,  *)
(* GraphCommands, GmailCommands) describe a command: the steps of its      *)
(* handler and what each of them does when it fails.                       *)
(***************************************************************************)
EXTENDS Integers, Sequences

Ops == {"header",   \* write the log's header when the file is empty
        "check",    \* a check of the configuration made by the handler
        "local",    \* build a client, a query or a directory; write a file
        "load",     \* read the attachments from disk
        "ask",      \* a call that reads
        "change",   \* a call that changes the mailbox or sends
        "prompt",   \* ask the operator on stdin
        "row"}      \* log a SUCCESS row

\* What a handler does about a step that failed.
Dispositions ==
    {"return",      \* return the error, nothing is logged
     "row",         \* log a FAILURE row and return the error
     "told",        \* log a FAILURE row and return nil
     "calm",        \* nothing to do: return nil; a row saying so is left out
     "next",        \* log a FAILURE row and go on with the next item
     "owe",         \* the same, and return the error at the end
     "pass",        \* go on with the next item
     "warn"}        \* go on with the next step

\* What can become of a call: the operation done; an HTTP error; throttled or
\* temporarily unavailable; a reply that cannot be decoded; one that names an
\* error as a whole; one that does not confirm the operation, or denies it only
\* further down, for the item that was asked about; no reply.
Answers == {"ok", "refused", "throttled", "garbled", "error", "unconfirmed", "lost"}

\* Where the HTTP status is the answer there is nothing in the reply to confirm
\* or deny the operation.
StatusAnswers == Answers \ {"error", "unconfirmed"}

\* When a step is taken: in every run, in runs with or without the command's
\* option, or for some configurations.
Conditions == {"always", "opt", "plain", "maybe"}

\* What the configuration may have wrong.
Defects == {"configfile", "host", "port", "proxy", "ipflags", "authmethod", "user",
            "secret", "tenant", "authcount", "keyfile", "mailbox", "to", "address",
            "sender", "attachment", "header", "priority", "template", "rendering",
            "criteria", "start", "timeformat", "window", "onemailbox", "duration",
            "timezone", "interval", "itemid", "response", "messageid", "output",
            "method", "mime", "loglevel", "count", "timeout", "retries"}

Kinds == {"probe", "read", "send", "draft", "invite", "respond", "export", "delete"}

Step == [op : Ops, fail : Dispositions, about : SUBSET Defects,
         believes : SUBSET Answers, list : BOOLEAN,
         empty : Dispositions, retried : BOOLEAN, when : Conditions]

Make(op, fail) ==
    [op |-> op, fail |-> fail, about |-> {}, believes |-> {"ok"}, list |-> FALSE,
     empty |-> "warn", retried |-> FALSE, when |-> "always"]

Header == Make("header", "warn")
Check(defects, fail) == [Make("check", fail) EXCEPT !.about = defects]
Local(fail) == Make("local", fail)
Load(fail) == Make("load", fail)
Ask(fail) == Make("ask", fail)
Change(fail) == Make("change", fail)
Prompt(fail) == Make("prompt", fail)
Row == Make("row", "warn")

\* A call that returns a list; empty says what is done about an empty one.
AskList(fail, empty) == [Ask(fail) EXCEPT !.list = TRUE, !.empty = empty]

\* A call under the retry loop.
Retried(step) == [step EXCEPT !.retried = TRUE]

\* A call whose handler takes these answers for success.
Believing(step, answers) == [step EXCEPT !.believes = {"ok"} \cup answers]

\* A step taken only in runs with, or only in runs without, the command's
\* option, or only for some configurations.
IfOpt(step) == [step EXCEPT !.when = "opt"]
IfPlain(step) == [step EXCEPT !.when = "plain"]
Maybe(step) == [step EXCEPT !.when = "maybe"]

\* A handler: the steps of each are done for every item of the list that before
\* asked for, those of after once when it is done with them.
Handler(before, each) == [before |-> before, each |-> each, after |-> <<>>]
Ending(handler, after) == [handler EXCEPT !.after = after]

\* A command: what it is for, what its provider is like (defects repaired by
\* ConfigFromViper, whether handlers do without a file logger, whether the
\* client has a timeout, the answers of its protocol), the defects that
\* validateConfiguration refuses, and its steps, those between the validation
\* and the handler first.
Cmd(kind, provider, rejects, setup, handler) ==
    [kind |-> kind, repairs |-> provider.repairs, rejects |-> rejects,
     guarded |-> provider.guarded, deadline |-> provider.deadline,
     answers |-> provider.answers,
     steps |-> setup \o handler.before \o handler.each \o handler.after,
     first |-> Len(setup) + Len(handler.before) + 1,
     last |-> Len(setup) + Len(handler.before) + Len(handler.each)]
==============================================================================
