----------------------------- MODULE MailArchive -----------------------------
(***************************************************************************)
(* exportmessages (with or without --delete) and deletemessages, as POP3,  *)
(* IMAP, JMAP, EWS and Graph run them: the loop over the messages found,   *)
(* the file each is written to, and the provider's way of removing it.     *)
(* Several runs share one day's export directory; a run may die at any     *)
(* step.  POP3 removes what it marked when QUIT is answered; IMAP flags    *)
(* and expunges, with UIDPLUS or without, while another client flags       *)
(* messages too; the other three remove with one request.                  *)
(***************************************************************************)
EXTENDS Integers, FiniteSets

CONSTANTS Msgs,         \* messages, over all mailboxes
          Boxes,        \* mailboxes
          Names,        \* file names in the day's directory
          Providers,    \* providers to explore
          Count,        \* config.Count
          MaxRuns       \* bound on the runs of one day

ASSUME ArchiveAssumption ==
    /\ Providers \subseteq {"pop3", "imap", "jmap", "ews", "msgraph"}
    /\ Count \in Nat \ {0}
    /\ MaxRuns \in Nat
    /\ {"none", "torn"} \cap Msgs = {}

VARIABLES
    tool,       \* [provider, action, delete, uidplus]; fixed
    boxOf,      \* the mailbox each message is in; fixed
    name,       \* the file name the provider gives each message; fixed
    runs,       \* runs begun
    pc,         \* what the run does next
    todo,       \* messages listed and not yet looked at
    cur,        \* the message the run is at
    done,       \* successCount
    inbox,      \* messages on the server
    flagged,    \* IMAP: messages with \Deleted set
    marked,     \* POP3: messages marked in this session
    disk,       \* what each file holds
    selected,   \* history: messages some run listed
    touched,    \* history: messages whose file was opened for writing
    ours,       \* history: messages some run of the tool removed
    foreign,    \* history: messages the other client flagged
    claimed,    \* history: messages with a SUCCESS row
    cut         \* history: messages that reached POP3 cut short

fixed == <<tool, boxOf, name>>
\* What no step but FetchCut changes.
frozen == <<fixed, cut>>
server == <<inbox, flagged, marked, ours, foreign>>
files == <<disk, touched>>
loop == <<runs, todo, done, selected>>
vars == <<frozen, pc, cur, loop, server, files, claimed>>

Tool == [provider : Providers, action : {"exportmessages", "deletemessages"},
         delete : BOOLEAN, uidplus : BOOLEAN]

Exporting == tool.action = "exportmessages"

\* How the names come about.  IMAP uses the UID and JMAP the id, unique within
\* a mailbox only; EWS the subject and the tail of the item id, Graph and POP3
\* the sanitized Message-ID, which nothing keeps unique.
MayName(provider, box, f) ==
    provider \in {"imap", "jmap"} =>
        \A m1, m2 \in Msgs : box[m1] = box[m2] /\ f[m1] = f[m2] => m1 = m2

Init ==
    /\ tool \in Tool
    /\ boxOf \in [Msgs -> Boxes]
    /\ name \in [Msgs -> Names]
    /\ MayName(tool.provider, boxOf, name)
    /\ runs = 0 /\ pc = "idle" /\ todo = {} /\ cur = "none" /\ done = 0
    /\ inbox = Msgs
    /\ flagged = {} /\ marked = {}
    /\ disk = [n \in Names |-> "none"]
    /\ selected = {} /\ touched = {} /\ ours = {} /\ foreign = {} /\ claimed = {}
    /\ cut = {}

-----------------------------------------------------------------------------
\* The row for the message at hand, and on to the next one.
Row(success, counted) ==
    /\ pc' = "each"
    /\ claimed' = IF success THEN claimed \cup {cur} ELSE claimed
    /\ done' = IF counted THEN done + 1 ELSE done
    /\ UNCHANGED <<cur, runs, todo, selected>>

Goto(s) == pc' = s /\ UNCHANGED <<cur, claimed, loop>>

\* Connect, log in, search one mailbox.  All but POP3 cut the list to Count.
StartRun ==
    /\ pc = "idle"
    /\ runs < MaxRuns
    /\ runs' = runs + 1
    /\ \E b \in Boxes : \E found \in SUBSET {m \in inbox : boxOf[m] = b} :
        /\ found # {}
        /\ tool.provider # "pop3" => Cardinality(found) <= Count
        /\ todo' = found
        /\ selected' = selected \cup found
    /\ done' = 0
    /\ pc' = "each"
    /\ UNCHANGED <<frozen, cur, server, files, claimed>>

\* Mutant: the loop variable stays behind.
NextMessageStale ==
    /\ pc = "each"
    /\ todo # {}
    /\ tool.provider = "pop3" => done < Count
    /\ \E m \in todo : todo' = todo \ {m}
    /\ pc' = IF Exporting THEN "fetch"
             ELSE IF tool.provider = "imap" THEN "check" ELSE "delete"
    /\ UNCHANGED <<frozen, cur, runs, done, selected, server, files, claimed>>

\* The next message; the POP3 loop stops at Count.
NextMessage ==
    /\ pc = "each"
    /\ todo # {}
    /\ tool.provider = "pop3" => done < Count
    /\ cur' \in todo
    /\ todo' = todo \ {cur'}
    /\ pc' = IF Exporting THEN "fetch"
             ELSE IF tool.provider = "imap" THEN "check" ELSE "delete"
    /\ UNCHANGED <<frozen, runs, done, selected, server, files, claimed>>

\* RETR, FETCH, download: a message no longer there cannot be fetched.
Fetch ==
    /\ pc = "fetch"
    /\ \/ Row(FALSE, FALSE)
       \/ cur \in inbox /\ Goto("open")
    /\ UNCHANGED <<frozen, server, files>>

\* ReadMultilineResponse takes the end of the connection for the end of a RETR:
\* what arrived is written and gets its row, unless it was to be deleted too.
\* The session's marks are gone, and every later command of the loop fails.
FetchCut ==
    /\ pc = "fetch"
    /\ tool.provider = "pop3"
    /\ cur \in inbox
    /\ cut' = cut \cup {cur}
    /\ marked' = {}
    /\ pc' = "idle"
    /\ \/ UNCHANGED <<disk, touched, claimed>>
       \/ /\ disk' = [disk EXCEPT ![name[cur]] = "torn"]
          /\ touched' = touched \cup {cur}
          /\ claimed' \in {claimed} \cup IF tool.delete THEN {} ELSE {claimed \cup {cur}}
    /\ UNCHANGED <<fixed, cur, loop, inbox, flagged, ours, foreign>>

\* WriteFile opens the file, whatever is in it, and truncates it.
OpenFile ==
    /\ pc = "open"
    /\ \/ Row(FALSE, FALSE) /\ UNCHANGED files
       \/ /\ Goto("write")
          /\ disk' = [disk EXCEPT ![name[cur]] = "torn"]
          /\ touched' = touched \cup {cur}
    /\ UNCHANGED <<frozen, server>>

\* Mutant: a short write is not noticed.
WriteBodyUnchecked ==
    /\ pc = "write"
    /\ \E content \in {cur, "torn"} : disk' = [disk EXCEPT ![name[cur]] = content]
    /\ IF tool.delete
       THEN Goto(IF tool.provider = "imap" THEN "check" ELSE "delete")
       ELSE Row(TRUE, TRUE)
    /\ UNCHANGED <<frozen, server, touched>>

\* ... and writes it; a failed or short write leaves the file as it is.
WriteBody ==
    /\ pc = "write"
    /\ \/ Row(FALSE, FALSE) /\ UNCHANGED disk
       \/ /\ disk' = [disk EXCEPT ![name[cur]] = cur]
          /\ IF tool.delete
             THEN Goto(IF tool.provider = "imap" THEN "check" ELSE "delete")
             ELSE Row(TRUE, TRUE)
    /\ UNCHANGED <<frozen, server, touched>>

-----------------------------------------------------------------------------
\* DELE: the server marks the message, or refuses; an export counts either way.
\* A connection that breaks here takes the marks with it, and every later
\* command of the loop fails.
Dele ==
    /\ pc = "delete"
    /\ tool.provider = "pop3"
    /\ \/ Row(TRUE, TRUE) /\ marked' = marked \cup {cur}
       \/ Row(FALSE, Exporting) /\ UNCHANGED marked
       \/ /\ pc' = "idle"
          /\ marked' = {}
          /\ UNCHANGED <<cur, claimed, loop>>
    /\ UNCHANGED <<frozen, inbox, flagged, ours, foreign, files>>

\* QUIT, explicit or deferred: the server removes what is marked.  An answer
\* that does not arrive says nothing about that.
Quit ==
    /\ pc = "each"
    /\ tool.provider = "pop3"
    /\ todo = {} \/ done >= Count
    /\ \/ inbox' = inbox \ marked /\ ours' = ours \cup marked
       \/ UNCHANGED <<inbox, ours>>
    /\ marked' = {}
    /\ Goto("idle")
    /\ UNCHANGED <<frozen, flagged, foreign, files>>

\* One request of Graph, EWS or JMAP, not retried.
Remove ==
    /\ pc = "delete"
    /\ tool.provider # "pop3"
    /\ \/ /\ Row(TRUE, TRUE)
          /\ inbox' = inbox \ {cur} /\ ours' = ours \cup {cur}
       \/ /\ Row(FALSE, FALSE)
          /\ \/ inbox' = inbox \ {cur} /\ ours' = ours \cup {cur}
             \/ UNCHANGED <<inbox, ours>>
    /\ UNCHANGED <<frozen, flagged, marked, foreign, files>>

\* DeleteMessage without UIDPLUS: look for other flagged messages, and refuse.
Others == {m \in flagged \cap inbox : boxOf[m] = boxOf[cur]} \ {cur}

\* Mutant: the search for other flagged messages is left out.
CheckDeletedSkipped ==
    /\ pc = "check"
    /\ Goto("store")
    /\ UNCHANGED <<frozen, server, files>>

CheckDeleted ==
    /\ pc = "check"
    /\ \/ tool.uidplus /\ Goto("store")
       \/ ~tool.uidplus /\ Others = {} /\ Goto("store")
       \/ ~tool.uidplus /\ Row(FALSE, Exporting)
    /\ UNCHANGED <<frozen, server, files>>

\* STORE +FLAGS.SILENT \Deleted.
StoreFlag ==
    /\ pc = "store"
    /\ \/ Goto("expunge") /\ flagged' = flagged \cup ({cur} \cap inbox)
       \/ Row(FALSE, Exporting) /\ flagged' \in {flagged, flagged \cup ({cur} \cap inbox)}
    /\ UNCHANGED <<frozen, inbox, marked, ours, foreign, files>>

\* Mutant: EXPUNGE is used with UIDPLUS too.
ExpungedAll == {m \in flagged \cap inbox : boxOf[m] = boxOf[cur]}

\* UID EXPUNGE removes the one message, EXPUNGE every flagged one of the mailbox.
Expunged ==
    {m \in flagged \cap inbox :
        boxOf[m] = boxOf[cur] /\ (tool.uidplus => m = cur)}

Expunge ==
    /\ pc = "expunge"
    /\ \/ Row(TRUE, TRUE) /\ inbox' = inbox \ Expunged /\ ours' = ours \cup Expunged
       \/ /\ Row(FALSE, Exporting)
          /\ \/ inbox' = inbox \ Expunged /\ ours' = ours \cup Expunged
             \/ UNCHANGED <<inbox, ours>>
    /\ UNCHANGED <<frozen, flagged, marked, foreign, files>>

\* The loop is over.
EndRun ==
    /\ pc = "each"
    /\ tool.provider # "pop3"
    /\ todo = {}
    /\ Goto("idle")
    /\ UNCHANGED <<frozen, server, files>>

\* The process is killed; a POP3 session that ends without QUIT commits nothing.
Crash ==
    /\ pc # "idle"
    /\ marked' = {}
    /\ Goto("idle")
    /\ UNCHANGED <<frozen, inbox, flagged, ours, foreign, files>>

\* Another IMAP client flags a message.
OtherFlags ==
    /\ tool.provider = "imap"
    /\ \E m \in inbox \ flagged :
        flagged' = flagged \cup {m} /\ foreign' = foreign \cup {m}
    /\ UNCHANGED <<frozen, pc, cur, claimed, loop, inbox, marked, ours, files>>

Next == \/ StartRun \/ NextMessage \/ Fetch \/ FetchCut \/ OpenFile \/ WriteBody
        \/ Dele \/ Quit \/ Remove \/ CheckDeleted \/ StoreFlag \/ Expunge
        \/ EndRun \/ Crash \/ OtherFlags

Spec == Init /\ [][Next]_vars

-----------------------------------------------------------------------------
\* Every variable stays in its range.
TypeOK ==
    /\ tool \in Tool
    /\ boxOf \in [Msgs -> Boxes]
    /\ name \in [Msgs -> Names]
    /\ runs \in 0..MaxRuns
    /\ pc \in {"idle", "each", "fetch", "open", "write", "delete", "check",
               "store", "expunge"}
    /\ pc \notin {"idle", "each"} => cur \in Msgs
    /\ cur \in Msgs \cup {"none"}
    /\ done \in Nat
    /\ todo \subseteq Msgs /\ inbox \subseteq Msgs /\ flagged \subseteq Msgs
    /\ marked \subseteq Msgs /\ selected \subseteq Msgs /\ touched \subseteq Msgs
    /\ ours \subseteq Msgs /\ foreign \subseteq Msgs /\ claimed \subseteq Msgs
    /\ cut \subseteq Msgs
    /\ disk \in [Names -> Msgs \cup {"none", "torn"}]

Overwritten(m) == \E other \in touched \ {m} : name[other] = name[m]

\* --delete removes a message only after its export: whatever the tool removed
\* is whole on disk, unless another message was given the same file, also when
\* runs die, replies are lost and an earlier run's flag is still set.  What
\* another client had flagged is left out (ews.md 396, exportmessages.go of
\* the providers).
Preserved ==
    Exporting =>
        \A m \in ours \ foreign : disk[name[m]] = m \/ Overwritten(m)

\* Nothing leaves the mailbox that no run had listed; only an EXPUNGE without
\* UIDPLUS can take what another client flagged since the check (imap.md 118).
RemovesOnlySelected ==
    ours \subseteq selected \cup
        (IF tool.provider = "imap" /\ ~tool.uidplus THEN foreign ELSE {})

\* --count bounds what one POP3 session marks, refused DELEs or not
\* (pop3 exportmessages.go 93-96, 118-172).
CountRespected == Cardinality(marked) <= Count

\* A SUCCESS row is true when it is written: the export is whole on disk, and
\* what was to be removed is gone, or for POP3 marked.  The exception is a
\* message POP3 took for whole when its connection broke.
RowsAreTrue ==
    [][\A m \in claimed' \ claimed :
         /\ Exporting => disk'[name[m]] = m \/ m \in cut'
         /\ ~Exporting \/ tool.delete => m \notin inbox' \/ m \in marked']_vars

\* docs/protocols/pop3.md 167: "Delete each message after successful export";
\* msgraph.md 292 and ews.md 396 say the same.  What was removed is on disk.
NoLoss == Exporting => \A m \in ours \ foreign : disk[name[m]] = m
=============================================================================
