-------------------------- MODULE MailArchiveProofs --------------------------
(***************************************************************************)
(* What holds of MailArchive for every set of messages, mailboxes and file *)
(* names, every provider and any number of runs: what an export removed is *)
(* on disk unless another message was given its file, nothing is removed   *)
(* that was not selected, --count holds, and a SUCCESS row is true.        *)
(***************************************************************************)
EXTENDS MailArchive, FiniteSetTheorems, TLAPS

\* The steps at which a message is in hand.
InHand == {"fetch", "open", "write", "delete", "check", "store", "expunge"}
Removing == {"delete", "check", "store", "expunge"}

\* What the run works on was listed, and each message of it comes up once.
Selection ==
    /\ pc \in InHand => cur \in selected /\ cur \notin todo /\ cur \notin marked
    /\ todo \subseteq selected /\ marked \subseteq selected
    /\ todo \cap marked = {}
    /\ flagged \subseteq selected \cup foreign
    /\ RemovesOnlySelected

\* The server no longer has what was removed.
Gone ==
    /\ ours \cap inbox = {}
    /\ pc \in {"open", "write"} => cur \in inbox
    /\ pc = "expunge" => cur \in flagged \/ cur \notin inbox

\* Without UIDPLUS the check has found no other flagged message; those that are
\* there now were flagged by another client since.
Checked ==
    /\ pc \in {"check", "store", "expunge"} => tool.provider = "imap"
    /\ pc \in {"store", "expunge"} /\ ~tool.uidplus => Others \subseteq foreign

\* A message is on disk, or its file was given to another one.
Safe(m) == disk[name[m]] = m \/ Overwritten(m)

\* What was removed, and what QUIT will remove, is on disk.
Saved ==
    /\ pc \in {"fetch", "open", "write"} => Exporting
    /\ pc = "write" => cur \in touched
    /\ Exporting /\ pc \in Removing => disk[name[cur]] = cur
    /\ Exporting => \A m \in marked \cup (ours \ foreign) : Safe(m)

\* POP3 marks at most one message for each it counts.
Counted ==
    /\ IsFiniteSet(marked)
    /\ pc = "idle" \/ tool.provider # "pop3" => marked = {}
    /\ tool.provider = "pop3" => /\ Cardinality(marked) <= done
                                 /\ done <= Count
                                 /\ pc \in InHand => done < Count

IInv == TypeOK /\ Selection /\ Gone /\ Checked /\ Saved /\ Counted

-----------------------------------------------------------------------------
LEMMA InitIInv == Init => IInv
<1> SUFFICES ASSUME Init PROVE IInv
  OBVIOUS
<1> USE DEF Init
<1>1. TypeOK
  BY ArchiveAssumption DEF TypeOK
<1>2. Selection /\ Gone /\ Checked /\ Saved
  BY DEF Selection, RemovesOnlySelected, Gone, Checked, Saved, InHand, Removing
<1>3. Counted
  BY FS_EmptySet, ArchiveAssumption DEF Counted, InHand
<1>4. QED
  BY <1>1, <1>2, <1>3 DEF IInv

\* A run begins, takes up the next message, or ends: nothing is written.
LEMMA LoopIInv == IInv /\ (StartRun \/ NextMessage \/ EndRun \/ Crash) => IInv'
<1> SUFFICES ASSUME IInv, StartRun \/ NextMessage \/ EndRun \/ Crash PROVE IInv'
  OBVIOUS
<1> USE DEF IInv, frozen, fixed, server, files, loop, Goto
<1>1. UNCHANGED <<tool, boxOf, name, cut, inbox, flagged, ours, foreign, disk, touched, claimed>>
  BY DEF StartRun, NextMessage, EndRun, Crash
<1>2. marked' \in {marked, {}}
  BY DEF StartRun, NextMessage, EndRun, Crash
<1>3. TypeOK'
  BY <1>1, <1>2, ArchiveAssumption DEF TypeOK, StartRun, NextMessage, EndRun, Crash
<1>4. Selection'
  BY <1>1, <1>2 DEF Selection, RemovesOnlySelected, InHand, StartRun, NextMessage, EndRun, Crash, Counted
<1>5. Gone'
  BY <1>1 DEF Gone, StartRun, NextMessage, EndRun, Crash
<1>6. Checked'
  BY DEF Checked, StartRun, NextMessage, EndRun, Crash
<1>7. Saved'
  BY <1>1, <1>2 DEF Saved, Safe, Overwritten, Exporting, Removing, StartRun, NextMessage, EndRun, Crash
<1>8. Counted'
  <2>1. Cardinality({}) = 0 /\ IsFiniteSet({}) /\ done \in Nat /\ Count \in Nat \ {0}
    BY FS_EmptySet, ArchiveAssumption DEF TypeOK
  <2>2. CASE StartRun
    BY <2>1, <2>2 DEF StartRun, Counted, InHand
  <2>3. CASE NextMessage
    <3>1. UNCHANGED <<tool, marked, done>> /\ pc = "each"
          /\ (tool.provider = "pop3" => done < Count)
      BY <2>3 DEF NextMessage
    <3>2. tool.provider # "pop3" => marked = {}
      BY DEF Counted
    <3>3. pc' # "idle"
      BY <2>3 DEF NextMessage
    <3>4. QED
      BY <3>1, <3>2, <3>3 DEF Counted
  <2>4. CASE EndRun \/ Crash
    <3>1. pc' = "idle" /\ UNCHANGED <<tool, done>>
      BY <2>4 DEF EndRun, Crash
    <3>2. marked' = {}
      BY <2>4 DEF EndRun, Crash, Counted
    <3>3. tool.provider = "pop3" => done <= Count
      BY DEF Counted
    <3>4. QED
      BY <3>1, <3>2, <3>3, <2>1 DEF Counted, InHand
  <2>5. QED
    BY <2>2, <2>3, <2>4
<1>9. QED
  BY <1>3, <1>4, <1>5, <1>6, <1>7, <1>8

\* The export: opening a file damages only what was in that file.
LEMMA ExportIInv == IInv /\ (Fetch \/ OpenFile \/ WriteBody) => IInv'
<1> SUFFICES ASSUME IInv, Fetch \/ OpenFile \/ WriteBody PROVE IInv'
  OBVIOUS
<1> USE DEF IInv, frozen, fixed, server, files, loop, Goto, Row
<1>1. /\ UNCHANGED <<tool, boxOf, name, cut, inbox, flagged, marked, ours, foreign, cur, runs,
                     todo, selected>>
      /\ pc \in {"fetch", "open", "write"}
  BY DEF Fetch, OpenFile, WriteBody
<1>2. cur \in Msgs /\ done \in Nat /\ name[cur] \in Names
  BY <1>1 DEF TypeOK
<1>3. done' \in {done, done + 1} /\ pc' \in InHand \cup {"each"}
      /\ (done' = done + 1 => pc' = "each")
  BY <1>2 DEF Fetch, OpenFile, WriteBody, InHand
<1>4. touched' \in {touched, touched \cup {cur}} /\ claimed' \in {claimed, claimed \cup {cur}}
  BY DEF Fetch, OpenFile, WriteBody
<1>5. \/ disk' = disk
      \/ /\ disk' = [disk EXCEPT ![name[cur]] = "torn"]
         /\ cur \in touched' /\ cur \in inbox
      \/ /\ disk' = [disk EXCEPT ![name[cur]] = cur]
         /\ cur \in touched' /\ cur \in inbox
  BY DEF Fetch, OpenFile, WriteBody, Saved, Gone
<1>6. TypeOK'
  <2>1. disk' \in [Names -> Msgs \cup {"none", "torn"}]
    BY <1>2, <1>5 DEF TypeOK
  <2>2. QED
    BY <2>1, <1>1, <1>2, <1>3, <1>4 DEF TypeOK, InHand
<1>7. Selection'
  BY <1>1, <1>3 DEF Selection, RemovesOnlySelected, InHand
<1>8. Gone' /\ Checked'
  BY <1>1, <1>3 DEF Gone, Checked, Others, InHand, Fetch, OpenFile, WriteBody
<1>9. Counted'
  <2>1. IsFiniteSet(marked) /\ Cardinality(marked) \in Nat /\ Count \in Nat
    BY FS_CardinalityType, ArchiveAssumption DEF Counted
  <2>2. tool.provider = "pop3" => Cardinality(marked) <= done /\ done < Count
    BY <1>1 DEF Counted, InHand
  <2>3. QED
    BY <1>1, <1>2, <1>3, <2>1, <2>2 DEF Counted, InHand
<1>10. Saved'
  <2>1. pc' = "write" => cur \in touched'
    BY DEF OpenFile, Fetch, WriteBody
  <2>2. Exporting /\ pc' \in Removing => disk'[name[cur]] = cur
    BY <1>2 DEF TypeOK, Removing, OpenFile, Fetch, WriteBody
  <2>3. ASSUME Exporting, NEW m \in marked \cup (ours \ foreign)
        PROVE  Safe(m)'
    <3>1. m # cur \/ disk' = disk
      <4>1. cur \notin marked /\ ours \cap inbox = {}
        BY <1>1 DEF Selection, Gone, InHand
      <4>2. QED
        BY <4>1, <1>5
    <3>2. CASE name[m] = name[cur] /\ m # cur /\ disk' # disk
      BY <3>2, <1>1, <1>5 DEF Safe, Overwritten
    <3>3. CASE name[m] # name[cur] \/ disk' = disk
      <4>1. disk'[name[m]] = disk[name[m]]
        BY <3>3, <1>5 DEF TypeOK
      <4>2. Safe(m)
        BY <2>3 DEF Saved
      <4>3. QED
        BY <4>1, <4>2, <1>1, <1>4 DEF Safe, Overwritten
    <3>4. QED
      BY <3>1, <3>2, <3>3
  <2>4. pc' \in {"fetch", "open", "write"} => Exporting
    BY DEF Saved, Fetch, OpenFile, WriteBody
  <2>5. QED
    BY <2>1, <2>2, <2>3, <2>4, <1>1 DEF Saved, Exporting
<1>11. QED
  BY <1>6, <1>7, <1>8, <1>9, <1>10

\* A message cut short damages only what was in its file, and ends the session.
LEMMA CutIInv == IInv /\ FetchCut => IInv'
<1> SUFFICES ASSUME IInv, FetchCut PROVE IInv'
  OBVIOUS
<1> USE DEF IInv, fixed, loop
<1>1. /\ UNCHANGED <<tool, boxOf, name, inbox, flagged, ours, foreign, cur, runs, todo, done,
                     selected>>
      /\ pc = "fetch" /\ pc' = "idle" /\ marked' = {} /\ cur \in inbox
      /\ tool.provider = "pop3"
      /\ cut' = cut \cup {cur} /\ claimed' \in {claimed, claimed \cup {cur}}
  BY DEF FetchCut
<1>2. cur \in Msgs /\ name[cur] \in Names
  BY <1>1 DEF TypeOK
<1>3. \/ UNCHANGED <<disk, touched>>
      \/ /\ disk' = [disk EXCEPT ![name[cur]] = "torn"]
         /\ touched' = touched \cup {cur}
  BY DEF FetchCut
<1>4. TypeOK'
  <2>1. disk' \in [Names -> Msgs \cup {"none", "torn"}] /\ touched' \subseteq Msgs
    BY <1>2, <1>3 DEF TypeOK
  <2>2. QED
    BY <2>1, <1>1, <1>2 DEF TypeOK
<1>5. Selection'
  BY <1>1 DEF Selection, RemovesOnlySelected, InHand
<1>6. Gone' /\ Checked'
  BY <1>1 DEF Gone, Checked
<1>7. Counted'
  <2>1. IsFiniteSet({}) /\ Cardinality({}) = 0
    BY FS_EmptySet
  <2>2. done \in Nat /\ Count \in Nat /\ done <= Count
    BY <1>1, ArchiveAssumption DEF TypeOK, Counted
  <2>3. QED
    BY <1>1, <2>1, <2>2 DEF Counted, InHand
<1>8. Saved'
  <2>1. ASSUME Exporting, NEW m \in ours \ foreign
        PROVE  Safe(m)'
    <3>1. m # cur /\ Safe(m)
      BY <2>1, <1>1 DEF Gone, Saved
    <3>2. CASE name[m] = name[cur] /\ disk' # disk
      BY <3>1, <3>2, <1>1, <1>3 DEF Safe, Overwritten
    <3>3. CASE name[m] # name[cur] \/ disk' = disk
      <4>1. disk'[name[m]] = disk[name[m]]
        BY <3>3, <1>3 DEF TypeOK
      <4>2. QED
        BY <4>1, <3>1, <1>1, <1>3 DEF Safe, Overwritten
    <3>4. QED
      BY <3>2, <3>3
  <2>2. QED
    BY <2>1, <1>1 DEF Saved, Exporting, Removing
<1>9. QED
  BY <1>4, <1>5, <1>6, <1>7, <1>8

\* POP3's marks and QUIT, and the one request of Graph, EWS and JMAP.
LEMMA RemoveIInv == IInv /\ (Dele \/ Quit \/ Remove) => IInv'
<1> SUFFICES ASSUME IInv, Dele \/ Quit \/ Remove PROVE IInv'
  OBVIOUS
<1> USE DEF IInv, frozen, fixed, server, files, loop, Goto, Row
<1>1. UNCHANGED <<tool, boxOf, name, cut, flagged, foreign, disk, touched, cur, runs, todo, selected>>
      /\ pc' \in {"each", "idle"}
  BY DEF Dele, Quit, Remove
<1>2. pc = "delete" => cur \in Msgs /\ cur \in selected /\ cur \notin todo
  BY DEF TypeOK, Selection, InHand
<1>3. done \in Nat /\ Count \in Nat \ {0}
  BY ArchiveAssumption DEF TypeOK
<1>4. /\ done' \in {done, done + 1}
      /\ claimed' \in {claimed, claimed \cup {cur}}
      /\ claimed' # claimed => pc = "delete"
  BY DEF Dele, Quit, Remove
<1>5. \E gone \in SUBSET (marked \cup ({cur} \cap {m \in Msgs : pc = "delete"})) :
        ours' = ours \cup gone /\ inbox' = inbox \ gone
  <2>1. CASE Dele
    BY <2>1 DEF Dele
  <2>2. CASE Quit
    BY <2>2 DEF Quit
  <2>3. CASE Remove
    BY <2>3, <1>2 DEF Remove
  <2>4. QED
    BY <2>1, <2>2, <2>3
<1>6. \/ marked' \in {marked, {}}
      \/ pc = "delete" /\ marked' = marked \cup {cur}
  BY DEF Dele, Quit, Remove
<1>7. TypeOK'
  BY <1>1, <1>2, <1>3, <1>4, <1>5, <1>6 DEF TypeOK
<1>8. Selection'
  BY <1>1, <1>2, <1>5, <1>6 DEF Selection, RemovesOnlySelected, InHand
<1>9. Gone' /\ Checked'
  BY <1>1, <1>5 DEF Gone, Checked
<1>10. Saved'
  <2>1. pc = "delete" /\ Exporting => Safe(cur)
    BY DEF Saved, Removing, Safe
  <2>2. ASSUME NEW m, Exporting, Safe(m)
        PROVE  Safe(m)'
    BY <2>2, <1>1 DEF Safe, Overwritten
  <2>3. QED
    BY <2>1, <2>2, <1>1, <1>5, <1>6 DEF Saved, Removing, Exporting
<1>11. Counted'
  <2>1. IsFiniteSet({}) /\ Cardinality({}) = 0
    BY FS_EmptySet
  <2>2. CASE Dele
    <3>1. IsFiniteSet(marked) /\ Cardinality(marked) <= done /\ done < Count
          /\ tool.provider = "pop3"
      BY <2>2 DEF Dele, Counted, InHand
    <3>2. Cardinality(marked) \in Nat
      BY <3>1, FS_CardinalityType
    <3>3. IsFiniteSet(marked \cup {cur})
          /\ Cardinality(marked \cup {cur}) \in {Cardinality(marked), Cardinality(marked) + 1}
      BY <3>1, FS_AddElement
    <3>4. \/ pc' = "each" /\ marked' = marked \cup {cur} /\ done' = done + 1
          \/ pc' = "each" /\ marked' = marked
          \/ pc' = "idle" /\ marked' = {} /\ done' = done
      BY <2>2 DEF Dele
    <3>5. IsFiniteSet(marked') /\ Cardinality(marked') <= done' /\ done' <= Count
      <4>1. CASE marked' = marked \cup {cur} /\ done' = done + 1
        BY <4>1, <3>1, <3>2, <3>3, <1>3
      <4>2. CASE marked' = marked
        BY <4>2, <3>1, <3>2, <1>3, <1>4
      <4>3. CASE marked' = {} /\ done' = done
        BY <4>3, <3>1, <2>1, <1>3
      <4>4. QED
        BY <3>4, <4>1, <4>2, <4>3
    <3>6. QED
      BY <3>1, <3>4, <3>5, <1>1 DEF Counted, InHand
  <2>3. CASE Quit
    BY <2>1, <2>3, <1>1, <1>3 DEF Quit, Counted, InHand
  <2>4. CASE Remove
    BY <2>1, <2>4, <1>1, <1>3 DEF Remove, Counted, InHand
  <2>5. QED
    BY <2>2, <2>3, <2>4
<1>12. QED
  BY <1>7, <1>8, <1>9, <1>10, <1>11

\* IMAP's three steps: look for other flagged messages, flag, expunge.
LEMMA ImapIInv == IInv /\ (CheckDeleted \/ StoreFlag \/ Expunge) => IInv'
<1> SUFFICES ASSUME IInv, CheckDeleted \/ StoreFlag \/ Expunge PROVE IInv'
  OBVIOUS
<1> USE DEF IInv, frozen, fixed, server, files, loop, Goto, Row
<1>1. /\ UNCHANGED <<tool, boxOf, name, cut, foreign, marked, disk, touched, cur, runs, todo, selected>>
      /\ pc \in {"check", "store", "expunge"}
      /\ pc' \in {"each", "store", "expunge"}
  BY DEF CheckDeleted, StoreFlag, Expunge
<1>2. cur \in Msgs /\ cur \in selected /\ cur \notin todo /\ cur \notin marked
  BY <1>1 DEF TypeOK, Selection, InHand
<1>3. done \in Nat /\ done' \in {done, done + 1} /\ claimed' \in {claimed, claimed \cup {cur}}
      /\ (pc' # "each" => done' = done)
  BY DEF TypeOK, CheckDeleted, StoreFlag, Expunge
<1>4. flagged' \in {flagged, flagged \cup ({cur} \cap inbox)}
  BY DEF CheckDeleted, StoreFlag, Expunge
<1>5. \/ UNCHANGED <<ours, inbox>>
      \/ /\ pc = "expunge"
         /\ ours' = ours \cup Expunged /\ inbox' = inbox \ Expunged
  BY DEF CheckDeleted, StoreFlag, Expunge
<1>6. pc = "expunge" => Expunged \subseteq {cur} \cup (IF tool.uidplus THEN {} ELSE foreign)
  BY DEF Expunged, Checked, Others
<1>7. TypeOK'
  BY <1>1, <1>2, <1>3, <1>4, <1>5 DEF TypeOK, Expunged
<1>8. Selection'
  <2>1. Expunged \subseteq {cur} \cup (IF tool.provider = "imap" /\ ~tool.uidplus THEN foreign ELSE {})
        \/ UNCHANGED ours
    BY <1>1, <1>5, <1>6 DEF Checked
  <2>2. QED
    BY <2>1, <1>1, <1>2, <1>4, <1>5 DEF Selection, RemovesOnlySelected, InHand
<1>9. Gone'
  BY <1>1, <1>4, <1>5 DEF Gone, CheckDeleted, StoreFlag, Expunge
<1>10. Checked'
  BY <1>1, <1>4, <1>5 DEF Checked, Others, CheckDeleted, StoreFlag, Expunge
<1>11. Saved'
  <2>1. Exporting => disk[name[cur]] = cur
    BY <1>1 DEF Saved, Removing
  <2>2. ASSUME NEW m, Exporting, Safe(m)
        PROVE  Safe(m)'
    BY <2>2, <1>1 DEF Safe, Overwritten
  <2>3. ours' \ foreign' \subseteq (ours \ foreign) \cup {cur}
    BY <1>1, <1>5, <1>6
  <2>4. Exporting => Safe(cur)
    BY <2>1 DEF Safe
  <2>5. QED
    BY <2>1, <2>2, <2>3, <2>4, <1>1 DEF Saved, Exporting
<1>12. Counted'
  <2>1. IsFiniteSet(marked) /\ Cardinality(marked) \in Nat /\ Count \in Nat
    BY FS_CardinalityType, ArchiveAssumption DEF Counted
  <2>2. tool.provider = "pop3" => Cardinality(marked) <= done /\ done < Count
    BY <1>1 DEF Counted, InHand
  <2>3. QED
    BY <1>1, <1>3, <2>1, <2>2 DEF Counted, InHand
<1>13. QED
  BY <1>7, <1>8, <1>9, <1>10, <1>11, <1>12

\* Another client flags a message.
LEMMA OtherFlagsIInv == IInv /\ OtherFlags => IInv'
<1> SUFFICES ASSUME IInv, OtherFlags PROVE IInv'
  OBVIOUS
<1> USE DEF IInv, OtherFlags, frozen, fixed, loop, files
<1>1. TypeOK' /\ Counted'
  BY DEF TypeOK, Counted
<1>2. Selection' /\ Gone' /\ Checked'
  BY DEF Selection, RemovesOnlySelected, Gone, Checked, Others
<1>3. Saved'
  BY DEF Saved, Safe, Overwritten, Exporting
<1>4. QED
  BY <1>1, <1>2, <1>3

LEMMA StutterIInv == IInv /\ UNCHANGED vars => IInv'
BY DEF IInv, vars, frozen, fixed, loop, server, files, TypeOK, Selection, RemovesOnlySelected, Gone,
       Checked, Others, Saved, Safe, Overwritten, Exporting, Counted

\* The inductive invariant.
THEOREM Inductive == Spec => []IInv
<1>1. IInv /\ [Next]_vars => IInv'
  BY LoopIInv, ExportIInv, CutIInv, RemoveIInv, ImapIInv, OtherFlagsIInv, StutterIInv DEF Next
<1>2. QED
  BY InitIInv, <1>1, PTL DEF Spec

-----------------------------------------------------------------------------
\* The variables stay in their ranges.
THEOREM TypeCorrect == Spec => []TypeOK
<1>1. IInv => TypeOK
  BY DEF IInv
<1>2. QED
  BY <1>1, Inductive, PTL

\* What an export removed is on disk, unless its file was given to another.
THEOREM ExportsArePreserved == Spec => []Preserved
<1>1. IInv => Preserved
  BY DEF IInv, Saved, Safe, Preserved
<1>2. QED
  BY <1>1, Inductive, PTL

\* Nothing is removed that no run had listed.
THEOREM OnlySelectedIsRemoved == Spec => []RemovesOnlySelected
<1>1. IInv => RemovesOnlySelected
  BY DEF IInv, Selection
<1>2. QED
  BY <1>1, Inductive, PTL

\* A POP3 session marks no more than --count messages.
THEOREM CountIsRespected == Spec => []CountRespected
<1>1. IInv => CountRespected
  <2> SUFFICES ASSUME IInv PROVE Cardinality(marked) <= Count
    BY DEF CountRespected
  <2>1. IsFiniteSet(marked) /\ Count \in Nat \ {0} /\ done \in Nat
    BY ArchiveAssumption DEF IInv, TypeOK, Counted
  <2>2. Cardinality(marked) \in Nat /\ Cardinality({}) = 0
    BY <2>1, FS_CardinalityType, FS_EmptySet
  <2>3. QED
    BY <2>1, <2>2 DEF IInv, Counted
<1>2. QED
  BY <1>1, Inductive, PTL

\* A SUCCESS row is true when it is written.
THEOREM SuccessRowsAreTrue == Spec => RowsAreTrue
<1>1. IInv /\ [Next]_vars =>
        [\A m \in claimed' \ claimed :
           /\ Exporting => disk'[name[m]] = m \/ m \in cut'
           /\ ~Exporting \/ tool.delete => m \notin inbox' \/ m \in marked']_vars
  <2> SUFFICES ASSUME IInv, Next, NEW m \in claimed' \ claimed
               PROVE  /\ Exporting => disk'[name[m]] = m \/ m \in cut'
                      /\ ~Exporting \/ tool.delete => m \notin inbox' \/ m \in marked'
    OBVIOUS
  <2> USE DEF Row, Goto, loop, frozen, fixed, server, files
  <2>1. CASE WriteBody
    <3>1. m = cur /\ disk' = [disk EXCEPT ![name[cur]] = cur] /\ ~tool.delete /\ pc = "write"
      BY <2>1 DEF WriteBody
    <3>2. cur \in Msgs /\ Exporting
      BY <3>1 DEF IInv, TypeOK, Saved
    <3>3. QED
      BY <3>1, <3>2 DEF IInv, TypeOK
  <2>2. CASE Dele \/ Remove
    <3>1. m = cur /\ disk' = disk /\ pc = "delete" /\ (m \notin inbox' \/ m \in marked')
      BY <2>2 DEF Dele, Remove
    <3>2. QED
      BY <3>1 DEF IInv, Saved, Removing
  <2>3. CASE Expunge
    <3>1. m = cur /\ disk' = disk /\ pc = "expunge" /\ inbox' = inbox \ Expunged
      BY <2>3 DEF Expunge
    <3>2. m \notin inbox'
      BY <3>1 DEF IInv, Gone, Expunged
    <3>3. QED
      BY <3>1, <3>2 DEF IInv, Saved, Removing
  <2>4. CASE FetchCut
    <3>1. m = cur /\ cur \in cut' /\ ~tool.delete /\ pc = "fetch"
      BY <2>4 DEF FetchCut
    <3>2. Exporting
      BY <3>1 DEF IInv, Saved
    <3>3. QED
      BY <3>1, <3>2
  <2>5. QED
    <3>1. WriteBody \/ Dele \/ Remove \/ Expunge \/ FetchCut
      BY DEF Next, StartRun, NextMessage, Fetch, OpenFile, Quit, CheckDeleted, StoreFlag,
             EndRun, Crash, OtherFlags
    <3>2. QED
      BY <3>1, <2>1, <2>2, <2>3, <2>4
<1>2. QED
  BY <1>1, Inductive, PTL DEF Spec, RowsAreTrue
=============================================================================
