------------------------------- MODULE ActionLog -------------------------------
(***************************************************************************)
(* The action log (internal/common/logger): one file per tool, action and  *)
(* day, which every run of the action, and in serve mode every request,    *)
(* opens for appending.  A writer asks whether the file is empty, writes   *)
(* the header if so, then its rows, and closes.  A CSV writer buffers and  *)
(* flushes; a JSON writer writes through, the line and its newline apart.  *)
(* Writers run at the same time, writes fail, processes are killed.        *)
(***************************************************************************)
EXTENDS Integers, Sequences, FiniteSets, SequencesExt

CONSTANTS Writers,      \* runs of the action, or requests to serve
          Formats,      \* formats to explore: "csv", "json"
          Declares,     \* whether the action declares its columns
          FlushEvery,   \* CSVLogger.flushEvery
          MaxRows       \* bound on the rows of one writer

ASSUME LogAssumption ==
    /\ Formats \subseteq {"csv", "json"}
    /\ Declares \subseteq BOOLEAN
    /\ FlushEvery \in Nat \ {0}
    /\ MaxRows \in Nat

VARIABLES
    format,     \* of the file; fixed
    declares,   \* the action calls ShouldWriteHeader and WriteHeader; fixed
    pc,         \* "new", "check", "header", "rows", "newline", "closed", "dead"
    columns,    \* JSON: the writer knows its columns
    buffer,     \* CSV: pieces not yet in the file
    broken,     \* CSV: a write has failed, and every later one fails too
    rowCount,   \* rows the logger has counted
    offered,    \* rows the action has given to WriteRow
    failed,     \* history: some call of the logger has returned an error
    file        \* what is in the file: a sequence of pieces

vars == <<format, declares, pc, columns, buffer, broken, rowCount, offered,
          failed, file>>

\* A line is two pieces: where a write may end in the middle of it, or JSON
\* writes its newline.  The header is line 0.
Piece == [who : Writers, line : 0..MaxRows, half : {1, 2}]

Line(w, n) == <<[who |-> w, line |-> n, half |-> 1],
                [who |-> w, line |-> n, half |-> 2]>>

Init ==
    /\ format \in Formats
    /\ declares \in Declares
    /\ pc = [w \in Writers |-> "new"]
    /\ columns = [w \in Writers |-> FALSE]
    /\ buffer = [w \in Writers |-> <<>>]
    /\ broken = [w \in Writers |-> FALSE]
    /\ rowCount = [w \in Writers |-> 0]
    /\ offered = [w \in Writers |-> 0]
    /\ failed = [w \in Writers |-> FALSE]
    /\ file = <<>>

-----------------------------------------------------------------------------
Active(w) == pc[w] \notin {"new", "closed", "dead"}

Goto(w, s) == pc' = [pc EXCEPT ![w] = s]

\* Mutant: only the first writer to open the file finds it new.
EmptyExists(w) == \A x \in Writers \ {w} : pc[x] = "new"

\* ShouldWriteHeader: for both formats, the size of the file as it is now.
Empty(w) == file = <<>>

\* Mutant: the buffer is flushed by the clock and on Close only.
FlushDueNever(n) == FALSE

\* WriteRow flushes after every FlushEvery rows.
FlushDue(n) == n % FlushEvery = 0

\* Mutant: what could not be written is dropped and the next rows go out.
FlushDropping(w, pending) ==
    /\ buffer' = [buffer EXCEPT ![w] = <<>>]
    /\ UNCHANGED broken
    /\ \/ file' = file \o pending /\ UNCHANGED failed
       \/ /\ \E k \in 0..(Len(pending) - 1) : file' = file \o SubSeq(pending, 1, k)
          /\ failed' = [failed EXCEPT ![w] = TRUE]

\* Flush pending pieces: all of them get to the file, or the write fails and
\* a part of them does.  The csv and bufio writers keep their first error.
Flush(w, pending) ==
    \/ /\ file' = file \o pending
       /\ buffer' = [buffer EXCEPT ![w] = <<>>]
       /\ UNCHANGED <<broken, failed>>
    \/ /\ \E k \in 0..(Len(pending) - 1) :
              /\ file' = file \o SubSeq(pending, 1, k)
              /\ buffer' = [buffer EXCEPT ![w] = SubSeq(pending, k + 1, Len(pending))]
       /\ broken' = [broken EXCEPT ![w] = TRUE]
       /\ failed' = [failed EXCEPT ![w] = TRUE]

\* NewCSVLogger, NewJSONLogger: open or create, for appending.
Open(w) ==
    /\ pc[w] = "new"
    /\ Goto(w, IF declares THEN "check" ELSE "rows")
    /\ UNCHANGED <<format, declares, columns, buffer, broken, rowCount, offered,
                   failed, file>>

\* ShouldWriteHeader.
Check(w) ==
    /\ pc[w] = "check"
    /\ Goto(w, IF Empty(w) THEN "header" ELSE "rows")
    /\ UNCHANGED <<format, declares, columns, buffer, broken, rowCount, offered,
                   failed, file>>

\* WriteHeader: CSV writes the line and flushes it, JSON keeps the names.  The
\* action only logs an error and goes on.
WriteHeader(w) ==
    /\ pc[w] = "header"
    /\ Goto(w, "rows")
    /\ IF format = "csv"
       THEN Flush(w, Line(w, 0)) /\ UNCHANGED columns
       ELSE /\ columns' = [columns EXCEPT ![w] = TRUE]
            /\ UNCHANGED <<buffer, broken, failed, file>>
    /\ UNCHANGED <<format, declares, rowCount, offered>>

\* CSVLogger.WriteRow.  The row joins the buffer, which goes to the file when
\* FlushEvery rows are in it, when it is full, in the middle of a row, or when
\* five seconds have passed.
WriteRowCSV(w) ==
    /\ format = "csv"
    /\ pc[w] = "rows"
    /\ offered[w] < MaxRows
    /\ offered' = [offered EXCEPT ![w] = @ + 1]
    /\ \/ /\ broken[w]
          /\ failed' = [failed EXCEPT ![w] = TRUE]
          /\ UNCHANGED <<buffer, broken, rowCount, file>>
       \/ /\ ~broken[w]
          /\ rowCount' = [rowCount EXCEPT ![w] = @ + 1]
          /\ LET pending == buffer[w] \o Line(w, offered'[w])
             IN  \/ Flush(w, pending)
                 \/ /\ ~FlushDue(rowCount'[w])
                    /\ buffer' = [buffer EXCEPT ![w] = pending]
                    /\ UNCHANGED <<broken, failed, file>>
                 \/ /\ ~FlushDue(rowCount'[w])
                    /\ file' = file \o Front(pending)
                    /\ buffer' = [buffer EXCEPT ![w] = <<Last(pending)>>]
                    /\ UNCHANGED <<broken, failed>>
    /\ UNCHANGED <<format, declares, pc, columns>>

\* Mutant: the row is counted here too.
WriteRowJSONCounting(w) ==
    /\ format = "json"
    /\ pc[w] = "rows"
    /\ offered[w] < MaxRows
    /\ offered' = [offered EXCEPT ![w] = @ + 1]
    /\ rowCount' = [rowCount EXCEPT ![w] = @ + 1]
    /\ \/ /\ columns[w]
          /\ Goto(w, "newline")
          /\ file' = Append(file, Line(w, offered'[w])[1])
          /\ UNCHANGED failed
       \/ failed' = [failed EXCEPT ![w] = TRUE] /\ UNCHANGED <<pc, file>>
    /\ UNCHANGED <<format, declares, columns, buffer, broken>>

\* JSONLogger.WriteRow up to the object: an error without columns, or when the
\* write fails, whole or half way.
WriteRowJSON(w) ==
    /\ format = "json"
    /\ pc[w] = "rows"
    /\ offered[w] < MaxRows
    /\ offered' = [offered EXCEPT ![w] = @ + 1]
    /\ \/ /\ columns[w]
          /\ Goto(w, "newline")
          /\ file' = Append(file, Line(w, offered'[w])[1])
          /\ UNCHANGED failed
       \/ /\ failed' = [failed EXCEPT ![w] = TRUE]
          /\ file' \in {file} \cup
               IF columns[w] THEN {Append(file, Line(w, offered'[w])[1])} ELSE {}
          /\ UNCHANGED pc
    /\ UNCHANGED <<format, declares, columns, buffer, broken, rowCount>>

\* ... and the newline, which counts the row; syncing the file may fail after it.
WriteNewline(w) ==
    /\ pc[w] = "newline"
    /\ Goto(w, "rows")
    /\ \/ /\ file' = Append(file, Line(w, offered[w])[2])
          /\ rowCount' = [rowCount EXCEPT ![w] = @ + 1]
          /\ failed' \in {failed, [failed EXCEPT ![w] = TRUE]}
       \/ /\ failed' = [failed EXCEPT ![w] = TRUE]
          /\ UNCHANGED <<file, rowCount>>
    /\ UNCHANGED <<format, declares, columns, buffer, broken, offered>>

\* Mutant: Close leaves the buffer alone.
CloseUnflushed(w) ==
    /\ pc[w] = "rows"
    /\ Goto(w, "closed")
    /\ UNCHANGED <<format, declares, columns, buffer, broken, rowCount, offered,
                   failed, file>>

\* Close, deferred: CSV flushes what is left, JSON syncs, which may fail.
Close(w) ==
    /\ pc[w] = "rows"
    /\ Goto(w, "closed")
    /\ \/ /\ format = "csv" /\ ~broken[w]
          /\ Flush(w, buffer[w])
       \/ /\ format = "csv" /\ broken[w]
          /\ failed' = [failed EXCEPT ![w] = TRUE]
          /\ UNCHANGED <<buffer, broken, file>>
       \/ /\ format = "json"
          /\ failed' \in {failed, [failed EXCEPT ![w] = TRUE]}
          /\ UNCHANGED <<buffer, broken, file>>
    /\ UNCHANGED <<format, declares, columns, rowCount, offered>>

\* The process is killed: what it had buffered is gone.
Crash(w) ==
    /\ Active(w)
    /\ Goto(w, "dead")
    /\ buffer' = [buffer EXCEPT ![w] = <<>>]
    /\ UNCHANGED <<format, declares, columns, broken, rowCount, offered, failed,
                   file>>

Next == \E w \in Writers :
            \/ Open(w) \/ Check(w) \/ WriteHeader(w) \/ WriteRowCSV(w)
            \/ WriteRowJSON(w) \/ WriteNewline(w) \/ Close(w) \/ Crash(w)

Spec == Init /\ [][Next]_vars

-----------------------------------------------------------------------------
\* Every variable stays in its range; only CSV buffers.
TypeOK ==
    /\ format \in Formats
    /\ declares \in Declares
    /\ pc \in [Writers -> {"new", "check", "header", "rows", "newline",
                           "closed", "dead"}]
    /\ columns \in [Writers -> BOOLEAN]
    /\ buffer \in [Writers -> Seq(Piece)]
    /\ broken \in [Writers -> BOOLEAN]
    /\ rowCount \in [Writers -> 0..MaxRows]
    /\ offered \in [Writers -> 0..MaxRows]
    /\ failed \in [Writers -> BOOLEAN]
    /\ file \in Seq(Piece)

\* Where a piece comes in what its writer has written.
Pos(p) == 2 * p.line + p.half

\* The line numbers of w whose text is in the file, to the end.
Whole(w) == {n \in 1..MaxRows : \E i \in DOMAIN file : file[i] = Line(w, n)[2]}

\* The first line of a CSV file is the header, whoever writes when and whatever
\* fails: a row never gets there first (csv.go 70-78, 127-133).
HeaderFirst ==
    format = "csv" /\ declares /\ file # <<>> => file[1].line = 0

\* A writer that closed and never saw an error has all its rows in the file
\* (csv.go 110-123, json.go 84-131).
ClosedIsComplete ==
    \A w \in Writers :
        pc[w] = "closed" /\ ~failed[w] => Whole(w) = 1..offered[w]

\* The lines of a writer are in the file in the order it wrote them and each at
\* most once, and a CSV writer leaves no gap between them: after a failed write
\* nothing more of it appears (csv.go 83-108).
InOrder ==
    \A w \in Writers : \A i, j \in DOMAIN file :
        i < j /\ file[i].who = w /\ file[j].who = w =>
            /\ Pos(file[i]) < Pos(file[j])
            /\ format = "csv" /\ (\A k \in (i + 1)..(j - 1) : file[k].who # w)
                  => Pos(file[j]) = Pos(file[i]) + 1

\* What dies with a process is less than FlushEvery rows of CSV, and none of
\* JSON, as long as no write has failed (csv.go 83-108, json.go 110-119).
BoundedLoss ==
    \A w \in Writers :
        ~failed[w] =>
            rowCount[w] - Cardinality(Whole(w))
                <= IF format = "csv" THEN FlushEvery - 1 ELSE 0

\* json.go 149: "For JSON logs, this always returns true since we need to set
\* column names."
JsonAsksForColumns ==
    format = "json" /\ declares =>
        \A w \in Writers : pc[w] = "rows" => columns[w]
=============================================================================
