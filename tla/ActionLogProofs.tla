--------------------------- MODULE ActionLogProofs ---------------------------
(***************************************************************************)
(* What holds of ActionLog for any number of writers, any flush interval   *)
(* and any number of rows: the variables stay in their ranges, no row gets *)
(* into a CSV file before the header, the lines of a writer are in the     *)
(* order it wrote them, those of a writer that closed without an error are *)
(* all there, and what a killed one loses is less than a flush interval.   *)
(***************************************************************************)
EXTENDS ActionLog, FiniteSetTheorems, TLAPS

\* A writer gets to its rows past a file that is not empty, or with a write of
\* the header that failed and lets nothing of it through any more.
PastHeader ==
    format = "csv" /\ declares =>
        \A w \in Writers : pc[w] = "rows" => file # <<>> \/ broken[w]

\* The rows counted are rows offered; a newline pending is of the last of them.
Counting ==
    \A w \in Writers :
        /\ rowCount[w] <= offered[w]
        /\ pc[w] = "newline" => format = "json" /\ rowCount[w] < offered[w]

IInv == TypeOK /\ PastHeader /\ HeaderFirst /\ Counting

-----------------------------------------------------------------------------
LEMMA LineType ==
    ASSUME NEW w \in Writers, NEW n \in 0..MaxRows
    PROVE  /\ Line(w, n) \in Seq(Piece)
           /\ Len(Line(w, n)) = 2
           /\ Line(w, n)[1].line = n
           /\ Line(w, n)[1] \in Piece /\ Line(w, n)[2] \in Piece
BY DEF Line, Piece

\* A flush appends to the file, and takes what it appends from the pieces given.
LEMMA FlushEffect ==
    ASSUME TypeOK, NEW w \in Writers, NEW pending \in Seq(Piece), Flush(w, pending)
    PROVE  /\ file' \in Seq(Piece)
           /\ buffer' \in [Writers -> Seq(Piece)]
           /\ broken' \in [Writers -> BOOLEAN] /\ failed' \in [Writers -> BOOLEAN]
           /\ file # <<>> => file' # <<>> /\ file'[1] = file[1]
           /\ file = <<>> /\ file' # <<>> => file'[1] = pending[1]
           /\ file' # <<>> \/ pending = <<>> \/ broken'[w]
           /\ \A x \in Writers : broken[x] => broken'[x]
<1>1. file \in Seq(Piece) /\ Len(pending) \in Nat
  BY DEF TypeOK
<1>2. CASE file' = file \o pending /\ buffer' = [buffer EXCEPT ![w] = <<>>]
           /\ UNCHANGED <<broken, failed>>
  <2>1. buffer' \in [Writers -> Seq(Piece)] /\ UNCHANGED <<broken, failed>>
    BY <1>2 DEF TypeOK
  <2>2. file' \in Seq(Piece)
    BY <1>1, <1>2
  <2>3. file # <<>> => file' # <<>> /\ file'[1] = file[1]
    BY <1>1, <1>2
  <2>4. file = <<>> => file' = pending
    BY <1>1, <1>2
  <2>5. file' # <<>> \/ pending = <<>>
    BY <2>3, <2>4
  <2>6. QED
    BY <2>1, <2>2, <2>3, <2>4, <2>5 DEF TypeOK
<1>3. CASE \E k \in 0..(Len(pending) - 1) :
              /\ file' = file \o SubSeq(pending, 1, k)
              /\ buffer' = [buffer EXCEPT ![w] = SubSeq(pending, k + 1, Len(pending))]
              /\ broken' = [broken EXCEPT ![w] = TRUE]
              /\ failed' = [failed EXCEPT ![w] = TRUE]
  <2>1. PICK k \in 0..(Len(pending) - 1) :
              /\ file' = file \o SubSeq(pending, 1, k)
              /\ buffer' = [buffer EXCEPT ![w] = SubSeq(pending, k + 1, Len(pending))]
              /\ broken' = [broken EXCEPT ![w] = TRUE]
              /\ failed' = [failed EXCEPT ![w] = TRUE]
    BY <1>3
  <2>2. SubSeq(pending, 1, k) \in Seq(Piece) /\ SubSeq(pending, k + 1, Len(pending)) \in Seq(Piece)
        /\ Len(SubSeq(pending, 1, k)) = k
        /\ (k > 0 => SubSeq(pending, 1, k)[1] = pending[1])
    BY <1>1
  <2>3. /\ buffer' \in [Writers -> Seq(Piece)]
        /\ broken' \in [Writers -> BOOLEAN] /\ failed' \in [Writers -> BOOLEAN]
        /\ broken'[w] /\ \A x \in Writers : broken[x] => broken'[x]
    BY <2>1, <2>2 DEF TypeOK
  <2>4. file' \in Seq(Piece)
    BY <1>1, <2>1, <2>2
  <2>5. file # <<>> => file' # <<>> /\ file'[1] = file[1]
    BY <1>1, <2>1, <2>2
  <2>6. file = <<>> => file' = SubSeq(pending, 1, k)
    BY <1>1, <2>1, <2>2
  <2>7. file = <<>> /\ file' # <<>> => file'[1] = pending[1]
    BY <2>2, <2>6
  <2>8. QED
    BY <2>3, <2>4, <2>5, <2>7
<1>4. QED
  BY <1>2, <1>3 DEF Flush

-----------------------------------------------------------------------------
LEMMA InitIInv == Init => IInv
<1> SUFFICES ASSUME Init PROVE IInv
  OBVIOUS
<1> USE DEF Init
<1>1. TypeOK
  <2>1. MaxRows \in Nat
    BY LogAssumption
  <2>2. buffer \in [Writers -> Seq(Piece)] /\ file \in Seq(Piece)
    OBVIOUS
  <2>3. rowCount \in [Writers -> 0..MaxRows] /\ offered \in [Writers -> 0..MaxRows]
    BY <2>1
  <2>4. columns \in [Writers -> BOOLEAN] /\ broken \in [Writers -> BOOLEAN]
        /\ failed \in [Writers -> BOOLEAN]
    OBVIOUS
  <2>5. QED
    BY <2>2, <2>3, <2>4 DEF TypeOK
<1>2. PastHeader /\ HeaderFirst /\ Counting
  BY DEF PastHeader, HeaderFirst, Counting
<1>3. QED
  BY <1>1, <1>2 DEF IInv

\* Opening and checking write nothing; a dying process drops its buffer.
LEMMA QuietIInv ==
    ASSUME IInv, NEW w \in Writers, Open(w) \/ Check(w) \/ Crash(w)
    PROVE  IInv'
<1> USE DEF IInv, Goto
<1>1. /\ UNCHANGED <<format, declares, columns, broken, rowCount, offered, failed, file>>
      /\ \E s \in {"check", "rows", "header", "dead"} :
            /\ pc' = [pc EXCEPT ![w] = s]
            /\ s = "rows" => ~declares \/ file # <<>>
  BY DEF Open, Check, Crash, Empty
<1>2. buffer' \in [Writers -> Seq(Piece)]
  <2>1. buffer' \in {buffer, [buffer EXCEPT ![w] = <<>>]}
    BY DEF Open, Check, Crash
  <2>2. <<>> \in Seq(Piece)
    OBVIOUS
  <2>3. QED
    BY <2>1, <2>2 DEF TypeOK
<1>4. TypeOK'
  BY <1>1, <1>2 DEF TypeOK
<1>5. PastHeader' /\ HeaderFirst' /\ Counting'
  BY <1>1 DEF TypeOK, PastHeader, HeaderFirst, Counting
<1>6. QED
  BY <1>4, <1>5

\* The first piece of the header goes in before anything else of this writer.
LEMMA WriteHeaderIInv ==
    ASSUME IInv, NEW w \in Writers, WriteHeader(w)
    PROVE  IInv'
<1> USE DEF IInv, Goto
<1>1. /\ pc' = [pc EXCEPT ![w] = "rows"]
      /\ UNCHANGED <<format, declares, rowCount, offered>>
  BY DEF WriteHeader
<1>2. CASE format = "csv"
  <2>1. Flush(w, Line(w, 0)) /\ UNCHANGED columns
    BY <1>2 DEF WriteHeader
  <2>2. /\ Line(w, 0) \in Seq(Piece) /\ Line(w, 0) # <<>>
        /\ Line(w, 0)[1].line = 0
    BY LogAssumption, LineType
  <2>3. /\ file' \in Seq(Piece)
        /\ buffer' \in [Writers -> Seq(Piece)]
        /\ broken' \in [Writers -> BOOLEAN] /\ failed' \in [Writers -> BOOLEAN]
        /\ file # <<>> => file' # <<>> /\ file'[1] = file[1]
        /\ file = <<>> /\ file' # <<>> => file'[1] = Line(w, 0)[1]
        /\ file' # <<>> \/ broken'[w]
        /\ \A x \in Writers : broken[x] => broken'[x]
    BY <2>1, <2>2, FlushEffect
  <2>4. TypeOK'
    BY <1>1, <2>1, <2>3 DEF TypeOK
  <2>5. HeaderFirst'
    BY <1>1, <2>2, <2>3 DEF HeaderFirst
  <2>6. PastHeader' /\ Counting'
    BY <1>1, <2>3 DEF TypeOK, PastHeader, Counting
  <2>7. QED
    BY <2>4, <2>5, <2>6
<1>3. CASE format # "csv"
  <2>1. columns' = [columns EXCEPT ![w] = TRUE] /\ UNCHANGED <<buffer, broken, failed, file>>
    BY <1>3 DEF WriteHeader
  <2>2. TypeOK'
    BY <1>1, <2>1 DEF TypeOK
  <2>3. PastHeader' /\ HeaderFirst' /\ Counting'
    BY <1>1, <1>3, <2>1 DEF TypeOK, PastHeader, HeaderFirst, Counting
  <2>4. QED
    BY <2>2, <2>3
<1>4. QED
  BY <1>2, <1>3

\* A row and the flush on closing add to a file that has its header.
LEMMA WriteCSVIInv ==
    ASSUME IInv, NEW w \in Writers, WriteRowCSV(w) \/ (format = "csv" /\ Close(w))
    PROVE  IInv'
<1> USE DEF IInv, Goto
<1>1. /\ format = "csv" /\ pc[w] = "rows"
      /\ UNCHANGED <<format, declares, columns>>
      /\ pc' = pc \/ pc' = [pc EXCEPT ![w] = "closed"]
  BY DEF WriteRowCSV, Close
<1>2. /\ offered' \in [Writers -> 0..MaxRows] /\ rowCount' \in [Writers -> 0..MaxRows]
      /\ \A x \in Writers : rowCount'[x] <= offered'[x]
  <2>1. MaxRows \in Nat
    BY LogAssumption
  <2>2. CASE Close(w)
    BY <2>2 DEF Close, TypeOK, Counting
  <2>3. CASE WriteRowCSV(w)
    <3>1. offered[w] < MaxRows /\ offered' = [offered EXCEPT ![w] = @ + 1]
          /\ rowCount' \in {rowCount, [rowCount EXCEPT ![w] = @ + 1]}
      BY <2>3 DEF WriteRowCSV
    <3>2. /\ rowCount[w] \in 0..MaxRows /\ offered[w] \in 0..MaxRows
          /\ rowCount[w] <= offered[w]
      BY DEF TypeOK, Counting
    <3>3. offered[w] + 1 \in 0..MaxRows /\ rowCount[w] + 1 \in 0..MaxRows
      BY <3>1, <3>2, <2>1
    <3>4. offered' \in [Writers -> 0..MaxRows] /\ rowCount' \in [Writers -> 0..MaxRows]
      BY <3>1, <3>3 DEF TypeOK
    <3>5. \A x \in Writers : rowCount'[x] <= offered'[x]
      BY <3>1, <3>2, <2>1 DEF TypeOK, Counting
    <3>6. QED
      BY <3>4, <3>5
  <2>4. QED
    BY <2>2, <2>3
<1>3. /\ file' \in Seq(Piece)
      /\ buffer' \in [Writers -> Seq(Piece)]
      /\ broken' \in [Writers -> BOOLEAN] /\ failed' \in [Writers -> BOOLEAN]
      /\ \A x \in Writers : broken[x] => broken'[x]
      /\ file # <<>> => file' # <<>> /\ file'[1] = file[1]
      /\ file' = file \/ ~broken[w]
  <2>1. buffer[w] \in Seq(Piece)
    BY DEF TypeOK
  <2>2. CASE Close(w)
    <3>1. CASE ~broken[w] /\ Flush(w, buffer[w])
      BY <3>1, <2>1, FlushEffect
    <3>2. CASE failed' = [failed EXCEPT ![w] = TRUE] /\ UNCHANGED <<buffer, broken, file>>
      BY <3>2 DEF TypeOK
    <3>3. QED
      BY <3>1, <3>2, <2>2, <1>1 DEF Close
  <2>3. CASE WriteRowCSV(w)
    <3> DEFINE pending == buffer[w] \o Line(w, offered'[w])
    <3>1. offered'[w] \in 0..MaxRows
      BY <1>2
    <3>2. Line(w, offered'[w]) \in Seq(Piece) /\ Len(Line(w, offered'[w])) = 2
      BY <3>1, LineType
    <3>3. pending \in Seq(Piece) /\ Len(pending) \in Nat /\ Len(pending) >= 2
      <4>1. \A a, b \in Seq(Piece) : a \o b \in Seq(Piece)
                                     /\ Len(a \o b) = Len(a) + Len(b)
        OBVIOUS
      <4>2. Len(buffer[w]) \in Nat
        BY <2>1
      <4>3. pending \in Seq(Piece) /\ Len(pending) = Len(buffer[w]) + 2
        BY <4>1, <3>2, <2>1
      <4>4. QED
        BY <4>2, <4>3
    <3>4. \/ ~broken[w] /\ Flush(w, pending)
          \/ /\ failed' \in {failed, [failed EXCEPT ![w] = TRUE]}
             /\ buffer' \in {buffer, [buffer EXCEPT ![w] = pending]}
             /\ UNCHANGED <<broken, file>>
          \/ /\ ~broken[w]
             /\ file' = file \o Front(pending)
             /\ buffer' = [buffer EXCEPT ![w] = <<Last(pending)>>]
             /\ UNCHANGED <<broken, failed>>
      BY <2>3 DEF WriteRowCSV
    <3> HIDE DEF pending
    <3>5. CASE ~broken[w] /\ Flush(w, pending)
      BY <3>5, <3>3, FlushEffect
    <3>6. CASE /\ failed' \in {failed, [failed EXCEPT ![w] = TRUE]}
               /\ buffer' \in {buffer, [buffer EXCEPT ![w] = pending]}
               /\ UNCHANGED <<broken, file>>
      BY <3>3, <3>6 DEF TypeOK
    <3>7. CASE /\ ~broken[w]
               /\ file' = file \o Front(pending)
               /\ buffer' = [buffer EXCEPT ![w] = <<Last(pending)>>]
               /\ UNCHANGED <<broken, failed>>
      <4>1. Front(pending) \in Seq(Piece) /\ Last(pending) \in Piece
        BY <3>3 DEF Front, Last
      <4>2. file' \in Seq(Piece) /\ (file # <<>> => file' # <<>> /\ file'[1] = file[1])
        BY <3>7, <4>1 DEF TypeOK
      <4>3. buffer' \in [Writers -> Seq(Piece)]
        BY <3>7, <4>1 DEF TypeOK
      <4>4. QED
        BY <3>7, <4>2, <4>3 DEF TypeOK
    <3>8. QED
      BY <3>4, <3>5, <3>6, <3>7
  <2>4. QED
    BY <2>2, <2>3
<1>4. TypeOK'
  BY <1>1, <1>2, <1>3 DEF TypeOK
<1>5. HeaderFirst'
  <2>1. declares /\ file' # file => file # <<>>
    BY <1>1, <1>3 DEF PastHeader
  <2>2. QED
    BY <2>1, <1>1, <1>3 DEF HeaderFirst
<1>6. PastHeader' /\ Counting'
  BY <1>1, <1>2, <1>3 DEF TypeOK, PastHeader, Counting
<1>7. QED
  BY <1>4, <1>5, <1>6

\* JSON: the object, its newline, and the sync on closing.
LEMMA WriteJSONIInv ==
    ASSUME IInv, NEW w \in Writers,
           WriteRowJSON(w) \/ WriteNewline(w) \/ (format = "json" /\ Close(w))
    PROVE  IInv'
<1> USE DEF IInv, Goto
<1>1. format = "json" /\ UNCHANGED <<format, declares, columns, buffer, broken>>
  BY DEF WriteRowJSON, WriteNewline, Close, Counting
<1>2. \/ UNCHANGED file
      \/ \E n \in 0..MaxRows, h \in {1, 2} : file' = Append(file, Line(w, n)[h])
  <2>1. MaxRows \in Nat
    BY LogAssumption
  <2>2. CASE WriteRowJSON(w)
    <3>1. offered'[w] \in 0..MaxRows
      BY <2>1, <2>2 DEF WriteRowJSON, TypeOK
    <3>2. QED
      BY <2>2, <3>1 DEF WriteRowJSON
  <2>3. CASE WriteNewline(w)
    BY <2>3 DEF WriteNewline, TypeOK
  <2>4. CASE format = "json" /\ Close(w)
    BY <2>4 DEF Close
  <2>5. QED
    BY <2>2, <2>3, <2>4
<1>3. file' \in Seq(Piece)
  <2>1. file \in Seq(Piece)
    BY DEF TypeOK
  <2>2. \A n \in 0..MaxRows : \A h \in {1, 2} : Line(w, n)[h] \in Piece
    BY LineType
  <2>3. QED
    BY <1>2, <2>1, <2>2
<1>4. /\ offered' \in [Writers -> 0..MaxRows] /\ rowCount' \in [Writers -> 0..MaxRows]
      /\ failed' \in [Writers -> BOOLEAN]
      /\ pc' \in [Writers -> {"new", "check", "header", "rows", "newline", "closed", "dead"}]
      /\ Counting'
  <2>1. MaxRows \in Nat
    BY LogAssumption
  <2>2. CASE WriteRowJSON(w)
    <3>1. /\ pc[w] = "rows" /\ offered[w] < MaxRows
          /\ offered' = [offered EXCEPT ![w] = @ + 1] /\ rowCount' = rowCount
          /\ pc' \in {pc, [pc EXCEPT ![w] = "newline"]}
          /\ failed' \in {failed, [failed EXCEPT ![w] = TRUE]}
      BY <2>2 DEF WriteRowJSON
    <3>2. /\ rowCount[w] \in 0..MaxRows /\ offered[w] \in 0..MaxRows
          /\ rowCount[w] <= offered[w] /\ (pc[w] = "newline" => rowCount[w] < offered[w])
      BY DEF TypeOK, Counting
    <3>3. offered[w] + 1 \in 0..MaxRows
      BY <3>1, <3>2, <2>1
    <3>4. offered' \in [Writers -> 0..MaxRows] /\ rowCount' \in [Writers -> 0..MaxRows]
      BY <3>1, <3>3 DEF TypeOK
    <3>5. Counting'
      BY <3>1, <3>2, <2>1, <1>1 DEF TypeOK, Counting
    <3>6. QED
      BY <3>1, <3>4, <3>5 DEF TypeOK
  <2>3. CASE WriteNewline(w)
    <3>1. /\ pc[w] = "newline" /\ pc' = [pc EXCEPT ![w] = "rows"]
          /\ rowCount' \in {rowCount, [rowCount EXCEPT ![w] = @ + 1]} /\ offered' = offered
          /\ failed' \in {failed, [failed EXCEPT ![w] = TRUE]}
      BY <2>3 DEF WriteNewline
    <3>2. /\ rowCount[w] \in 0..MaxRows /\ offered[w] \in 0..MaxRows
          /\ rowCount[w] <= offered[w] /\ (pc[w] = "newline" => rowCount[w] < offered[w])
      BY DEF TypeOK, Counting
    <3>3. rowCount[w] + 1 \in 0..MaxRows
      BY <3>1, <3>2, <2>1
    <3>4. offered' \in [Writers -> 0..MaxRows] /\ rowCount' \in [Writers -> 0..MaxRows]
      BY <3>1, <3>3 DEF TypeOK
    <3>5. Counting'
      BY <3>1, <3>2, <2>1, <1>1 DEF TypeOK, Counting
    <3>6. QED
      BY <3>1, <3>4, <3>5 DEF TypeOK
  <2>4. CASE format = "json" /\ Close(w)
    BY <2>4 DEF Close, TypeOK, Counting
  <2>5. QED
    BY <2>2, <2>3, <2>4
<1>5. TypeOK'
  BY <1>1, <1>3, <1>4 DEF TypeOK
<1>6. PastHeader' /\ HeaderFirst'
  BY <1>1 DEF PastHeader, HeaderFirst
<1>7. QED
  BY <1>4, <1>5, <1>6

LEMMA StutterIInv == IInv /\ UNCHANGED vars => IInv'
BY DEF IInv, vars, TypeOK, PastHeader, HeaderFirst, Counting

\* The inductive invariant.
THEOREM Inductive == Spec => []IInv
<1>1. IInv /\ Next => IInv'
  <2> SUFFICES ASSUME IInv, NEW w \in Writers,
                      Open(w) \/ Check(w) \/ WriteHeader(w) \/ WriteRowCSV(w)
                        \/ WriteRowJSON(w) \/ WriteNewline(w) \/ Close(w) \/ Crash(w)
               PROVE  IInv'
    BY DEF Next
  <2>1. Close(w) => format \in {"csv", "json"}
    BY DEF Close
  <2>2. QED
    BY <2>1, QuietIInv, WriteHeaderIInv, WriteCSVIInv, WriteJSONIInv
<1>2. QED
  BY InitIInv, <1>1, StutterIInv, PTL DEF Spec

-----------------------------------------------------------------------------
\* The variables stay in their ranges.
THEOREM TypeCorrect == Spec => []TypeOK
<1>1. IInv => TypeOK
  BY DEF IInv
<1>2. QED
  BY <1>1, Inductive, PTL

\* No row gets into a CSV file before the header.
THEOREM HeaderComesFirst == Spec => []HeaderFirst
<1>1. IInv => HeaderFirst
  BY DEF IInv
<1>2. QED
  BY <1>1, Inductive, PTL

-----------------------------------------------------------------------------
(***************************************************************************)
(* What a writer has put into the file.  A piece has a place in what its   *)
(* writer has written (Pos).  The pieces of a writer that are in the file  *)
(* go up to some place; a CSV writer whose writes have not failed holds    *)
(* exactly the next ones in its buffer.                                    *)
(***************************************************************************)

InFile(w, n) == \E i \in 1..Len(file) : file[i].who = w /\ Pos(file[i]) = n

LastOf(w, i) == file[i].who = w /\ \A j \in (i + 1)..Len(file) : file[j].who # w

\* The pieces of w go up to place n; those of a CSV writer end there.
UpTo(w, n) ==
    \A i \in 1..Len(file) : file[i].who = w =>
        /\ Pos(file[i]) <= n
        /\ format = "csv" /\ LastOf(w, i) => Pos(file[i]) = n

\* The place of the last piece given to a CSV writer that is not in its buffer.
Base(w) == 2 * offered[w] + 2 - Len(buffer[w])

Absent(w) == \A i \in 1..Len(file) : file[i].who # w

\* A writer starts with nothing written and nothing failed.
Fresh(w) ==
    pc[w] \in {"new", "check", "header"} =>
        /\ offered[w] = 0 /\ rowCount[w] = 0 /\ buffer[w] = <<>>
        /\ ~broken[w] /\ ~failed[w] /\ Absent(w)

\* CSV: the buffer goes on where the file ends, and is less than FlushEvery rows.
Buffered(w) ==
    format = "csv" /\ ~broken[w] /\ pc[w] = "rows" =>
        /\ rowCount[w] = offered[w]
        /\ Len(buffer[w]) <= 2 * (rowCount[w] % FlushEvery)
        /\ \A i \in 1..Len(buffer[w]) :
              buffer[w][i].who = w /\ Pos(buffer[w][i]) = Base(w) + i
        /\ UpTo(w, Base(w))
        /\ \A n \in 1..MaxRows : 2 * n + 2 <= Base(w) => InFile(w, 2 * n + 2)

\* JSON: the newline of the last row is what may still be missing.
Owed(w) == IF pc[w] = "newline" THEN 1 ELSE 0

Through(w) ==
    format = "json" /\ pc[w] \in {"rows", "newline"} =>
        /\ UpTo(w, 2 * offered[w] + 2 - Owed(w))
        /\ ~failed[w] => rowCount[w] = offered[w] - Owed(w)

\* Rows counted since the last flush.
Unflushed(w) == IF format = "csv" THEN rowCount[w] % FlushEvery ELSE 0

\* All rows counted up to the last flush are in the file, also of a dead writer.
Saved(w) ==
    ~failed[w] =>
        \A n \in 1..MaxRows : n <= rowCount[w] - Unflushed(w) => InFile(w, 2 * n + 2)

Complete(w) ==
    pc[w] = "closed" /\ ~failed[w] =>
        \A n \in 1..MaxRows : InFile(w, 2 * n + 2) <=> n <= offered[w]

Part(w) == /\ Fresh(w) /\ Buffered(w) /\ Through(w) /\ Saved(w) /\ Complete(w)
           /\ broken[w] => failed[w]

PInv == InOrder /\ \A w \in Writers : Part(w)

-----------------------------------------------------------------------------
\* The file grows by n pieces of w, at the places after b.
Extends(w, b, n) ==
    /\ Len(file') = Len(file) + n
    /\ \A i \in 1..Len(file) : file'[i] = file[i]
    /\ \A i \in 1..n : file'[Len(file) + i].who = w /\ Pos(file'[Len(file) + i]) = b + i

\* Nothing of writer x changes but the file.
Still(x) ==
    /\ pc'[x] = pc[x] /\ buffer'[x] = buffer[x] /\ broken'[x] = broken[x]
    /\ rowCount'[x] = rowCount[x] /\ offered'[x] = offered[x] /\ failed'[x] = failed[x]

LEMMA FileLength ==
    ASSUME TypeOK
    PROVE  /\ Len(file) \in Nat /\ DOMAIN file = 1..Len(file)
           /\ \A i \in 1..Len(file) : file[i] \in Piece /\ Pos(file[i]) \in Nat
<1>1. file \in Seq(Piece) /\ MaxRows \in Nat
  BY LogAssumption DEF TypeOK
<1>2. \A i \in 1..Len(file) : file[i] \in Piece
  BY <1>1
<1>3. \A p \in Piece : Pos(p) \in Nat
  BY <1>1 DEF Piece, Pos
<1>4. Len(file) \in Nat
  BY <1>1
<1>5. DOMAIN file = 1..Len(file)
  BY <1>1
<1>6. QED
  BY <1>2, <1>3, <1>4, <1>5

\* An old piece is where it was, a new one is of w and at its place.
LEMMA ExtendsPieces ==
    ASSUME TypeOK, NEW w, NEW b \in Int, NEW n \in Nat, Extends(w, b, n)
    PROVE  \A i \in 1..Len(file') :
              \/ i \in 1..Len(file) /\ file'[i] = file[i]
              \/ /\ i - Len(file) \in 1..n
                 /\ file'[i].who = w /\ Pos(file'[i]) = b + (i - Len(file))
<1> TAKE i \in 1..Len(file')
<1>1. Len(file) \in Nat /\ Len(file') = Len(file) + n
  BY FileLength DEF Extends
<1>2. CASE i \in 1..Len(file)
  BY <1>2 DEF Extends
<1>3. CASE i \notin 1..Len(file)
  <2>1. i - Len(file) \in 1..n /\ Len(file) + (i - Len(file)) = i
    BY <1>1, <1>3
  <2>2. QED
    BY <2>1 DEF Extends
<1>4. QED
  BY <1>2, <1>3

LEMMA ExtendsOthers ==
    ASSUME TypeOK, NEW w, NEW b \in Int, NEW n \in Nat, Extends(w, b, n), format' = format,
           NEW x, x # w
    PROVE  /\ \A m \in Int : InFile(x, m)' <=> InFile(x, m)
           /\ \A m \in Int : UpTo(x, m)' <=> UpTo(x, m)
           /\ Absent(x) => Absent(x)'
<1>1. /\ Len(file) \in Nat /\ Len(file') = Len(file) + n
      /\ 1..Len(file) \subseteq 1..Len(file')
      /\ \A i \in 1..Len(file) : file'[i] = file[i]
  BY FileLength DEF Extends
<1>2. \A i \in 1..Len(file') : file'[i].who = x => i \in 1..Len(file)
  BY ExtendsPieces
<1>3. \A m \in Int : InFile(x, m)' <=> InFile(x, m)
  BY <1>1, <1>2 DEF InFile
<1>4. \A i \in 1..Len(file) : LastOf(x, i)' <=> LastOf(x, i)
  <2> TAKE i \in 1..Len(file)
  <2>1. ASSUME NEW j \in (i + 1)..Len(file)
        PROVE  j \in 1..Len(file) /\ j \in (i + 1)..Len(file')
    BY <1>1
  <2>2. ASSUME NEW j \in (i + 1)..Len(file'), file'[j].who = x
        PROVE  j \in (i + 1)..Len(file) /\ file'[j] = file[j]
    <3>1. j \in 1..Len(file')
      BY <1>1
    <3>2. j \in 1..Len(file) /\ file'[j] = file[j]
      BY <1>1, <1>2, <2>2, <3>1
    <3>3. QED
      BY <1>1, <3>2
  <2>3. QED
    BY <1>1, <2>1, <2>2 DEF LastOf
<1>5. \A m \in Int : UpTo(x, m)' <=> UpTo(x, m)
  BY <1>1, <1>2, <1>4 DEF UpTo
<1>6. Absent(x) => Absent(x)'
  BY <1>1, <1>2 DEF Absent
<1>7. QED
  BY <1>3, <1>5, <1>6

LEMMA ExtendsMine ==
    ASSUME TypeOK, NEW w, NEW b \in Int, NEW n \in Nat, Extends(w, b, n), format' = format,
           UpTo(w, b)
    PROVE  /\ UpTo(w, b + n)'
           /\ \A m \in Int : InFile(w, m)' <=> InFile(w, m) \/ m \in (b + 1)..(b + n)
<1>1. /\ Len(file) \in Nat /\ Len(file') = Len(file) + n
      /\ \A i \in 1..Len(file) : file'[i] = file[i] /\ Pos(file[i]) \in Nat
  BY FileLength DEF Extends
<1>2. ASSUME NEW i \in 1..Len(file'), file'[i].who = w
      PROVE  /\ Pos(file'[i]) <= b + n
             /\ format' = "csv" /\ LastOf(w, i)' => Pos(file'[i]) = b + n
  <2>1. CASE i \in 1..Len(file)
    <3>1. Pos(file'[i]) <= b + n
      BY <1>1, <1>2, <2>1 DEF UpTo
    <3>2. ASSUME format' = "csv", LastOf(w, i)'
          PROVE  Pos(file'[i]) = b + n
      <4>1. CASE n = 0
        <5>1. LastOf(w, i)
          BY <1>1, <2>1, <3>2, <4>1 DEF LastOf
        <5>2. QED
          BY <1>1, <1>2, <2>1, <3>2, <4>1, <5>1 DEF UpTo
      <4>2. CASE n # 0
        <5>1. Len(file) + 1 \in (i + 1)..Len(file') /\ 1 \in 1..n
          BY <1>1, <2>1, <4>2
        <5>2. file'[Len(file) + 1].who = w
          BY <5>1 DEF Extends
        <5>3. QED
          BY <3>2, <5>1, <5>2 DEF LastOf
      <4>3. QED
        BY <4>1, <4>2
    <3>3. QED
      BY <3>1, <3>2
  <2>2. CASE /\ i - Len(file) \in 1..n
             /\ Pos(file'[i]) = b + (i - Len(file))
    <3>1. Pos(file'[i]) <= b + n
      BY <1>1, <2>2
    <3>2. ASSUME LastOf(w, i)', i - Len(file) # n
          PROVE  FALSE
      <4>1. (i - Len(file)) + 1 \in 1..n /\ i + 1 \in (i + 1)..Len(file')
            /\ Len(file) + ((i - Len(file)) + 1) = i + 1
        BY <1>1, <2>2, <3>2
      <4>2. file'[i + 1].who = w
        BY <4>1 DEF Extends
      <4>3. QED
        BY <3>2, <4>1, <4>2 DEF LastOf
    <3>3. QED
      BY <2>2, <3>1, <3>2
  <2>3. QED
    BY <2>1, <2>2, ExtendsPieces
<1>3. UpTo(w, b + n)'
  BY <1>2 DEF UpTo
<1>4. ASSUME NEW m \in Int
      PROVE  InFile(w, m)' <=> InFile(w, m) \/ m \in (b + 1)..(b + n)
  <2>1. ASSUME NEW i \in 1..Len(file'), file'[i].who = w, Pos(file'[i]) = m
        PROVE  InFile(w, m) \/ m \in (b + 1)..(b + n)
    <3>1. CASE i \in 1..Len(file) /\ file'[i] = file[i]
      BY <2>1, <3>1 DEF InFile
    <3>2. CASE i - Len(file) \in 1..n /\ Pos(file'[i]) = b + (i - Len(file))
      BY <1>1, <2>1, <3>2
    <3>3. QED
      BY <3>1, <3>2, ExtendsPieces
  <2>2. InFile(w, m) => InFile(w, m)'
    BY <1>1 DEF InFile
  <2>3. ASSUME m \in (b + 1)..(b + n)
        PROVE  InFile(w, m)'
    <3>1. m - b \in 1..n /\ Len(file) + (m - b) \in 1..Len(file') /\ b + (m - b) = m
      BY <1>1, <2>3
    <3>2. file'[Len(file) + (m - b)].who = w /\ Pos(file'[Len(file) + (m - b)]) = m
      BY <3>1 DEF Extends
    <3>3. QED
      BY <3>1, <3>2 DEF InFile
  <2>4. QED
    BY <2>1, <2>2, <2>3 DEF InFile
<1>5. QED
  BY <1>3, <1>4

\* Pieces that go on where the writer's own pieces end keep the order.
LEMMA ExtendsOrder ==
    ASSUME TypeOK, TypeOK', InOrder, NEW w, NEW b \in Int, NEW n \in Nat,
           Extends(w, b, n), format' = format, UpTo(w, b)
    PROVE  InOrder'
<1>1. /\ Len(file) \in Nat /\ Len(file') = Len(file) + n /\ DOMAIN file = 1..Len(file)
      /\ \A i \in 1..Len(file) : file'[i] = file[i] /\ Pos(file[i]) \in Nat
  BY FileLength DEF Extends
<1>2. DOMAIN file' = 1..Len(file')
  BY DEF TypeOK
<1> SUFFICES ASSUME NEW x \in Writers, NEW i \in 1..Len(file'), NEW j \in 1..Len(file'),
                    i < j, file'[i].who = x, file'[j].who = x
             PROVE  /\ Pos(file'[i]) < Pos(file'[j])
                    /\ format' = "csv" /\ (\A k \in (i + 1)..(j - 1) : file'[k].who # x)
                          => Pos(file'[j]) = Pos(file'[i]) + 1
  BY <1>2 DEF InOrder
<1>3. CASE j \in 1..Len(file) /\ file'[j] = file[j]
  <2>1. i \in 1..Len(file) /\ file'[i] = file[i]
    BY <1>1, <1>3
  <2>2. \A k \in (i + 1)..(j - 1) : file'[k] = file[k]
    BY <1>1, <1>3, <2>1
  <2>3. /\ Pos(file[i]) < Pos(file[j])
        /\ format = "csv" /\ (\A k \in (i + 1)..(j - 1) : file[k].who # x)
              => Pos(file[j]) = Pos(file[i]) + 1
    <3>1. i \in DOMAIN file /\ j \in DOMAIN file /\ file[i].who = x /\ file[j].who = x
      BY <1>1, <1>3, <2>1
    <3>2. QED
      BY <3>1 DEF InOrder
  <2>4. QED
    BY <1>3, <2>1, <2>2, <2>3
<1>4. CASE /\ j - Len(file) \in 1..n
           /\ file'[j].who = w /\ Pos(file'[j]) = b + (j - Len(file))
  <2>1. CASE i \in 1..Len(file) /\ file'[i] = file[i]
    <3>1. Pos(file[i]) \in Nat /\ Pos(file[i]) <= b /\ file[i].who = w
      BY <1>1, <1>4, <2>1 DEF UpTo
    <3>2. ASSUME format' = "csv", \A k \in (i + 1)..(j - 1) : file'[k].who # x
          PROVE  Pos(file'[j]) = Pos(file'[i]) + 1
      <4>1. j = Len(file) + 1
        <5>1. SUFFICES ASSUME j # Len(file) + 1 PROVE FALSE
          OBVIOUS
        <5>2. Len(file) + 1 \in (i + 1)..(j - 1) /\ 1 \in 1..n
          BY <1>1, <1>4, <2>1, <5>1
        <5>3. file'[Len(file) + 1].who = w
          BY <5>2 DEF Extends
        <5>4. QED
          BY <1>4, <3>2, <5>2, <5>3
      <4>2. LastOf(w, i)
        <5>1. ASSUME NEW k \in (i + 1)..Len(file)
              PROVE  file[k].who # w
          <6>1. k \in (i + 1)..(j - 1) /\ k \in 1..Len(file)
            BY <1>1, <2>1, <4>1
          <6>2. QED
            BY <1>1, <1>4, <3>2, <6>1
        <5>2. QED
          BY <3>1, <5>1 DEF LastOf
      <4>3. Pos(file[i]) = b
        BY <2>1, <3>1, <3>2, <4>2 DEF UpTo
      <4>4. QED
        BY <1>1, <1>4, <2>1, <4>1, <4>3
    <3>3. Pos(file'[i]) < Pos(file'[j])
      BY <1>1, <1>4, <2>1, <3>1
    <3>4. QED
      BY <3>2, <3>3
  <2>2. CASE i - Len(file) \in 1..n /\ Pos(file'[i]) = b + (i - Len(file))
    <3>1. Pos(file'[i]) < Pos(file'[j])
      BY <1>1, <1>4, <2>2
    <3>2. ASSUME \A k \in (i + 1)..(j - 1) : file'[k].who # x
          PROVE  j = i + 1
      <4>1. SUFFICES ASSUME j # i + 1 PROVE FALSE
        OBVIOUS
      <4>2. /\ i + 1 \in (i + 1)..(j - 1) /\ (i + 1) - Len(file) \in 1..n
            /\ Len(file) + ((i + 1) - Len(file)) = i + 1
        BY <1>1, <1>4, <2>2, <4>1
      <4>3. file'[i + 1].who = w
        BY <4>2 DEF Extends
      <4>4. QED
        BY <1>4, <3>2, <4>2, <4>3
    <3>3. QED
      BY <1>1, <1>4, <2>2, <3>1, <3>2
  <2>3. QED
    BY <2>1, <2>2, ExtendsPieces
<1>5. QED
  BY <1>3, <1>4, ExtendsPieces

\* What another writer holds and has written is not touched.
LEMMA OthersStay ==
    ASSUME TypeOK, NEW w, NEW b \in Int, NEW n \in Nat, Extends(w, b, n), format' = format,
           NEW x \in Writers, x # w, Still(x), Part(x)
    PROVE  Part(x)'
<1>1. /\ \A m \in Int : InFile(x, m)' <=> InFile(x, m)
      /\ \A m \in Int : UpTo(x, m)' <=> UpTo(x, m)
      /\ Absent(x) => Absent(x)'
  BY ExtendsOthers
<1>2. /\ MaxRows \in Nat /\ offered[x] \in Nat /\ rowCount[x] \in Nat
      /\ buffer[x] \in Seq(Piece)
  BY LogAssumption DEF TypeOK
<1>3. Base(x)' = Base(x) /\ Base(x) \in Int /\ Owed(x)' = Owed(x) /\ Owed(x) \in {0, 1}
      /\ Unflushed(x)' = Unflushed(x)
  BY <1>2 DEF Still, Base, Owed, Unflushed
<1>4. \A m \in 1..MaxRows : InFile(x, 2 * m + 2)' <=> InFile(x, 2 * m + 2)
  BY <1>1, <1>2
<1>5. Fresh(x)'
  BY <1>1 DEF Still, Part, Fresh
<1>6. Buffered(x)'
  <2>1. UpTo(x, Base(x))' <=> UpTo(x, Base(x))
    <3>1. PICK m \in Int : m = Base(x)
      BY <1>3
    <3>2. UpTo(x, m)' <=> UpTo(x, m)
      BY <1>1
    <3>3. QED
      BY <1>3, <3>1, <3>2 DEF UpTo
  <2>2. QED
    BY <1>3, <1>4, <2>1 DEF Still, Part, Buffered
<1>7. Through(x)'
  <2>1. UpTo(x, 2 * offered[x] + 2 - Owed(x))' <=> UpTo(x, 2 * offered[x] + 2 - Owed(x))
    <3>1. PICK m \in Int : m = 2 * offered[x] + 2 - Owed(x)
      BY <1>2, <1>3
    <3>2. UpTo(x, m)' <=> UpTo(x, m)
      BY <1>1
    <3>3. QED
      BY <1>3, <3>1, <3>2 DEF UpTo, Still
  <2>2. QED
    BY <1>3, <2>1 DEF Still, Part, Through
<1>8. Saved(x)' /\ Complete(x)' /\ (broken[x] => failed[x])'
  BY <1>3, <1>4 DEF Still, Part, Saved, Complete
<1>10. QED
  BY <1>5, <1>6, <1>7, <1>8 DEF Part

LEMMA ConcatParts ==
    ASSUME NEW S, NEW p \in Seq(S), NEW q \in Seq(S)
    PROVE  /\ p \o q \in Seq(S) /\ Len(p) \in Nat /\ Len(q) \in Nat
           /\ Len(p \o q) = Len(p) + Len(q)
           /\ \A i \in 1..Len(p) : (p \o q)[i] = p[i]
           /\ \A i \in 1..Len(q) : (p \o q)[Len(p) + i] = q[i]
OBVIOUS

\* A flush puts the pieces it is given at the end of the file, up to where it
\* fails; then the writer is broken.
LEMMA FlushExtends ==
    ASSUME TypeOK, NEW w \in Writers, NEW pending \in Seq(Piece), NEW b \in Int,
           \A i \in 1..Len(pending) : pending[i].who = w /\ Pos(pending[i]) = b + i,
           Flush(w, pending)
    PROVE  \E n \in 0..Len(pending) :
              /\ Extends(w, b, n)
              /\ \/ broken'[w] /\ failed'[w]
                 \/ n = Len(pending) /\ buffer'[w] = <<>> /\ UNCHANGED <<broken, failed>>
<1>1. file \in Seq(Piece) /\ Len(pending) \in Nat /\ Len(file) \in Nat
  BY DEF TypeOK
<1>2. CASE file' = file \o pending /\ buffer' = [buffer EXCEPT ![w] = <<>>]
           /\ UNCHANGED <<broken, failed>>
  <2>1. /\ Len(file') = Len(file) + Len(pending)
        /\ \A i \in 1..Len(file) : file'[i] = file[i]
        /\ \A i \in 1..Len(pending) : file'[Len(file) + i] = pending[i]
    BY <1>1, <1>2
  <2>2. Extends(w, b, Len(pending))
    BY <2>1 DEF Extends
  <2>3. buffer'[w] = <<>>
    BY <1>2 DEF TypeOK
  <2>4. QED
    BY <1>1, <1>2, <2>2, <2>3
<1>3. CASE \E k \in 0..(Len(pending) - 1) :
              /\ file' = file \o SubSeq(pending, 1, k)
              /\ broken' = [broken EXCEPT ![w] = TRUE]
              /\ failed' = [failed EXCEPT ![w] = TRUE]
  <2>1. PICK k \in 0..(Len(pending) - 1) :
              /\ file' = file \o SubSeq(pending, 1, k)
              /\ broken' = [broken EXCEPT ![w] = TRUE]
              /\ failed' = [failed EXCEPT ![w] = TRUE]
    BY <1>3
  <2> DEFINE part == SubSeq(pending, 1, k)
  <2>2. Len(part) = k /\ k \in Nat /\ \A i \in 1..k : part[i] = pending[i]
    BY <1>1
  <2>3. part \in Seq(Piece)
    BY <1>1
  <2>4. /\ Len(file') = Len(file) + k
        /\ \A i \in 1..Len(file) : file'[i] = file[i]
        /\ \A i \in 1..k : file'[Len(file) + i] = part[i]
    <3>1. file' = file \o part
      BY <2>1
    <3> HIDE DEF part
    <3>2. /\ Len(file \o part) = Len(file) + Len(part)
          /\ \A i \in 1..Len(file) : (file \o part)[i] = file[i]
          /\ \A i \in 1..Len(part) : (file \o part)[Len(file) + i] = part[i]
      BY <1>1, <2>3, ConcatParts
    <3>3. QED
      BY <2>2, <3>1, <3>2
  <2> HIDE DEF part
  <2>5. k \in 0..Len(pending) /\ \A i \in 1..k : i \in 1..Len(pending)
    BY <1>1
  <2>6. Extends(w, b, k)
    BY <2>2, <2>4, <2>5 DEF Extends
  <2>7. broken'[w] /\ failed'[w]
    BY <2>1 DEF TypeOK
  <2>8. QED
    BY <2>5, <2>6, <2>7
<1>4. QED
  BY <1>2, <1>3 DEF Flush

\* A step of w adds pieces of w where they belong, or nothing.
Grows(w) == \E b \in Int, n \in Nat : Extends(w, b, n) /\ (UpTo(w, b) \/ file' = file)

LEMMA NoGrowth ==
    ASSUME TypeOK, NEW w, UNCHANGED file
    PROVE  /\ Grows(w) /\ Extends(w, 0, 0)
           /\ format' = format =>
                /\ \A x, m : InFile(x, m)' <=> InFile(x, m)
                /\ \A x, m : UpTo(x, m)' <=> UpTo(x, m)
<1>1. Extends(w, 0, 0)
  BY FileLength DEF Extends
<1>2. Grows(w)
  BY <1>1 DEF Grows
<1>3. QED
  BY <1>1, <1>2 DEF InFile, UpTo, LastOf

\* A step changes the state of one writer.
LEMMA OneWriter ==
    ASSUME TypeOK, NEW w \in Writers,
           Open(w) \/ Check(w) \/ WriteHeader(w) \/ WriteRowCSV(w)
             \/ WriteRowJSON(w) \/ WriteNewline(w) \/ Close(w) \/ Crash(w)
    PROVE  format' = format /\ \A x \in Writers : x # w => Still(x)
<1> USE DEF TypeOK, Still, Goto
<1>1. CASE Open(w) \/ Check(w) \/ Crash(w)
  BY <1>1 DEF Open, Check, Crash
<1>2. CASE WriteHeader(w)
  BY <1>2 DEF WriteHeader, Flush
<1>3. CASE WriteRowCSV(w)
  BY <1>3 DEF WriteRowCSV, Flush
<1>4. CASE WriteRowJSON(w) \/ WriteNewline(w)
  BY <1>4 DEF WriteRowJSON, WriteNewline
<1>5. CASE Close(w)
  BY <1>5 DEF Close, Flush
<1>6. QED
  BY <1>1, <1>2, <1>3, <1>4, <1>5

\* What is left to show of a step: it grows the file as it may, and its writer
\* keeps its part of the invariant.
LEMMA StepPInv ==
    ASSUME TypeOK, TypeOK', PInv, NEW w \in Writers,
           Open(w) \/ Check(w) \/ WriteHeader(w) \/ WriteRowCSV(w)
             \/ WriteRowJSON(w) \/ WriteNewline(w) \/ Close(w) \/ Crash(w),
           Grows(w), Part(w)'
    PROVE  PInv'
<1>1. format' = format /\ \A x \in Writers : x # w => Still(x)
  BY OneWriter
<1>2. PICK b \in Int, n \in Nat : Extends(w, b, n) /\ (UpTo(w, b) \/ file' = file)
  BY DEF Grows
<1>3. \A x \in Writers : x # w => Part(x)'
  BY <1>1, <1>2, OthersStay DEF PInv
<1>4. InOrder'
  <2>1. CASE UpTo(w, b)
    BY <1>1, <1>2, <2>1, ExtendsOrder DEF PInv
  <2>2. CASE file' = file
    BY <1>1, <2>2 DEF PInv, InOrder
  <2>3. QED
    BY <1>2, <2>1, <2>2
<1>5. QED
  BY <1>3, <1>4 DEF PInv

\* A writer whose writes have failed has nothing more to keep.
LEMMA FailedPart ==
    ASSUME NEW w, pc'[w] \in {"rows", "closed", "dead"}, failed'[w], format' = "csv",
           pc'[w] = "rows" => broken'[w]
    PROVE  Part(w)'
BY DEF Part, Fresh, Buffered, Through, Saved, Complete

LEMMA QuietPart ==
    ASSUME TypeOK, NEW w \in Writers, Part(w), Open(w) \/ Check(w) \/ Crash(w)
    PROVE  Grows(w) /\ Part(w)'
<1>1. /\ UNCHANGED <<format, broken, rowCount, offered, failed, file>>
      /\ \/ /\ pc[w] \in {"new", "check"} /\ pc'[w] \in {"check", "header", "rows"}
            /\ UNCHANGED buffer
         \/ pc'[w] = "dead"
  BY DEF Open, Check, Crash, Goto, TypeOK
<1>2. /\ Grows(w)
      /\ \A m : InFile(w, m)' <=> InFile(w, m)
      /\ \A m : UpTo(w, m)' <=> UpTo(w, m)
  BY <1>1, NoGrowth
<1>3. (broken[w] => failed[w])' /\ Complete(w)'
  BY <1>1 DEF Part, Complete
<1>4. Saved(w)'
  BY <1>1, <1>2 DEF Part, Saved, Unflushed
<1>5. CASE pc'[w] = "dead"
  BY <1>2, <1>3, <1>4, <1>5 DEF Part, Fresh, Buffered, Through
<1>6. CASE pc[w] \in {"new", "check"} /\ pc'[w] \in {"check", "header", "rows"}
           /\ UNCHANGED buffer
  <2>1. /\ offered[w] = 0 /\ rowCount[w] = 0 /\ buffer[w] = <<>>
        /\ ~broken[w] /\ ~failed[w] /\ Absent(w)
    BY <1>6 DEF Part, Fresh
  <2>2. UpTo(w, 2)'
    BY <1>2, <2>1 DEF UpTo, Absent
  <2>3. Fresh(w)'
    BY <1>1, <1>6, <2>1 DEF Fresh, Absent
  <2>4. Base(w)' = 2
    BY <1>1, <1>6, <2>1 DEF Base
  <2>5. FlushEvery \in Nat \ {0} /\ MaxRows \in Nat /\ 0 % FlushEvery = 0
    BY LogAssumption
  <2>6. Buffered(w)'
    BY <1>1, <1>6, <2>1, <2>2, <2>4, <2>5 DEF Buffered, UpTo, LastOf
  <2>7. Through(w)'
    <3>1. Owed(w)' = 0
      BY <1>6 DEF Owed
    <3>2. (2 * offered[w] + 2 - Owed(w))' = 2 /\ rowCount'[w] = offered'[w] - Owed(w)'
      BY <1>1, <2>1, <3>1
    <3>3. QED
      BY <2>2, <3>2 DEF Through, UpTo
  <2>8. QED
    BY <1>2, <1>3, <1>4, <2>3, <2>6, <2>7 DEF Part
<1>7. QED
  BY <1>1, <1>5, <1>6

\* The rest of a division by n grows by one, or starts again.
LEMMA ModStep ==
    ASSUME NEW n \in Nat \ {0}, NEW r \in Nat
    PROVE  /\ r % n \in 0..(n - 1) /\ r % n <= r
           /\ (r + 1) % n = 0 \/ (r + 1) % n = (r % n) + 1
<1> DEFINE q == r \div n
           m == (r + 1) \div n
<1>1. /\ q \in Nat /\ r % n \in 0..(n - 1) /\ r = q * n + (r % n)
      /\ m \in Nat /\ (r + 1) % n \in 0..(n - 1) /\ r + 1 = m * n + ((r + 1) % n)
  OBVIOUS
<1> HIDE DEF q, m
<1>2. q * n \in Nat /\ m * n \in Nat /\ (q + 1) * n = q * n + n
  BY <1>1
<1>3. CASE m = q
  BY <1>1, <1>2, <1>3
<1>4. CASE m = q + 1
  <2>1. r + 1 = q * n + n + ((r + 1) % n)
    BY <1>1, <1>2, <1>4
  <2>2. QED
    BY <1>1, <1>2, <2>1
<1>5. CASE m > q + 1
  <2>1. PICK d \in Nat : m = q + 2 + d
    <3>1. m - q - 2 \in Nat /\ m = q + 2 + (m - q - 2)
      BY <1>1, <1>5
    <3>2. QED
      BY <3>1
  <2>2. m * n = q * n + n + n + d * n /\ d * n \in Nat
    BY <1>1, <2>1
  <2>3. QED
    BY <1>1, <1>2, <2>2
<1>6. CASE m < q
  <2>1. PICK d \in Nat : q = m + 1 + d
    <3>1. q - m - 1 \in Nat /\ q = m + 1 + (q - m - 1)
      BY <1>1, <1>6
    <3>2. QED
      BY <3>1
  <2>2. q * n = m * n + n + d * n /\ d * n \in Nat
    BY <1>1, <2>1
  <2>3. QED
    BY <1>1, <1>2, <2>2
<1>7. QED
  BY <1>1, <1>3, <1>4, <1>5, <1>6

LEMMA LinePlaces ==
    ASSUME NEW w \in Writers, NEW n \in 0..MaxRows
    PROVE  /\ Line(w, n) \in Seq(Piece) /\ Len(Line(w, n)) = 2
           /\ \A h \in 1..2 : /\ Line(w, n)[h] \in Piece
                              /\ Line(w, n)[h].who = w
                              /\ Pos(Line(w, n)[h]) = 2 * n + h
BY LogAssumption DEF Line, Piece, Pos

\* The header is what its writer writes first.
LEMMA WriteHeaderPart ==
    ASSUME TypeOK, TypeOK', NEW w \in Writers, Part(w), WriteHeader(w)
    PROVE  Grows(w) /\ Part(w)'
<1>1. /\ pc[w] = "header" /\ pc'[w] = "rows"
      /\ UNCHANGED <<format, rowCount, offered>>
  BY DEF WriteHeader, Goto, TypeOK
<1>2. /\ offered[w] = 0 /\ rowCount[w] = 0 /\ buffer[w] = <<>>
      /\ ~broken[w] /\ ~failed[w] /\ Absent(w)
  BY <1>1 DEF Part, Fresh
<1>3. MaxRows \in Nat /\ FlushEvery \in Nat \ {0} /\ 0 % FlushEvery = 0
  BY LogAssumption
<1>4. CASE format = "csv"
  <2>1. Flush(w, Line(w, 0))
    BY <1>4 DEF WriteHeader
  <2>2. /\ Line(w, 0) \in Seq(Piece) /\ Len(Line(w, 0)) = 2
        /\ \A i \in 1..2 : Line(w, 0)[i].who = w /\ Pos(Line(w, 0)[i]) = 0 + i
    BY <1>3, LinePlaces
  <2>3. PICK n \in 0..2 :
           /\ Extends(w, 0, n)
           /\ \/ broken'[w] /\ failed'[w]
              \/ n = 2 /\ buffer'[w] = <<>> /\ UNCHANGED <<broken, failed>>
    <3> DEFINE pending == Line(w, 0)
    <3> HIDE DEF pending
    <3>1. pending \in Seq(Piece) /\ Flush(w, pending)
      BY <2>1, <2>2 DEF pending
    <3> PICK b \in Int : b = 0
      OBVIOUS
    <3>2. \A i \in 1..Len(pending) : pending[i].who = w /\ Pos(pending[i]) = b + i
      BY <2>2 DEF pending
    <3>3. \E n \in 0..Len(pending) :
              /\ Extends(w, b, n)
              /\ \/ broken'[w] /\ failed'[w]
                 \/ n = Len(pending) /\ buffer'[w] = <<>> /\ UNCHANGED <<broken, failed>>
      BY <3>1, <3>2, FlushExtends
    <3>4. Len(pending) = 2
      BY <2>2 DEF pending
    <3>5. QED
      BY <3>3, <3>4
  <2>4. UpTo(w, 0)
    BY <1>2 DEF UpTo, Absent
  <2>5. Grows(w)
    BY <2>3, <2>4 DEF Grows
  <2>6. CASE broken'[w] /\ failed'[w]
    BY <1>1, <1>4, <2>5, <2>6, FailedPart
  <2>7. CASE n = 2 /\ buffer'[w] = <<>> /\ UNCHANGED <<broken, failed>>
    <3>1. UpTo(w, 2)'
      <4>1. UpTo(w, 0 + 2)'
        BY <1>1, <2>3, <2>4, <2>7, ExtendsMine
      <4>2. QED
        BY <4>1
    <3>2. Base(w)' = 2
      BY <1>1, <1>2, <2>7 DEF Base
    <3>3. Buffered(w)'
      BY <1>1, <1>2, <1>3, <2>7, <3>1, <3>2 DEF Buffered, UpTo
    <3>4. Saved(w)'
      BY <1>1, <1>2, <1>3, <1>4 DEF Saved, Unflushed
    <3>5. QED
      BY <1>1, <1>2, <1>4, <2>5, <2>7, <3>3, <3>4 DEF Part, Fresh, Through, Complete
  <2>8. QED
    BY <2>3, <2>6, <2>7
<1>5. CASE format # "csv"
  <2>1. UNCHANGED <<buffer, broken, failed, file>>
    BY <1>5 DEF WriteHeader
  <2>2. /\ Grows(w)
        /\ \A m : UpTo(w, m)' <=> UpTo(w, m)
    BY <1>1, <2>1, NoGrowth
  <2>3. Owed(w)' = 0 /\ (2 * offered[w] + 2 - Owed(w))' = 2
        /\ rowCount'[w] = offered'[w] - Owed(w)'
    BY <1>1, <1>2 DEF Owed
  <2>4. UpTo(w, 2)'
    BY <1>2, <2>2 DEF UpTo, Absent
  <2>5. Through(w)'
    BY <2>3, <2>4 DEF Through, UpTo
  <2>6. Saved(w)'
    BY <1>1, <1>2, <1>3, <1>5 DEF Saved, Unflushed
  <2>7. QED
    BY <1>1, <1>2, <1>5, <2>1, <2>2, <2>5, <2>6 DEF Part, Fresh, Buffered, Complete
<1>6. QED
  BY <1>4, <1>5

\* What a CSV writer holds after a row: what was pending and has not gone out,
\* less than FlushEvery rows of it; or it is broken.
LEMMA RowOutcome ==
    ASSUME TypeOK, TypeOK', NEW w \in Writers, Part(w), WriteRowCSV(w), ~broken[w],
           NEW b \in Int, b = Base(w)
    PROVE  \E n \in Nat :
              /\ Extends(w, b, n)
              /\ \/ broken'[w] /\ failed'[w]
                 \/ /\ UNCHANGED <<broken, failed>>
                    /\ Len(buffer'[w]) = Len(buffer[w]) + 2 - n
                    /\ Len(buffer'[w]) <= 2 * (rowCount'[w] % FlushEvery)
                    /\ \A i \in 1..Len(buffer'[w]) :
                          buffer'[w][i].who = w /\ Pos(buffer'[w][i]) = b + n + i
<1> DEFINE pending == buffer[w] \o Line(w, offered'[w])
           len == Len(buffer[w])
<1>1. /\ format = "csv" /\ pc[w] = "rows" /\ ~broken[w]
      /\ offered[w] \in Nat /\ rowCount[w] \in Nat
      /\ offered'[w] = offered[w] + 1 /\ offered'[w] \in 0..MaxRows
      /\ rowCount'[w] = rowCount[w] + 1
      /\ len \in Nat
  BY LogAssumption DEF WriteRowCSV, TypeOK
<1>9. buffer[w] \in Seq(Piece)
  BY DEF TypeOK
<1>2. /\ len <= 2 * (rowCount[w] % FlushEvery)
      /\ \A i \in 1..len : buffer[w][i].who = w /\ Pos(buffer[w][i]) = b + i
      /\ b = 2 * offered[w] + 2 - len
  BY <1>1 DEF Part, Buffered, Base
<1> HIDE DEF len
<1>3. /\ rowCount'[w] % FlushEvery \in Nat
      /\ ~FlushDue(rowCount'[w]) =>
            rowCount'[w] % FlushEvery = (rowCount[w] % FlushEvery) + 1
      /\ rowCount[w] % FlushEvery \in Nat
  <2>1. FlushEvery \in Nat \ {0}
    BY LogAssumption
  <2>2. rowCount[w] + 1 \in Nat
    BY <1>1
  <2>3. /\ rowCount[w] % FlushEvery \in 0..(FlushEvery - 1)
        /\ (rowCount[w] + 1) % FlushEvery \in 0..(FlushEvery - 1)
        /\ \/ (rowCount[w] + 1) % FlushEvery = 0
           \/ (rowCount[w] + 1) % FlushEvery = (rowCount[w] % FlushEvery) + 1
    BY <1>1, <2>1, <2>2, ModStep
  <2>4. QED
    BY <1>1, <2>1, <2>3 DEF FlushDue
<1>4. /\ pending \in Seq(Piece) /\ Len(pending) = len + 2
      /\ \A i \in 1..(len + 2) : pending[i].who = w /\ Pos(pending[i]) = b + i
  <2> DEFINE line == Line(w, offered'[w])
  <2>1. /\ line \in Seq(Piece) /\ Len(line) = 2
        /\ \A h \in 1..2 : line[h].who = w /\ Pos(line[h]) = 2 * offered'[w] + h
    BY <1>1, LinePlaces
  <2> HIDE DEF line
  <2>2. /\ (buffer[w] \o line) \in Seq(Piece) /\ Len(buffer[w] \o line) = len + Len(line)
        /\ \A i \in 1..len : (buffer[w] \o line)[i] = buffer[w][i]
        /\ \A i \in 1..Len(line) : (buffer[w] \o line)[len + i] = line[i]
    <3>1. line \in Seq(Piece)
      BY <2>1
    <3>2. /\ (buffer[w] \o line) \in Seq(Piece)
          /\ Len(buffer[w] \o line) = Len(buffer[w]) + Len(line)
          /\ \A i \in 1..Len(buffer[w]) : (buffer[w] \o line)[i] = buffer[w][i]
          /\ \A i \in 1..Len(line) : (buffer[w] \o line)[Len(buffer[w]) + i] = line[i]
      BY <1>9, <3>1, ConcatParts
    <3>3. QED
      BY <3>2 DEF len
  <2>3. ASSUME NEW i \in 1..(len + 2)
        PROVE  (buffer[w] \o line)[i].who = w /\ Pos((buffer[w] \o line)[i]) = b + i
    <3>1. CASE i \in 1..len
      BY <1>2, <2>2, <3>1
    <3>2. CASE i \notin 1..len
      <4>1. i - len \in 1..2 /\ len + (i - len) = i
        BY <1>1, <3>2
      <4>2. (buffer[w] \o line)[i] = line[i - len]
        BY <2>1, <2>2, <4>1
      <4>3. Pos(line[i - len]) = b + i
        <5>1. Pos(line[i - len]) = 2 * offered'[w] + (i - len)
          BY <2>1, <4>1
        <5>2. QED
          BY <1>1, <1>2, <4>1, <5>1
      <4>4. QED
        BY <2>1, <4>1, <4>2, <4>3
    <3>3. QED
      BY <3>1, <3>2
  <2>4. pending = buffer[w] \o line
    BY DEF line
  <2> HIDE DEF pending
  <2>5. QED
    BY <2>1, <2>2, <2>3, <2>4
<1>5. \/ Flush(w, pending)
      \/ /\ ~FlushDue(rowCount'[w])
         /\ buffer' = [buffer EXCEPT ![w] = pending]
         /\ UNCHANGED <<broken, failed, file>>
      \/ /\ ~FlushDue(rowCount'[w])
         /\ file' = file \o Front(pending)
         /\ buffer' = [buffer EXCEPT ![w] = <<Last(pending)>>]
         /\ UNCHANGED <<broken, failed>>
  BY <1>1 DEF WriteRowCSV
<1> HIDE DEF pending
<1>6. CASE Flush(w, pending)
  <2>1. PICK n \in 0..Len(pending) :
              /\ Extends(w, b, n)
              /\ \/ broken'[w] /\ failed'[w]
                 \/ n = Len(pending) /\ buffer'[w] = <<>> /\ UNCHANGED <<broken, failed>>
    BY <1>4, <1>6, FlushExtends
  <2>2. CASE broken'[w] /\ failed'[w]
    BY <1>1, <1>4, <2>1, <2>2
  <2>3. CASE n = Len(pending) /\ buffer'[w] = <<>> /\ UNCHANGED <<broken, failed>>
    <3>1. Len(buffer'[w]) = 0 /\ n \in Nat /\ n = len + 2
      BY <1>1, <1>4, <2>3
    <3>2. Len(buffer'[w]) <= 2 * (rowCount'[w] % FlushEvery)
      BY <1>3, <3>1
    <3>3. \A i \in 1..Len(buffer'[w]) : FALSE
      BY <3>1
    <3>4. Len(buffer'[w]) = Len(buffer[w]) + 2 - n
      BY <1>1, <3>1 DEF len
    <3>5. QED
      BY <2>1, <2>3, <3>1, <3>2, <3>3, <3>4
  <2>4. QED
    BY <2>1, <2>2, <2>3
<1>7. CASE /\ ~FlushDue(rowCount'[w])
           /\ buffer' = [buffer EXCEPT ![w] = pending]
           /\ UNCHANGED <<broken, failed, file>>
  <2>1. buffer'[w] = pending
    BY <1>7 DEF TypeOK
  <2>2. Extends(w, b, 0)
    BY <1>7, FileLength DEF Extends
  <2>3. Len(buffer'[w]) = Len(buffer[w]) + 2 - 0
    BY <1>1, <1>4, <2>1 DEF len
  <2>4. Len(buffer'[w]) <= 2 * (rowCount'[w] % FlushEvery)
    BY <1>1, <1>2, <1>3, <1>4, <1>7, <2>1
  <2>5. \A i \in 1..Len(buffer'[w]) :
            buffer'[w][i].who = w /\ Pos(buffer'[w][i]) = b + 0 + i
    BY <1>4, <2>1
  <2>6. QED
    BY <1>7, <2>2, <2>3, <2>4, <2>5
<1>8. CASE /\ ~FlushDue(rowCount'[w])
           /\ file' = file \o Front(pending)
           /\ buffer' = [buffer EXCEPT ![w] = <<Last(pending)>>]
           /\ UNCHANGED <<broken, failed>>
  <2>1. buffer'[w] = <<Last(pending)>> /\ Last(pending) = pending[len + 2]
    BY <1>4, <1>8 DEF TypeOK, Last
  <2>2. /\ Len(Front(pending)) = len + 1 /\ \A i \in 1..(len + 1) : Front(pending)[i] = pending[i]
    BY <1>1, <1>4 DEF Front
  <2>3. Front(pending) \in Seq(Piece)
    BY <1>4 DEF Front
  <2>4. /\ Len(file') = Len(file) + (len + 1)
        /\ \A i \in 1..Len(file) : file'[i] = file[i]
        /\ \A i \in 1..(len + 1) : file'[Len(file) + i] = Front(pending)[i]
    <3>1. file \in Seq(Piece)
      BY DEF TypeOK
    <3>2. /\ Len(file \o Front(pending)) = Len(file) + Len(Front(pending))
          /\ \A i \in 1..Len(file) : (file \o Front(pending))[i] = file[i]
          /\ \A i \in 1..Len(Front(pending)) :
                (file \o Front(pending))[Len(file) + i] = Front(pending)[i]
      BY <2>3, <3>1, ConcatParts
    <3>3. QED
      BY <1>8, <2>2, <3>2
  <2>5. Extends(w, b, len + 1)
    <3>1. \A i \in 1..(len + 1) : i \in 1..(len + 2)
      BY <1>1
    <3>2. QED
      BY <1>4, <2>2, <2>4, <3>1 DEF Extends
  <2>6. /\ Len(buffer'[w]) = 1 /\ buffer'[w][1] = pending[len + 2]
    BY <2>1
  <2>7. Len(buffer'[w]) = Len(buffer[w]) + 2 - (len + 1)
    BY <1>1, <2>6 DEF len
  <2>8. Len(buffer'[w]) <= 2 * (rowCount'[w] % FlushEvery)
    <3>1. rowCount'[w] % FlushEvery \in Nat /\ 1 <= rowCount'[w] % FlushEvery
      BY <1>3, <1>8
    <3>2. QED
      BY <2>6, <3>1
  <2>9. \A i \in 1..Len(buffer'[w]) :
            buffer'[w][i].who = w /\ Pos(buffer'[w][i]) = b + (len + 1) + i
    BY <1>1, <1>4, <2>6
  <2>10. len + 1 \in Nat
    BY <1>1
  <2>11. QED
    BY <1>8, <2>5, <2>7, <2>8, <2>9, <2>10
<1>10. QED
  BY <1>5, <1>6, <1>7, <1>8

LEMMA WriteRowCSVPart ==
    ASSUME TypeOK, TypeOK', NEW w \in Writers, Part(w), WriteRowCSV(w)
    PROVE  Grows(w) /\ Part(w)'
<1>1. /\ format = "csv" /\ format' = "csv" /\ pc[w] = "rows" /\ pc'[w] = "rows"
      /\ offered[w] \in Nat /\ rowCount[w] \in Nat /\ MaxRows \in Nat
      /\ offered'[w] = offered[w] + 1
  BY LogAssumption DEF WriteRowCSV, TypeOK
<1>2. CASE broken[w]
  <2>1. UNCHANGED <<broken, file>> /\ failed' = [failed EXCEPT ![w] = TRUE]
    BY <1>2 DEF WriteRowCSV
  <2>2. broken'[w] /\ failed'[w]
    BY <1>2, <2>1 DEF TypeOK
  <2>3. QED
    BY <1>1, <2>1, <2>2, NoGrowth, FailedPart
<1>3. CASE ~broken[w]
  <2>1. /\ UpTo(w, Base(w)) /\ rowCount[w] = offered[w]
        /\ rowCount'[w] = rowCount[w] + 1
        /\ \A m \in 1..MaxRows : 2 * m + 2 <= Base(w) => InFile(w, 2 * m + 2)
    BY <1>1, <1>3 DEF Part, Buffered, WriteRowCSV, TypeOK
  <2>2. Len(buffer[w]) \in Nat /\ Base(w) = 2 * offered[w] + 2 - Len(buffer[w])
    BY DEF TypeOK, Base
  <2>3. PICK b \in Int : b = Base(w)
    BY <1>1, <2>2
  <2>4. PICK n \in Nat :
              /\ Extends(w, b, n)
              /\ \/ broken'[w] /\ failed'[w]
                 \/ /\ UNCHANGED <<broken, failed>>
                    /\ Len(buffer'[w]) = Len(buffer[w]) + 2 - n
                    /\ Len(buffer'[w]) <= 2 * (rowCount'[w] % FlushEvery)
                    /\ \A i \in 1..Len(buffer'[w]) :
                          buffer'[w][i].who = w /\ Pos(buffer'[w][i]) = b + n + i
    BY <1>3, <2>3, RowOutcome
  <2>5. Grows(w)
    BY <2>1, <2>3, <2>4 DEF Grows
  <2>6. CASE broken'[w] /\ failed'[w]
    BY <1>1, <2>5, <2>6, FailedPart
  <2>7. CASE /\ UNCHANGED <<broken, failed>>
             /\ Len(buffer'[w]) = Len(buffer[w]) + 2 - n
             /\ Len(buffer'[w]) <= 2 * (rowCount'[w] % FlushEvery)
             /\ \A i \in 1..Len(buffer'[w]) :
                   buffer'[w][i].who = w /\ Pos(buffer'[w][i]) = b + n + i
    <3>1. Base(w)' = b + n /\ b + n = 2 * offered'[w] + 2 - Len(buffer'[w])
      <4> DEFINE old == Len(buffer[w])
                 new == Len(buffer'[w])
      <4>1. new = old + 2 - n
        BY <2>7
      <4>2. old \in Nat /\ b = 2 * offered[w] + 2 - old
        BY <2>2, <2>3
      <4>3. Base(w)' = 2 * offered'[w] + 2 - new
        BY DEF Base
      <4> HIDE DEF old, new
      <4>4. QED
        BY <1>1, <4>1, <4>2, <4>3 DEF new
    <3>2. /\ UpTo(w, b + n)'
          /\ \A m \in Int : InFile(w, m)' <=> InFile(w, m) \/ m \in (b + 1)..(b + n)
      BY <1>1, <2>1, <2>3, <2>4, ExtendsMine
    <3>3. \A m \in 1..MaxRows : 2 * m + 2 <= b + n => InFile(w, 2 * m + 2)'
      <4> TAKE m \in 1..MaxRows
      <4> HAVE 2 * m + 2 <= b + n
      <4>1. 2 * m + 2 \in Int /\ (2 * m + 2 <= b \/ 2 * m + 2 \in (b + 1)..(b + n))
        BY <1>1
      <4>2. QED
        BY <2>1, <2>3, <3>2, <4>1
    <3>4. Buffered(w)'
      BY <1>1, <2>1, <2>7, <3>1, <3>2, <3>3 DEF Buffered, UpTo
    <3>5. Saved(w)'
      <4>1. rowCount'[w] % FlushEvery \in Nat
        <5>1. FlushEvery \in Nat \ {0} /\ rowCount'[w] \in Nat
          BY <1>1, <2>1, LogAssumption
        <5>2. rowCount'[w] % FlushEvery \in 0..(FlushEvery - 1)
          BY <5>1, ModStep
        <5>3. QED
          BY <5>1, <5>2
      <4>2. Unflushed(w)' = rowCount'[w] % FlushEvery
        BY <1>1 DEF Unflushed
      <4>3. ASSUME NEW m \in 1..MaxRows, m <= rowCount'[w] - Unflushed(w)'
            PROVE  InFile(w, 2 * m + 2)'
        <5> DEFINE new == Len(buffer'[w])
        <5>1. b + n = 2 * rowCount'[w] + 2 - new /\ rowCount'[w] \in Nat
          BY <1>1, <2>1, <3>1
        <5>2. new \in Nat /\ new <= 2 * (rowCount'[w] % FlushEvery)
          BY <2>7 DEF TypeOK
        <5> HIDE DEF new
        <5>3. 2 * m + 2 <= b + n
          BY <4>1, <4>2, <4>3, <5>1, <5>2
        <5>4. QED
          BY <3>3, <5>3
      <4>4. QED
        BY <4>3 DEF Saved
    <3>6. QED
      BY <1>1, <1>3, <2>5, <2>7, <3>4, <3>5 DEF Part, Fresh, Through, Complete
  <2>8. QED
    BY <2>4, <2>6, <2>7
<1>4. QED
  BY <1>2, <1>3

LEMMA CloseCSVPart ==
    ASSUME TypeOK, TypeOK', NEW w \in Writers, Part(w), Close(w), format = "csv"
    PROVE  Grows(w) /\ Part(w)'
<1>1. /\ format = "csv" /\ format' = "csv" /\ pc[w] = "rows" /\ pc'[w] = "closed"
      /\ offered[w] \in Nat /\ rowCount[w] \in Nat /\ MaxRows \in Nat
      /\ UNCHANGED <<rowCount, offered>>
  BY LogAssumption DEF Close, TypeOK, Goto
<1>2. CASE broken[w]
  <2>1. UNCHANGED <<broken, file>> /\ failed' = [failed EXCEPT ![w] = TRUE]
    BY <1>1, <1>2 DEF Close
  <2>2. failed'[w]
    BY <2>1 DEF TypeOK
  <2>3. QED
    BY <1>1, <2>1, <2>2, NoGrowth, FailedPart
<1>3. CASE ~broken[w]
  <2>1. /\ UpTo(w, Base(w)) /\ rowCount[w] = offered[w]
        /\ \A i \in 1..Len(buffer[w]) :
              buffer[w][i].who = w /\ Pos(buffer[w][i]) = Base(w) + i
        /\ \A m \in 1..MaxRows : 2 * m + 2 <= Base(w) => InFile(w, 2 * m + 2)
        /\ Flush(w, buffer[w])
    BY <1>1, <1>3 DEF Part, Buffered, Close
  <2>2. Len(buffer[w]) \in Nat /\ Base(w) = 2 * offered[w] + 2 - Len(buffer[w])
    BY DEF TypeOK, Base
  <2>3. PICK b \in Int : b = Base(w)
    BY <1>1, <2>2
  <2>4. PICK n \in 0..Len(buffer[w]) :
              /\ Extends(w, b, n)
              /\ \/ broken'[w] /\ failed'[w]
                 \/ n = Len(buffer[w]) /\ buffer'[w] = <<>> /\ UNCHANGED <<broken, failed>>
    <3>1. PICK pending \in Seq(Piece) : pending = buffer[w]
      BY DEF TypeOK
    <3>2. \A i \in 1..Len(pending) : pending[i].who = w /\ Pos(pending[i]) = b + i
      BY <2>1, <2>3, <3>1
    <3>3. Flush(w, pending)
      BY <2>1, <3>1
    <3>4. QED
      BY <3>1, <3>2, <3>3, FlushExtends
  <2>5. n \in Nat
    BY <2>2
  <2>6. Grows(w)
    BY <2>1, <2>3, <2>4, <2>5 DEF Grows
  <2>7. CASE broken'[w] /\ failed'[w]
    BY <1>1, <2>6, <2>7, FailedPart
  <2>8. CASE n = Len(buffer[w]) /\ UNCHANGED <<broken, failed>>
    <3>1. b + n = 2 * offered[w] + 2
      BY <1>1, <2>2, <2>3, <2>8
    <3>2. /\ UpTo(w, b + n)'
          /\ \A m \in Int : InFile(w, m)' <=> InFile(w, m) \/ m \in (b + 1)..(b + n)
      BY <1>1, <2>1, <2>3, <2>4, <2>5, ExtendsMine
    <3>3. ASSUME NEW m \in 1..MaxRows
          PROVE  InFile(w, 2 * m + 2)' <=> m <= offered[w]
      <4>1. ASSUME m <= offered[w]
            PROVE  InFile(w, 2 * m + 2)'
        <5>1. 2 * m + 2 \in Int /\ (2 * m + 2 <= b \/ 2 * m + 2 \in (b + 1)..(b + n))
          BY <1>1, <3>1, <4>1
        <5>2. QED
          BY <2>1, <2>3, <3>2, <5>1
      <4>2. ASSUME InFile(w, 2 * m + 2)'
            PROVE  m <= offered[w]
        <5>1. 2 * m + 2 <= b + n
          BY <3>2, <4>2 DEF UpTo, InFile
        <5>2. QED
          BY <1>1, <3>1, <5>1
      <4>3. QED
        BY <4>1, <4>2
    <3>4. Complete(w)'
      BY <1>1, <3>3 DEF Complete
    <3>5. Saved(w)'
      <4>1. Unflushed(w)' \in Nat
        <5>1. FlushEvery \in Nat \ {0}
          BY LogAssumption
        <5>2. rowCount[w] % FlushEvery \in 0..(FlushEvery - 1)
          BY <1>1, <5>1, ModStep
        <5>3. QED
          BY <1>1, <5>1, <5>2 DEF Unflushed
      <4>2. QED
        BY <1>1, <2>1, <3>3, <4>1 DEF Saved
    <3>6. QED
      BY <1>1, <1>3, <2>6, <2>8, <3>4, <3>5 DEF Part, Fresh, Buffered, Through
  <2>9. QED
    BY <2>4, <2>7, <2>8
<1>4. QED
  BY <1>2, <1>3

\* JSON: one piece of w at most, the one that comes next.
LEMMA OnePiece ==
    ASSUME TypeOK, NEW w \in Writers, NEW n \in 0..MaxRows, NEW h \in 1..2,
           file' \in {file, Append(file, Line(w, n)[h])},
           NEW b \in Int, b = 2 * n + h - 1
    PROVE  \E k \in {0, 1} : Extends(w, b, k) /\ (k = 0 => file' = file)
                             /\ (file' = Append(file, Line(w, n)[h]) => k = 1)
<1>1. Line(w, n)[h] \in Piece /\ Line(w, n)[h].who = w /\ Pos(Line(w, n)[h]) = b + 1
  <2>1. /\ Line(w, n)[h] \in Piece /\ Line(w, n)[h].who = w
        /\ Pos(Line(w, n)[h]) = 2 * n + h
    BY LinePlaces
  <2>2. n \in Int /\ h \in Int /\ 2 * n \in Int
    BY LogAssumption
  <2>3. 2 * n + h = b + 1
    BY <2>2
  <2>4. QED
    BY <2>1, <2>3
<1>2. file \in Seq(Piece) /\ Len(file) \in Nat
  BY DEF TypeOK
<1> DEFINE piece == Line(w, n)[h]
<1> HIDE DEF piece
<1>3. CASE file' = Append(file, piece)
  <2>1. /\ Len(file') = Len(file) + 1 /\ file'[Len(file) + 1] = piece
        /\ \A i \in 1..Len(file) : file'[i] = file[i]
    BY <1>1, <1>2, <1>3 DEF piece
  <2>2. Extends(w, b, 1)
    BY <1>1, <2>1 DEF Extends, piece
  <2>3. QED
    BY <2>2
<1>4. CASE file' = file /\ file' # Append(file, piece)
  BY <1>2, <1>4, NoGrowth DEF Extends, piece
<1>5. QED
  BY <1>3, <1>4 DEF piece

LEMMA JSONPart ==
    ASSUME TypeOK, TypeOK', NEW w \in Writers, Part(w), format = "json",
           WriteRowJSON(w) \/ WriteNewline(w) \/ Close(w)
    PROVE  Grows(w) /\ Part(w)'
<1>1. /\ format' = "json" /\ UNCHANGED <<broken, buffer>>
      /\ offered[w] \in Nat /\ rowCount[w] \in Nat /\ MaxRows \in Nat
      /\ offered'[w] \in 0..MaxRows
  BY LogAssumption DEF WriteRowJSON, WriteNewline, Close, TypeOK
\* A JSON writer's pieces go up to a place: they go up to any later one.
<1>2. ASSUME NEW m \in Int, NEW k \in Int, m <= k, UpTo(w, m)'
      PROVE  UpTo(w, k)'
  <2>1. \A i \in 1..Len(file') : Pos(file'[i]) \in Nat
    <3>1. file' \in Seq(Piece) /\ \A p \in Piece : Pos(p) \in Nat
      BY <1>1 DEF TypeOK, Piece, Pos
    <3>2. QED
      BY <3>1
  <2>2. QED
    BY <1>1, <1>2, <2>1 DEF UpTo
<1>3. CASE WriteRowJSON(w)
  <2>1. /\ pc[w] = "rows" /\ offered'[w] = offered[w] + 1 /\ rowCount'[w] = rowCount[w]
        /\ \/ /\ pc'[w] = "newline" /\ failed'[w] = failed[w]
              /\ file' = Append(file, Line(w, offered'[w])[1])
           \/ /\ pc'[w] = "rows" /\ failed'[w]
              /\ file' \in {file, Append(file, Line(w, offered'[w])[1])}
    BY <1>3 DEF WriteRowJSON, TypeOK, Goto
  <2>2. PICK b \in Int : b = 2 * offered[w] + 2
    BY <1>1
  <2>3. UpTo(w, b) /\ (~failed[w] => rowCount[w] = offered[w])
    BY <1>1, <2>1, <2>2 DEF Part, Through, Owed, UpTo
  <2>4. PICK k \in {0, 1} : Extends(w, b, k)
    <3>1. b = 2 * offered'[w] + 1 - 1 /\ 1 \in 1..2
      BY <1>1, <2>1, <2>2
    <3>2. PICK n \in 0..MaxRows : n = offered'[w]
      BY <1>1
    <3>3. QED
      BY <2>1, <3>1, <3>2, OnePiece
  <2>5. Grows(w)
    BY <2>3, <2>4 DEF Grows
  <2>6. /\ UpTo(w, b + k)'
        /\ \A m \in Int : InFile(w, m) => InFile(w, m)'
    BY <1>1, <2>3, <2>4, ExtendsMine
  <2>7. UpTo(w, b + 1)' /\ UpTo(w, b + 2)'
    BY <1>2, <2>6
  <2>8. Through(w)'
    <3>1. CASE pc'[w] = "newline"
      <4>1. Owed(w)' = 1 /\ 2 * offered'[w] + 2 - Owed(w)' = b + 1
        BY <1>1, <2>1, <2>2, <3>1 DEF Owed
      <4>2. ~failed'[w] => rowCount'[w] = offered'[w] - Owed(w)'
        BY <1>1, <2>1, <2>3, <3>1, <4>1
      <4>3. QED
        BY <2>7, <4>1, <4>2 DEF Through, UpTo
    <3>2. CASE pc'[w] = "rows" /\ failed'[w]
      <4>1. 2 * offered'[w] + 2 - Owed(w)' = b + 2
        BY <1>1, <2>1, <2>2, <3>2 DEF Owed
      <4>2. QED
        BY <2>7, <3>2, <4>1 DEF Through, UpTo
    <3>3. QED
      BY <2>1, <3>1, <3>2
  <2>9. Saved(w)'
    <3>1. \A m \in 1..MaxRows : InFile(w, 2 * m + 2) => InFile(w, 2 * m + 2)'
      BY <1>1, <2>6
    <3>2. Unflushed(w)' = Unflushed(w)
      BY <1>1, <2>1 DEF Unflushed
    <3>3. QED
      BY <2>1, <3>1, <3>2 DEF Part, Saved
  <2>10. QED
    BY <1>1, <2>1, <2>5, <2>8, <2>9 DEF Part, Fresh, Buffered, Complete
<1>4. CASE WriteNewline(w)
  <2>1. /\ pc[w] = "newline" /\ pc'[w] = "rows" /\ offered'[w] = offered[w]
        /\ \/ /\ rowCount'[w] = rowCount[w] + 1 /\ (failed[w] => failed'[w])
              /\ file' = Append(file, Line(w, offered[w])[2])
           \/ /\ rowCount'[w] = rowCount[w] /\ failed'[w]
              /\ file' = file
    BY <1>4 DEF WriteNewline, TypeOK, Goto
  <2>2. PICK b \in Int : b = 2 * offered[w] + 1
    BY <1>1
  <2>3. UpTo(w, b) /\ (~failed[w] => rowCount[w] = offered[w] - 1)
    <3>1. Owed(w) = 1 /\ 2 * offered[w] + 2 - Owed(w) = b
      BY <1>1, <2>1, <2>2 DEF Owed
    <3>2. QED
      BY <2>1, <3>1 DEF Part, Through, UpTo
  <2>4. PICK k \in {0, 1} :
           Extends(w, b, k) /\ (file' = Append(file, Line(w, offered[w])[2]) => k = 1)
    <3>1. b = 2 * offered[w] + 2 - 1 /\ 2 \in 1..2
      BY <1>1, <2>2
    <3>2. PICK n \in 0..MaxRows : n = offered[w]
      BY <1>1, <2>1
    <3>3. file' \in {file, Append(file, Line(w, n)[2])}
      BY <2>1, <3>2
    <3>4. QED
      BY <3>1, <3>2, <3>3, OnePiece
  <2>5. Grows(w)
    BY <2>3, <2>4 DEF Grows
  <2>6. /\ UpTo(w, b + k)'
        /\ \A m \in Int : InFile(w, m)' <=> InFile(w, m) \/ m \in (b + 1)..(b + k)
    BY <1>1, <2>3, <2>4, ExtendsMine
  <2>7. UpTo(w, b + 1)'
    BY <1>2, <2>6
  <2>8. Through(w)'
    <3>1. Owed(w)' = 0 /\ 2 * offered'[w] + 2 - Owed(w)' = b + 1
      BY <1>1, <2>1, <2>2 DEF Owed
    <3>2. ~failed'[w] => rowCount'[w] = offered'[w] - Owed(w)'
      BY <1>1, <2>1, <2>3, <3>1
    <3>3. QED
      BY <2>7, <3>1, <3>2 DEF Through, UpTo
  <2>9. Saved(w)'
    <3>1. SUFFICES ASSUME ~failed'[w], NEW m \in 1..MaxRows,
                          m <= rowCount'[w] - Unflushed(w)'
                   PROVE  InFile(w, 2 * m + 2)'
      BY DEF Saved
    <3>2. /\ rowCount'[w] = rowCount[w] + 1 /\ rowCount[w] = offered[w] - 1 /\ ~failed[w]
          /\ k = 1 /\ Unflushed(w)' = 0 /\ Unflushed(w) = 0
      BY <1>1, <2>1, <2>3, <2>4, <3>1 DEF Unflushed
    <3>3. 2 * m + 2 \in Int /\ (m <= rowCount[w] \/ 2 * m + 2 \in (b + 1)..(b + k))
      BY <1>1, <2>2, <3>1, <3>2
    <3>4. m <= rowCount[w] => InFile(w, 2 * m + 2)
      BY <1>1, <3>2 DEF Part, Saved
    <3>5. QED
      BY <2>6, <3>3, <3>4
  <2>10. QED
    BY <1>1, <2>1, <2>5, <2>8, <2>9 DEF Part, Fresh, Buffered, Complete
<1>5. CASE Close(w)
  <2>1. /\ pc[w] = "rows" /\ pc'[w] = "closed" /\ UNCHANGED <<file, offered, rowCount>>
        /\ failed[w] => failed'[w]
    BY <1>1, <1>5 DEF Close, TypeOK, Goto
  <2>2. /\ Grows(w)
        /\ \A m : InFile(w, m)' <=> InFile(w, m)
    BY <1>1, <2>1, NoGrowth
  <2>3. ASSUME ~failed[w], NEW m \in 1..MaxRows
        PROVE  InFile(w, 2 * m + 2) <=> m <= offered[w]
    <3>1. Owed(w) = 0 /\ Unflushed(w) = 0
      BY <2>1 DEF Owed, Unflushed
    <3>2. rowCount[w] = offered[w] /\ UpTo(w, 2 * offered[w] + 2 - 0)
      BY <1>1, <2>1, <2>3, <3>1 DEF Part, Through
    <3>3. m <= offered[w] => InFile(w, 2 * m + 2)
      BY <1>1, <2>3, <3>1, <3>2 DEF Part, Saved
    <3>4. InFile(w, 2 * m + 2) => 2 * m + 2 <= 2 * offered[w] + 2 - 0
      BY <3>2 DEF UpTo, InFile
    <3>5. QED
      BY <1>1, <3>3, <3>4
  <2>4. Complete(w)'
    BY <2>1, <2>2, <2>3 DEF Complete
  <2>5. Saved(w)'
    BY <1>1, <2>1, <2>2 DEF Part, Saved, Unflushed
  <2>6. QED
    BY <1>1, <2>1, <2>2, <2>4, <2>5 DEF Part, Fresh, Buffered, Through
<1>6. QED
  BY <1>3, <1>4, <1>5

LEMMA InitPInv == Init => PInv
<1> SUFFICES ASSUME Init PROVE PInv
  OBVIOUS
<1>1. FlushEvery \in Nat \ {0} /\ MaxRows \in Nat /\ 0 % FlushEvery = 0
  BY LogAssumption
<1>2. ASSUME NEW w \in Writers
      PROVE  Part(w)
  <2>1. /\ pc[w] = "new" /\ buffer[w] = <<>> /\ broken[w] = FALSE /\ rowCount[w] = 0
        /\ offered[w] = 0 /\ failed[w] = FALSE /\ file = <<>>
    BY DEF Init
  <2>2. Saved(w)
    BY <1>1, <2>1 DEF Saved, Unflushed
  <2>3. QED
    BY <2>1, <2>2 DEF Part, Fresh, Absent, Buffered, Through, Complete
<1>3. InOrder
  BY DEF Init, InOrder
<1>4. QED
  BY <1>2, <1>3 DEF PInv

LEMMA StutterPInv == PInv /\ UNCHANGED vars => PInv'
<1> SUFFICES ASSUME PInv, UNCHANGED vars PROVE PInv'
  OBVIOUS
<1> USE DEF vars
<1>1. \A x, m : /\ InFile(x, m)' <=> InFile(x, m)
                /\ UpTo(x, m)' <=> UpTo(x, m)
  BY DEF InFile, UpTo, LastOf
<1>2. ASSUME NEW w \in Writers
      PROVE  Part(w)'
  <2>1. Part(w) /\ Base(w)' = Base(w) /\ Owed(w)' = Owed(w) /\ Unflushed(w)' = Unflushed(w)
    BY DEF PInv, Base, Owed, Unflushed
  <2>2. Fresh(w)' /\ Saved(w)' /\ Complete(w)' /\ (broken[w] => failed[w])'
    BY <1>1, <2>1 DEF Part, Fresh, Absent, Saved, Complete
  <2>3. UpTo(w, Base(w))' <=> UpTo(w, Base(w))
    BY <2>1 DEF UpTo, LastOf
  <2>4. Buffered(w)'
    BY <1>1, <2>1, <2>3 DEF Part, Buffered
  <2>5. UpTo(w, 2 * offered[w] + 2 - Owed(w))' <=> UpTo(w, 2 * offered[w] + 2 - Owed(w))
    BY <2>1 DEF UpTo, LastOf
  <2>6. Through(w)'
    BY <2>1, <2>5 DEF Part, Through
  <2>7. QED
    BY <2>2, <2>4, <2>6 DEF Part
<1>3. InOrder'
  BY DEF PInv, InOrder
<1>4. QED
  BY <1>2, <1>3 DEF PInv

\* What each writer has put into the file, inductively.
THEOREM PartInductive == Spec => []PInv
<1>1. IInv /\ IInv' /\ PInv /\ Next => PInv'
  <2> SUFFICES ASSUME IInv, IInv', PInv, NEW w \in Writers,
                      Open(w) \/ Check(w) \/ WriteHeader(w) \/ WriteRowCSV(w)
                        \/ WriteRowJSON(w) \/ WriteNewline(w) \/ Close(w) \/ Crash(w)
               PROVE  PInv'
    BY DEF Next
  <2>1. Part(w) /\ TypeOK /\ TypeOK'
    BY DEF PInv, IInv
  <2>2. Grows(w) /\ Part(w)'
    <3>1. WriteNewline(w) \/ WriteRowJSON(w) => format = "json"
      BY DEF IInv, Counting, WriteNewline, WriteRowJSON
    <3>2. Close(w) => format \in {"csv", "json"}
      BY DEF Close
    <3>3. QED
      BY <2>1, <3>1, <3>2, QuietPart, WriteHeaderPart, WriteRowCSVPart, CloseCSVPart, JSONPart
  <2>3. QED
    BY <2>1, <2>2, StepPInv
<1>2. QED
  BY InitPInv, <1>1, StutterPInv, Inductive, PTL DEF Spec

-----------------------------------------------------------------------------
\* A line is in the file when its second piece is.
LEMMA WholeLines ==
    ASSUME TypeOK, NEW w \in Writers
    PROVE  Whole(w) = {n \in 1..MaxRows : InFile(w, 2 * n + 2)}
<1>1. ASSUME NEW n \in 1..MaxRows, NEW i \in 1..Len(file)
      PROVE  file[i] = Line(w, n)[2] <=> file[i].who = w /\ Pos(file[i]) = 2 * n + 2
  <2>1. MaxRows \in Nat /\ n \in Int /\ file[i] \in Piece
    BY LogAssumption, FileLength
  <2>2. \A p \in Piece : /\ p = [who |-> p.who, line |-> p.line, half |-> p.half]
                         /\ p.line \in Int /\ p.half \in {1, 2}
    BY <2>1 DEF Piece
  <2>3. \A p \in Piece : Pos(p) = 2 * n + 2 <=> p.line = n /\ p.half = 2
    BY <2>1, <2>2 DEF Pos
  <2>4. Line(w, n)[2] = [who |-> w, line |-> n, half |-> 2]
    BY DEF Line
  <2>5. QED
    BY <2>1, <2>2, <2>3, <2>4
<1>2. DOMAIN file = 1..Len(file)
  BY FileLength
<1>3. QED
  BY <1>1, <1>2 DEF Whole, InFile

\* A writer that closed without an error has exactly its rows in the file.
THEOREM ClosedWritersComplete == Spec => []ClosedIsComplete
<1>1. TypeOK /\ PInv => ClosedIsComplete
  <2> SUFFICES ASSUME TypeOK, PInv, NEW w \in Writers, pc[w] = "closed", ~failed[w]
               PROVE  Whole(w) = 1..offered[w]
    BY DEF ClosedIsComplete
  <2>1. \A n \in 1..MaxRows : InFile(w, 2 * n + 2) <=> n <= offered[w]
    BY DEF PInv, Part, Complete
  <2>2. MaxRows \in Nat /\ offered[w] \in 0..MaxRows
    BY LogAssumption DEF TypeOK
  <2>3. Whole(w) = {n \in 1..MaxRows : InFile(w, 2 * n + 2)}
    BY WholeLines
  <2>4. Whole(w) = {n \in 1..MaxRows : n <= offered[w]}
    BY <2>1, <2>3
  <2>5. QED
    BY <2>2, <2>4
<1>2. QED
  BY <1>1, TypeCorrect, PartInductive, PTL

\* The lines of a writer are in order, each once, in CSV without a gap.
THEOREM LinesInOrder == Spec => []InOrder
<1>1. PInv => InOrder
  BY DEF PInv
<1>2. QED
  BY <1>1, PartInductive, PTL

\* What dies with a writer whose writes did not fail is what its last flush left.
THEOREM LossBounded == Spec => []BoundedLoss
<1>1. IInv /\ PInv => BoundedLoss
  <2> SUFFICES ASSUME IInv, PInv, NEW w \in Writers, ~failed[w]
               PROVE  rowCount[w] - Cardinality(Whole(w))
                         <= IF format = "csv" THEN FlushEvery - 1 ELSE 0
    BY DEF BoundedLoss
  <2>1. MaxRows \in Nat /\ FlushEvery \in Nat \ {0} /\ rowCount[w] \in 0..MaxRows
    BY LogAssumption DEF IInv, TypeOK
  <2>2. /\ Unflushed(w) \in Nat /\ Unflushed(w) <= rowCount[w]
        /\ Unflushed(w) <= IF format = "csv" THEN FlushEvery - 1 ELSE 0
    <3>1. rowCount[w] % FlushEvery \in 0..(FlushEvery - 1) /\ rowCount[w] % FlushEvery <= rowCount[w]
      BY <2>1, ModStep
    <3>2. QED
      BY <2>1, <3>1 DEF Unflushed
  <2>3. PICK m \in Nat : m = rowCount[w] - Unflushed(w)
    BY <2>1, <2>2
  <2>4. 1..m \subseteq Whole(w)
    <3>1. \A n \in 1..MaxRows : n <= m => InFile(w, 2 * n + 2)
      BY <2>3 DEF PInv, Part, Saved
    <3>2. 1..m \subseteq 1..MaxRows
      BY <2>1, <2>2, <2>3
    <3>3. QED
      BY <3>1, <3>2, WholeLines DEF IInv
  <2>5. IsFiniteSet(Whole(w))
    <3>1. IsFiniteSet(1..MaxRows)
      <4>1. 1 \in Int /\ MaxRows \in Int
        BY <2>1
      <4>2. QED
        BY <4>1, FS_Interval
    <3>2. Whole(w) \subseteq 1..MaxRows
      BY DEF Whole
    <3>3. QED
      BY <3>1, <3>2, FS_Subset
  <2>6. Cardinality(1..m) = m
    BY FS_Interval
  <2>7. Cardinality(Whole(w)) \in Nat /\ m <= Cardinality(Whole(w))
    BY <2>4, <2>5, <2>6, FS_Subset, FS_CardinalityType
  <2>8. QED
    BY <2>1, <2>2, <2>3, <2>7
<1>2. QED
  BY <1>1, Inductive, PartInductive, PTL

=============================================================================
