---------------------------- MODULE InputFileProofs ----------------------------
(***************************************************************************)
(* The promises of the reader hold of every file, whatever its length, and *)
(* whatever the widths of the numbers: ReaderInv is inductive, and each    *)
(* promise follows from it.                                                *)
(***************************************************************************)
EXTENDS InputFileProperties, TLAPS

\* A number below a modulus is its own remainder.
LEMMA SmallRemainder ==
  ASSUME NEW a \in Nat, NEW b \in Nat \ {0}, a < b
  PROVE  a % b = a
BY Z3

\* What an unsigned int holds is in its range.
LEMMA NumberRange ==
  ASSUME NEW n \in Nat
  PROVE  ExtractIntNumber(n) \in 0 .. UIntSize - 1
<1>1. (IF n < ULongSize THEN n ELSE ULongSize - 1) \in Nat /\ UIntSize \in Nat \ {0}
  BY WidthAssumption
<1>2. ASSUME NEW a \in Nat, NEW b \in Nat \ {0} PROVE a % b \in 0 .. b - 1
  OBVIOUS
<1> QED BY <1>1, <1>2 DEF ExtractIntNumber

\* Numbers that fit are kept: an unsigned long is not narrower than an unsigned int.
LEMMA NumberKept ==
  ASSUME NEW n \in Nat, n < UIntSize
  PROVE  ExtractIntNumber(n) = n
<1>1. UIntSize \in Nat \ {0} /\ ULongSize \in Nat \ {0}
  BY WidthAssumption
<1>2. UIntSize <= ULongSize
  BY <1>1, SmallRemainder, WidthAssumption
<1>3. n % UIntSize = n
  BY <1>1, SmallRemainder
<1> QED BY <1>1, <1>2, <1>3 DEF ExtractIntNumber

\* The file and the lines in it.
LEMMA FileFacts ==
  ASSUME file \in InputFiles
  PROVE  /\ Len(file) \in Nat
         /\ \A n \in 1 .. Len(file) : file[n] \in Line
         /\ \A n \in 1 .. Len(file) : file[n].ended \/ (n = Len(file) /\ file[n].length > 0)
BY InputFilesAssumption

\* A list as long as the lines it is made of.
LEMMA NodesFacts ==
  ASSUME NEW k \in Nat, inputList = [n \in 1 .. k |-> NodeOf(file[n])]
  PROVE  Len(inputList) = k /\ inputList \in Seq({NodeOf(file[n]) : n \in 1 .. k})
OBVIOUS

-----------------------------------------------------------------------------
\* What all the steps below use.
LEMMA StepFacts ==
  ASSUME file \in InputFiles, ReaderInv
  PROVE  /\ position \in 0 .. Len(file) /\ Len(file) \in Nat /\ lineCounter \in 0 .. Len(file)
         /\ pc = "extract" => position \in 1 .. Len(file)
BY FileFacts DEF ReaderInv, InputTypeOK, PassInv

\* One more line has been read: it and those before it are not empty.
LEMMA OneMoreRecord ==
  ASSUME file \in InputFiles, NEW k \in 0 .. Len(file) - 1,
         1 .. k \subseteq Records, ~Blank(file[k + 1])
  PROVE  1 .. k + 1 \subseteq Records
BY FileFacts DEF Records

LEMMA PassStep ==
  ASSUME file \in InputFiles, ReaderInv, [Next]_vars
  PROVE  PassInv'
<1> USE StepFacts DEF ReaderInv, PassInv
<1>1. CASE CountLine
  BY <1>1 DEF CountLine, AtEnd
<1>2. CASE EndCount
  BY <1>2 DEF EndCount, AtEnd, RecordFollows, Records
<1>3. CASE ReadLine
  <2>1. 1 .. position + 1 \subseteq Records
    BY <1>3, OneMoreRecord DEF ReadLine, RecordFollows, AtEnd
  <2> QED BY <1>3, <2>1 DEF ReadLine, RecordFollows, AtEnd, Records
<1>4. CASE StopReading
  BY <1>4 DEF StopReading, RecordFollows, AtEnd, Records
<1>5. CASE ExtractLine
  BY <1>5 DEF ExtractLine, Records
<1>6. CASE ReadBehindBuffer \/ SimRun
  BY <1>6 DEF ReadBehindBuffer, SimRun, RecordFollows, AtEnd, Records
<1>7. CASE UNCHANGED vars
  BY <1>7 DEF vars, RecordFollows, AtEnd, Records
<1> QED BY <1>1, <1>2, <1>3, <1>4, <1>5, <1>6, <1>7 DEF Next

LEMMA NodesStep ==
  ASSUME file \in InputFiles, ReaderInv, [Next]_vars
  PROVE  NodesInv'
<1> USE StepFacts DEF ReaderInv, NodesInv
<1>1. CASE CountLine
  BY <1>1 DEF CountLine
<1>2. CASE EndCount
  BY <1>2 DEF EndCount, PassInv
<1>3. CASE ReadLine \/ StopReading
  BY <1>3 DEF ReadLine, StopReading, RecordFollows, AtEnd, NodeOf
<1>4. CASE ExtractLine
  <2>1. inputList = [n \in 1 .. position - 1 |-> NodeOf(file[n])]
    BY <1>4 DEF ExtractLine
  <2>2. inputList' = Append(inputList, NodeOf(file[position]))
    BY <1>4 DEF ExtractLine, InputListInsert, line
  <2>3. inputList' = [n \in 1 .. position |-> NodeOf(file[n])]
    BY <2>1, <2>2, <1>4 DEF ExtractLine
  <2> QED BY <1>4, <2>3 DEF ExtractLine, NodeOf
<1>5. CASE ReadBehindBuffer \/ SimRun
  BY <1>5 DEF ReadBehindBuffer, SimRun, NodeOf
<1>6. CASE UNCHANGED vars
  BY <1>6 DEF vars, NodeOf
<1> QED BY <1>1, <1>2, <1>3, <1>4, <1>5, <1>6 DEF Next

\* Storing a line keeps the newlines behind its zero and adds its own.
LEMMA BufferStep ==
  ASSUME file \in InputFiles, ReaderInv, [Next]_vars
  PROVE  BufferInv'
<1> USE StepFacts DEF ReaderInv, BufferInv
<1>1. CASE CountLine
  BY <1>1 DEF CountLine
<1>2. CASE EndCount
  BY <1>2 DEF EndCount, PassInv
<1>3. CASE ReadLine
  <2> DEFINE Left(k) == {m \in 1 .. k : /\ file[m].ended
                                        /\ \A n \in m + 1 .. k : Zero(file[n]) < file[m].length}
             l == file[position + 1]
  <2>1. /\ pc = "read" /\ position \in 0 .. Len(file) - 1 /\ position' = position + 1
        /\ newlines' = Overwritten(l) /\ file' = file
    BY <1>3 DEF ReadLine, RecordFollows, AtEnd
  <2>2. \A m \in 1 .. Len(file) : file[m].length \in Nat /\ Zero(file[m]) \in Nat
    BY FileFacts DEF Line, Zero
  <2>3. newlines = {file[m].length : m \in Left(position)}
    BY <2>1
  <2>4. ASSUME NEW m \in 1 .. position
        PROVE  m \in Left(position + 1) <=> m \in Left(position) /\ Zero(l) < file[m].length
    BY <2>1
  <2>5. position + 1 \in Left(position + 1) <=> l.ended
    BY <2>1
  <2>6. 1 .. position + 1 = 1 .. position \cup {position + 1}
    BY <2>1
  <2>7. Left(position + 1) = {m \in Left(position) : Zero(l) < file[m].length}
                             \cup (IF l.ended THEN {position + 1} ELSE {})
    BY <2>4, <2>5, <2>6
  <2>8. newlines' = {file[m].length : m \in Left(position + 1)}
    <3> HIDE DEF Left
    <3> QED BY <2>1, <2>2, <2>3, <2>7 DEF Overwritten
  <2> QED BY <2>1, <2>8 DEF Zero
<1>4. CASE StopReading \/ ExtractLine \/ ReadBehindBuffer \/ SimRun
  BY <1>4 DEF StopReading, ExtractLine, ReadBehindBuffer, SimRun, Zero
<1>5. CASE UNCHANGED vars
  BY <1>5 DEF vars, Zero
<1> QED BY <1>1, <1>2, <1>3, <1>4, <1>5 DEF Next

LEMMA EndStep ==
  ASSUME file \in InputFiles, ReaderInv, [Next]_vars
  PROVE  EndInv'
<1> USE StepFacts DEF ReaderInv, EndInv
<1>1. CASE CountLine \/ EndCount \/ ReadLine \/ StopReading \/ ExtractLine
  BY <1>1 DEF CountLine, EndCount, ReadLine, StopReading, ExtractLine
<1>2. CASE ReadBehindBuffer
  BY <1>2 DEF ReadBehindBuffer, FlagEnds, line
<1>3. CASE SimRun
  <2>1. pc = "return" /\ ~RecordFollows
    BY <1>3 DEF SimRun, PassInv
  <2>2. inputList = <<>> => position = 0
    BY <2>1, NodesFacts DEF NodesInv
  <2> QED BY <1>3, <2>1, <2>2 DEF SimRun, RecordFollows, AtEnd
<1>4. CASE UNCHANGED vars
  BY <1>4 DEF vars, RecordFollows, AtEnd, FlagEnds, line
<1> QED BY <1>1, <1>2, <1>3, <1>4 DEF Next

\* The numbers of the nodes of some lines.
LEMMA NodeRange ==
  ASSUME file \in InputFiles, NEW n \in 1 .. Len(file)
  PROVE  /\ NodeOf(file[n]).arrival \in 0 .. UIntSize - 1
         /\ NodeOf(file[n]).pid \in 0 .. UIntSize - 1
         /\ NodeOf(file[n]).exec \in 0 .. UIntSize - 1
BY FileFacts, NumberRange DEF NodeOf, Line

LEMMA TypeStep ==
  ASSUME file \in InputFiles, ReaderInv, [Next]_vars
  PROVE  InputTypeOK'
<1> USE StepFacts DEF ReaderInv, InputTypeOK
<1>1. CASE CountLine
  <2>1. position' = position + 1 /\ lineCounter' = position + 1 /\ position + 1 <= Len(file)
    BY <1>1 DEF CountLine, AtEnd, PassInv
  <2> QED BY <1>1, <2>1 DEF CountLine
<1>2. CASE EndCount \/ StopReading \/ ReadBehindBuffer \/ SimRun
  <2>1. /\ pc' \in {"read", "return", "undefined", "run"} /\ position' \in {0, position}
        /\ UNCHANGED <<file, lineCounter, newlines, inputList>>
    BY <1>2 DEF EndCount, StopReading, ReadBehindBuffer, SimRun
  <2> QED BY <2>1
<1>5. CASE ReadLine
  <2>1. position' = position + 1 /\ position + 1 \in 1 .. Len(file)
    BY <1>5 DEF ReadLine, RecordFollows, AtEnd
  <2>2. file[position + 1].length \in Nat
    BY <2>1, FileFacts DEF Line
  <2>3. newlines' \subseteq Nat
    BY <1>5, <2>1, <2>2 DEF ReadLine, Overwritten
  <2> QED BY <1>5, <2>1, <2>3 DEF ReadLine
<1>3. CASE ExtractLine
  <2>1. inputList' = [n \in 1 .. position |-> NodeOf(file[n])]
    BY <1>3, NodesStep DEF NodesInv, ExtractLine, NodeOf
  <2>2. \A n \in 1 .. Len(inputList') : n \in 1 .. Len(file) /\ inputList'[n] = NodeOf(file[n])
    BY <2>1
  <2> QED BY <1>3, <2>2, NodeRange DEF ExtractLine
<1>4. CASE UNCHANGED vars
  BY <1>4 DEF vars
<1> QED BY <1>1, <1>2, <1>3, <1>4, <1>5 DEF Next

-----------------------------------------------------------------------------
\* The state of the reader, at every step, agrees with the lines it has come past.
THEOREM ReaderInvariant == Spec => [](file \in InputFiles /\ ReaderInv)
<1>1. Init => file \in InputFiles /\ ReaderInv
  BY FileFacts DEF Init, ReaderInv, InputTypeOK, PassInv, NodesInv, BufferInv, EndInv
<1>2. [Next]_vars => file' = file
  BY DEF Next, vars, CountLine, EndCount, ReadLine, StopReading, ExtractLine, ReadBehindBuffer, SimRun
<1>3. file \in InputFiles /\ ReaderInv /\ [Next]_vars => (file \in InputFiles /\ ReaderInv)'
  BY <1>2, PassStep, NodesStep, BufferStep, EndStep, TypeStep DEF ReaderInv
<1> QED BY <1>1, <1>3, PTL DEF Spec

\* The counters stay within the file, the numbers within an unsigned int.
THEOREM ReaderTypes == Spec => []InputTypeOK
<1>1. ReaderInv => InputTypeOK
  BY DEF ReaderInv
<1> QED BY <1>1, ReaderInvariant, PTL

\* When the reader has stopped before a line, the records are the lines before it.
LEMMA RecordsRead ==
  ASSUME file \in InputFiles, ReaderInv, pc # "count", ~RecordFollows
  PROVE  Records = 1 .. position
BY StepFacts DEF ReaderInv, PassInv, RecordFollows, AtEnd, Records

LEMMA ReadsTheRecords ==
  ASSUME file \in InputFiles, ReaderInv
  PROVE  ListIsFile
<1> SUFFICES ASSUME pc = "run"
             PROVE  lineCounter = Len(file) /\ inputList = [n \in Records |-> NodeOf(file[n])]
  BY DEF ListIsFile
<1>1. Records = 1 .. position
  BY RecordsRead DEF ReaderInv, PassInv
<1> QED BY <1>1 DEF ReaderInv, PassInv, NodesInv

\* ReadFile makes a node of every line before the first empty one, in their order,
\* and CountLines counts all lines.
THEOREM ListsTheRecords == Spec => []ListIsFile
BY ReaderInvariant, ReadsTheRecords, PTL

LEMMA GivesAList ==
  ASSUME file \in InputFiles, ReaderInv
  PROVE  HandsOver
<1> SUFFICES ASSUME pc = "run", \A n \in Records : Fits(file[n]),
                    \A m, n \in Records : file[m].pid = file[n].pid => m = n
             PROVE  /\ ListOf(inputList, lineCounter) /\ PidsDiffer(inputList)
                    /\ \A n \in Records : \A field \in {"arrival", "pid", "exec"} :
                         inputList[n][field] = file[n][field]
  BY DEF HandsOver
<1>1. /\ Records = 1 .. position /\ position \in 0 .. Len(file) /\ Len(file) \in Nat
      /\ inputList = [n \in 1 .. position |-> NodeOf(file[n])] /\ inputList # <<>>
      /\ lineCounter = Len(file)
  BY RecordsRead, StepFacts DEF ReaderInv, PassInv, NodesInv, EndInv
<1>2. ASSUME NEW n \in 1 .. position
      PROVE  /\ NodeOf(file[n]) \in Node
             /\ \A field \in {"arrival", "pid", "exec"} : NodeOf(file[n])[field] = file[n][field]
  <2>1. Fits(file[n]) /\ file[n] \in Line
    BY <1>1, FileFacts
  <2>2. /\ file[n].arrival \in Nat /\ file[n].pid \in Nat /\ file[n].exec \in Nat \ {0}
        /\ file[n].arrival < UIntSize /\ file[n].pid < UIntSize /\ file[n].exec < UIntSize
    BY <2>1, WidthAssumption DEF Fits, Line
  <2>3. /\ ExtractIntNumber(file[n].arrival) = file[n].arrival
        /\ ExtractIntNumber(file[n].pid) = file[n].pid
        /\ ExtractIntNumber(file[n].exec) = file[n].exec
    BY <2>2, NumberKept
  <2>4. /\ NodeOf(file[n]).arrival = file[n].arrival /\ NodeOf(file[n]).pid = file[n].pid
        /\ NodeOf(file[n]).exec = file[n].exec
    BY <2>3 DEF NodeOf
  <2>5. NodeOf(file[n]) \in Node
    BY <2>2, <2>3 DEF NodeOf, Node
  <2> QED BY <2>4, <2>5
<1>3. inputList \in Seq(Node) /\ Len(inputList) = position /\ position > 0
  BY <1>1, <1>2
<1>4. \A n \in 1 .. position : inputList[n].pid = file[n].pid
  BY <1>1, <1>2
<1> QED BY <1>1, <1>2, <1>3, <1>4 DEF ListOf, PidsDiffer

\* What FilesAssumption of OneCpu asks of a list is what the reader hands over,
\* for a file whose numbers fit and whose ids differ.
THEOREM HandsOverAList == Spec => []HandsOver
BY ReaderInvariant, GivesAList, PTL

LEMMA EndsAsStated ==
  ASSUME file \in InputFiles, ReaderInv
  PROVE  FailsOnlyIf
<1> SUFFICES ASSUME pc = "undefined", Records # {}
             PROVE  /\ ~file[Len(file)].ended
                    /\ \A m \in 1 .. Len(file) - 1 :
                         file[m].length > file[Len(file)].length =>
                           \E n \in m + 1 .. Len(file) - 1 : file[n].length + 1 >= file[m].length
  BY DEF FailsOnlyIf
<1>1. position \in 1 .. Len(file) /\ ~FlagEnds
  BY StepFacts, RecordsRead DEF ReaderInv, EndInv
<1>2. \A n \in 1 .. Len(file) : /\ file[n].length \in Nat /\ file[n].ended \in BOOLEAN
                               /\ Zero(file[n]) = IF file[n].ended THEN file[n].length + 1 ELSE file[n].length
  BY FileFacts DEF Line, Zero
<1>3. ASSUME NEW m \in 1 .. position, file[m].ended,
             \A n \in m + 1 .. position : Zero(file[n]) < file[m].length
      PROVE  file[m].length < file[position].length
  <2>1. file[m].length \in newlines
    BY <1>3 DEF ReaderInv, BufferInv
  <2> QED BY <1>1, <1>2, <2>1 DEF FlagEnds, line
<1>4. ~file[position].ended
  BY <1>1, <1>2, <1>3
<1>5. position = Len(file)
  BY <1>1, <1>4, FileFacts
<1>6. ASSUME NEW m \in 1 .. Len(file) - 1, file[m].length > file[Len(file)].length,
             \A n \in m + 1 .. Len(file) - 1 : ~(file[n].length + 1 >= file[m].length)
      PROVE  FALSE
  <2>1. file[m].ended
    BY <1>6, FileFacts
  <2>2. \A n \in m + 1 .. position : Zero(file[n]) < file[m].length
    BY <1>1, <1>2, <1>4, <1>5, <1>6, SMTT(30)
  <2>3. m \in 1 .. position
    BY <1>1, <1>5
  <2>4. file[m].length < file[position].length
    BY <1>3, <2>1, <2>2, <2>3
  <2>5. file[m].length \in Nat /\ file[position].length \in Nat
    BY <1>1, <1>2, <2>3, <1>5
  <2> QED BY <1>5, <1>6, <2>4, <2>5
<1> QED BY <1>4, <1>5, <1>6

\* ReadFile and SimRun fail on a file that has no record, or on one whose last line
\* lacks a newline that the buffer does not hold any more either.
THEOREM FailsAsStated == Spec => []FailsOnlyIf
BY ReaderInvariant, EndsAsStated, PTL
=============================================================================
