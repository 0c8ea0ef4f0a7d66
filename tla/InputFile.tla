------------------------------ MODULE InputFile ------------------------------
(***************************************************************************)
(* The two passes over the input file (CountLines and ReadFile in sim.c,   *)
(* readFile.c, InputListInsert in linkedlist.c) and the call of SimRun     *)
(* that hands the list and the number of lines to the schedulers.          *)
(*                                                                         *)
(* A line is the length of its text and what the text says: an empty line  *)
(* says nothing, every other one is "arrival pid exec flag", with numbers  *)
(* of any size.  A line is shorter than the buffer.  Only the last line    *)
(* may lack the newline at its end.                                        *)
(*                                                                         *)
(* The buffer is not cleared between two lines: fgets overwrites as much   *)
(* of it as the new line needs.  ExtractPN looks for a newline, and what   *)
(* it needs to know of the buffer is where the newlines are.               *)
(***************************************************************************)
EXTENDS InputNodes

CONSTANTS
  InputFiles,  \* the files: sequences of lines
  UIntSize,    \* 2^32, the number of values of an unsigned int
  ULongSize    \* 2^64, the number of values of an unsigned long

ASSUME WidthAssumption ==
  UIntSize \in Nat \ {0} /\ ULongSize \in Nat \ {0} /\ ULongSize % UIntSize = 0

Line ==
  [length : Nat, ended : BOOLEAN, arrival : Nat, pid : Nat, exec : Nat, flag : {"p", "n"}]

ASSUME InputFilesAssumption ==
  \A f \in InputFiles : /\ f \in Seq(Line)
                        /\ \A n \in 1 .. Len(f) : f[n].ended \/ (n = Len(f) /\ f[n].length > 0)

VARIABLES
  file,
  pc,           \* "count", "read", "extract", "return", "run", "undefined"
  position,     \* the lines fgets has returned since the file was opened
  lineCounter,
  newlines,     \* the indexes of buffer at which there is a newline
  inputList     \* the list built so far; empty for a NULL head

vars == <<file, pc, position, lineCounter, newlines, inputList>>

Init ==
  /\ file \in InputFiles
  /\ pc = "count" /\ position = 0 /\ lineCounter = 0
  /\ newlines = {} /\ inputList = <<>>

AtEnd == position = Len(file)
line == file[position]
Blank(l) == l.length = 0
RecordFollows == ~AtEnd /\ ~Blank(file[position + 1])

-----------------------------------------------------------------------------
\* Mutant: the counter is one line behind.
CountLine_OneLess ==
  /\ pc = "count" /\ ~AtEnd
  /\ position' = position + 1
  /\ lineCounter' = position
  /\ UNCHANGED <<file, pc, newlines, inputList>>

\* CountLines counts what fgets returns, whatever it is.
CountLine ==
  /\ pc = "count" /\ ~AtEnd
  /\ position' = position + 1
  /\ lineCounter' = lineCounter + 1
  /\ UNCHANGED <<file, pc, newlines, inputList>>

\* ReadFile opens the file again, with a buffer of zeros.
EndCount ==
  /\ pc = "count" /\ AtEnd
  /\ pc' = "read" /\ position' = 0
  /\ UNCHANGED <<file, lineCounter, newlines, inputList>>

\* Mutant: the buffer is taken to be empty behind the line.
Overwritten_All(l) == IF l.ended THEN {l.length} ELSE {}

\* The newlines of the buffer after fgets has stored a line: its text, its
\* newline if it has one, and a zero behind it overwrite what was there.
Zero(l) == IF l.ended THEN l.length + 1 ELSE l.length
Overwritten(l) == {k \in newlines : k > Zero(l)} \cup (IF l.ended THEN {l.length} ELSE {})

\* fgets returns a line that is not empty.
ReadLine ==
  /\ pc = "read" /\ RecordFollows
  /\ position' = position + 1
  /\ newlines' = Overwritten(file[position'])
  /\ pc' = "extract"
  /\ UNCHANGED <<file, lineCounter, inputList>>

\* The loop ends at the end of the file or at an empty line.
StopReading ==
  /\ pc = "read" /\ ~RecordFollows
  /\ pc' = "return"
  /\ UNCHANGED <<file, position, lineCounter, newlines, inputList>>

-----------------------------------------------------------------------------
\* Mutant: the number is not narrowed.
ExtractIntNumber_Wide(n) == IF n < ULongSize THEN n ELSE ULongSize - 1

\* The number that the text of n becomes: strtoul stops at the largest unsigned
\* long, the conversion keeps the low half.
ExtractIntNumber(n) == (IF n < ULongSize THEN n ELSE ULongSize - 1) % UIntSize

\* The node made of a line.  The flag is known by its first letter, however far
\* the search for its end went.
NodeOf(l) ==
  [arrival |-> ExtractIntNumber(l.arrival), pid |-> ExtractIntNumber(l.pid),
   exec |-> ExtractIntNumber(l.exec), parallel |-> IF l.flag = "p" THEN 1 ELSE 0]

\* Mutant: the new node is put first.
InputListInsert_First(node) == inputList' = <<node>> \o inputList

\* The new node is put behind the last one.
InputListInsert(node) == inputList' = Append(inputList, node)

\* A newline is in the buffer behind the flag: that of the line, or one that an
\* earlier and longer line has left.
FlagEnds == \E k \in newlines : k >= line.length

\* The fields are extracted and the node is added.  Without a newline ExtractPN
\* reads on behind the buffer, where there may be one.
ExtractLine ==
  /\ pc = "extract"
  /\ InputListInsert(NodeOf(line))
  /\ pc' = "read"
  /\ UNCHANGED <<file, position, lineCounter, newlines>>

\* Or it reads memory that is not the program's.
ReadBehindBuffer ==
  /\ pc = "extract" /\ ~FlagEnds
  /\ pc' = "undefined"
  /\ UNCHANGED <<file, position, lineCounter, newlines, inputList>>

\* main calls SimRun.  The sorts read through the head of the list, which is
\* NULL when no line was added.
SimRun ==
  /\ pc = "return"
  /\ pc' = IF inputList = <<>> THEN "undefined" ELSE "run"
  /\ UNCHANGED <<file, position, lineCounter, newlines, inputList>>

Ended == pc \in {"run", "undefined"}

Next ==
  \/ CountLine \/ EndCount \/ ReadLine \/ StopReading
  \/ ExtractLine \/ ReadBehindBuffer \/ SimRun
  \/ Ended /\ UNCHANGED vars

Spec == Init /\ [][Next]_vars
=============================================================================
