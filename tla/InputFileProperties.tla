-------------------------- MODULE InputFileProperties --------------------------
(***************************************************************************)
(* What the reader promises to the schedulers.                             *)
(***************************************************************************)
EXTENDS InputFile

InputTypeOK ==
  /\ pc \in {"count", "read", "extract", "return", "run", "undefined"}
  /\ position \in 0 .. Len(file) /\ lineCounter \in 0 .. Len(file)
  /\ newlines \subseteq Nat
  /\ \A n \in 1 .. Len(inputList) : inputList[n].arrival \in 0 .. UIntSize - 1
                                    /\ inputList[n].pid \in 0 .. UIntSize - 1
                                    /\ inputList[n].exec \in 0 .. UIntSize - 1

\* The lines before the first empty one.
Records == {n \in 1 .. Len(file) : \A m \in 1 .. n : ~Blank(file[m])}

\* Nothing is skipped, repeated or put in another order, and an empty line ends
\* the list whatever follows it: lineCounter, which becomes the size of the
\* queues, counts on behind it (sim.c:55 and 76-77).
ListIsFile == pc = "run" =>
  /\ lineCounter = Len(file)
  /\ inputList = [n \in Records |-> NodeOf(file[n])]

\* The numbers of a line that an unsigned int can hold.
Fits(l) == l.arrival < UIntSize /\ l.pid < UIntSize /\ l.exec \in 1 .. UIntSize - 1

\* If the lines that are read hold numbers that fit, and no id twice, then SimRun
\* gets what its schedulers assume: a list of nodes with those numbers, no id
\* twice, and queues with a slot for every node (main.c:28-34).
HandsOver ==
  /\ pc = "run"
  /\ \A n \in Records : Fits(file[n])
  /\ \A m, n \in Records : file[m].pid = file[n].pid => m = n
  => /\ ListOf(inputList, lineCounter) /\ PidsDiffer(inputList)
     /\ \A n \in Records : \A field \in {"arrival", "pid", "exec"} :
          inputList[n][field] = file[n][field]

\* A file without a newline at its end can be read when an earlier line was
\* longer than the last one and no line between them has overwritten its
\* newline.  That is the only reason for a read behind the buffer, and a file
\* that begins with an empty line, or is empty, the only other way to fail.
FailsOnlyIf == pc = "undefined" =>
  \/ Records = {}
  \/ /\ ~file[Len(file)].ended
     /\ \A m \in 1 .. Len(file) - 1 :
          file[m].length > file[Len(file)].length =>
            \E n \in m + 1 .. Len(file) - 1 : file[n].length + 1 >= file[m].length

-----------------------------------------------------------------------------
(***************************************************************************)
(* The inductive invariant of the two passes.                              *)
(***************************************************************************)

\* The first pass counts and leaves the rest alone; the second one has read the
\* lines up to position, none of them empty.
PassInv ==
  IF pc = "count"
  THEN lineCounter = position /\ newlines = {} /\ inputList = <<>>
  ELSE /\ lineCounter = Len(file)
       /\ 1 .. position \subseteq Records
       /\ pc = "extract" => position > 0
       /\ pc \in {"return", "run"} => ~RecordFollows

\* The list has a node for each line read, but for the one being extracted.
NodesInv == pc \notin {"count", "undefined"} =>
  inputList = [n \in 1 .. IF pc = "extract" THEN position - 1 ELSE position |-> NodeOf(file[n])]

\* A newline in the buffer is that of a line read that no later one has reached.
BufferInv == pc # "count" =>
  newlines = {file[m].length : m \in {m \in 1 .. position :
                /\ file[m].ended
                /\ \A n \in m + 1 .. position : Zero(file[n]) < file[m].length}}

\* How the program ends.
EndInv ==
  /\ pc = "run" => inputList # <<>>
  /\ pc = "undefined" => IF position = 0 THEN ~RecordFollows ELSE ~FlagEnds

\* What both passes keep true of every file: the counters, the list, the newlines
\* left in the buffer and the end of the program agree with the lines come past
\* (CountLines, ReadFile).
ReaderInv == InputTypeOK /\ PassInv /\ NodesInv /\ BufferInv /\ EndInv
=============================================================================
