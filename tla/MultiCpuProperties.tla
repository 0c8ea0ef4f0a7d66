-------------------------- MODULE MultiCpuProperties --------------------------
(***************************************************************************)
(* What the simulation with several processors promises.  As in            *)
(* OneCpuProperties, most of it holds as long as no deletion met a tie.    *)
(***************************************************************************)
EXTENDS MultiCpu, QueueUse

Sound == call # "undefined" /\ tied = {}

MultiTypeOK ==
  /\ TypeOK
  /\ pc \in {"sort", "arrive", "place", "placed", "run", "check", "free", "done"}
  /\ loop \in {"arriving", "remaining"}
  /\ i \in 0 .. numCPU /\ subProcNo \in 0 .. numCPU /\ target \in Cpu
  /\ globalTimer \in Nat /\ inputList \in Seq(Node) /\ pass \in Nat /\ sorts \in Seq(Field)
  /\ minPtr \in [Cpu -> Proc \cup {NULL}] /\ isRunning \subseteq Proc
  /\ nodeOf \in [Pid -> Node] /\ DOMAIN parallelProcTable \subseteq Pid
  /\ \A pid \in DOMAIN parallelProcTable : parallelProcTable[pid] \in 1 .. numCPU
  /\ lastRan \in [Cpu -> Proc \cup {NULL}] /\ finishedAt \in [Pid -> Nat]

\* Every processor runs the root of its own heap, and its pointer is NULL just
\* when its heap is empty: the two functions test one or the other (sim.c:518
\* and 651), and one of them dereferences without a test.
MinIsRoot == call = "none" => \A c \in Cpu :
  \/ pc = "placed" /\ c = target
  \/ pc = "free" /\ c = i
  \/ minPtr[c] = IF IsEmptyPQ(c) THEN NULL ELSE FindMinRemainTimeProcess(c)

\* No step may carry the timer past a process that is still in the list.
NoArrivalMissed == \A n \in 1 .. Len(inputList) : globalTimer <= inputList[n].arrival

\* The processes whose node has left the list, and the parts they consist of.
Waiting == {pid \in Pid : \E n \in 1 .. Len(inputList) : inputList[n] = nodeOf[pid]}
Arrived == Pid \ Waiting
Running(pid) == Parts(pid) \cap live

\* remainNumSubs counts the subprocesses that have not been deleted, so that
\* the FINISHED line is printed for the last one (sim.c:596-600, 721-725).
SubsAreCounted == pc # "free" => \A pid \in Arrived :
  IsParallel(pid) /\ Running(pid) # {} => parallelProcTable[pid] = Cardinality(Running(pid))

\* A process is reported finished when the last of its parts is, not before and
\* not later ("A parallelisable process is considered finished when all of its
\* subprocesses have finished", README.md:34), even where a tie has cost a process.
FinishedWithLastPart == pc # "free" => \A pid \in Arrived :
  finishedAt[pid] > 0 <=> Running(pid) = {}

\* proc_remaining is the number of the processes that have arrived and have a
\* part with time left, when a process finishes: those that finish in the same
\* tick on other processors are not among them (CountAllProcesses).
RemainingIsCounted ==
  Sound /\ pc = "check" /\ call = "none" =>
    CountAllProcesses = Cardinality({pid \in Arrived : \E p \in Parts(pid) : remainingTime[p] > 0})

\* A RUNNING line is printed exactly when a processor turns to a process, not
\* while it goes on with it.
AnnouncedOnSwitch ==
  Sound /\ pc = "run" /\ i < numCPU /\ ~Rests(i) => (Announces(i) <=> lastRan[i] # minPtr[i])

\* Two subprocesses of one process never share a processor: they are "assigned
\* to k processors" (README.md:30).
PartsAreApart == Sound => \A c \in Cpu : \A p, q \in Slots(c) : PidOf(p) = PidOf(q) => p = q

\* Every subprocess is assigned to a processor (README.md:30), and every other
\* process too (README.md:21): the queue it is added to has room for it, though
\* that queue has no more slots than the file has lines.
RoomForAll ==
  Sound /\ pc = "place" /\ <<HeadPid, subProcNo>> \in Parts(HeadPid) =>
    \A c \in Cpu : PlaceOf(HeadPid, c) => ~IsFullPQ(c)

\* What SimRun prints at the end (sim.c:115-118) agrees with the FINISHED lines:
\* each process counts once, with the time from its arrival to that line, and
\* with the execution time of the file although its parts need longer.
Runs == [pid \in Pid |-> <<finishedAt[pid] - nodeOf[pid].arrival, nodeOf[pid].exec>>]
PrintsWhatHappened == Sound /\ pc = "done" => PrintedOf(Runs)

\* The program returns once all processes have run to completion (README.md:16),
\* or it spins on a process that the table is said to hold, because its id is
\* repeated or the table was never made (sim.c:345, 412): nothing else keeps it from
\* returning.
Terminates ==
  <>(\/ pc = "done" /\ \A p \in Proc : remainingTime[p] = 0
     \/ RepeatIsDue
     \/ ~Sound)

-----------------------------------------------------------------------------
(***************************************************************************)
(* The inductive invariant that MinIsRoot and NoArrivalMissed follow from, *)
(* and that the queues are used as QueueClient does.                       *)
(***************************************************************************)
PlaceInv ==
  /\ \/ call \in {"none", "undefined"}
     \/ pc = "placed" /\ call = "siftUp" /\ at = target
     \/ pc = "free" /\ call \in {"siftDown", "pidSort"} /\ at = i
  /\ pc # "sort" => sorts = <<>>
  /\ pc \in {"sort", "place", "placed"} => loop = "arriving"
  /\ loop = "remaining" => inputList = <<>>
  /\ pc \in {"place", "placed"} => inputList # <<>>
  /\ pc = "placed" => /\ <<HeadPid, subProcNo>> \in Parts(HeadPid)
                      /\ call = "none" => size[target] >= 1
  /\ pc = "run" => ~Due
  /\ pc = "free" => i < numCPU
  /\ pc \notin {"run", "check", "free"} => i = 0

\* What the pointer of a processor is, and the process being deleted.
PointerInv ==
  /\ \A c \in Cpu :
       \/ pc = "placed" /\ c = target
       \/ pc = "free" /\ c = i
       \/ minPtr[c] = IF IsEmptyPQ(c) THEN NULL ELSE FindMinRemainTimeProcess(c)
  /\ popped = IF pc = "free" THEN minPtr[i] ELSE NULL
  /\ pc = "free" => minPtr[i] \in live /\ remainingTime[minPtr[i]] = 0
  /\ pc = "placed" => minPtr[target] \in live \cup {NULL}

\* A part that has not been created yet.
Unborn(p) == p \notin live /\ remainingTime[p] > 0

\* Only parallelisable processes are in the table, or in the list twice; a
\* process of the list that is not in the table has none of its parts yet, the
\* one being placed has those before subProcNo.
PartInv ==
  /\ \A pid \in Pid : Parts(pid) \subseteq Proc
  /\ \A pid \in DOMAIN parallelProcTable : IsParallel(pid)
  /\ \A n \in 1 .. Len(inputList) :
       LET pid == inputList[n].pid  isPlaced == n = 1 /\ pc \in {"place", "placed"} IN
       /\ pid \in Pid
       /\ \A m \in 1 .. Len(inputList) : inputList[m].pid = pid /\ m # n => IsParallel(pid)
       /\ isPlaced /\ IsParallel(pid) => pid \in DOMAIN parallelProcTable
       /\ \A p \in Parts(pid) :
            IF isPlaced THEN p[2] > subProcNo \/ (pc = "place" /\ p[2] = subProcNo) => Unborn(p)
            ELSE pid \notin DOMAIN parallelProcTable => Unborn(p)

\* A process without time left has run in this tick and has not been checked yet.
TimeInv == \A p \in live : remainingTime[p] = 0 =>
  \E c \in Cpu : minPtr[c] = p /\ IF pc = "run" THEN c < i ELSE pc \in {"check", "free"} /\ c >= i

\* A processor's pointers to existing processes are to those handed to it.
HeldInv == \A c \in Cpu : Refs(c) \cap live \subseteq queued[c] \cup {popped}

MultiInv ==
  /\ MultiTypeOK /\ QueueInv /\ ListInv
  /\ PlaceInv /\ PointerInv /\ PartInv /\ TimeInv /\ HeldInv /\ NoArrivalMissed

-----------------------------------------------------------------------------
(***************************************************************************)
(* What SubsAreCounted and FinishedWithLastPart follow from.               *)
(***************************************************************************)
IsPlacing == pc \in {"place", "placed"}

\* The node a process is created from is the first of its id to arrive.
FirstInv ==
  /\ \A pid \in Pid : nodeOf[pid].pid = pid
  /\ \A m, n \in 1 .. Len(inputList) :
       inputList[m].pid = inputList[n].pid /\ m # n => inputList[m].arrival # inputList[n].arrival
  /\ \A n \in 1 .. Len(inputList) : LET node == nodeOf[inputList[n].pid] IN
       inputList[n] = node \/ (node.parallel = 1 /\ node.arrival < inputList[n].arrival)
  /\ IsPlacing => GetFromInputList = nodeOf[HeadPid]

\* The parallelisable processes in the table are those that have arrived, and the
\* one being placed; the parts of the latter before subProcNo exist.
BornInv ==
  /\ live \subseteq AllParts
  /\ {pid \in Arrived : IsParallel(pid)} \subseteq DOMAIN parallelProcTable
  /\ DOMAIN parallelProcTable \subseteq Arrived \cup (IF IsPlacing THEN {HeadPid} ELSE {})
  /\ IsPlacing =>
       /\ IsParallel(HeadPid) => parallelProcTable[HeadPid] = NumSubs(HeadPid)
       /\ \A p \in Parts(HeadPid) : p[2] < subProcNo \/ (pc = "placed" /\ p[2] = subProcNo) => p \in live

\* The process being deleted is counted as gone before it is freed.
CountInv ==
  /\ pc \in {"check", "free"} => globalTimer > 0
  /\ \A pid \in Waiting : finishedAt[pid] = 0
  /\ \A pid \in Arrived : LET left == Running(pid) \ {popped} IN
       /\ IsParallel(pid) /\ left # {} => parallelProcTable[pid] = Cardinality(left)
       /\ finishedAt[pid] > 0 <=> left = {}

MultiCountInv == MultiInv /\ FirstInv /\ BornInv /\ CountInv

-----------------------------------------------------------------------------
(***************************************************************************)
(* What PrintsWhatHappened follows from, while the program runs.           *)
(***************************************************************************)

\* A process is placed when it arrives.
DueInv == IsPlacing => GetFromInputList.arrival = globalTimer

\* The processes that have been reported finished.
Reported == {pid \in Pid : finishedAt[pid] > 0}

\* A process is reported later than it arrived, and the statistics are those of
\* the processes that have been reported.
ReportInv ==
  /\ IsFiniteSet(Pid) /\ Pid # {}
  /\ pc = "done" => loop = "remaining" /\ IsAllCpuPQEmpty
  /\ \A pid \in Arrived : /\ nodeOf[pid].arrival <= globalTimer
                          /\ pc \in {"check", "free"} => nodeOf[pid].arrival < globalTimer
  /\ \A pid \in Reported : nodeOf[pid].arrival < finishedAt[pid]
  /\ Agrees(stats, Runs, Reported)

MultiReportInv == MultiCountInv /\ DueInv /\ ReportInv

-----------------------------------------------------------------------------
(***************************************************************************)
(* What PartsAreApart, RoomForAll, RemainingIsCounted and                  *)
(* AnnouncedOnSwitch follow from with two processors.  With three of them  *)
(* two parts of a process may share one, whose queue may then be full.     *)
(***************************************************************************)

\* A queue has a slot for every process of the file.
RoomInv == IsFiniteSet(Pid) /\ Cardinality(Pid) <= Capacity

\* A part of a process that has arrived exists until it has no time left.
GoneInv == \A pid \in Arrived : \A p \in Parts(pid) : p \in live \/ remainingTime[p] = 0

\* The parts handed to a processor and not freed.
Owned(c) == queued[c] \cup (IF pc = "free" /\ c = i THEN {popped} ELSE {})

\* Every part that exists was handed to a processor, no processor was handed two
\* parts of one process, and what an iteration leaves behind in the hole is one of
\* those parts.
KeptInv == \A p \in live : \E c \in Cpu : p \in Owned(c)
ApartInv == \A c \in Cpu : \A p, q \in Owned(c) : PidOf(p) = PidOf(q) => p = q
StaleInv == call \in {"siftUp", "siftDown"} /\ hole <= size[at] => processes[at][hole] \in Owned(at)

\* An insertion leaves the root alone, or the new part becomes the root because it
\* needs less time; the pointer is still to the root that was there before.
NewPart == <<HeadPid, subProcNo>>
Takes == minPtr[target] = NULL \/ remainingTime[NewPart] < remainingTime[minPtr[target]]
RootInv == pc = "placed" =>
  /\ minPtr[target] \in queued[target] \cup {NULL}
  /\ call = "siftUp" => /\ item = NewPart
                        /\ IF hole = 1 THEN Takes ELSE processes[target][1] = minPtr[target]
  /\ call = "none" => \/ processes[target][1] = minPtr[target]
                      \/ processes[target][1] = NewPart /\ Takes

\* The processors that have run in this tick and have not been checked.
Charged == {c \in Cpu : (pc = "run" /\ c < i) \/ (pc \in {"check", "free"} /\ c >= i)}

\* Of the parts that a processor holds, the one that it ran last and has not
\* paused is marked, and no other.
MarkInv ==
  /\ \A p \in isRunning : ~Unborn(p)
  /\ \A c \in Cpu : lastRan[c] # NULL => ~Unborn(lastRan[c])
  /\ pc = "placed" => lastRan[target] # NewPart
  /\ \A c \in Charged : minPtr[c] # NULL => lastRan[c] = minPtr[c]
  /\ \A c \in Cpu : \A p \in queued[c] : p \in isRunning <=> p = minPtr[c] /\ p = lastRan[c]

\* The invariant of the simulation with two processors: until a deletion meets a
\* tie every part that exists is in one queue, no two of a process in the same,
\* and the marks say what runs (HandleMultiCPU).
TwoCpuInv ==
  /\ MultiCountInv /\ RoomInv /\ GoneInv
  /\ tied = {} => KeptInv /\ ApartInv /\ StaleInv /\ RootInv /\ MarkInv

-----------------------------------------------------------------------------
(***************************************************************************)
(* The queues, pointers and loops implement shortest remaining time on     *)
(* several processors.  A part is placed once its insertion is complete    *)
(* and its processor has chosen again.                                     *)
(***************************************************************************)
BeforeThis == {p \in AllParts : pc \in {"place", "placed"} /\ PidOf(p) = HeadPid /\ p[2] < subProcNo}
PlacedParts == (UNION {Parts(pid) : pid \in Arrived}) \cup BeforeThis

\* What is left of a queue without the processes that are about to be deleted, and
\* of a pointer; the processors that have run in this tick.
Unfinished(c) == {p \in queued[c] \cap PlacedParts : remainingTime[p] > 0}
Chosen(c) == IF minPtr[c] # NULL /\ remainingTime[minPtr[c]] > 0 THEN minPtr[c] ELSE NULL
HaveRun == IF pc = "run" THEN {c \in Cpu : c < i /\ lastRan[c] # NULL} ELSE {}

Abstract == INSTANCE MultiSRT WITH
  N <- numCPU,
  None <- NULL,
  now <- globalTimer,
  jobs <- nodeOf,
  left <- [p \in AllParts |-> remainingTime[p]],
  placed <- PlacedParts,
  on <- [c \in Cpu |-> Unfinished(c)],
  cur <- [c \in Cpu |-> Chosen(c)],
  ran <- HaveRun

\* Lines are left, but no process: a repeated one is waited for.
OnlyRepeatsLeft == inputList # <<>> /\ Waiting = {}

\* The processes are split as README.md:30 says; and as long as no deletion meets
\* a tie and no two parts of a process share a processor, every step of the
\* program is a step of shortest remaining time or changes nothing it speaks of
\* (README.md:21, README.md:28-34); but it waits for a line that repeats an id as
\* for any other.
ImplementsSRT ==
  /\ Abstract!Init
  /\ [][\/ Abstract!Next
        \/ tied' # {} \/ ~PartsAreApart' \/ OnlyRepeatsLeft]_(Abstract!srtVars)

-----------------------------------------------------------------------------
(***************************************************************************)
(* What ImplementsSRT follows from with two processors.                    *)
(***************************************************************************)

\* A tick is made for a processor that has something to run.
BusyInv == pc = "run" => \E c \in Cpu : IF c < i THEN lastRan[c] # NULL ELSE ~IsEmptyPQ(c)

\* A part is added to the queue of the processor that is free for it and has the
\* smallest load; it is alone there if the pointer is to nothing.
BestInv == pc = "placed" =>
  /\ target \in Abstract!FreeFor(NewPart)
  /\ \A c \in Abstract!FreeFor(NewPart) :
       \/ Abstract!Load(target) < Abstract!Load(c)
       \/ Abstract!Load(target) = Abstract!Load(c) /\ target <= c
  /\ NewPart \in queued[target]
  /\ minPtr[target] = NULL => queued[target] = {NewPart}

\* The invariant of the simulation with two processors as a scheduler: TwoCpuInv,
\* and that what is placed is due, and goes to the best processor.
TwoSRTInv == TwoCpuInv /\ DueInv /\ (tied = {} => BusyInv /\ BestInv)

\* The same with the statistics.
TwoReportInv == TwoSRTInv /\ ReportInv

-----------------------------------------------------------------------------
\* What the documents say and the code does not do.

\* With two processors "subprocess i.0 is added to the queue of CPU 0 and i.1 is
\* added to CPU 1" (README.md:25).
SubprocessOnItsCpu == Sound => \A c \in Cpu : \A p \in Slots(c) : IsParallel(PidOf(p)) => p[2] = c
=============================================================================
