------------------------------- MODULE MultiCpu -------------------------------
(***************************************************************************)
(* The simulation with two or more processors (HandleMultiCPU and its two  *)
(* loops in sim.c), with a queue per processor.  A parallelisable process  *)
(* is split into subprocesses, counted down in parallelProcTable.          *)
(*                                                                         *)
(* A process_t is <<pid, subProcNo>>.  As in OneCpu the fields that        *)
(* createProcess copies are given from the start and live says which       *)
(* processes have been created.  The loops over the processors are one     *)
(* action per processor, i being their variable.                           *)
(***************************************************************************)
EXTENDS QueueInvariants, InputList, Statistics, FiniteSetsExt

CONSTANTS
  numCPU,
  Files    \* the input files to run, as sequences of nodes

\* Two parallelisable processes may have the same id if they arrive one after
\* the other: what the second one does is Spin.
RepeatsApart(f) == \A m, n \in 1 .. Len(f) :
  f[m].pid = f[n].pid /\ m # n =>
    f[m].parallel = 1 /\ f[n].parallel = 1 /\ f[m].arrival # f[n].arrival

\* The lists that InputFile hands over: numMainProcess, the Capacity of every
\* queue, is the number of lines and not less than the number of nodes.
ASSUME FilesAssumption ==
  /\ numCPU \in Nat /\ numCPU >= 2 /\ Cpu = 0 .. numCPU - 1
  /\ \A f \in Files : /\ ListOf(f, Capacity) /\ RepeatsApart(f)
                      /\ PidsOf(f) \X Cpu \subseteq Proc

VARIABLES
  pc,            \* "sort", "arrive", "place", "placed", "run", "check", "free", "done"
  loop,          \* the function being executed: "arriving" or "remaining"
  i,             \* the processor a loop has come to
  subProcNo,     \* the subprocess being placed
  target,        \* smallRemainTimeCpuPQ
  globalTimer,
  minPtr,        \* cpuMinProcess_ptr_list
  isRunning,     \* the processes whose isRunning field is 1
  parallelProcTable,  \* remainNumSubs of the parallel processes that have arrived
  tableIsNull,   \* the array of that table could not be allocated
  nodeOf,        \* the node each process id of the file is created from
  lastRan,       \* history: what each processor ran in the last tick, or NULL
  finishedAt     \* history: when a process id was reported finished, 0 before

placeVars == <<subProcNo, target>>
cpuVars == <<minPtr, isRunning>>
tableVars == <<parallelProcTable, tableIsNull, nodeOf>>
outputVars == <<stats, finishedAt>>
multiVars == <<pc, loop, i, placeVars, globalTimer, cpuVars, tableVars, outputVars, lastRan>>
vars == <<queueVars, listVars, multiVars>>

Pid == DOMAIN nodeOf
IsParallel(pid) == nodeOf[pid].parallel = 1

\* Mutant: the quotient is not tested again when k has come to numCPU.
NumSubs_LastUnchecked(pid) ==
  IF nodeOf[pid].exec < numCPU - 1 THEN nodeOf[pid].exec ELSE numCPU

\* k, the number of subprocesses: the largest k <= numCPU with exec / k >= 1.
NumSubs(pid) == IF nodeOf[pid].exec < numCPU THEN nodeOf[pid].exec ELSE numCPU

\* The subprocesses of a process, or the process itself.
Parts(pid) == IF IsParallel(pid) THEN {pid} \X (0 .. NumSubs(pid) - 1) ELSE {<<pid, 0>>}

\* burstTime: the execution time, or the share of it with the cost of splitting.
burstTime(p) == IF IsParallel(PidOf(p))
                THEN Ceil(<<nodeOf[PidOf(p)].exec, NumSubs(PidOf(p))>>) + 1
                ELSE nodeOf[PidOf(p)].exec

\* The parts of all processes of the file.
AllParts == UNION {Parts(pid) : pid \in Pid}

\* The node of this id that arrives first: the others create no process.
FirstOf(file, pid) ==
  CHOOSE node \in {file[n] : n \in 1 .. Len(file)} :
    /\ node.pid = pid
    /\ \A n \in 1 .. Len(file) : file[n].pid = pid => node.arrival <= file[n].arrival

Init ==
  /\ InitializePQ /\ InitCall /\ live = {}
  /\ pc = "sort" /\ loop = "arriving" /\ i = 0 /\ subProcNo = 0 /\ target = 0
  /\ globalTimer = 0
  /\ minPtr = [c \in Cpu |-> NULL] /\ isRunning = {}
  /\ \E file \in Files :
       /\ InitList(file, <<"pid", "exec", "arrival">>)
       /\ nodeOf = [pid \in PidsOf(file) |-> FirstOf(file, pid)]
  /\ remainingTime = [p \in Proc \cup {DummyHead} |->
                        IF p \in AllParts THEN burstTime(p) ELSE 0]
  /\ parallelProcTable = [pid \in {} |-> 0] /\ tableIsNull \in BOOLEAN
  /\ InitStats
  /\ lastRan = [c \in Cpu |-> NULL] /\ finishedAt = [pid \in Pid |-> 0]

-----------------------------------------------------------------------------
(***************************************************************************)
(* Where a process is placed.                                              *)
(***************************************************************************)
CountTotalRemainingTime(c) == MapThenSumSet(LAMBDA k : remainingTime[processes[c][k]], 1 .. size[c])
isFindProcessPid(c, pid) == \E k \in 1 .. size[c] : PidOf(processes[c][k]) = pid
IsAllCpuPQEmpty == \A c \in Cpu : IsEmptyPQ(c)

\* Mutant: the comparison of the scan is not strict.
FirstLeast_NotStrict(c, C) == c \in C /\ \A d \in C :
  \/ CountTotalRemainingTime(c) < CountTotalRemainingTime(d)
  \/ CountTotalRemainingTime(c) = CountTotalRemainingTime(d) /\ c >= d

\* c is the first of the processors C with the smallest load: where a scan in the
\* order of the ids ends that changes its candidate for a strictly smaller one.
FirstLeast(c, C) == c \in C /\ \A d \in C :
  \/ CountTotalRemainingTime(c) < CountTotalRemainingTime(d)
  \/ CountTotalRemainingTime(c) = CountTotalRemainingTime(d) /\ c <= d

\* Mutant: the scan looks for no sibling.
SubprocessCandidates_All(pid) == Cpu

\* The scan for a subprocess starts at processor 1 when processor 0 holds one
\* of the same process; the processor it starts at is a candidate whatever it
\* holds, the later ones only without such a subprocess.
SubprocessCandidates(pid) ==
  LET start == IF isFindProcessPid(0, pid) THEN 1 ELSE 0
  IN {start} \cup {c \in start .. numCPU - 1 : ~isFindProcessPid(c, pid)}

\* Mutant: every part goes to processor 0.
PlaceOf_Zero(pid, c) == c = 0

\* c is the processor that a part of this process goes to.
PlaceOf(pid, c) == FirstLeast(c, IF IsParallel(pid) THEN SubprocessCandidates(pid) ELSE Cpu)

-----------------------------------------------------------------------------
(***************************************************************************)
(* The arrivals, in HandleArrivingProcOnMultiCpu.                          *)
(***************************************************************************)
HeadPid == GetFromInputList.pid
Due == inputList # <<>> /\ GetFromInputList.arrival = globalTimer

\* A step of the sorts of HandleMultiCPU, and its first call.
Sort ==
  /\ pc = "sort" /\ SortStep
  /\ UNCHANGED <<queueVars, multiVars>>

Begin ==
  /\ pc = "sort" /\ sorts = <<>>
  /\ pc' = "arrive"
  /\ UNCHANGED <<queueVars, listVars, loop, i, placeVars, globalTimer, cpuVars, tableVars,
                 outputVars, lastRan>>

\* Mutant: the table counts the processors, not the subprocesses.
RemainNumSubs_NumCPU(pid) == numCPU
RemainNumSubs(pid) == NumSubs(pid)

\* Mutant: the table is not asked.
IsRepeated_Never == FALSE

\* What ContainsInHashtable answers is not zero: a parallelisable process of this
\* id has arrived before, or there is no table and the answer is -1.
IsRepeated == IsParallel(HeadPid) /\ (tableIsNull \/ HeadPid \in DOMAIN parallelProcTable)

\* A process is due: its subprocesses, if it has any, enter the table.
Arrive ==
  /\ pc = "arrive" /\ loop = "arriving" /\ Due /\ ~IsRepeated
  /\ pc' = "place" /\ subProcNo' = 0
  /\ parallelProcTable' =
       IF IsParallel(HeadPid)
       THEN [pid \in DOMAIN parallelProcTable \cup {HeadPid} |->
               IF pid = HeadPid THEN RemainNumSubs(pid) ELSE parallelProcTable[pid]]
       ELSE parallelProcTable
  /\ UNCHANGED <<queueVars, listVars, loop, i, target, globalTimer, cpuVars, tableIsNull, nodeOf,
                 outputVars, lastRan>>

\* A process that is due and taken for a repeated one, as every parallelisable
\* process is without a table, is neither placed nor removed: the inner loop tests
\* it again, for ever.
RepeatIsDue == pc = "arrive" /\ loop = "arriving" /\ Due /\ IsRepeated
Spin == RepeatIsDue /\ UNCHANGED vars

AllSlotsLive == \A c \in Cpu : Slots(c) \subseteq live

\* createProcess and InsertPQ for one part of it.
Place ==
  /\ pc = "place" /\ <<HeadPid, subProcNo>> \in Parts(HeadPid)
  /\ AllSlotsLive
  /\ \E c \in Cpu : PlaceOf(HeadPid, c) /\ target' = c /\ InsertPQ(<<HeadPid, subProcNo>>, c)
  /\ live' = live \cup {<<HeadPid, subProcNo>>}
  /\ pc' = "placed"
  /\ UNCHANGED <<listVars, remainingTime, loop, i, subProcNo, globalTimer, cpuVars, tableVars,
                 outputVars, lastRan>>

\* Mutant: the process that loses the processor stays marked as running.
Pauses_Never(prev, new) == FALSE
Pauses(prev, new) == prev # NULL /\ PidOf(prev) # PidOf(new)

\* The previous process of that processor is paused unless the new one has the
\* same process id.
PickMin ==
  /\ pc = "placed" /\ call = "none"
  /\ {FindMinRemainTimeProcess(target), minPtr[target]} \subseteq live \cup {NULL}
  /\ LET new == FindMinRemainTimeProcess(target)  prev == minPtr[target] IN
     /\ isRunning' = IF Pauses(prev, new) THEN isRunning \ {prev} ELSE isRunning
     /\ minPtr' = [minPtr EXCEPT ![target] = new]
  /\ subProcNo' = subProcNo + 1
  /\ pc' = "place"
  /\ UNCHANGED <<queueVars, listVars, loop, i, target, globalTimer, tableVars, outputVars,
                 lastRan>>

\* All parts are placed: the node leaves the list.  With no node left the inner
\* loop breaks, and the tick follows.
Placed ==
  /\ pc = "place" /\ <<HeadPid, subProcNo>> \notin Parts(HeadPid)
  /\ UpdateInputList
  /\ pc' = IF Len(inputList) = 1 THEN "run" ELSE "arrive"
  /\ UNCHANGED <<queueVars, loop, i, placeVars, globalTimer, cpuVars, tableVars, outputVars,
                 lastRan>>

\* Mutant: the timer stands still while nothing runs.
NotDue_NoTime ==
  /\ pc = "arrive" /\ loop = "arriving" /\ inputList # <<>> /\ ~Due
  /\ \/ /\ IsAllCpuPQEmpty
        /\ lastRan' = [c \in Cpu |-> NULL]
        /\ UNCHANGED pc
     \/ /\ ~IsAllCpuPQEmpty
        /\ pc' = "run"
        /\ UNCHANGED lastRan
  /\ UNCHANGED <<queueVars, listVars, loop, i, placeVars, globalTimer, cpuVars, tableVars, outputVars>>

\* No process is due: an idle tick when every queue is empty.
NotDue ==
  /\ pc = "arrive" /\ loop = "arriving" /\ inputList # <<>> /\ ~Due
  /\ \/ /\ IsAllCpuPQEmpty
        /\ globalTimer' = globalTimer + 1
        /\ lastRan' = [c \in Cpu |-> NULL]
        /\ UNCHANGED pc
     \/ /\ ~IsAllCpuPQEmpty
        /\ pc' = "run"
        /\ UNCHANGED <<globalTimer, lastRan>>
  /\ UNCHANGED <<queueVars, listVars, loop, i, placeVars, cpuVars, tableVars, outputVars>>

\* Nothing is left to arrive: HandleRemainProcOnMultiCPU takes over.
EndArrivals ==
  /\ pc = "arrive" /\ loop = "arriving" /\ inputList = <<>>
  /\ loop' = "remaining"
  /\ UNCHANGED <<queueVars, listVars, pc, i, placeVars, globalTimer, cpuVars, tableVars,
                 outputVars, lastRan>>

\* The test of the loop of HandleRemainProcOnMultiCPU.
Remain ==
  /\ pc = "arrive" /\ loop = "remaining"
  /\ pc' = IF IsAllCpuPQEmpty THEN "done" ELSE "run"
  /\ UNCHANGED <<queueVars, listVars, loop, i, placeVars, globalTimer, cpuVars, tableVars,
                 outputVars, lastRan>>

-----------------------------------------------------------------------------
(***************************************************************************)
(* One unit of time: every processor runs, then the timer advances, then   *)
(* every processor is checked.                                             *)
(***************************************************************************)

\* What the loops skip: the first function tests the pointer, the second one
\* the queue.
Rests(c) == IF loop = "arriving" THEN minPtr[c] = NULL ELSE IsEmptyPQ(c)

\* A RUNNING line is printed for a process that is not marked as running.
Announces(c) == minPtr[c] \notin isRunning

RunCpu ==
  /\ pc = "run" /\ i < numCPU /\ ~Rests(i) /\ minPtr[i] \in live
  /\ isRunning' = isRunning \cup {minPtr[i]}
  /\ remainingTime' = [remainingTime EXCEPT ![minPtr[i]] = @ - 1]
  /\ lastRan' = [lastRan EXCEPT ![i] = minPtr[i]]
  /\ i' = i + 1
  /\ UNCHANGED <<listVars, heapVars, callVars, historyVars, live, pc, loop, placeVars,
                 globalTimer, minPtr, tableVars, outputVars>>

\* The iteration of either loop over a processor with nothing to do.
SkipCpu ==
  /\ pc \in {"run", "check"} /\ i < numCPU /\ Rests(i)
  /\ lastRan' = IF pc = "run" THEN [lastRan EXCEPT ![i] = NULL] ELSE lastRan
  /\ i' = i + 1
  /\ UNCHANGED <<queueVars, listVars, pc, loop, placeVars, globalTimer, cpuVars, tableVars,
                 outputVars>>

Advance ==
  /\ pc = "run" /\ i = numCPU
  /\ globalTimer' = globalTimer + 1
  /\ pc' = "check" /\ i' = 0
  /\ UNCHANGED <<queueVars, listVars, loop, placeVars, cpuVars, tableVars, outputVars, lastRan>>

\* The process of this processor goes on.
CheckOn ==
  /\ pc = "check" /\ i < numCPU /\ ~Rests(i)
  /\ AllSlotsLive /\ minPtr[i] \in live /\ remainingTime[minPtr[i]] # 0
  /\ i' = i + 1
  /\ UNCHANGED <<queueVars, listVars, pc, loop, placeVars, globalTimer, cpuVars, tableVars,
                 outputVars, lastRan>>

\* Mutant: the processes that finish in this tick are counted too.
CountAllProcesses_All ==
  LET counted == {t \in Cpu \X (1 .. Capacity) : t[2] <= size[t[1]]}
  IN Cardinality({PidOf(processes[t[1]][t[2]]) : t \in counted})

\* procCounter, printed as proc_remaining: the slots whose process has time
\* left, those of the same parallel process together.
CountAllProcesses ==
  LET counted == {s \in Cpu \X (1 .. Capacity) :
                    s[2] <= size[s[1]] /\ remainingTime[processes[s[1]][s[2]]] # 0}
      pid(s) == PidOf(processes[s[1]][s[2]])
  IN Cardinality({s \in counted : ~IsParallel(pid(s))})
     + Cardinality({pid(s) : s \in {t \in counted : IsParallel(pid(t))}})

\* Mutant: the time of arrival is not subtracted.
Report_SinceStart(pid) ==
  /\ Collect(globalTimer, nodeOf[pid].exec)
  /\ finishedAt' = [finishedAt EXCEPT ![pid] = globalTimer]

\* The line FINISHED and the statistics of a whole process.
Report(pid) ==
  /\ Collect(globalTimer - nodeOf[pid].arrival, nodeOf[pid].exec)
  /\ finishedAt' = [finishedAt EXCEPT ![pid] = globalTimer]

\* Mutant: the last but one subprocess to finish is taken for the last.
OthersRemain_OffByOne(pid) == IsParallel(pid) /\ parallelProcTable[pid] > 2
OthersRemain(pid) == IsParallel(pid) /\ parallelProcTable[pid] > 1

\* The process of this processor has no time left: it is deleted, and reported
\* unless other subprocesses remain.
Finish ==
  /\ pc = "check" /\ call = "none" /\ i < numCPU /\ ~Rests(i)
  /\ AllSlotsLive /\ minPtr[i] \in live /\ remainingTime[minPtr[i]] = 0
  /\ LET pid == PidOf(minPtr[i]) IN
     \/ /\ OthersRemain(pid)
        /\ parallelProcTable' = [parallelProcTable EXCEPT ![pid] = @ - 1]
        /\ UNCHANGED outputVars
     \/ /\ ~OthersRemain(pid)
        /\ Report(pid)
        /\ UNCHANGED parallelProcTable
  /\ DeleteMin(i)
  /\ pc' = "free"
  /\ UNCHANGED <<listVars, remainingTime, live, loop, i, placeVars, globalTimer, cpuVars,
                 tableIsNull, nodeOf, lastRan>>

\* Mutants: the queue is not tested, or the pointer is left on the freed process.
NextMin_Untested == FindMinRemainTimeProcess(i)
NextMin_Kept == minPtr[i]
NextMin == IF IsEmptyPQ(i) THEN NULL ELSE FindMinRemainTimeProcess(i)

\* free(DeleteMinRemainTimeProcess(pq)), and the next process of the processor.
Free ==
  /\ pc = "free" /\ call = "none"
  /\ live' = live \ {popped}
  /\ popped' = NULL
  /\ minPtr' = [minPtr EXCEPT ![i] = NextMin]
  /\ pc' = "check" /\ i' = i + 1
  /\ UNCHANGED <<listVars, heapVars, call, at, hole, item, historyVars, remainingTime, loop,
                 placeVars, globalTimer, isRunning, tableVars, outputVars, lastRan>>

\* The end of the tick, and of the body of the outer loop.
EndTick ==
  /\ pc = "check" /\ i = numCPU
  /\ pc' = "arrive" /\ i' = 0
  /\ UNCHANGED <<queueVars, listVars, loop, placeVars, globalTimer, cpuVars, tableVars,
                 outputVars, lastRan>>

\* A process of the heap of c is used that was freed before.
UseFreed(c) ==
  /\ \/ pc = "place" /\ <<HeadPid, subProcNo>> \in Parts(HeadPid) /\ ~(Slots(c) \subseteq live)
     \/ pc = "placed" /\ c = target
        /\ ~({FindMinRemainTimeProcess(c), minPtr[c]} \subseteq live \cup {NULL})
     \/ pc = "run" /\ c = i /\ ~Rests(c) /\ minPtr[c] \notin live
     \/ pc = "check" /\ i < numCPU /\ ~Rests(i) /\ ~(Slots(c) \subseteq live)
  /\ call' = "undefined" /\ at' = c
  /\ UNCHANGED <<listVars, heapVars, hole, item, popped, historyVars, remainingTime, live, multiVars>>

-----------------------------------------------------------------------------
Ended == pc = "done" \/ call = "undefined"

\* Outside the queue.
Step ==
  \/ Sort \/ Begin \/ Arrive \/ Spin \/ Place \/ PickMin \/ Placed \/ NotDue \/ EndArrivals \/ Remain
  \/ RunCpu \/ SkipCpu \/ Advance \/ CheckOn \/ Finish \/ Free \/ EndTick
  \/ \E c \in Cpu : UseFreed(c)

Next ==
  \/ call = "none" /\ Step
  \/ QueueStep /\ UNCHANGED <<listVars, multiVars>>
  \/ Ended /\ UNCHANGED vars

Spec == Init /\ [][Next]_vars

\* The program is one thread that never waits: it goes on until it returns.
FairSpec == Spec /\ WF_vars(Next)
=============================================================================
