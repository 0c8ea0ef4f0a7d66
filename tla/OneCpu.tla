-------------------------------- MODULE OneCpu --------------------------------
(***************************************************************************)
(* The simulation with one processor (HandleOneCPU and its two loops in    *)
(* sim.c).  The program is sequential: pc says where it is, and while      *)
(* call # "none" it is inside a call to the queue (PriorityQueue).         *)
(*                                                                         *)
(* A process_t is <<pid, 0>>.  createProcess copies the fields of a node   *)
(* into the new process; here nodeOf (arrivalTime and burstTime of the C   *)
(* structure) and remainingTime are given for every process of the file    *)
(* from the start, and live says which ones have been created.             *)
(***************************************************************************)
EXTENDS QueueInvariants, InputList, Statistics

CONSTANT Files  \* the input files to run, as sequences of nodes

\* The lists that InputFile hands over: numMainProcess, the Capacity of the
\* queue, is the number of lines and not less than the number of nodes.
ASSUME FilesAssumption ==
  /\ Cpu = {0}
  /\ \A f \in Files : /\ ListOf(f, Capacity) /\ PidsDiffer(f)
                      /\ Proc = PidsOf(f) \X {0}

VARIABLES
  pc,            \* "sort", "arrive", "inserted", "tick", "finish", "free", "done"
  loop,          \* the function being executed: "arriving" or "remaining"
  globalTimer,
  minPtr,        \* minRemainTimeProcess_ptr
  isRunning,     \* the processes whose isRunning field is 1
  nodeOf,        \* the node each process is created from
  lastRan,       \* history: the process that ran in the last tick, or NULL
  finishedAt     \* history: when each process finished, 0 before

clockVars == <<globalTimer, nodeOf>>
outputVars == <<stats, lastRan, finishedAt>>
oneVars == <<pc, loop, clockVars, minPtr, isRunning, outputVars>>
vars == <<queueVars, listVars, oneVars>>

ProcOf(node) == <<node.pid, 0>>
arrivalTime(p) == nodeOf[p].arrival
burstTime(p) == nodeOf[p].exec

Init ==
  /\ InitializePQ /\ InitCall /\ live = {}
  /\ pc = "sort" /\ loop = "arriving" /\ globalTimer = 0
  /\ minPtr = NULL /\ isRunning = {}
  /\ \E file \in Files :
       /\ InitList(file, <<"pid", "arrival">>)
       /\ nodeOf = [p \in Proc |-> file[CHOOSE i \in 1 .. Len(file) : ProcOf(file[i]) = p]]
  /\ remainingTime = [p \in Proc \cup {DummyHead} |-> IF p = DummyHead THEN 0 ELSE burstTime(p)]
  /\ InitStats
  /\ lastRan = NULL /\ finishedAt = [p \in Proc |-> 0]

-----------------------------------------------------------------------------
(***************************************************************************)
(* HandleArrivingProcOnOneCpu                                              *)
(***************************************************************************)
\* A step of the sorts of HandleOneCPU, and its first call.
Sort ==
  /\ pc = "sort" /\ SortStep
  /\ UNCHANGED <<queueVars, oneVars>>

Begin ==
  /\ pc = "sort" /\ sorts = <<>>
  /\ pc' = "arrive"
  /\ UNCHANGED <<queueVars, listVars, loop, clockVars, minPtr, isRunning, outputVars>>

Due == inputList # <<>> /\ GetFromInputList.arrival = globalTimer

\* createProcess and InsertPQ for the node that is due.
Arrive ==
  /\ pc = "arrive" /\ loop = "arriving" /\ Due
  /\ LET p == ProcOf(GetFromInputList) IN
     /\ InsertPQ(p, 0)
     /\ live' = live \cup {p}
  /\ pc' = "inserted"
  /\ UNCHANGED <<listVars, remainingTime, loop, clockVars, minPtr, isRunning, outputVars>>

\* The pause of the previous process reads it even when it was freed: the queue
\* ran empty and nothing reset the pointer.  That this happens is the violation of
\* PrevIsQueued.  The memory read and written then is free or holds the process
\* just inserted, whose field is 0 already, and the program is taken to go on, but
\* not when the heap itself still refers to the freed process.
StalePointers ==
  {FindMinRemainTimeProcess(0)} \cup ({minPtr} \cap Slots(0))

\* Mutant: the process that loses the processor stays marked as running.
Pauses_Never(new) == FALSE
Pauses(new) == minPtr # NULL /\ minPtr # new

\* After the insertion: remove the node, pause the previous process, pick the
\* new one.  With no node left the inner loop breaks and the tick follows.
PickMin ==
  /\ pc = "inserted" /\ call = "none" /\ StalePointers \subseteq live
  /\ UpdateInputList
  /\ LET new == FindMinRemainTimeProcess(0) IN
     /\ isRunning' = IF Pauses(new) THEN isRunning \ {minPtr} ELSE isRunning
     /\ minPtr' = new
  /\ pc' = IF Len(inputList) = 1 THEN "tick" ELSE "arrive"
  /\ UNCHANGED <<queueVars, loop, clockVars, outputVars>>

\* Mutants: the timer advances with no regard to the queue, or stands still.
Idle_AnyTime ==
  /\ pc = "arrive" /\ loop = "arriving" /\ inputList # <<>> /\ ~Due
  /\ globalTimer' = globalTimer + 1
  /\ lastRan' = NULL
  /\ UNCHANGED <<listVars, queueVars, pc, loop, nodeOf, minPtr, isRunning,
                 stats, finishedAt>>
Idle_NoTime ==
  /\ pc = "arrive" /\ loop = "arriving" /\ inputList # <<>> /\ ~Due
  /\ IsEmptyPQ(0)
  /\ lastRan' = NULL
  /\ UNCHANGED <<listVars, queueVars, pc, loop, clockVars, minPtr, isRunning,
                 stats, finishedAt>>

\* No process is due and none is queued.
Idle ==
  /\ pc = "arrive" /\ loop = "arriving" /\ inputList # <<>> /\ ~Due
  /\ IsEmptyPQ(0)
  /\ globalTimer' = globalTimer + 1
  /\ lastRan' = NULL
  /\ UNCHANGED <<listVars, queueVars, pc, loop, nodeOf, minPtr, isRunning,
                 stats, finishedAt>>

\* Nothing is left to arrive: HandleRemainProcOnOneCPU takes over.
EndArrivals ==
  /\ pc = "arrive" /\ loop = "arriving" /\ inputList = <<>>
  /\ loop' = "remaining" /\ pc' = "tick"
  /\ UNCHANGED <<listVars, queueVars, clockVars, minPtr, isRunning, outputVars>>

-----------------------------------------------------------------------------
(***************************************************************************)
(* One unit of time, the same in HandleArrivingProcOnOneCpu and            *)
(* HandleRemainProcOnOneCPU.                                               *)
(***************************************************************************)
AtTick ==
  /\ call = "none" /\ ~IsEmptyPQ(0)
  /\ pc = "tick" \/ (pc = "arrive" /\ inputList # <<>> /\ ~Due)

TopOfLoop == IF loop = "arriving" THEN "arrive" ELSE "tick"

\* A RUNNING line is printed for a process that is not marked as running.
Announces == minPtr \notin isRunning

\* Mutant: the time left is tested before it is charged.
AfterTick_TestFirst == IF remainingTime[minPtr] = 0 THEN "finish" ELSE TopOfLoop

\* A process with no time left is reported before the loop goes on.
AfterTick == IF remainingTime'[minPtr] = 0 THEN "finish" ELSE TopOfLoop

Tick ==
  /\ AtTick /\ minPtr \in live
  /\ isRunning' = isRunning \cup {minPtr}
  /\ remainingTime' = [remainingTime EXCEPT ![minPtr] = @ - 1]
  /\ globalTimer' = globalTimer + 1
  /\ pc' = AfterTick
  /\ lastRan' = minPtr
  /\ UNCHANGED <<listVars, heapVars, callVars, historyVars, live, loop, nodeOf,
                 minPtr, stats, finishedAt>>

\* Mutant: the process that finishes is counted.
ProcRemaining_WithSelf == size[0]

\* The number printed as proc_remaining.
ProcRemaining == size[0] - 1

\* The statistics and the deletion of a process that has no time left.
Finish ==
  /\ pc = "finish" /\ call = "none"
  /\ Collect(globalTimer - arrivalTime(minPtr), burstTime(minPtr))
  /\ finishedAt' = [finishedAt EXCEPT ![minPtr] = globalTimer]
  /\ DeleteMin(0)
  /\ pc' = "free"
  /\ UNCHANGED <<listVars, remainingTime, live, loop, clockVars, minPtr, isRunning, lastRan>>

\* Mutant: the pointer is left on the freed process.
NextMin_Kept == minPtr

\* The choice of the next process.  Only HandleRemainProcOnOneCPU resets the
\* pointer when the queue is empty.
NextMin == IF ~IsEmptyPQ(0) THEN FindMinRemainTimeProcess(0)
           ELSE IF loop = "remaining" THEN NULL ELSE minPtr

\* free(DeleteMinRemainTimeProcess(pq)).
Free ==
  /\ pc = "free" /\ call = "none"
  /\ live' = live \ {popped}
  /\ popped' = NULL
  /\ minPtr' = NextMin
  /\ pc' = TopOfLoop
  /\ UNCHANGED <<listVars, heapVars, call, at, hole, item, historyVars, remainingTime, loop, clockVars,
                 isRunning, outputVars>>

\* HandleRemainProcOnOneCPU returns.
Done ==
  /\ pc = "tick" /\ loop = "remaining" /\ call = "none" /\ IsEmptyPQ(0)
  /\ pc' = "done"
  /\ UNCHANGED <<listVars, queueVars, loop, clockVars, minPtr, isRunning, outputVars>>

\* A process is used that was freed before.
UseFreed ==
  /\ call = "none"
  /\ \/ pc = "inserted" /\ ~(StalePointers \subseteq live)
     \/ AtTick /\ minPtr \notin live
  /\ call' = "undefined"
  /\ UNCHANGED <<listVars, heapVars, at, hole, item, popped, historyVars, remainingTime, live, oneVars>>

-----------------------------------------------------------------------------
Ended == pc = "done" \/ call = "undefined"

Next ==
  \/ Sort \/ Begin \/ Arrive \/ PickMin \/ Idle \/ EndArrivals
  \/ Tick \/ Finish \/ Free \/ Done \/ UseFreed
  \/ QueueStep /\ UNCHANGED <<listVars, oneVars>>
  \/ Ended /\ UNCHANGED vars

Spec == Init /\ [][Next]_vars

\* The program is one thread that never waits: it goes on until it returns.
FairSpec == Spec /\ WF_vars(Next)
=============================================================================
