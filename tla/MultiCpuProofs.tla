---------------------------- MODULE MultiCpuProofs ----------------------------
(***************************************************************************)
(* MultiInv is an invariant of the simulation with several processors, for *)
(* every number of them and every set of input files, and the simulation   *)
(* uses its queues as QueueClient does. Then MultiReportInv: the           *)
(* statistics kept are those of the processes reported.                    *)
(***************************************************************************)
EXTENDS MultiCpuProperties, SchedulerLemmas, FiniteSetTheorems

\* The facts of MultiInv that the lemmas below use most.
LEMMA MultiFacts ==
  ASSUME MultiInv
  PROVE  /\ numCPU \in Nat /\ numCPU >= 2 /\ Cpu = 0 .. numCPU - 1
         /\ QueueInv /\ ListInv /\ TypeOK /\ globalTimer \in Nat
         /\ i \in 0 .. numCPU /\ target \in Cpu /\ live \subseteq Proc /\ NULL \notin Proc
         /\ inputList \in Seq(Node) /\ minPtr \in [Cpu -> Proc \cup {NULL}]
         /\ \A c \in Cpu : size[c] \in 0 .. Capacity
BY FilesAssumption, ProcAssumption DEF MultiInv, MultiTypeOK, TypeOK, ListInv

\* What a part is.
LEMMA PartFacts ==
  ASSUME MultiInv, NEW pid \in Pid
  PROVE  /\ NumSubs(pid) \in 1 .. numCPU
         /\ \A p \in Parts(pid) : p \in Proc /\ p[1] = pid /\ p[2] \in 0 .. numCPU - 1
                                  /\ p = <<p[1], p[2]>>
<1>1. nodeOf[pid] \in Node
  BY DEF MultiInv, MultiTypeOK
<1>2. NumSubs(pid) \in 1 .. numCPU
  BY <1>1, MultiFacts DEF NumSubs, Node
<1>3. \A p \in Parts(pid) : p \in Proc
  BY DEF MultiInv, PartInv
<1>4. \A p \in Parts(pid) : p[1] = pid /\ p[2] \in 0 .. numCPU - 1 /\ p = <<p[1], p[2]>>
  BY <1>2, MultiFacts DEF Parts
<1> QED BY <1>2, <1>3, <1>4

\* The parts of a process are fixed by the file.
LEMMA SameParts ==
  ASSUME UNCHANGED nodeOf
  PROVE  /\ Pid' = Pid
         /\ \A pid : Parts(pid)' = Parts(pid) /\ (IsParallel(pid)' <=> IsParallel(pid))
BY DEF Pid, Parts, NumSubs, IsParallel

\* The head of the list, while a process is placed and when it is due.
LEMMA HeadFacts ==
  ASSUME MultiInv, inputList # <<>>
  PROVE  /\ 1 \in 1 .. Len(inputList) /\ GetFromInputList = inputList[1]
         /\ HeadPid = inputList[1].pid /\ HeadPid \in Pid
<1>1. 1 \in 1 .. Len(inputList) /\ GetFromInputList = inputList[1]
  BY MultiFacts DEF GetFromInputList
<1> QED BY <1>1 DEF HeadPid, MultiInv, PartInv

-----------------------------------------------------------------------------
(***************************************************************************)
(* What steps that leave something alone preserve.                         *)
(***************************************************************************)
LEMMA KeepQueues ==
  ASSUME MultiInv, UNCHANGED queueVars
  PROVE  QueueInv' /\ HeldInv'
<1>1. QueueInv'
  BY MultiFacts, StutterInv
<1>2. UNCHANGED <<processes, call, at, item, popped, queued, live>>
  BY DEF queueVars, heapVars, callVars, historyVars
<1> QED BY <1>1, <1>2 DEF MultiInv, HeldInv, Refs

\* Processes may be charged or freed, the ones not created yet stay so.
LEMMA KeepParts ==
  ASSUME MultiInv, UNCHANGED <<inputList, nodeOf>>,
         DOMAIN parallelProcTable' = DOMAIN parallelProcTable,
         live' \subseteq live, \A p \in Proc \ live : remainingTime'[p] = remainingTime[p],
         \/ UNCHANGED <<pc, subProcNo>>
         \/ pc \notin {"place", "placed"} /\ pc' \notin {"place", "placed"}
  PROVE  PartInv'
<1>1. \A p \in Proc : Unborn(p) => Unborn(p)'
  BY DEF Unborn
<1>2. /\ \A pid \in Pid' : Parts(pid)' \subseteq Proc
      /\ \A pid \in DOMAIN parallelProcTable' : IsParallel(pid)'
  BY SameParts DEF MultiInv, PartInv
<1> SUFFICES ASSUME NEW n \in 1 .. Len(inputList)
             PROVE  LET pid == inputList[n].pid  isPlaced == n = 1 /\ pc' \in {"place", "placed"} IN
       /\ pid \in Pid'
       /\ \A m \in 1 .. Len(inputList) : inputList[m].pid = pid /\ m # n => IsParallel(pid)'
       /\ isPlaced /\ IsParallel(pid)' => pid \in DOMAIN parallelProcTable
       /\ \A p \in Parts(pid)' :
            IF isPlaced THEN p[2] > subProcNo' \/ (pc' = "place" /\ p[2] = subProcNo') => Unborn(p)'
            ELSE pid \notin DOMAIN parallelProcTable => Unborn(p)'
  BY <1>2 DEF PartInv
<1> DEFINE pid == inputList[n].pid
<1>3. /\ pid \in Pid /\ Parts(pid)' = Parts(pid) /\ (IsParallel(pid)' <=> IsParallel(pid))
      /\ Parts(pid) \subseteq Proc
  BY SameParts DEF MultiInv, PartInv
<1>4. \A m \in 1 .. Len(inputList) : inputList[m].pid = pid /\ m # n => IsParallel(pid)
  BY DEF MultiInv, PartInv
<1>5. n = 1 /\ pc \in {"place", "placed"} /\ IsParallel(pid) => pid \in DOMAIN parallelProcTable
  BY DEF MultiInv, PartInv
<1>6. \A p \in Parts(pid) :
            IF n = 1 /\ pc \in {"place", "placed"}
            THEN p[2] > subProcNo \/ (pc = "place" /\ p[2] = subProcNo) => Unborn(p)
            ELSE pid \notin DOMAIN parallelProcTable => Unborn(p)
  BY DEF MultiInv, PartInv
<1> HIDE DEF pid
<1>7. CASE UNCHANGED <<pc, subProcNo>>
  BY <1>1, <1>3, <1>4, <1>5, <1>6, <1>7, SameParts DEF pid
<1>8. CASE pc \notin {"place", "placed"} /\ pc' \notin {"place", "placed"}
  BY <1>1, <1>3, <1>4, <1>6, <1>8, SameParts DEF pid
<1> QED BY <1>7, <1>8

LEMMA KeepPointers ==
  ASSUME MultiInv, UNCHANGED <<queueVars, minPtr>>,
         pc \notin {"placed", "free"}, pc' \notin {"placed", "free"}
  PROVE  PointerInv'
BY DEF MultiInv, PointerInv, queueVars, heapVars, callVars, IsEmptyPQ, FindMinRemainTimeProcess

\* The actions of the loops that neither call a queue nor place a process.
LEMMA QuietStep ==
  ASSUME MultiInv, UNCHANGED <<queueVars, listVars, cpuVars, tableVars>>,
         pc \notin {"place", "placed", "free"}, pc' \notin {"place", "placed", "free"}
  PROVE  QueueInv' /\ ListInv' /\ HeldInv' /\ PartInv' /\ PointerInv'
<1>1. UNCHANGED <<inputList, nodeOf, parallelProcTable, live, remainingTime, minPtr>>
  BY DEF queueVars, listVars, cpuVars, tableVars
<1>2. PartInv'
  BY <1>1, KeepParts
<1> QED BY <1>1, <1>2, KeepQueues, KeepPointers, ListStutterInv, MultiFacts

\* While no node is due, the timer may advance: the list is sorted.
LEMMA AdvanceTimer ==
  ASSUME MultiInv, pc # "sort", ~Due, globalTimer' = globalTimer + 1, inputList' = inputList
  PROVE  NoArrivalMissed'
<1> SUFFICES ASSUME NEW n \in 1 .. Len(inputList)
             PROVE  globalTimer + 1 <= inputList[n].arrival
  BY DEF NoArrivalMissed
<1>1. inputList # <<>> /\ 1 \in 1 .. Len(inputList) /\ GetFromInputList = inputList[1]
  BY MultiFacts DEF GetFromInputList
<1>2. inputList[1] \in Node /\ inputList[n] \in Node
  BY <1>1, MultiFacts
<1>3. inputList[1].arrival \in Nat /\ inputList[n].arrival \in Nat
  BY <1>2 DEF Node
<1>4. inputList[1].arrival # globalTimer
  BY <1>1 DEF Due
<1>5. globalTimer <= inputList[1].arrival
  BY <1>1 DEF MultiInv, NoArrivalMissed
<1>6. inputList[1].arrival <= inputList[n].arrival
  BY <1>1 DEF MultiInv, PlaceInv, ListInv, Sorted
<1> QED BY <1>3, <1>4, <1>5, <1>6, MultiFacts

-----------------------------------------------------------------------------
(***************************************************************************)
(* Every action preserves MultiInv.                                        *)
(***************************************************************************)
\* The sorts change the order of the list only.
LEMMA SortMultiInv ==
  ASSUME MultiInv, Sort
  PROVE  MultiInv'
<1>1. /\ ListInv' /\ NodesOf(inputList') = NodesOf(inputList)
      /\ Reordered(inputList', inputList)
  BY SortPassInv, EndSortInv, MultiFacts DEF Sort, SortStep
<1>2. UNCHANGED <<queueVars, multiVars>> /\ pc = "sort"
  BY DEF Sort
<1>3. UNCHANGED <<pc, loop, i, subProcNo, target, globalTimer, minPtr, isRunning, parallelProcTable,
                  nodeOf, stats, finishedAt, lastRan, live, remainingTime, call>>
  BY <1>2 DEF queueVars, callVars, multiVars, placeVars, cpuVars, tableVars, outputVars
<1>4. QueueInv' /\ HeldInv' /\ PointerInv'
  BY <1>2, <1>3, KeepQueues, KeepPointers
<1>5. MultiTypeOK'
  BY <1>1, <1>3, <1>4, SameParts DEF MultiInv, MultiTypeOK, QueueInv, ListInv
<1>6. PlaceInv'
  BY <1>2, <1>3 DEF MultiInv, PlaceInv, queueVars, callVars
<1>7. PartInv'
  <2>1. PICK place \in [1 .. Len(inputList) -> 1 .. Len(inputList)] :
          /\ \A j, k \in 1 .. Len(inputList) : place[j] = place[k] => j = k
          /\ \A k \in 1 .. Len(inputList) : inputList'[k] = inputList[place[k]]
    BY <1>1 DEF Reordered
  <2>2. Len(inputList') = Len(inputList)
    BY <1>1 DEF Reordered
  <2>3. /\ \A pid \in Pid' : Parts(pid)' \subseteq Proc
        /\ \A pid \in DOMAIN parallelProcTable' : IsParallel(pid)'
    BY <1>3, SameParts DEF MultiInv, PartInv
  <2>4. \A n \in 1 .. Len(inputList) :
          /\ inputList[n].pid \in Pid
          /\ \A m \in 1 .. Len(inputList) :
               inputList[m].pid = inputList[n].pid /\ m # n => IsParallel(inputList[n].pid)
          /\ inputList[n].pid \notin DOMAIN parallelProcTable =>
               \A p \in Parts(inputList[n].pid) : Unborn(p)
    BY <1>2 DEF MultiInv, PartInv
  <2>5. \A p : Unborn(p) => Unborn(p)'
    BY <1>3 DEF Unborn
  <2>6. /\ Pid' = Pid /\ pc' = "sort" /\ parallelProcTable' = parallelProcTable
        /\ \A pid : Parts(pid)' = Parts(pid) /\ (IsParallel(pid)' <=> IsParallel(pid))
    BY <1>2, <1>3, SameParts
  <2>7. ASSUME NEW n \in 1 .. Len(inputList)
        PROVE  /\ inputList'[n].pid \in Pid
               /\ \A m \in 1 .. Len(inputList) :
                    inputList'[m].pid = inputList'[n].pid /\ m # n => IsParallel(inputList'[n].pid)
               /\ inputList'[n].pid \notin DOMAIN parallelProcTable =>
                    \A p \in Parts(inputList'[n].pid) : Unborn(p)'
    <3>1. /\ place[n] \in 1 .. Len(inputList) /\ inputList'[n] = inputList[place[n]]
          /\ \A m \in 1 .. Len(inputList) :
               place[m] \in 1 .. Len(inputList) /\ inputList'[m] = inputList[place[m]]
               /\ (m # n => place[m] # place[n])
      BY <2>1
    <3> QED BY <2>4, <2>5, <3>1
  <2> QED BY <2>2, <2>3, <2>6, <2>7 DEF PartInv
<1>8. TimeInv'
  BY <1>3 DEF MultiInv, TimeInv
<1>9. NoArrivalMissed'
  <2>1. \A n \in 1 .. Len(inputList') : \E k \in 1 .. Len(inputList) : inputList'[n] = inputList[k]
    BY <1>1 DEF NodesOf
  <2> QED BY <1>3, <2>1 DEF MultiInv, NoArrivalMissed
<1> QED BY <1>1, <1>4, <1>5, <1>6, <1>7, <1>8, <1>9 DEF MultiInv

\* The first tests of the loops, and their ends.
LEMMA TestMultiInv ==
  ASSUME MultiInv, Begin \/ EndArrivals \/ Remain
  PROVE  MultiInv'
<1>1. /\ UNCHANGED <<queueVars, listVars, i, placeVars, globalTimer, cpuVars, tableVars,
                     outputVars, lastRan>>
      /\ \/ pc = "sort" /\ sorts = <<>> /\ pc' = "arrive" /\ loop' = loop
         \/ pc = "arrive" /\ inputList = <<>> /\ pc' = "arrive" /\ loop' = "remaining"
         \/ pc = "arrive" /\ loop = "remaining" /\ pc' \in {"run", "done"} /\ loop' = loop
  BY DEF Begin, EndArrivals, Remain
<1>2. QueueInv' /\ ListInv' /\ HeldInv' /\ PartInv' /\ PointerInv'
  BY <1>1, QuietStep
<1>3. UNCHANGED <<subProcNo, target, minPtr, isRunning, parallelProcTable, nodeOf, finishedAt,
                  live, remainingTime, call, inputList, sorts, pass>>
  BY <1>1 DEF queueVars, callVars, listVars, placeVars, cpuVars, tableVars, outputVars
<1>4. MultiTypeOK'
  BY <1>1, <1>2, <1>3, SameParts DEF MultiInv, MultiTypeOK, QueueInv
<1>5. PlaceInv'
  BY <1>1, <1>3 DEF MultiInv, PlaceInv, Due
<1>6. TimeInv' /\ NoArrivalMissed'
  BY <1>1, <1>3 DEF MultiInv, TimeInv, NoArrivalMissed
<1> QED BY <1>2, <1>4, <1>5, <1>6 DEF MultiInv

LEMMA NotDueMultiInv ==
  ASSUME MultiInv, NotDue
  PROVE  MultiInv'
<1>1. /\ UNCHANGED <<queueVars, listVars, loop, i, placeVars, cpuVars, tableVars, outputVars>>
      /\ pc = "arrive" /\ ~Due
      /\ \/ globalTimer' = globalTimer + 1 /\ lastRan' = [c \in Cpu |-> NULL] /\ pc' = pc
         \/ pc' = "run" /\ UNCHANGED <<globalTimer, lastRan>>
  BY DEF NotDue
<1>2. QueueInv' /\ ListInv' /\ HeldInv' /\ PartInv' /\ PointerInv'
  BY <1>1, QuietStep
<1>3. UNCHANGED <<subProcNo, target, minPtr, isRunning, parallelProcTable, nodeOf, finishedAt,
                  live, remainingTime, call, inputList, sorts, pass>>
  BY <1>1 DEF queueVars, callVars, listVars, placeVars, cpuVars, tableVars, outputVars
<1>4. MultiTypeOK'
  BY <1>1, <1>2, <1>3, MultiFacts, SameParts DEF MultiInv, MultiTypeOK, QueueInv
<1>5. PlaceInv'
  BY <1>1, <1>3 DEF MultiInv, PlaceInv, Due, GetFromInputList
<1>6. TimeInv'
  BY <1>1, <1>3, MultiFacts DEF MultiInv, TimeInv, PlaceInv
<1>7. NoArrivalMissed'
  BY <1>1, <1>3, AdvanceTimer DEF MultiInv, NoArrivalMissed
<1> QED BY <1>2, <1>4, <1>5, <1>6, <1>7 DEF MultiInv

\* A processor that rests has no pointer.
LEMMA RestsFacts ==
  ASSUME MultiInv, pc \in {"run", "check"}, i < numCPU
  PROVE  /\ i \in Cpu /\ popped = NULL
         /\ Rests(i) => minPtr[i] = NULL
         /\ ~Rests(i) => /\ ~IsEmptyPQ(i) /\ 1 \in 1 .. size[i]
                         /\ minPtr[i] = FindMinRemainTimeProcess(i) /\ minPtr[i] = processes[i][1]
<1>1. i \in Cpu /\ popped = NULL
      /\ minPtr[i] = IF IsEmptyPQ(i) THEN NULL ELSE FindMinRemainTimeProcess(i)
  BY MultiFacts DEF MultiInv, PointerInv
<1> QED BY <1>1, MultiFacts DEF Rests, IsEmptyPQ, FindMinRemainTimeProcess

\* The loops over the processors, but for those that have something to do.
LEMMA LoopMultiInv ==
  ASSUME MultiInv, SkipCpu \/ CheckOn \/ EndTick
  PROVE  MultiInv'
<1>1. /\ UNCHANGED <<queueVars, listVars, loop, placeVars, globalTimer, cpuVars, tableVars, outputVars>>
      /\ \/ /\ pc \in {"run", "check"} /\ pc' = pc /\ i < numCPU /\ i' = i + 1 /\ Rests(i)
            /\ lastRan' = lastRan \/ lastRan' = [lastRan EXCEPT ![i] = NULL]
         \/ /\ pc = "check" /\ pc' = pc /\ i < numCPU /\ i' = i + 1 /\ remainingTime[minPtr[i]] # 0
            /\ lastRan' = lastRan
         \/ pc = "check" /\ pc' = "arrive" /\ i = numCPU /\ i' = 0 /\ lastRan' = lastRan
  BY DEF SkipCpu, CheckOn, EndTick
<1>2. QueueInv' /\ ListInv' /\ HeldInv' /\ PartInv' /\ PointerInv'
  BY <1>1, QuietStep
<1>3. UNCHANGED <<subProcNo, target, minPtr, isRunning, parallelProcTable, nodeOf, finishedAt,
                  live, remainingTime, call, inputList, sorts, pass>>
  BY <1>1 DEF queueVars, callVars, listVars, placeVars, cpuVars, tableVars, outputVars
<1>4. MultiTypeOK'
  <2>1. i' \in 0 .. numCPU /\ pc' \in {"run", "check", "arrive"} /\ loop' = loop
        /\ globalTimer' = globalTimer
    BY <1>1, MultiFacts
  <2>2. lastRan' \in [Cpu -> Proc \cup {NULL}]
    <3>1. lastRan \in [Cpu -> Proc \cup {NULL}]
      BY DEF MultiInv, MultiTypeOK
    <3>2. lastRan' = lastRan \/ lastRan' = [lastRan EXCEPT ![i] = NULL]
      BY <1>1
    <3> QED BY <3>1, <3>2
  <2> QED BY <1>2, <1>3, <2>1, <2>2, SameParts DEF MultiInv, MultiTypeOK, QueueInv
<1>5. PlaceInv'
  <2>1. /\ pc' \in {"run", "check", "arrive"} /\ pc \in {"run", "check"}
        /\ (pc' = "run" => pc = "run") /\ (pc' = "arrive" => i' = 0)
        /\ loop' = loop /\ globalTimer' = globalTimer
    BY <1>1
  <2>2. Due' <=> Due
    BY <1>1, <1>3 DEF Due, GetFromInputList
  <2> QED BY <1>3, <2>1, <2>2 DEF MultiInv, PlaceInv
<1>6. TimeInv'
  <2> SUFFICES ASSUME NEW p \in live, remainingTime[p] = 0
               PROVE  \E c \in Cpu : minPtr[c] = p /\ IF pc' = "run" THEN c < i'
                                                      ELSE pc' \in {"check", "free"} /\ c >= i'
    BY <1>3 DEF TimeInv
  <2>1. PICK c \in Cpu : minPtr[c] = p /\ IF pc = "run" THEN c < i ELSE pc \in {"check", "free"} /\ c >= i
    BY DEF MultiInv, TimeInv
  <2>2. c # i \/ pc = "run" \/ (pc = "check" /\ i = numCPU)
    BY <1>1, <2>1, RestsFacts, MultiFacts
  <2> QED BY <1>1, <2>1, <2>2, MultiFacts
<1>7. NoArrivalMissed'
  BY <1>1, <1>3 DEF MultiInv, NoArrivalMissed
<1> QED BY <1>2, <1>4, <1>5, <1>6, <1>7 DEF MultiInv

LEMMA AdvanceMultiInv ==
  ASSUME MultiInv, Advance
  PROVE  MultiInv'
<1>1. /\ UNCHANGED <<queueVars, listVars, loop, placeVars, cpuVars, tableVars, outputVars, lastRan>>
      /\ pc = "run" /\ pc' = "check" /\ i = numCPU /\ i' = 0 /\ globalTimer' = globalTimer + 1
  BY DEF Advance
<1>2. QueueInv' /\ ListInv' /\ HeldInv' /\ PartInv' /\ PointerInv'
  BY <1>1, QuietStep
<1>3. UNCHANGED <<subProcNo, target, minPtr, isRunning, parallelProcTable, nodeOf, finishedAt,
                  live, remainingTime, call, inputList, sorts, pass>>
  BY <1>1 DEF queueVars, callVars, listVars, placeVars, cpuVars, tableVars, outputVars
<1>4. MultiTypeOK'
  BY <1>1, <1>2, <1>3, MultiFacts, SameParts DEF MultiInv, MultiTypeOK, QueueInv
<1>5. PlaceInv'
  BY <1>1, <1>3, MultiFacts DEF MultiInv, PlaceInv
<1>6. TimeInv'
  BY <1>1, <1>3, MultiFacts DEF MultiInv, TimeInv
<1>7. NoArrivalMissed'
  BY <1>1, <1>3, AdvanceTimer DEF MultiInv, PlaceInv
<1> QED BY <1>2, <1>4, <1>5, <1>6, <1>7 DEF MultiInv

\* The first process of the list is to be placed, and none of its parts exists.
LEMMA ArriveMultiInv ==
  ASSUME MultiInv, Arrive
  PROVE  MultiInv'
<1>1. /\ UNCHANGED <<queueVars, listVars, loop, i, target, globalTimer, cpuVars, nodeOf, outputVars,
                     lastRan>>
      /\ pc = "arrive" /\ loop = "arriving" /\ pc' = "place" /\ subProcNo' = 0
      /\ inputList # <<>> /\ ~IsRepeated
  BY DEF Arrive, Due
<1>2. UNCHANGED <<minPtr, isRunning, stats, finishedAt, live, remainingTime, call, inputList, sorts, pass>>
  BY <1>1 DEF queueVars, callVars, listVars, cpuVars, outputVars
<1>3. QueueInv' /\ ListInv' /\ HeldInv' /\ PointerInv'
  BY <1>1, <1>2, KeepQueues, KeepPointers, ListStutterInv, MultiFacts
<1>4. HeadPid \in Pid /\ HeadPid = inputList[1].pid /\ 1 \in 1 .. Len(inputList)
  BY <1>1, HeadFacts
<1>5. parallelProcTable' =
        IF IsParallel(HeadPid)
        THEN [pid \in DOMAIN parallelProcTable \cup {HeadPid} |->
                IF pid = HeadPid THEN RemainNumSubs(pid) ELSE parallelProcTable[pid]]
        ELSE parallelProcTable
  BY DEF Arrive
<1>6. /\ DOMAIN parallelProcTable' =
           DOMAIN parallelProcTable \cup (IF IsParallel(HeadPid) THEN {HeadPid} ELSE {})
      /\ \A pid \in DOMAIN parallelProcTable' :
           parallelProcTable'[pid] \in 1 .. numCPU /\ pid \in Pid /\ IsParallel(pid)
  <2>1. RemainNumSubs(HeadPid) \in 1 .. numCPU
    BY <1>4, PartFacts DEF RemainNumSubs
  <2>2. \A pid \in DOMAIN parallelProcTable :
          parallelProcTable[pid] \in 1 .. numCPU /\ pid \in Pid /\ IsParallel(pid)
    BY DEF MultiInv, MultiTypeOK, PartInv
  <2> QED BY <1>4, <1>5, <2>1, <2>2
<1>7. MultiTypeOK'
  <2>1. /\ pc' \in {"place"} /\ subProcNo' \in 0 .. numCPU /\ Pid' = Pid
        /\ DOMAIN parallelProcTable' \subseteq Pid
        /\ \A pid \in DOMAIN parallelProcTable' : parallelProcTable'[pid] \in 1 .. numCPU
    BY <1>1, <1>6, MultiFacts, SameParts
  <2> QED BY <1>1, <1>2, <1>3, <2>1 DEF MultiInv, MultiTypeOK, QueueInv
<1>8. PlaceInv'
  BY <1>1, <1>2 DEF MultiInv, PlaceInv
<1>9. PartInv'
  <2>1. /\ Pid' = Pid
        /\ \A pid : Parts(pid)' = Parts(pid) /\ (IsParallel(pid)' <=> IsParallel(pid))
    BY <1>1, SameParts
  <2>2. \A p : Unborn(p)' <=> Unborn(p)
    BY <1>2 DEF Unborn
  <2>3. ASSUME NEW n \in 1 .. Len(inputList)
        PROVE  LET pid == inputList[n].pid IN
               /\ pid \in Pid
               /\ \A m \in 1 .. Len(inputList) : inputList[m].pid = pid /\ m # n => IsParallel(pid)
               /\ pid \notin DOMAIN parallelProcTable => \A p \in Parts(pid) : Unborn(p)
    BY <1>1 DEF MultiInv, PartInv
  <2>4. HeadPid \notin DOMAIN parallelProcTable
    BY <1>1 DEF IsRepeated, MultiInv, PartInv
  <2>5. \A pid \in Pid' : Parts(pid)' \subseteq Proc
    BY <2>1 DEF MultiInv, PartInv
  <2> QED BY <1>1, <1>2, <1>4, <1>6, <2>1, <2>2, <2>3, <2>4, <2>5 DEF PartInv
<1>10. TimeInv' /\ NoArrivalMissed'
  BY <1>1, <1>2 DEF MultiInv, TimeInv, NoArrivalMissed
<1> QED BY <1>3, <1>7, <1>8, <1>9, <1>10 DEF MultiInv

\* The part to be placed.
LEMMA PartToPlace ==
  ASSUME MultiInv, pc = "place", <<HeadPid, subProcNo>> \in Parts(HeadPid)
  PROVE  /\ inputList # <<>> /\ 1 \in 1 .. Len(inputList) /\ HeadPid \in Pid
         /\ HeadPid = inputList[1].pid /\ subProcNo \in 0 .. numCPU - 1
         /\ <<HeadPid, subProcNo>> \in Proc /\ Unborn(<<HeadPid, subProcNo>>) /\ popped = NULL
         /\ \A c \in Cpu : <<HeadPid, subProcNo>> \notin Refs(c)
<1>1. inputList # <<>>
  BY DEF MultiInv, PlaceInv
<1>2. 1 \in 1 .. Len(inputList) /\ HeadPid = inputList[1].pid /\ HeadPid \in Pid
  BY <1>1, HeadFacts
<1> DEFINE p == <<HeadPid, subProcNo>>
<1>3. p \in Proc /\ subProcNo \in 0 .. numCPU - 1 /\ p[2] = subProcNo
  BY <1>2, PartFacts
<1>4. Unborn(p)
  BY <1>2, <1>3 DEF MultiInv, PartInv
<1>5. popped = NULL
  BY DEF MultiInv, PointerInv
<1>6. \A c \in Cpu : p \notin Refs(c)
  <2>1. \A c \in Cpu : \A q \in Refs(c) \cap Proc : q \in live \/ remainingTime[q] = 0
    BY MultiFacts DEF QueueInv, HomeInv
  <2>2. p \in Proc /\ p \notin live /\ remainingTime[p] # 0
    BY <1>3, <1>4 DEF Unborn
  <2> HIDE DEF p
  <2> QED BY <2>1, <2>2
<1> QED BY <1>1, <1>2, <1>3, <1>4, <1>5, <1>6

\* One part is created and inserted: nothing referred to it before.
LEMMA PlaceMultiInv ==
  ASSUME MultiInv, Place
  PROVE  MultiInv'
<1> DEFINE p == <<HeadPid, subProcNo>>
<1>1. PICK c \in Cpu : target' = c /\ InsertPQ(p, c)
  BY DEF Place
<1>2. /\ pc = "place" /\ p \in Parts(HeadPid) /\ AllSlotsLive /\ live' = live \cup {p} /\ pc' = "placed"
      /\ UNCHANGED <<listVars, remainingTime, loop, i, subProcNo, globalTimer, cpuVars, tableVars,
                     outputVars, lastRan>>
  BY DEF Place
<1>3. UNCHANGED <<minPtr, isRunning, parallelProcTable, nodeOf, stats, finishedAt, inputList, sorts, pass>>
  BY <1>2 DEF listVars, cpuVars, tableVars, outputVars
<1>4. /\ inputList # <<>> /\ 1 \in 1 .. Len(inputList) /\ HeadPid \in Pid
      /\ HeadPid = inputList[1].pid /\ subProcNo \in 0 .. numCPU - 1
      /\ p \in Proc /\ Unborn(p) /\ popped = NULL /\ \A d \in Cpu : p \notin Refs(d)
  BY <1>2, PartToPlace
<1>5. QueueInv' /\ ListInv'
  <2>1. p \notin live /\ remainingTime[p] > 0 /\ p \in Proc
    BY <1>4 DEF Unborn
  <2>2. ListInv'
    BY <1>2, ListStutterInv, MultiFacts
  <2> HIDE DEF p
  <2> QED BY <1>1, <1>2, <1>4, <2>1, <2>2, MultiFacts, InsertInv
<1>6. /\ call = "none" /\ UNCHANGED <<processes, size, popped>>
      /\ \/ /\ call' = "siftUp" /\ at' = c /\ item' = p
            /\ queued' = [queued EXCEPT ![c] = @ \cup {p}]
         \/ UNCHANGED <<call, at, item, queued>> /\ size[c] = Capacity
  BY <1>1 DEF InsertPQ, RefuseInsert, StartInsert, IsFullPQ, heapVars, callVars, historyVars
<1>7. HeldInv'
  <2> SUFFICES ASSUME NEW d \in Cpu, NEW q \in Refs(d)', q \in live'
               PROVE  q \in queued'[d] \cup {popped'}
    BY DEF HeldInv
  <2>1. q \in Refs(d) \/ (d = c /\ q = p /\ call' = "siftUp")
    BY <1>6 DEF Refs
  <2>2. queued \in [Cpu -> SUBSET Proc]
    BY MultiFacts DEF TypeOK
  <2>3. CASE q \in Refs(d)
    <3>1. q # p
      BY <1>4, <2>3
    <3>2. q \in queued[d] \cup {popped}
      BY <1>2, <2>3, <3>1 DEF MultiInv, HeldInv
    <3>3. queued[d] \subseteq queued'[d]
      BY <1>6, <2>2
    <3> QED BY <1>6, <3>2, <3>3
  <2>4. CASE d = c /\ q = p /\ call' = "siftUp"
    BY <1>6, <2>2, <2>4 DEF MultiInv, PlaceInv
  <2> QED BY <2>1, <2>3, <2>4
<1>8. MultiTypeOK'
  <2>1. target' \in Cpu /\ subProcNo' \in 0 .. numCPU /\ Pid' = Pid
    BY <1>1, <1>2, <1>3, SameParts DEF MultiInv, MultiTypeOK
  <2> QED BY <1>2, <1>3, <1>5, <2>1 DEF MultiInv, MultiTypeOK, QueueInv
<1>9. PlaceInv'
  <2>1. HeadPid' = HeadPid /\ Parts(HeadPid)' = Parts(HeadPid) /\ p' = p
    BY <1>2, <1>3, SameParts DEF HeadPid, GetFromInputList
  <2>2. size[c] = Capacity => size[c] >= 1
    BY CapacityAssumption
  <2>3. sorts = <<>> /\ loop = "arriving" /\ i = 0
    BY <1>2 DEF MultiInv, PlaceInv
  <2> QED BY <1>1, <1>2, <1>3, <1>4, <1>6, <2>1, <2>2, <2>3 DEF PlaceInv
<1>10. PointerInv'
  <2>1. \A d \in Cpu : minPtr[d] = IF IsEmptyPQ(d) THEN NULL ELSE FindMinRemainTimeProcess(d)
    BY <1>2 DEF MultiInv, PointerInv
  <2>2. minPtr[c] \in live \cup {NULL}
    <3>1. CASE IsEmptyPQ(c)
      BY <2>1, <3>1
    <3>2. CASE ~IsEmptyPQ(c)
      <4>1. 1 \in 1 .. size[c] /\ minPtr[c] = processes[c][1]
        BY <2>1, <3>2, MultiFacts DEF IsEmptyPQ, FindMinRemainTimeProcess
      <4> QED BY <1>2, <4>1 DEF AllSlotsLive, Slots, Contents
    <3> QED BY <3>1, <3>2
  <2> QED BY <1>1, <1>2, <1>3, <1>4, <1>6, <2>1, <2>2
          DEF PointerInv, IsEmptyPQ, FindMinRemainTimeProcess
<1>11. PartInv'
  <2>1. /\ Pid' = Pid
        /\ \A pid : Parts(pid)' = Parts(pid) /\ (IsParallel(pid)' <=> IsParallel(pid))
    BY <1>3, SameParts
  <2>2. \A q : q # p /\ Unborn(q) => Unborn(q)'
    BY <1>2 DEF Unborn
  <2>3. \A pid \in Pid' : Parts(pid)' \subseteq Proc
    BY <2>1 DEF MultiInv, PartInv
  <2>4. \A pid \in DOMAIN parallelProcTable' : IsParallel(pid)'
    BY <1>3, <2>1 DEF MultiInv, PartInv
  <2>5. ASSUME NEW n \in 1 .. Len(inputList)
        PROVE  LET pid == inputList[n].pid IN
               /\ pid \in Pid
               /\ \A m \in 1 .. Len(inputList) : inputList[m].pid = pid /\ m # n => IsParallel(pid)
               /\ n = 1 /\ IsParallel(pid) => pid \in DOMAIN parallelProcTable
               /\ \A q \in Parts(pid) :
                    IF n = 1 THEN q[2] > subProcNo => Unborn(q) /\ q # p
                    ELSE pid \notin DOMAIN parallelProcTable => Unborn(q) /\ q # p
    <3> DEFINE pid == inputList[n].pid
    <3>1. /\ pid \in Pid
          /\ \A m \in 1 .. Len(inputList) : inputList[m].pid = pid /\ m # n => IsParallel(pid)
          /\ n = 1 /\ IsParallel(pid) => pid \in DOMAIN parallelProcTable
          /\ \A q \in Parts(pid) :
               IF n = 1 THEN q[2] > subProcNo => Unborn(q)
               ELSE pid \notin DOMAIN parallelProcTable => Unborn(q)
      BY <1>2 DEF MultiInv, PartInv
    <3>2. \A q \in Parts(pid) : q[1] = pid /\ q[2] \in 0 .. numCPU - 1
      <4> HIDE DEF pid
      <4> QED BY <3>1, PartFacts
    <3>3. \A q \in Parts(pid) : q[2] > subProcNo => q # p
      BY <1>4, <3>2
    <3>4. ASSUME n # 1, pid = HeadPid PROVE pid \in DOMAIN parallelProcTable
      <4>1. IsParallel(HeadPid)
        BY <1>4, <3>1, <3>4
      <4>2. IsParallel(inputList[1].pid) => inputList[1].pid \in DOMAIN parallelProcTable
        BY <1>2, <1>4 DEF MultiInv, PartInv
      <4> QED BY <1>4, <3>4, <4>1, <4>2
    <3>5. n # 1 /\ pid \notin DOMAIN parallelProcTable => \A q \in Parts(pid) : q # p
      BY <3>2, <3>4
    <3> QED BY <3>1, <3>3, <3>5
  <2> HIDE DEF p
  <2> QED BY <1>2, <1>3, <2>1, <2>2, <2>3, <2>4, <2>5 DEF PartInv
<1>12. TimeInv'
  <2>1. \A q \in live : remainingTime[q] # 0
    BY <1>2 DEF MultiInv, TimeInv
  <2>2. remainingTime[p] # 0
    BY <1>4 DEF Unborn
  <2> QED BY <1>2, <2>1, <2>2 DEF TimeInv
<1>13. NoArrivalMissed'
  BY <1>2, <1>3 DEF MultiInv, NoArrivalMissed
<1> QED BY <1>5, <1>7, <1>8, <1>9, <1>10, <1>11, <1>12, <1>13 DEF MultiInv

\* The pointer of the processor that got the part is its root again.
LEMMA PickMinMultiInv ==
  ASSUME MultiInv, PickMin
  PROVE  MultiInv'
<1>1. /\ pc = "placed" /\ call = "none" /\ pc' = "place" /\ subProcNo' = subProcNo + 1
      /\ minPtr' = [minPtr EXCEPT ![target] = FindMinRemainTimeProcess(target)]
      /\ isRunning' \subseteq isRunning
      /\ UNCHANGED <<queueVars, listVars, loop, i, target, globalTimer, tableVars, outputVars, lastRan>>
  BY DEF PickMin
<1>2. UNCHANGED <<processes, size, call, popped, live, remainingTime, inputList, sorts, pass,
                  parallelProcTable, nodeOf, finishedAt>>
  BY <1>1 DEF queueVars, heapVars, callVars, listVars, tableVars, outputVars
<1>3. QueueInv' /\ HeldInv' /\ ListInv'
  BY <1>1, KeepQueues, ListStutterInv, MultiFacts
<1>4. /\ inputList # <<>> /\ HeadPid \in Pid /\ HeadPid = inputList[1].pid
      /\ subProcNo \in 0 .. numCPU - 1 /\ size[target] >= 1
  <2>1. inputList # <<>> /\ size[target] >= 1 /\ <<HeadPid, subProcNo>> \in Parts(HeadPid)
    BY <1>1 DEF MultiInv, PlaceInv
  <2>2. HeadPid \in Pid /\ HeadPid = inputList[1].pid
    BY <2>1, HeadFacts
  <2> QED BY <2>1, <2>2, PartFacts
<1>5. FindMinRemainTimeProcess(target) \in Proc
  BY <1>1, <1>4, MultiFacts, Quiet DEF FindMinRemainTimeProcess
<1>6. MultiTypeOK'
  <2>1. /\ subProcNo' \in 0 .. numCPU /\ minPtr' \in [Cpu -> Proc \cup {NULL}]
        /\ isRunning' \subseteq Proc /\ Pid' = Pid
    BY <1>1, <1>2, <1>4, <1>5, MultiFacts, SameParts DEF MultiInv, MultiTypeOK
  <2> QED BY <1>1, <1>2, <1>3, <2>1 DEF MultiInv, MultiTypeOK, QueueInv
<1>7. PlaceInv'
  BY <1>1, <1>2, <1>4 DEF MultiInv, PlaceInv
<1>8. PointerInv'
  <2>1. \A c \in Cpu : minPtr'[c] = IF c = target THEN FindMinRemainTimeProcess(target) ELSE minPtr[c]
    BY <1>1, MultiFacts
  <2>2. \A c \in Cpu \ {target} :
          minPtr[c] = IF IsEmptyPQ(c) THEN NULL ELSE FindMinRemainTimeProcess(c)
    BY <1>1 DEF MultiInv, PointerInv
  <2>3. ~IsEmptyPQ(target) /\ popped = NULL
    BY <1>1, <1>4 DEF IsEmptyPQ, MultiInv, PointerInv
  <2> QED BY <1>1, <1>2, <2>1, <2>2, <2>3 DEF PointerInv, IsEmptyPQ, FindMinRemainTimeProcess
<1>9. PartInv'
  <2>1. /\ Pid' = Pid
        /\ \A pid : Parts(pid)' = Parts(pid) /\ (IsParallel(pid)' <=> IsParallel(pid))
        /\ \A q : Unborn(q)' <=> Unborn(q)
    BY <1>2, SameParts DEF Unborn
  <2>2. /\ \A pid \in Pid' : Parts(pid)' \subseteq Proc
        /\ \A pid \in DOMAIN parallelProcTable' : IsParallel(pid)'
    BY <1>2, <2>1 DEF MultiInv, PartInv
  <2>3. ASSUME NEW n \in 1 .. Len(inputList)
        PROVE  LET pid == inputList[n].pid IN
               /\ pid \in Pid
               /\ \A m \in 1 .. Len(inputList) : inputList[m].pid = pid /\ m # n => IsParallel(pid)
               /\ n = 1 /\ IsParallel(pid) => pid \in DOMAIN parallelProcTable
               /\ \A q \in Parts(pid) :
                    IF n = 1 THEN q[2] >= subProcNo + 1 => Unborn(q)
                    ELSE pid \notin DOMAIN parallelProcTable => Unborn(q)
    <3> DEFINE pid == inputList[n].pid
    <3>1. /\ pid \in Pid
          /\ \A m \in 1 .. Len(inputList) : inputList[m].pid = pid /\ m # n => IsParallel(pid)
          /\ n = 1 /\ IsParallel(pid) => pid \in DOMAIN parallelProcTable
          /\ \A q \in Parts(pid) :
               IF n = 1 THEN q[2] > subProcNo => Unborn(q)
               ELSE pid \notin DOMAIN parallelProcTable => Unborn(q)
      BY <1>1 DEF MultiInv, PartInv
    <3>2. \A q \in Parts(pid) : q[2] \in 0 .. numCPU - 1
      <4> HIDE DEF pid
      <4> QED BY <3>1, PartFacts
    <3>3. \A q \in Parts(pid) : q[2] >= subProcNo + 1 => q[2] > subProcNo
      BY <1>4, <3>2
    <3> QED BY <3>1, <3>3
  <2>4. ASSUME NEW n \in 1 .. Len(inputList), NEW q \in Parts(inputList[n].pid), n = 1,
               q[2] > subProcNo + 1 \/ q[2] = subProcNo + 1
        PROVE  Unborn(q)
    <3>1. q[2] \in 0 .. numCPU - 1
      <4>1. inputList[n].pid \in Pid
        BY <2>3
      <4> QED BY <4>1, PartFacts
    <3> QED BY <1>4, <2>3, <2>4, <3>1
  <2> QED BY <1>1, <1>2, <2>1, <2>2, <2>3, <2>4 DEF PartInv
<1>10. TimeInv' /\ NoArrivalMissed'
  BY <1>1, <1>2 DEF MultiInv, TimeInv, NoArrivalMissed
<1> QED BY <1>3, <1>6, <1>7, <1>8, <1>9, <1>10 DEF MultiInv

\* The node leaves the list, the others keep their order.
LEMMA PlacedMultiInv ==
  ASSUME MultiInv, Placed
  PROVE  MultiInv'
<1>1. /\ pc = "place" /\ UpdateInputList
      /\ pc' = IF Len(inputList) = 1 THEN "run" ELSE "arrive"
      /\ UNCHANGED <<queueVars, loop, i, placeVars, globalTimer, cpuVars, tableVars, outputVars, lastRan>>
  BY DEF Placed
<1>2. UNCHANGED <<subProcNo, target, minPtr, isRunning, parallelProcTable, nodeOf, finishedAt,
                  live, remainingTime, call>>
  BY <1>1 DEF queueVars, callVars, placeVars, cpuVars, tableVars, outputVars
<1>3. inputList # <<>> /\ sorts = <<>> /\ loop = "arriving" /\ call \in {"none", "undefined"} /\ i = 0
  BY <1>1 DEF MultiInv, PlaceInv
<1>4. /\ ListInv' /\ Len(inputList') = Len(inputList) - 1 /\ inputList \in Seq(Node)
      /\ \A n \in 1 .. Len(inputList') : inputList'[n] = inputList[n + 1]
      /\ inputList' \in Seq(Node) /\ sorts' = sorts /\ pass' = pass
  BY <1>1, <1>3, MultiFacts, UpdateInv DEF ListInv, UpdateInputList
<1>5. \A n \in 1 .. Len(inputList') : n + 1 \in 1 .. Len(inputList) /\ n + 1 # 1
  BY <1>4
<1>6. QueueInv' /\ HeldInv' /\ PointerInv'
  BY <1>1, KeepQueues, KeepPointers DEF cpuVars
<1>7. MultiTypeOK'
  BY <1>1, <1>2, <1>4, <1>6, SameParts DEF MultiInv, MultiTypeOK, QueueInv, ListInv
<1>8. PlaceInv'
  <2>1. pc' = "run" => inputList' = <<>>
    BY <1>1, <1>4
  <2> QED BY <1>1, <1>2, <1>3, <1>4, <2>1 DEF PlaceInv, Due
<1>9. PartInv'
  <2>1. /\ Pid' = Pid
        /\ \A pid : Parts(pid)' = Parts(pid) /\ (IsParallel(pid)' <=> IsParallel(pid))
        /\ \A q : Unborn(q)' <=> Unborn(q)
    BY <1>2, SameParts DEF Unborn
  <2>2. /\ \A pid \in Pid' : Parts(pid)' \subseteq Proc
        /\ \A pid \in DOMAIN parallelProcTable' : IsParallel(pid)'
    BY <1>2, <2>1 DEF MultiInv, PartInv
  <2>3. ASSUME NEW n \in 1 .. Len(inputList'), NEW pid, pid = inputList'[n].pid
        PROVE  /\ pid \in Pid
               /\ \A m \in 1 .. Len(inputList') : inputList'[m].pid = pid /\ m # n => IsParallel(pid)
               /\ pid \notin DOMAIN parallelProcTable => \A q \in Parts(pid) : Unborn(q)
    <3>1. n + 1 \in 1 .. Len(inputList) /\ n + 1 # 1 /\ pid = inputList[n + 1].pid
      BY <1>4, <1>5, <2>3
    <3>2. /\ pid \in Pid
          /\ \A m \in 1 .. Len(inputList) : inputList[m].pid = pid /\ m # n + 1 => IsParallel(pid)
          /\ pid \notin DOMAIN parallelProcTable => \A q \in Parts(pid) : Unborn(q)
      BY <3>1 DEF MultiInv, PartInv
    <3>3. \A m \in 1 .. Len(inputList') : m # n => m + 1 \in 1 .. Len(inputList) /\ m + 1 # n + 1
      BY <1>5
    <3> QED BY <1>4, <3>2, <3>3
  <2> QED BY <1>1, <1>2, <2>1, <2>2, <2>3 DEF PartInv
<1>10. TimeInv'
  BY <1>1, <1>2 DEF MultiInv, TimeInv
<1>11. NoArrivalMissed'
  BY <1>1, <1>4, <1>5 DEF MultiInv, NoArrivalMissed
<1> QED BY <1>4, <1>6, <1>7, <1>8, <1>9, <1>10, <1>11 DEF MultiInv

\* No two processors have the same existing process at their root.
LEMMA RootsDiffer ==
  ASSUME MultiInv, NEW c \in Cpu, NEW d \in Cpu, c # d, popped = NULL,
         ~IsEmptyPQ(c), ~IsEmptyPQ(d), processes[c][1] \in live
  PROVE  processes[c][1] # processes[d][1]
<1>1. 1 \in 0 .. Capacity
  BY CapacityAssumption
<1>2. processes[c][1] \in Refs(c) /\ processes[d][1] \in Refs(d)
  BY <1>1 DEF Refs
<1>3. processes[c][1] \in queued[c]
  BY <1>2, MultiFacts DEF MultiInv, HeldInv
<1> QED BY <1>2, <1>3, MultiFacts DEF QueueInv, HomeInv

\* The process that is charged has not been charged in this tick.
LEMMA HasTime ==
  ASSUME MultiInv, pc = "run", i < numCPU, ~Rests(i), minPtr[i] \in live
  PROVE  remainingTime[minPtr[i]] > 0
<1>1. /\ i \in Cpu /\ popped = NULL /\ ~IsEmptyPQ(i) /\ minPtr[i] = processes[i][1]
      /\ minPtr[i] \in Proc
  BY RestsFacts, MultiFacts
<1>2. ASSUME remainingTime[minPtr[i]] = 0 PROVE FALSE
  <2>1. PICK c \in Cpu : minPtr[c] = minPtr[i] /\ c < i
    BY <1>2 DEF MultiInv, TimeInv
  <2>2. ~IsEmptyPQ(c) /\ minPtr[c] = processes[c][1]
    BY <1>1, <2>1, MultiFacts DEF MultiInv, PointerInv, FindMinRemainTimeProcess
  <2>3. c # i /\ processes[c][1] = processes[i][1] /\ processes[c][1] \in live
    BY <1>1, <2>1, <2>2, MultiFacts
  <2> QED BY <1>1, <2>1, <2>2, <2>3, RootsDiffer
<1>3. remainingTime[minPtr[i]] \in Nat
  BY <1>1, MultiFacts DEF TypeOK
<1> QED BY <1>2, <1>3

\* What runs is the root of the heap, which has time left.
LEMMA RunCpuMultiInv ==
  ASSUME MultiInv, call = "none", RunCpu
  PROVE  MultiInv'
<1>1. /\ pc = "run" /\ pc' = "run" /\ i < numCPU /\ i' = i + 1 /\ minPtr[i] \in live
      /\ remainingTime' = [remainingTime EXCEPT ![minPtr[i]] = @ - 1]
      /\ isRunning' = isRunning \cup {minPtr[i]} /\ lastRan' = [lastRan EXCEPT ![i] = minPtr[i]]
      /\ UNCHANGED <<listVars, heapVars, callVars, historyVars, live, loop, placeVars,
                     globalTimer, minPtr, tableVars, outputVars>>
  BY DEF RunCpu
<1>2. UNCHANGED <<processes, size, call, at, item, popped, queued, subProcNo, target,
                  parallelProcTable, nodeOf, finishedAt, inputList, sorts, pass>>
  BY <1>1 DEF heapVars, callVars, historyVars, listVars, placeVars, tableVars, outputVars
<1>3. /\ i \in Cpu /\ popped = NULL /\ ~IsEmptyPQ(i) /\ minPtr[i] = FindMinRemainTimeProcess(i)
      /\ minPtr[i] \in Proc /\ remainingTime[minPtr[i]] > 0
  BY <1>1, RestsFacts, HasTime, MultiFacts DEF RunCpu
<1>4. QueueInv'
  <2> DEFINE p == minPtr[i]
  <2>1. /\ p = FindMinRemainTimeProcess(i) /\ p \in live /\ remainingTime[p] > 0
        /\ remainingTime' = [remainingTime EXCEPT ![p] = @ - 1]
    BY <1>1, <1>3
  <2> HIDE DEF p
  <2> QED BY <1>1, <1>3, <2>1, MultiFacts, TickInv
<1>5. ListInv'
  BY <1>1, ListStutterInv, MultiFacts
<1>6. HeldInv'
  BY <1>1, <1>2 DEF MultiInv, HeldInv, Refs
<1>7. MultiTypeOK'
  <2>1. /\ i' \in 0 .. numCPU /\ isRunning' \subseteq Proc /\ Pid' = Pid
        /\ lastRan' \in [Cpu -> Proc \cup {NULL}]
    BY <1>1, <1>2, <1>3, MultiFacts, SameParts DEF MultiInv, MultiTypeOK
  <2> QED BY <1>1, <1>2, <1>4, <2>1 DEF MultiInv, MultiTypeOK, QueueInv
<1>8. PlaceInv'
  BY <1>1, <1>2 DEF MultiInv, PlaceInv, Due, GetFromInputList
<1>9. PointerInv'
  BY <1>1, <1>2 DEF MultiInv, PointerInv, IsEmptyPQ, FindMinRemainTimeProcess
<1>10. remainingTime \in [Proc \cup {DummyHead} -> Nat]
  BY MultiFacts DEF TypeOK
<1>11. \A p \in Proc : p # minPtr[i] => remainingTime'[p] = remainingTime[p]
  BY <1>1, <1>10
<1>12. PartInv'
  BY <1>1, <1>2, <1>11, KeepParts
<1>13. TimeInv'
  <2> SUFFICES ASSUME NEW p \in live, remainingTime'[p] = 0
               PROVE  \E c \in Cpu : minPtr[c] = p /\ c < i + 1
    BY <1>1 DEF TimeInv
  <2>1. CASE p = minPtr[i]
    BY <1>3, <2>1, MultiFacts
  <2>2. CASE p # minPtr[i]
    <3>1. PICK c \in Cpu : minPtr[c] = p /\ c < i
      BY <1>1, <1>11, <2>2, MultiFacts DEF MultiInv, TimeInv
    <3> QED BY <3>1, MultiFacts
  <2> QED BY <2>1, <2>2
<1>14. NoArrivalMissed'
  BY <1>1, <1>2 DEF MultiInv, NoArrivalMissed
<1> QED BY <1>4, <1>5, <1>6, <1>7, <1>8, <1>9, <1>12, <1>13, <1>14 DEF MultiInv

\* What is deleted is the process that was run.
LEMMA FinishMultiInv ==
  ASSUME MultiInv, Finish
  PROVE  MultiInv'
<1>1. /\ pc = "check" /\ pc' = "free" /\ call = "none" /\ i < numCPU /\ ~Rests(i)
      /\ minPtr[i] \in live /\ remainingTime[minPtr[i]] = 0 /\ DeleteMin(i)
      /\ UNCHANGED <<listVars, remainingTime, live, loop, i, placeVars, globalTimer, cpuVars, nodeOf, lastRan>>
  BY DEF Finish
<1>2. UNCHANGED <<subProcNo, target, minPtr, isRunning, inputList, sorts, pass>>
  BY <1>1 DEF listVars, placeVars, cpuVars
<1>3. /\ i \in Cpu /\ popped = NULL /\ minPtr[i] = processes[i][1] /\ minPtr[i] \in Proc
      /\ ~IsEmptyPQ(i) /\ size[i] \in 1 .. Capacity
  BY <1>1, RestsFacts, MultiFacts DEF IsEmptyPQ
<1>4. QueueInv' /\ ListInv'
  BY <1>1, <1>3, DeleteMinInv, ListStutterInv, MultiFacts
<1>5. /\ call' = "siftDown" /\ at' = i /\ item' = processes[i][size[i]] /\ popped' = minPtr[i]
      /\ queued' = [queued EXCEPT ![i] = @ \ {minPtr[i]}] /\ processes' = processes
      /\ size' = [size EXCEPT ![i] = @ - 1]
  BY <1>1, <1>3 DEF DeleteMin
<1>6. HeldInv'
  <2> SUFFICES ASSUME NEW d \in Cpu, NEW q \in Refs(d)', q \in live
               PROVE  q \in queued'[d] \cup {minPtr[i]}
    BY <1>1, <1>5 DEF HeldInv
  <2>1. q \in Refs(d)
    BY <1>3, <1>5 DEF Refs
  <2>2. q \in queued[d]
    BY <1>3, <2>1, MultiFacts DEF MultiInv, HeldInv
  <2>3. queued \in [Cpu -> SUBSET Proc]
    BY MultiFacts DEF TypeOK
  <2> QED BY <1>5, <2>2, <2>3
<1>7. /\ DOMAIN parallelProcTable' = DOMAIN parallelProcTable
      /\ \A pid \in DOMAIN parallelProcTable : parallelProcTable'[pid] \in 1 .. numCPU
      /\ finishedAt' \in [Pid -> Nat]
  <2>1. /\ \A pid \in DOMAIN parallelProcTable : parallelProcTable[pid] \in 1 .. numCPU
        /\ finishedAt \in [Pid -> Nat]
    BY DEF MultiInv, MultiTypeOK
  <2> DEFINE pid == PidOf(minPtr[i])
  <2>2. \/ /\ OthersRemain(pid)
           /\ parallelProcTable' = [parallelProcTable EXCEPT ![pid] = @ - 1]
           /\ finishedAt' = finishedAt
        \/ /\ finishedAt' = [finishedAt EXCEPT ![pid] = globalTimer]
           /\ parallelProcTable' = parallelProcTable
    BY DEF Finish, Report, outputVars
  <2>3. OthersRemain(pid) => parallelProcTable[pid] > 1
    BY DEF OthersRemain
  <2> HIDE DEF pid
  <2>4. CASE /\ OthersRemain(pid) /\ finishedAt' = finishedAt
             /\ parallelProcTable' = [parallelProcTable EXCEPT ![pid] = @ - 1]
    BY <2>1, <2>3, <2>4, MultiFacts
  <2>5. CASE finishedAt' = [finishedAt EXCEPT ![pid] = globalTimer] /\ parallelProcTable' = parallelProcTable
    BY <2>1, <2>5, MultiFacts
  <2> QED BY <2>2, <2>4, <2>5
<1>8. MultiTypeOK'
  <2>1. Pid' = Pid
    BY <1>1, SameParts
  <2> QED BY <1>1, <1>2, <1>4, <1>7, <2>1 DEF MultiInv, MultiTypeOK, QueueInv
<1>9. PlaceInv'
  BY <1>1, <1>2, <1>5 DEF MultiInv, PlaceInv
<1>10. PointerInv'
  <2>1. \A c \in Cpu : c # i => size'[c] = size[c]
    BY <1>3, <1>5, MultiFacts
  <2> QED BY <1>1, <1>2, <1>5, <2>1 DEF MultiInv, PointerInv, IsEmptyPQ, FindMinRemainTimeProcess
<1>11. PartInv'
  BY <1>1, <1>2, <1>7, KeepParts
<1>12. TimeInv' /\ NoArrivalMissed'
  BY <1>1, <1>2 DEF MultiInv, TimeInv, NoArrivalMissed
<1> QED BY <1>4, <1>6, <1>8, <1>9, <1>10, <1>11, <1>12 DEF MultiInv

\* The pointer leaves the freed process.
LEMMA FreeMultiInv ==
  ASSUME MultiInv, Free
  PROVE  MultiInv'
<1>1. /\ pc = "free" /\ pc' = "check" /\ call = "none" /\ live' = live \ {popped} /\ popped' = NULL
      /\ minPtr' = [minPtr EXCEPT ![i] = NextMin] /\ i' = i + 1
      /\ UNCHANGED <<listVars, heapVars, call, at, hole, item, historyVars, remainingTime, loop,
                     placeVars, globalTimer, isRunning, tableVars, outputVars, lastRan>>
  BY DEF Free
<1>2. UNCHANGED <<processes, size, queued, subProcNo, target, parallelProcTable, nodeOf, finishedAt,
                  inputList, sorts, pass>>
  BY <1>1 DEF heapVars, historyVars, listVars, placeVars, tableVars, outputVars
<1>3. i < numCPU /\ i \in Cpu /\ popped = minPtr[i] /\ popped \in Proc /\ popped # NULL
  BY <1>1, MultiFacts DEF MultiInv, PlaceInv, PointerInv
<1>4. QueueInv' /\ ListInv'
  BY <1>1, <1>3, FreeInv, ListStutterInv, MultiFacts
<1>5. HeldInv'
  BY <1>1, <1>2 DEF MultiInv, HeldInv, Refs
<1>6. NextMin \in Proc \cup {NULL}
  <2>1. ~IsEmptyPQ(i) => FindMinRemainTimeProcess(i) \in Proc
    BY <1>1, <1>3, MultiFacts, Quiet DEF IsEmptyPQ, FindMinRemainTimeProcess
  <2> QED BY <2>1 DEF NextMin
<1>7. MultiTypeOK'
  <2>1. i' \in 0 .. numCPU /\ minPtr' \in [Cpu -> Proc \cup {NULL}] /\ Pid' = Pid
    BY <1>1, <1>2, <1>3, <1>6, MultiFacts, SameParts
  <2> QED BY <1>1, <1>2, <1>4, <2>1 DEF MultiInv, MultiTypeOK, QueueInv
<1>8. PlaceInv'
  BY <1>1, <1>2 DEF MultiInv, PlaceInv
<1>9. \A c \in Cpu : minPtr'[c] = IF c = i THEN NextMin ELSE minPtr[c]
  BY <1>1, MultiFacts
<1>10. PointerInv'
  <2>1. \A c \in Cpu \ {i} : minPtr[c] = IF IsEmptyPQ(c) THEN NULL ELSE FindMinRemainTimeProcess(c)
    BY <1>1 DEF MultiInv, PointerInv
  <2> QED BY <1>1, <1>2, <1>9, <2>1 DEF PointerInv, NextMin, IsEmptyPQ, FindMinRemainTimeProcess
<1>11. PartInv'
  BY <1>1, <1>2, KeepParts
<1>12. TimeInv'
  <2> SUFFICES ASSUME NEW p \in live, p # popped, remainingTime[p] = 0
               PROVE  \E c \in Cpu : minPtr'[c] = p /\ c >= i + 1
    BY <1>1 DEF TimeInv
  <2>1. PICK c \in Cpu : minPtr[c] = p /\ c >= i
    BY <1>1 DEF MultiInv, TimeInv
  <2> QED BY <1>3, <1>9, <2>1, MultiFacts
<1>13. NoArrivalMissed'
  BY <1>1, <1>2 DEF MultiInv, NoArrivalMissed
<1> QED BY <1>4, <1>5, <1>7, <1>8, <1>10, <1>11, <1>12, <1>13 DEF MultiInv

\* Whatever freed process is used, the heap of that processor refers to it.
LEMMA FreedInHeap ==
  ASSUME MultiInv, call = "none", NEW c \in Cpu, UseFreed(c)
  PROVE  ~(Slots(c) \subseteq live) /\ popped = NULL
<1>1. popped = NULL
  BY DEF UseFreed, MultiInv, PointerInv
<1>2. CASE ~(Slots(c) \subseteq live)
  BY <1>1, <1>2
<1>3. CASE pc = "placed" /\ c = target /\ ~({FindMinRemainTimeProcess(c), minPtr[c]} \subseteq live \cup {NULL})
  <2>1. size[c] >= 1 /\ minPtr[c] \in live \cup {NULL}
    BY <1>3 DEF MultiInv, PlaceInv, PointerInv
  <2>2. 1 \in 1 .. size[c] /\ processes[c][1] \notin live
    BY <1>3, <2>1, MultiFacts DEF FindMinRemainTimeProcess
  <2> QED BY <1>1, <2>2 DEF Slots, Contents
<1>4. CASE pc = "run" /\ c = i /\ ~Rests(c) /\ minPtr[c] \notin live
  <2>1. i < numCPU
    BY <1>4, MultiFacts
  <2>2. 1 \in 1 .. size[c] /\ minPtr[c] = processes[c][1]
    BY <1>4, <2>1, RestsFacts
  <2> QED BY <1>1, <1>4, <2>2 DEF Slots, Contents
<1> QED BY <1>2, <1>3, <1>4 DEF UseFreed

LEMMA UseFreedMultiInv ==
  ASSUME MultiInv, call = "none", NEW c \in Cpu, UseFreed(c)
  PROVE  MultiInv'
<1>1. /\ call' = "undefined" /\ at' = c
      /\ UNCHANGED <<listVars, heapVars, hole, item, popped, historyVars, remainingTime, live, multiVars>>
  BY DEF UseFreed
<1>2. UNCHANGED <<processes, size, queued, pc, loop, i, subProcNo, target, globalTimer, minPtr, isRunning,
                  parallelProcTable, nodeOf, finishedAt, lastRan, inputList, sorts, pass>>
  BY <1>1 DEF heapVars, historyVars, listVars, multiVars, placeVars, cpuVars, tableVars, outputVars
<1>3. PICK k \in 1 .. size[c] : processes[c][k] \notin live
  BY FreedInHeap DEF Slots, Contents
<1>4. QueueInv' /\ ListInv'
  BY <1>1, <1>3, UseFreedInv, ListStutterInv, MultiFacts
<1>5. HeldInv'
  BY <1>1, <1>2 DEF MultiInv, HeldInv, Refs
<1>6. MultiTypeOK'
  BY <1>1, <1>2, <1>4, SameParts DEF MultiInv, MultiTypeOK, QueueInv
<1>7. PlaceInv'
  <2>1. HeadPid' = HeadPid /\ Parts(HeadPid)' = Parts(HeadPid) /\ (Due' <=> Due)
    BY <1>2, SameParts DEF HeadPid, GetFromInputList, Due
  <2> QED BY <1>1, <1>2, <2>1 DEF MultiInv, PlaceInv
<1>8. PointerInv'
  BY <1>1, <1>2 DEF MultiInv, PointerInv, IsEmptyPQ, FindMinRemainTimeProcess
<1>9. PartInv'
  BY <1>1, <1>2, KeepParts
<1>10. TimeInv' /\ NoArrivalMissed'
  BY <1>1, <1>2 DEF MultiInv, TimeInv, NoArrivalMissed
<1> QED BY <1>4, <1>5, <1>6, <1>7, <1>8, <1>9, <1>10 DEF MultiInv

\* While a call runs, it works on the heap of target or of i.
LEMMA QueueStepMultiInv ==
  ASSUME MultiInv, QueueStep, UNCHANGED <<listVars, multiVars>>
  PROVE  MultiInv'
<1>1. call \in {"siftUp", "siftDown", "pidSort"}
  <2>1. UndefinedIteration => call \in {"siftUp", "siftDown", "pidSort"}
    BY DEF UndefinedIteration, Allocated, Dereferenced, SlotsRead, ItemRead
  <2> QED BY <2>1 DEF QueueStep, SiftUp, SiftDown, PidSort
<1>2. \/ pc = "placed" /\ call = "siftUp" /\ at = target
      \/ pc = "free" /\ call \in {"siftDown", "pidSort"} /\ at = i
  <2>1. \/ call \in {"none", "undefined"}
        \/ pc = "placed" /\ call = "siftUp" /\ at = target
        \/ pc = "free" /\ call \in {"siftDown", "pidSort"} /\ at = i
    BY Zenon DEF MultiInv, PlaceInv
  <2> QED BY <1>1, <2>1
<1>3. UNCHANGED <<pc, loop, i, subProcNo, target, globalTimer, minPtr, isRunning,
                  parallelProcTable, nodeOf, finishedAt, lastRan, inputList, sorts, pass>>
  BY DEF listVars, multiVars, placeVars, cpuVars, tableVars, outputVars
<1>4. UNCHANGED <<popped, remainingTime, live, queued, at, item>>
  BY DEF QueueStep, SiftUp, SiftDown, PidSort, UndefinedIteration, historyVars
<1>5. QueueInv' /\ ListInv'
  BY QueueStepInv, ListStutterInv, MultiFacts
<1>6. HeldInv'
  <2>1. \A c \in Cpu : Refs(c)' \subseteq Refs(c)
    <3>1. CASE UndefinedIteration
      BY <3>1 DEF UndefinedIteration, heapVars, Refs
    <3>2. CASE SiftUp \/ SiftDown \/ PidSort
      BY <3>2, RefsKept, MultiFacts
    <3> QED BY <3>1, <3>2 DEF QueueStep
  <2> QED BY <1>4, <2>1 DEF MultiInv, HeldInv
<1>7. \A c \in Cpu : c # at => processes'[c] = processes[c] /\ size'[c] = size[c]
  BY MultiFacts DEF TypeOK, QueueStep, SiftUp, SiftDown, PidSort, UndefinedIteration, heapVars
<1>8. \/ call' = "undefined"
      \/ call = "siftUp" /\ call' = "siftUp"
      \/ call = "siftUp" /\ call' = "none" /\ size'[at] >= 1
      \/ call # "siftUp" /\ call' \in {"none", "siftDown", "pidSort"}
  <2>1. at \in Cpu /\ size \in [Cpu -> 0 .. Capacity] /\ Capacity \in Nat
    BY MultiFacts, CapacityAssumption DEF TypeOK
  <2>2. SiftUp => call' = "siftUp" \/ (call' = "none" /\ size'[at] >= 1)
    BY <2>1 DEF SiftUp
  <2> QED BY <1>1, <2>2 DEF QueueStep, SiftUp, SiftDown, PidSort, UndefinedIteration
<1>9. MultiTypeOK'
  BY <1>3, <1>5, SameParts DEF MultiInv, MultiTypeOK, QueueInv
<1>10. PlaceInv'
  <2>1. HeadPid' = HeadPid /\ Parts(HeadPid)' = Parts(HeadPid)
    BY <1>3, SameParts DEF HeadPid, GetFromInputList
  <2> QED BY <1>2, <1>3, <1>4, <1>8, <2>1 DEF MultiInv, PlaceInv
<1>11. PointerInv'
  BY <1>2, <1>3, <1>4, <1>7 DEF MultiInv, PointerInv, IsEmptyPQ, FindMinRemainTimeProcess
<1>12. PartInv'
  BY <1>3, <1>4, KeepParts
<1>13. TimeInv' /\ NoArrivalMissed'
  BY <1>3, <1>4 DEF MultiInv, TimeInv, NoArrivalMissed
<1> QED BY <1>5, <1>6, <1>9, <1>10, <1>11, <1>12, <1>13 DEF MultiInv

LEMMA StutterMultiInv ==
  ASSUME MultiInv, UNCHANGED vars
  PROVE  MultiInv'
<1>1. UNCHANGED <<queueVars, listVars, multiVars>>
  BY DEF vars
<1>2. UNCHANGED <<processes, size, queued, call, at, item, popped, live, remainingTime,
                  pc, loop, i, subProcNo, target, globalTimer, minPtr, isRunning,
                  parallelProcTable, nodeOf, finishedAt, lastRan, inputList, sorts, pass>>
  BY <1>1 DEF queueVars, heapVars, callVars, historyVars, listVars, multiVars, placeVars, cpuVars,
              tableVars, outputVars
<1>3. QueueInv' /\ HeldInv' /\ ListInv'
  BY <1>1, KeepQueues, ListStutterInv, MultiFacts
<1>4. MultiTypeOK'
  BY <1>2, <1>3, SameParts DEF MultiInv, MultiTypeOK, QueueInv
<1>5. PlaceInv'
  <2>1. HeadPid' = HeadPid /\ Parts(HeadPid)' = Parts(HeadPid) /\ (Due' <=> Due)
    BY <1>2, SameParts DEF HeadPid, GetFromInputList, Due
  <2> QED BY <1>2, <2>1 DEF MultiInv, PlaceInv
<1>6. PointerInv'
  BY <1>2 DEF MultiInv, PointerInv, IsEmptyPQ, FindMinRemainTimeProcess
<1>7. PartInv'
  BY <1>2, KeepParts
<1>8. TimeInv' /\ NoArrivalMissed'
  BY <1>2 DEF MultiInv, TimeInv, NoArrivalMissed
<1> QED BY <1>3, <1>4, <1>5, <1>6, <1>7, <1>8 DEF MultiInv

-----------------------------------------------------------------------------
(***************************************************************************)
(* The initial states.                                                     *)
(***************************************************************************)
\* One of the nodes of an id arrives first.
LEMMA FirstIsNode ==
  ASSUME NEW f \in Seq(Node), NEW pid \in PidsOf(f)
  PROVE  \E n \in 1 .. Len(f) :
           /\ FirstOf(f, pid) = f[n] /\ f[n].pid = pid
           /\ \A m \in 1 .. Len(f) : f[m].pid = pid => f[n].arrival <= f[m].arrival
<1> DEFINE N == {n \in 1 .. Len(f) : f[n].pid = pid}
           S == {f[n].arrival : n \in N}
<1>1. N # {}
  BY DEF PidsOf
<1>2. \A n \in 1 .. Len(f) : f[n] \in Node
  OBVIOUS
<1>3. S \in SUBSET Nat /\ S # {}
  BY <1>1, <1>2, ZenonT(30) DEF Node
<1>4. PICK a \in S : \A b \in S : a <= b
  <2> HIDE DEF S
  <2> QED BY <1>3, Smallest
<1>5. PICK n \in N : f[n].arrival = a
  OBVIOUS
<1>6. /\ f[n] \in {f[m] : m \in 1 .. Len(f)} /\ f[n].pid = pid
      /\ \A m \in 1 .. Len(f) : f[m].pid = pid => f[n].arrival <= f[m].arrival
  BY <1>4, <1>5
<1>7. /\ FirstOf(f, pid) \in {f[m] : m \in 1 .. Len(f)}
      /\ FirstOf(f, pid).pid = pid
      /\ \A m \in 1 .. Len(f) : f[m].pid = pid => FirstOf(f, pid).arrival <= f[m].arrival
  BY <1>6 DEF FirstOf
<1> QED BY <1>7

\* Rounding up a positive fraction.
LEMMA CeilPositive ==
  ASSUME NEW a \in Nat \ {0}, NEW b \in Nat \ {0}
  PROVE  Ceil(<<a, b>>) \in Nat
<1>1. a + b - 1 \in Nat
  OBVIOUS
<1>2. (a + b - 1) \div b \in Nat
  BY <1>1, Z3
<1> QED BY <1>2 DEF Ceil

LEMMA InitMultiInv ==
  ASSUME Init
  PROVE  MultiInv
<1>1. PICK f \in Files :
        /\ InitList(f, <<"pid", "exec", "arrival">>)
        /\ nodeOf = [pid \in PidsOf(f) |-> FirstOf(f, pid)]
  BY DEF Init
<1>2. /\ f \in Seq(Node) /\ Len(f) >= 1 /\ RepeatsApart(f) /\ PidsOf(f) \X Cpu \subseteq Proc
      /\ numCPU \in Nat /\ numCPU >= 2 /\ Cpu = 0 .. numCPU - 1
  BY FilesAssumption DEF ListOf
<1>3. /\ inputList = f /\ sorts = <<"pid", "exec", "arrival">> /\ pass = 1
      /\ inputList \in Seq(Node) /\ sorts \in Seq(Field) /\ Len(sorts) = 3 /\ inputList # <<>>
  BY <1>1, <1>2 DEF InitList, Field
<1>4. Pid = PidsOf(f)
  BY <1>1 DEF Pid
<1>5. ASSUME NEW pid \in Pid
      PROVE  \E n \in 1 .. Len(f) : nodeOf[pid] = f[n] /\ f[n].pid = pid /\ f[n] \in Node
  BY <1>1, <1>2, <1>4, FirstIsNode
<1>6. ASSUME NEW pid \in Pid
      PROVE  NumSubs(pid) \in 1 .. numCPU /\ Parts(pid) \subseteq Proc
  <2>1. nodeOf[pid] \in Node
    BY <1>5
  <2>2. NumSubs(pid) \in 1 .. numCPU
    BY <1>2, <2>1 DEF NumSubs, Node
  <2>3. 0 \in Cpu /\ 0 .. NumSubs(pid) - 1 \subseteq Cpu
    BY <1>2, <2>2
  <2>4. {pid} \X Cpu \subseteq Proc
    BY <1>2, <1>4
  <2> QED BY <2>2, <2>3, <2>4 DEF Parts
<1>7. ASSUME NEW pid \in Pid, NEW p \in Parts(pid)
      PROVE  burstTime(p) \in Nat \ {0}
  <2>1. PidOf(p) = pid
    BY DEF Parts, PidOf
  <2>2. nodeOf[pid].exec \in Nat \ {0} /\ NumSubs(pid) \in Nat \ {0}
    <3>1. nodeOf[pid] \in Node
      BY <1>5
    <3>2. NumSubs(pid) \in 1 .. numCPU
      BY <1>6
    <3> QED BY <1>2, <3>1, <3>2 DEF Node
  <2>3. Ceil(<<nodeOf[pid].exec, NumSubs(pid)>>) \in Nat
    BY <2>2, CeilPositive
  <2> QED BY <2>1, <2>2, <2>3 DEF burstTime
<1>8. /\ remainingTime = [p \in Proc \cup {DummyHead} |-> IF p \in AllParts THEN burstTime(p) ELSE 0]
      /\ \A p \in AllParts : p \in Proc /\ burstTime(p) \in Nat \ {0}
  BY <1>6, <1>7 DEF Init, AllParts
<1>9. /\ remainingTime \in [Proc \cup {DummyHead} -> Nat] /\ remainingTime[DummyHead] = 0
      /\ \A p \in AllParts : remainingTime[p] > 0
  BY <1>8, ProcAssumption
<1>10. QueueInv
  BY <1>9, InitInv DEF Init
<1>11. ListInv
  BY <1>3 DEF ListInv, PassesDone, Sorted
<1>12. nodeOf \in [Pid -> Node]
  <2>1. \A pid \in Pid : nodeOf[pid] \in Node
    BY <1>5
  <2> QED BY <1>1, <1>4, <2>1
<1>13. MultiTypeOK
  BY <1>2, <1>3, <1>10, <1>12 DEF MultiTypeOK, Init, QueueInv
<1>14. PlaceInv
  BY <1>2, <1>3 DEF Init, InitCall, PlaceInv
<1>15. PointerInv
  BY DEF Init, InitCall, InitializePQ, PointerInv, IsEmptyPQ
<1>16. PartInv
  <2>1. /\ \A pid \in Pid : Parts(pid) \subseteq Proc
        /\ DOMAIN parallelProcTable = {} /\ pc = "sort" /\ live = {}
    BY <1>6 DEF Init
  <2>2. ASSUME NEW n \in 1 .. Len(inputList), NEW pid, pid = inputList[n].pid
        PROVE  /\ pid \in Pid
               /\ \A m \in 1 .. Len(inputList) : inputList[m].pid = pid /\ m # n => IsParallel(pid)
               /\ \A p \in Parts(pid) : Unborn(p)
    <3>1. pid \in Pid
      BY <1>3, <1>4, <2>2 DEF PidsOf
    <3>2. PICK k \in 1 .. Len(f) : nodeOf[pid] = f[k] /\ f[k].pid = pid
      BY <1>5, <3>1
    <3>3. \A m \in 1 .. Len(f) : f[m].pid = pid /\ m # n => f[k].parallel = 1
      BY <1>2, <1>3, <2>2, <3>2 DEF RepeatsApart
    <3>4. \A p \in Parts(pid) : Unborn(p)
      BY <1>9, <2>1, <3>1 DEF AllParts, Unborn
    <3> QED BY <1>3, <3>1, <3>2, <3>3, <3>4 DEF IsParallel
  <2> QED BY <2>1, <2>2 DEF PartInv
<1>17. TimeInv
  BY DEF Init, TimeInv
<1>18. HeldInv
  BY DEF Init, HeldInv
<1>19. NoArrivalMissed
  <2>1. \A n \in 1 .. Len(inputList) : inputList[n].arrival \in Nat
    <3> TAKE n \in 1 .. Len(inputList)
    <3>1. inputList[n] \in Node
      BY <1>3
    <3> QED BY <3>1 DEF Node
  <2> QED BY <2>1 DEF NoArrivalMissed, Init
<1> QED BY <1>10, <1>11, <1>13, <1>14, <1>15, <1>16, <1>17, <1>18, <1>19 DEF MultiInv

-----------------------------------------------------------------------------
\* The queues, the list, the pointers and the timer agree at every step of the
\* simulation with several processors (HandleMultiCPU, HandleArrivingProcOnMultiCpu,
\* HandleRemainProcOnMultiCPU), whatever their number and the input files.
THEOREM MultiCpuInvariant == Spec => []MultiInv
<1>1. MultiInv /\ [Next]_vars => MultiInv'
  <2> SUFFICES ASSUME MultiInv, [Next]_vars PROVE MultiInv'
    OBVIOUS
  <2>1. ASSUME call = "none", Step PROVE MultiInv'
    <3>1. CASE Spin \/ \E c \in Cpu : UseFreed(c)
      BY <2>1, <3>1, UseFreedMultiInv, StutterMultiInv DEF Spin
    <3>2. CASE \/ Sort \/ Begin \/ Arrive \/ Place \/ PickMin \/ Placed \/ NotDue \/ EndArrivals
               \/ Remain
      BY <3>2, SortMultiInv, TestMultiInv, ArriveMultiInv, PlaceMultiInv, PickMinMultiInv,
         PlacedMultiInv, NotDueMultiInv
    <3>3. CASE RunCpu \/ SkipCpu \/ Advance \/ CheckOn \/ Finish \/ Free \/ EndTick
      BY <2>1, <3>3, RunCpuMultiInv, LoopMultiInv, AdvanceMultiInv, FinishMultiInv, FreeMultiInv
    <3> QED BY <2>1, <3>1, <3>2, <3>3 DEF Step
  <2>2. CASE UNCHANGED vars
    BY <2>2, StutterMultiInv
  <2> QED BY <2>1, <2>2, QueueStepMultiInv DEF Next
<1> QED BY <1>1, InitMultiInv, PTL DEF Spec

\* What each processor runs, reports and deletes in the two loops of sim.c is the
\* root of its own heap, and its pointer is NULL just when the heap is empty.
THEOREM RunsTheRoots == Spec => []MinIsRoot
<1>1. MultiInv => MinIsRoot
  BY DEF MultiInv, PointerInv, MinIsRoot
<1> QED BY <1>1, MultiCpuInvariant, PTL

\* The timer never passes the arrival time of a process still in the list, so that
\* the test by equality in HandleArrivingProcOnMultiCpu finds each of them.
THEOREM MissesNoArrival == Spec => []NoArrivalMissed
<1>1. MultiInv => NoArrivalMissed
  BY DEF MultiInv
<1> QED BY <1>1, MultiCpuInvariant, PTL

-----------------------------------------------------------------------------
(***************************************************************************)
(* The simulation uses its queues as QueueClient does.                     *)
(***************************************************************************)
LEMMA InitClient ==
  ASSUME Init
  PROVE  Client!Init
<1>1. remainingTime \in [Proc \cup {DummyHead} -> Nat] /\ remainingTime[DummyHead] = 0
  BY InitMultiInv DEF MultiInv, QueueInv, TypeOK, ShapeInv
<1> QED BY <1>1 DEF Init, Client!Init, InitializePQ, Client!InitializePQ, InitCall, Client!InitCall

\* The part created has not been in any queue before.
LEMMA PlaceClient ==
  ASSUME MultiInv, Place
  PROVE  Client!Next
<1> DEFINE p == <<HeadPid, subProcNo>>
<1>1. PICK c \in Cpu : InsertPQ(p, c)
  BY DEF Place
<1>2. p \in Proc /\ Unborn(p) /\ popped = NULL /\ live' = live \cup {p} /\ UNCHANGED remainingTime
  BY PartToPlace DEF Place
<1>3. call = "none"
  BY <1>1 DEF InsertPQ
<1>4. Client!Create(p, c)
  <2>1. p \notin live /\ remainingTime[p] > 0
    BY <1>2 DEF Unborn
  <2> HIDE DEF p
  <2> QED BY <1>1, <1>2, <1>3, <2>1, SameInsertPQ DEF Client!Create, Client!Between
<1> QED BY <1>2, <1>4 DEF Client!Next

\* The process a processor runs is the root of its heap, and has time left.
LEMMA RunCpuClient ==
  ASSUME MultiInv, call = "none", RunCpu
  PROVE  Client!Next
<1>1. /\ pc = "run" /\ i < numCPU /\ ~Rests(i) /\ minPtr[i] \in live
      /\ remainingTime' = [remainingTime EXCEPT ![minPtr[i]] = @ - 1]
      /\ UNCHANGED <<heapVars, callVars, historyVars, live>>
  BY DEF RunCpu
<1>2. /\ i \in Cpu /\ popped = NULL /\ ~IsEmptyPQ(i) /\ minPtr[i] = FindMinRemainTimeProcess(i)
      /\ remainingTime[minPtr[i]] > 0
  BY <1>1, RestsFacts, HasTime
<1>3. Client!Run(i)
  BY <1>1, <1>2, SameRoot
     DEF Client!Run, Client!Between, Client!heapVars, heapVars, Client!callVars, callVars, Client!historyVars, historyVars
<1> QED BY <1>2, <1>3 DEF Client!Next

LEMMA FinishClient ==
  ASSUME MultiInv, Finish
  PROVE  Client!Next
<1>1. /\ pc = "check" /\ call = "none" /\ i < numCPU /\ ~Rests(i) /\ DeleteMin(i)
      /\ UNCHANGED <<remainingTime, live>>
      /\ minPtr[i] \in live /\ remainingTime[minPtr[i]] = 0
  BY DEF Finish
<1>2. i \in Cpu /\ popped = NULL /\ ~IsEmptyPQ(i) /\ minPtr[i] = FindMinRemainTimeProcess(i)
  BY <1>1, RestsFacts
<1>3. Client!Finish(i)
  BY <1>1, <1>2, SameRoot DEF Client!Finish, Client!Between
<1> QED BY <1>2, <1>3 DEF Client!Next

LEMMA FreeClient ==
  ASSUME MultiInv, Free
  PROVE  Client!Next
<1>1. popped # NULL
  BY MultiFacts DEF Free, MultiInv, PointerInv
<1>2. Client!Free
  BY <1>1 DEF Free, Client!Free, Client!heapVars, heapVars, Client!historyVars, historyVars
<1> QED BY <1>2 DEF Client!Next

LEMMA UseFreedClient ==
  ASSUME MultiInv, call = "none", NEW c \in Cpu, UseFreed(c)
  PROVE  Client!Next
<1>1. /\ call' = "undefined" /\ at' = c
      /\ UNCHANGED <<heapVars, hole, item, popped, historyVars, remainingTime, live>>
  BY DEF UseFreed
<1>2. Client!UseFreed(c)
  BY <1>1, FreedInHeap, SameRoot
     DEF Client!UseFreed, Client!Between, Client!heapVars, heapVars, Client!historyVars, historyVars
<1> QED BY <1>2 DEF Client!Next

\* HandleMultiCPU, HandleArrivingProcOnMultiCpu and HandleRemainProcOnMultiCPU call
\* the queues only as QueueClient does, whatever the number of processors and the
\* input files.
THEOREM UsesTheQueues == Spec => ImplementsQueueClient
<1>1. ASSUME MultiInv, [Next]_vars PROVE [Client!Next]_queueVars
  <2>1. ASSUME call = "none", Step PROVE [Client!Next]_queueVars
    <3>1. CASE \/ Sort \/ Begin \/ Arrive \/ PickMin \/ Placed \/ NotDue \/ EndArrivals \/ Remain
               \/ SkipCpu \/ Advance \/ CheckOn \/ EndTick
      BY <3>1 DEF Sort, Begin, Arrive, PickMin, Placed, NotDue, EndArrivals, Remain, SkipCpu, Advance,
                  CheckOn, EndTick
    <3>2. CASE Spin
      BY <3>2 DEF Spin, vars
    <3>3. CASE Place \/ RunCpu \/ Finish \/ Free \/ \E c \in Cpu : UseFreed(c)
      BY <1>1, <2>1, <3>3, PlaceClient, RunCpuClient, FinishClient, FreeClient, UseFreedClient
    <3> QED BY <2>1, <3>1, <3>2, <3>3 DEF Step
  <2>2. CASE QueueStep
    BY <2>2, SameQueueStep DEF Client!Next
  <2>3. CASE UNCHANGED vars
    BY <2>3 DEF vars
  <2> QED BY <1>1, <2>1, <2>2, <2>3 DEF Next
<1> QED BY <1>1, InitClient, MultiCpuInvariant, PTL DEF Spec, ImplementsQueueClient

-----------------------------------------------------------------------------
(***************************************************************************)
(* With any number of processors and whatever ties were met, remainNumSubs *)
(* counts the subprocesses that have not been deleted, and a process is    *)
(* reported finished just when its last part is.                           *)
(***************************************************************************)

\* The parts of different processes differ.
LEMMA OwnParts ==
  ASSUME NEW pid, NEW p \in Parts(pid)
  PROVE  PidOf(p) = pid
BY DEF Parts, PidOf

\* A parallelisable process has NumSubs parts.
LEMMA PartsFinite ==
  ASSUME MultiInv, NEW pid \in Pid
  PROVE  /\ IsFiniteSet(Parts(pid))
         /\ IsParallel(pid) => Cardinality(Parts(pid)) = NumSubs(pid)
<1> DEFINE k == NumSubs(pid)  f == [n \in 1 .. k |-> <<pid, n - 1>>]
<1>1. k \in Nat \ {0}
  BY PartFacts, MultiFacts
<1>2. CASE IsParallel(pid)
  <2> HIDE DEF k
  <2>1. Parts(pid) = {pid} \X (0 .. k - 1)
    BY <1>2 DEF Parts, k
  <2>2. f \in [1 .. k -> Parts(pid)]
    BY <1>1, <2>1
  <2>3. \A m, n \in 1 .. k : f[m] = f[n] => m = n
    BY <1>1
  <2>4. \A p \in Parts(pid) : \E n \in 1 .. k : f[n] = p
    <3> TAKE p \in Parts(pid)
    <3>1. PICK n \in 0 .. k - 1 : p = <<pid, n>>
      BY <2>1
    <3>2. n + 1 \in 1 .. k /\ (n + 1) - 1 = n
      BY <1>1, <3>1
    <3> QED BY <3>1, <3>2
  <2>5. f \in Bijection(1 .. k, Parts(pid))
    <3> HIDE DEF f
    <3> QED BY <2>2, <2>3, <2>4 DEF Bijection, Injection, IsInjective, Surjection
  <2>6. ExistsBijection(1 .. k, Parts(pid))
    BY <2>5 DEF ExistsBijection
  <2>7. IsFiniteSet(1 .. k) /\ Cardinality(1 .. k) = k
    BY <1>1, UpTo
  <2> QED BY <2>6, <2>7, FS_Bijection DEF k
<1>3. CASE ~IsParallel(pid)
  BY <1>3, FS_Singleton DEF Parts
<1> QED BY <1>2, <1>3

\* The sets defined from the list and the file.
LEMMA SameWaiting ==
  ASSUME UNCHANGED <<nodeOf, inputList>>
  PROVE  /\ Pid' = Pid /\ Waiting' = Waiting /\ Arrived' = Arrived /\ AllParts' = AllParts
         /\ HeadPid' = HeadPid /\ GetFromInputList' = GetFromInputList
         /\ \A pid : /\ Parts(pid)' = Parts(pid) /\ NumSubs(pid)' = NumSubs(pid)
                     /\ IsParallel(pid)' <=> IsParallel(pid)
BY DEF Pid, Waiting, Arrived, AllParts, Parts, NumSubs, IsParallel, HeadPid, GetFromInputList

\* A process that waits and is not being placed has no parts yet.
LEMMA WaitingUnborn ==
  ASSUME MultiCountInv, ~IsPlacing, NEW pid \in Waiting, NEW p \in Parts(pid)
  PROVE  p \notin live
<1>1. PICK n \in 1 .. Len(inputList) : inputList[n] = nodeOf[pid]
  BY DEF Waiting
<1>2. inputList[n].pid = pid
  BY <1>1 DEF MultiCountInv, FirstInv, Waiting
<1>3. pid \notin DOMAIN parallelProcTable
  BY DEF MultiCountInv, BornInv, Arrived
<1> QED BY <1>2, <1>3 DEF MultiCountInv, MultiInv, PartInv, IsPlacing, Unborn

-----------------------------------------------------------------------------
(***************************************************************************)
(* What steps that leave something alone preserve.                         *)
(***************************************************************************)
LEMMA KeepFirst ==
  ASSUME FirstInv, UNCHANGED <<nodeOf, inputList>>, IsPlacing' => IsPlacing
  PROVE  FirstInv'
BY SameWaiting DEF FirstInv

LEMMA KeepBorn ==
  ASSUME BornInv, UNCHANGED <<nodeOf, inputList, parallelProcTable, live>>,
         \/ UNCHANGED <<pc, subProcNo>>
         \/ ~IsPlacing /\ ~IsPlacing'
  PROVE  BornInv'
BY SameWaiting DEF BornInv, IsPlacing

LEMMA KeepCount ==
  ASSUME CountInv, UNCHANGED <<nodeOf, inputList, parallelProcTable, finishedAt, live, popped>>,
         pc' \in {"check", "free"} => globalTimer' > 0
  PROVE  CountInv'
BY SameWaiting DEF CountInv, Running

\* A step outside the placement that changes neither parts nor reports.
LEMMA QuietCount ==
  ASSUME MultiCountInv, MultiInv',
         UNCHANGED <<nodeOf, inputList, parallelProcTable, finishedAt, live, popped>>,
         \/ UNCHANGED <<pc, subProcNo>>
         \/ ~IsPlacing /\ ~IsPlacing',
         pc' \in {"check", "free"} => globalTimer' > 0
  PROVE  MultiCountInv'
<1>1. IsPlacing' => IsPlacing
  BY DEF IsPlacing
<1> QED BY <1>1, KeepFirst, KeepBorn, KeepCount DEF MultiCountInv

-----------------------------------------------------------------------------
\* Before the first arrival every process waits.
LEMMA InitMultiCount ==
  ASSUME Init
  PROVE  MultiCountInv
<1>1. PICK f \in Files :
        /\ InitList(f, <<"pid", "exec", "arrival">>)
        /\ nodeOf = [pid \in PidsOf(f) |-> FirstOf(f, pid)]
  BY DEF Init
<1>2. f \in Seq(Node) /\ RepeatsApart(f) /\ inputList = f
  BY <1>1, FilesAssumption DEF ListOf, InitList
<1>3. Pid = PidsOf(f)
  BY <1>1 DEF Pid
<1>4. \A n \in 1 .. Len(f) : f[n].arrival \in Nat
  <2> TAKE n \in 1 .. Len(f)
  <2>1. f[n] \in Node
    BY <1>2
  <2> QED BY <2>1 DEF Node
<1>5. ASSUME NEW pid \in Pid
      PROVE  \E n \in 1 .. Len(f) :
               /\ nodeOf[pid] = f[n] /\ f[n].pid = pid
               /\ \A m \in 1 .. Len(f) : f[m].pid = pid => f[n].arrival <= f[m].arrival
  BY <1>1, <1>2, <1>3, FirstIsNode
<1>6. Waiting = Pid
  BY <1>2, <1>5 DEF Waiting
<1>7. Arrived = {}
  BY <1>6 DEF Arrived
<1>8. pc = "sort" /\ live = {} /\ DOMAIN parallelProcTable = {} /\ finishedAt = [pid \in Pid |-> 0]
  BY DEF Init
<1>9. FirstInv
  <2>1. ASSUME NEW n \in 1 .. Len(f), NEW node, node = nodeOf[f[n].pid]
        PROVE  f[n] = node \/ (node.parallel = 1 /\ node.arrival < f[n].arrival)
    <3>1. f[n].pid \in Pid
      BY <1>3 DEF PidsOf
    <3>2. PICK k \in 1 .. Len(f) :
            /\ node = f[k] /\ f[k].pid = f[n].pid
            /\ \A m \in 1 .. Len(f) : f[m].pid = f[n].pid => f[k].arrival <= f[m].arrival
      BY <1>5, <2>1, <3>1
    <3>3. k # n => f[k].parallel = 1 /\ f[k].arrival # f[n].arrival
      BY <1>2, <3>2 DEF RepeatsApart
    <3> QED BY <1>4, <3>2, <3>3
  <2>2. \A pid \in Pid : nodeOf[pid].pid = pid
    BY <1>5
  <2> QED BY <1>2, <1>8, <2>1, <2>2 DEF FirstInv, RepeatsApart, IsPlacing
<1>10. BornInv /\ CountInv
  BY <1>6, <1>7, <1>8 DEF BornInv, CountInv, IsPlacing
<1> QED BY <1>9, <1>10, InitMultiInv DEF MultiCountInv

\* The same processes wait after a step of the sorts.
LEMMA SortWaiting ==
  ASSUME MultiInv, Sort
  PROVE  Waiting' = Waiting
<1>1. NodesOf(inputList') = NodesOf(inputList) /\ UNCHANGED nodeOf
  BY SortPassInv, EndSortInv DEF Sort, SortStep, MultiInv, multiVars, tableVars
<1>2. Waiting = {pid \in Pid : nodeOf[pid] \in NodesOf(inputList)}
  BY DEF Waiting, NodesOf
<1>3. Waiting' = {pid \in Pid' : nodeOf'[pid] \in NodesOf(inputList')}
  BY DEF Waiting, NodesOf
<1> QED BY <1>1, <1>2, <1>3 DEF Pid

\* The sorts change the order of the list only.
LEMMA SortMultiCount ==
  ASSUME MultiCountInv, Sort
  PROVE  MultiCountInv'
<1>1. Reordered(inputList', inputList) /\ NodesOf(inputList') = NodesOf(inputList)
  BY SortPassInv, EndSortInv DEF Sort, SortStep, MultiCountInv, MultiInv
<1>2. pc = "sort" /\ UNCHANGED <<pc, nodeOf, parallelProcTable, finishedAt, live, popped>>
  BY DEF Sort, multiVars, queueVars, callVars, tableVars, outputVars
<1>3. PICK place \in [1 .. Len(inputList) -> 1 .. Len(inputList)] :
        /\ \A j, k \in 1 .. Len(inputList) : place[j] = place[k] => j = k
        /\ \A k \in 1 .. Len(inputList) : inputList'[k] = inputList[place[k]]
  BY <1>1 DEF Reordered
<1>4. Len(inputList') = Len(inputList)
  BY <1>1 DEF Reordered
<1>5. Waiting' = Waiting
  BY SortWaiting DEF MultiCountInv
<1>6. /\ Arrived' = Arrived /\ AllParts' = AllParts
      /\ \A pid : Parts(pid)' = Parts(pid) /\ (IsParallel(pid)' <=> IsParallel(pid))
  BY <1>2, <1>5 DEF Arrived, Pid, AllParts, Parts, NumSubs, IsParallel
<1>7. FirstInv'
  <2>1. \A m, n \in 1 .. Len(inputList') :
          inputList'[m].pid = inputList'[n].pid /\ m # n => inputList'[m].arrival # inputList'[n].arrival
    BY <1>3, <1>4, SMTT(30) DEF MultiCountInv, FirstInv
  <2>2. ASSUME NEW n \in 1 .. Len(inputList'), NEW node, node = nodeOf[inputList'[n].pid]
        PROVE  inputList'[n] = node \/ (node.parallel = 1 /\ node.arrival < inputList'[n].arrival)
    BY <1>3, <1>4, <2>2 DEF MultiCountInv, FirstInv
  <2>3. \A pid \in Pid' : nodeOf'[pid].pid = pid
    BY <1>2 DEF MultiCountInv, FirstInv, Pid
  <2> QED BY <1>2, <2>1, <2>2, <2>3 DEF FirstInv, IsPlacing
<1>8. BornInv'
  BY <1>2, <1>6 DEF MultiCountInv, BornInv, IsPlacing
<1>9. CountInv'
  BY <1>2, <1>5, <1>6 DEF MultiCountInv, CountInv, Running
<1> QED BY <1>7, <1>8, <1>9, SortMultiInv DEF MultiCountInv

\* The process that is due is the first of its id to arrive: its subprocesses
\* enter the table.
LEMMA ArriveMultiCount ==
  ASSUME MultiCountInv, Arrive
  PROVE  MultiCountInv'
<1>1. /\ pc = "arrive" /\ Due /\ ~IsRepeated /\ pc' = "place" /\ subProcNo' = 0
      /\ parallelProcTable' =
           IF IsParallel(HeadPid)
           THEN [pid \in DOMAIN parallelProcTable \cup {HeadPid} |->
                   IF pid = HeadPid THEN NumSubs(pid) ELSE parallelProcTable[pid]]
           ELSE parallelProcTable
      /\ UNCHANGED <<nodeOf, inputList, live, popped, finishedAt>>
  BY DEF Arrive, RemainNumSubs, queueVars, callVars, listVars, outputVars
<1>2. /\ inputList # <<>> /\ 1 \in 1 .. Len(inputList) /\ GetFromInputList = inputList[1]
      /\ HeadPid = inputList[1].pid /\ HeadPid \in Pid
  BY <1>1, HeadFacts DEF MultiCountInv, Due
<1>3. ~IsPlacing /\ IsPlacing'
  BY <1>1 DEF IsPlacing
<1>4. inputList[1] = nodeOf[HeadPid]
  <2>1. ASSUME IsParallel(HeadPid), nodeOf[HeadPid].arrival < inputList[1].arrival PROVE FALSE
    <3>1. HeadPid \notin DOMAIN parallelProcTable
      BY <1>1, <2>1 DEF IsRepeated
    <3>2. HeadPid \in Waiting
      BY <1>2, <2>1, <3>1 DEF MultiCountInv, BornInv, Arrived
    <3>3. PICK n \in 1 .. Len(inputList) : inputList[n] = nodeOf[HeadPid]
      BY <3>2 DEF Waiting
    <3>4. sorts = <<>> /\ Sorted /\ inputList \in Seq(Node)
      BY <1>1 DEF MultiCountInv, MultiInv, PlaceInv, ListInv
    <3>5. inputList[1].arrival <= inputList[n].arrival /\ inputList[1] \in Node /\ inputList[n] \in Node
      BY <1>2, <3>4 DEF Sorted
    <3> QED BY <2>1, <3>3, <3>5 DEF Node
  <2> QED BY <1>2, <2>1 DEF MultiCountInv, FirstInv, IsParallel
<1>5. FirstInv'
  BY <1>1, <1>2, <1>4, SameWaiting DEF MultiCountInv, FirstInv
<1>6. HeadPid \in Waiting /\ HeadPid \notin Arrived
  BY <1>2, <1>4 DEF Waiting, Arrived
<1>7. BornInv'
  <2>1. HeadPid' = HeadPid /\ Arrived' = Arrived /\ AllParts' = AllParts /\ Parts(HeadPid)' = Parts(HeadPid)
        /\ NumSubs(HeadPid)' = NumSubs(HeadPid)
        /\ \A pid : IsParallel(pid)' <=> IsParallel(pid)
    BY <1>1, SameWaiting
  <2>2. \A p \in Parts(HeadPid) : ~(p[2] < 0)
    BY <1>2, PartFacts DEF MultiCountInv
  <2>3. IsParallel(HeadPid) => HeadPid \in DOMAIN parallelProcTable'
                               /\ parallelProcTable'[HeadPid] = NumSubs(HeadPid)
    BY <1>1
  <2>4. /\ DOMAIN parallelProcTable \subseteq DOMAIN parallelProcTable'
        /\ DOMAIN parallelProcTable' \subseteq DOMAIN parallelProcTable \cup {HeadPid}
    BY <1>1
  <2>5. DOMAIN parallelProcTable \subseteq Arrived /\ live \subseteq AllParts
        /\ {pid \in Arrived : IsParallel(pid)} \subseteq DOMAIN parallelProcTable
    BY <1>3 DEF MultiCountInv, BornInv
  <2> QED BY <1>1, <1>3, <2>1, <2>2, <2>3, <2>4, <2>5 DEF BornInv
<1>8. CountInv'
  <2>1. \A pid \in Arrived : IsParallel(pid) =>
          pid \in DOMAIN parallelProcTable /\ parallelProcTable'[pid] = parallelProcTable[pid]
    BY <1>1, <1>6 DEF MultiCountInv, BornInv
  <2>2. Arrived' = Arrived /\ Waiting' = Waiting
        /\ \A pid : /\ (IsParallel(pid)' <=> IsParallel(pid))
                    /\ Running(pid)' = Running(pid)
    BY <1>1, SameWaiting DEF Running
  <2> QED BY <1>1, <2>1, <2>2 DEF MultiCountInv, CountInv
<1> QED BY <1>5, <1>7, <1>8, ArriveMultiInv DEF MultiCountInv

\* One more part exists, of the process being placed.
LEMMA PlaceMultiCount ==
  ASSUME MultiCountInv, Place
  PROVE  MultiCountInv'
<1> DEFINE q == <<HeadPid, subProcNo>>
<1>1. /\ pc = "place" /\ pc' = "placed" /\ q \in Parts(HeadPid) /\ live' = live \cup {q}
      /\ UNCHANGED <<nodeOf, inputList, parallelProcTable, finishedAt, subProcNo>>
  BY DEF Place, listVars, tableVars, outputVars
<1>2. popped = NULL /\ HeadPid \in Pid /\ popped' = popped
  <2>1. popped = NULL /\ HeadPid \in Pid
    BY <1>1, PartToPlace DEF MultiCountInv
  <2> QED BY <2>1 DEF Place, InsertPQ, RefuseInsert, StartInsert, callVars
<1>3. IsPlacing /\ IsPlacing'
  BY <1>1 DEF IsPlacing
<1>4. FirstInv'
  BY <1>1, <1>3, KeepFirst DEF MultiCountInv
<1>5. /\ HeadPid' = HeadPid /\ Arrived' = Arrived /\ Waiting' = Waiting /\ AllParts' = AllParts
      /\ \A pid : /\ Parts(pid)' = Parts(pid) /\ NumSubs(pid)' = NumSubs(pid)
                  /\ IsParallel(pid)' <=> IsParallel(pid)
  BY <1>1, SameWaiting
<1>6. HeadPid \notin Arrived
  <2>1. inputList # <<>>
    BY <1>1 DEF MultiCountInv, MultiInv, PlaceInv
  <2>2. 1 \in 1 .. Len(inputList) /\ GetFromInputList = inputList[1]
    BY <2>1, HeadFacts DEF MultiCountInv
  <2>3. GetFromInputList = nodeOf[HeadPid]
    BY <1>3 DEF MultiCountInv, FirstInv
  <2> QED BY <1>2, <2>2, <2>3 DEF Arrived, Waiting
<1>7. BornInv'
  <2>1. q \in AllParts
    BY <1>1, <1>2 DEF AllParts
  <2>2. \A p \in Parts(HeadPid) : p[2] = subProcNo => p = q
    BY <1>2, PartFacts DEF MultiCountInv
  <2>3. \A p \in Parts(HeadPid) : p[2] < subProcNo \/ p[2] = subProcNo => p \in live'
    <3> TAKE p \in Parts(HeadPid)
    <3>1. p[2] < subProcNo => p \in live
      BY <1>1, <1>3 DEF MultiCountInv, BornInv
    <3>2. p[2] = subProcNo => p = q
      BY <2>2
    <3> HIDE DEF q
    <3> QED BY <1>1, <3>1, <3>2
  <2>4. /\ live \subseteq AllParts
        /\ {pid \in Arrived : IsParallel(pid)} \subseteq DOMAIN parallelProcTable
        /\ DOMAIN parallelProcTable \subseteq Arrived \cup {HeadPid}
        /\ IsParallel(HeadPid) => parallelProcTable[HeadPid] = NumSubs(HeadPid)
    BY <1>3 DEF MultiCountInv, BornInv
  <2> HIDE DEF q
  <2> QED BY <1>1, <1>3, <1>5, <2>1, <2>3, <2>4 DEF BornInv
<1>8. CountInv'
  <2>1. \A pid \in Arrived : q \notin Parts(pid)
    BY <1>1, <1>6, OwnParts
  <2> HIDE DEF q
  <2>2. \A pid \in Arrived : Running(pid)' = Running(pid)
    BY <1>1, <1>5, <2>1 DEF Running
  <2> QED BY <1>1, <1>2, <1>5, <2>2 DEF MultiCountInv, CountInv
<1> QED BY <1>4, <1>7, <1>8, PlaceMultiInv DEF MultiCountInv

\* The pointer is set again, and the next part comes.
LEMMA PickMinMultiCount ==
  ASSUME MultiCountInv, PickMin
  PROVE  MultiCountInv'
<1>1. /\ pc = "placed" /\ pc' = "place" /\ subProcNo' = subProcNo + 1
      /\ UNCHANGED <<nodeOf, inputList, parallelProcTable, finishedAt, live, popped>>
  BY DEF PickMin, queueVars, callVars, listVars, tableVars, outputVars
<1>2. IsPlacing /\ IsPlacing' /\ HeadPid \in Pid /\ subProcNo \in Nat
  <2>1. HeadPid \in Pid
    BY <1>1, HeadFacts DEF MultiCountInv, MultiInv, PlaceInv
  <2> QED BY <1>1, <2>1, MultiFacts DEF IsPlacing, MultiCountInv, MultiInv, MultiTypeOK
<1>3. BornInv'
  <2>1. \A p \in Parts(HeadPid) : p[2] < subProcNo + 1 => p[2] < subProcNo \/ p[2] = subProcNo
    BY <1>2, PartFacts DEF MultiCountInv
  <2>2. \A p \in Parts(HeadPid) : p[2] < subProcNo' => p \in live
    BY <1>1, <1>2, <2>1 DEF MultiCountInv, BornInv
  <2> QED BY <1>1, <1>2, <2>2, SameWaiting DEF MultiCountInv, BornInv
<1>4. FirstInv' /\ CountInv'
  BY <1>1, <1>2, KeepFirst, KeepCount DEF MultiCountInv
<1> QED BY <1>3, <1>4, PickMinMultiInv DEF MultiCountInv

\* All parts of the process whose node leaves the list exist; it has arrived.
LEMMA PlacedArrives ==
  ASSUME MultiCountInv, Placed
  PROVE  /\ Waiting' = Waiting \ {HeadPid} /\ HeadPid \in Waiting
         /\ Arrived' = Arrived \cup {HeadPid} /\ AllParts' = AllParts
         /\ \A pid : /\ Parts(pid)' = Parts(pid) /\ Running(pid)' = Running(pid)
                     /\ IsParallel(pid)' <=> IsParallel(pid)
         /\ Parts(HeadPid) \subseteq live /\ Parts(HeadPid) # {}
<1>1. /\ pc = "place" /\ pc' \in {"run", "arrive"} /\ UpdateInputList
      /\ <<HeadPid, subProcNo>> \notin Parts(HeadPid)
      /\ UNCHANGED <<nodeOf, parallelProcTable, finishedAt, live, popped, subProcNo>>
  BY DEF Placed, queueVars, callVars, tableVars, outputVars, placeVars
<1>2. /\ inputList # <<>> /\ 1 \in 1 .. Len(inputList) /\ GetFromInputList = inputList[1]
      /\ HeadPid = inputList[1].pid /\ HeadPid \in Pid
  BY <1>1, HeadFacts DEF MultiCountInv, MultiInv, PlaceInv
<1>3. IsPlacing /\ ~IsPlacing' /\ inputList[1] = nodeOf[HeadPid] /\ popped = NULL
  BY <1>1, <1>2 DEF IsPlacing, MultiCountInv, FirstInv, MultiInv, PointerInv
<1>4. /\ Len(inputList') = Len(inputList) - 1
      /\ \A n \in 1 .. Len(inputList') :
           inputList'[n] = inputList[n + 1] /\ n + 1 \in 1 .. Len(inputList) /\ n + 1 # 1
      /\ \A n \in 1 .. Len(inputList) : n # 1 => n - 1 \in 1 .. Len(inputList') /\ (n - 1) + 1 = n
  <2>1. inputList \in Seq(Node)
    BY MultiFacts DEF MultiCountInv
  <2> QED BY <1>1, <1>2, <2>1 DEF UpdateInputList
<1>5. Waiting' = Waiting \ {HeadPid}
  <2>1. ASSUME NEW pid \in Pid, NEW n \in 1 .. Len(inputList'), inputList'[n] = nodeOf[pid]
        PROVE  pid \in Waiting \ {HeadPid}
    <3>1. inputList[n + 1] = nodeOf[pid] /\ inputList[n + 1].pid = pid /\ n + 1 \in 1 .. Len(inputList)
      BY <1>4, <2>1 DEF MultiCountInv, FirstInv
    <3>2. ASSUME pid = HeadPid PROVE FALSE
      <4>1. n + 1 # 1 /\ inputList[1] = inputList[n + 1]
        BY <1>3, <1>4, <2>1, <3>1, <3>2
      <4> QED BY <1>2, <3>1, <4>1 DEF MultiCountInv, FirstInv
    <3> QED BY <3>1, <3>2 DEF Waiting
  <2>2. ASSUME NEW pid \in Waiting, pid # HeadPid
        PROVE  \E n \in 1 .. Len(inputList') : inputList'[n] = nodeOf[pid]
    <3>1. PICK n \in 1 .. Len(inputList) : inputList[n] = nodeOf[pid]
      BY DEF Waiting
    <3>2. inputList[n].pid = pid
      BY <3>1 DEF Waiting, MultiCountInv, FirstInv
    <3>3. n # 1
      BY <1>2, <2>2, <3>2
    <3>4. n - 1 \in 1 .. Len(inputList') /\ inputList'[n - 1] = inputList[n]
      BY <1>4, <3>3
    <3> QED BY <3>1, <3>4
  <2>3. Pid' = Pid /\ nodeOf' = nodeOf
    BY <1>1 DEF Pid
  <2> QED BY <2>1, <2>2, <2>3 DEF Waiting
<1>6. /\ Arrived' = Arrived \cup {HeadPid} /\ AllParts' = AllParts /\ HeadPid \in Waiting
      /\ \A pid : /\ Parts(pid)' = Parts(pid) /\ Running(pid)' = Running(pid)
                  /\ IsParallel(pid)' <=> IsParallel(pid)
  <2>1. Pid' = Pid /\ HeadPid \in Waiting
    BY <1>1, <1>2, <1>3 DEF Pid, Waiting
  <2>2. Arrived' = Arrived \cup {HeadPid}
    BY <1>2, <1>5, <2>1 DEF Arrived
  <2>3. \A pid : /\ Parts(pid)' = Parts(pid) /\ Running(pid)' = Running(pid)
                 /\ IsParallel(pid)' <=> IsParallel(pid)
    BY <1>1, SameParts DEF Running
  <2> QED BY <2>1, <2>2, <2>3 DEF AllParts
<1>7. Parts(HeadPid) \subseteq live /\ Parts(HeadPid) # {}
  <2>1. NumSubs(HeadPid) \in 1 .. numCPU /\ numCPU \in Nat /\ subProcNo \in Nat
    BY <1>2, PartFacts, MultiFacts DEF MultiCountInv, MultiInv, MultiTypeOK
  <2>2. <<HeadPid, 0>> \in Parts(HeadPid)
    BY <2>1 DEF Parts
  <2>3. ASSUME NEW p \in Parts(HeadPid) PROVE p[2] < subProcNo
    BY <1>1, <2>1 DEF Parts
  <2> QED BY <1>3, <2>2, <2>3 DEF MultiCountInv, BornInv
<1> QED BY <1>5, <1>6, <1>7

\* The node of a process that has all its parts leaves the list: it has arrived.
LEMMA PlacedMultiCount ==
  ASSUME MultiCountInv, Placed
  PROVE  MultiCountInv'
<1>1. /\ pc = "place" /\ pc' \in {"run", "arrive"} /\ UpdateInputList
      /\ <<HeadPid, subProcNo>> \notin Parts(HeadPid)
      /\ UNCHANGED <<nodeOf, parallelProcTable, finishedAt, live, popped, subProcNo>>
  BY DEF Placed, queueVars, callVars, tableVars, outputVars, placeVars
<1>2. /\ inputList # <<>> /\ 1 \in 1 .. Len(inputList) /\ GetFromInputList = inputList[1]
      /\ HeadPid = inputList[1].pid /\ HeadPid \in Pid
  BY <1>1, HeadFacts DEF MultiCountInv, MultiInv, PlaceInv
<1>3. IsPlacing /\ ~IsPlacing' /\ inputList[1] = nodeOf[HeadPid] /\ popped = NULL
  BY <1>1, <1>2 DEF IsPlacing, MultiCountInv, FirstInv, MultiInv, PointerInv
<1>4. /\ Len(inputList') = Len(inputList) - 1
      /\ \A n \in 1 .. Len(inputList') :
           inputList'[n] = inputList[n + 1] /\ n + 1 \in 1 .. Len(inputList) /\ n + 1 # 1
      /\ \A n \in 1 .. Len(inputList) : n # 1 => n - 1 \in 1 .. Len(inputList') /\ (n - 1) + 1 = n
  <2>1. inputList \in Seq(Node)
    BY MultiFacts DEF MultiCountInv
  <2> QED BY <1>1, <1>2, <2>1 DEF UpdateInputList
<1>5. FirstInv'
  <2>1. \A m, n \in 1 .. Len(inputList') :
          inputList'[m].pid = inputList'[n].pid /\ m # n => inputList'[m].arrival # inputList'[n].arrival
    <3> TAKE m, n \in 1 .. Len(inputList')
    <3>1. m # n => m + 1 # n + 1
      OBVIOUS
    <3> QED BY <1>4, <3>1 DEF MultiCountInv, FirstInv
  <2>2. ASSUME NEW n \in 1 .. Len(inputList'), NEW node, node = nodeOf[inputList'[n].pid]
        PROVE  inputList'[n] = node \/ (node.parallel = 1 /\ node.arrival < inputList'[n].arrival)
    BY <1>4, <2>2 DEF MultiCountInv, FirstInv
  <2>3. \A pid \in Pid' : nodeOf'[pid].pid = pid
    BY <1>1 DEF MultiCountInv, FirstInv, Pid
  <2> QED BY <1>1, <1>3, <2>1, <2>2, <2>3 DEF FirstInv
<1>6. Waiting' = Waiting \ {HeadPid}
  BY PlacedArrives
<1>7. /\ Arrived' = Arrived \cup {HeadPid} /\ AllParts' = AllParts /\ HeadPid \in Waiting
      /\ \A pid : /\ Parts(pid)' = Parts(pid) /\ Running(pid)' = Running(pid)
                  /\ IsParallel(pid)' <=> IsParallel(pid)
  BY PlacedArrives
<1>8. BornInv'
  <2>1. IsParallel(HeadPid) => HeadPid \in DOMAIN parallelProcTable
    BY <1>1, <1>2 DEF MultiCountInv, MultiInv, PartInv
  <2> QED BY <1>1, <1>3, <1>7, <2>1 DEF MultiCountInv, BornInv
<1>9. Parts(HeadPid) \subseteq live /\ Parts(HeadPid) # {}
  BY PlacedArrives
<1>10. CountInv'
  <2>1. Running(HeadPid) \ {popped} = Parts(HeadPid)
    <3>1. NULL \notin Parts(HeadPid)
      BY <1>2, PartFacts, MultiFacts DEF MultiCountInv
    <3> QED BY <1>3, <1>9, <3>1 DEF Running
  <2>2. IsParallel(HeadPid) => parallelProcTable[HeadPid] = Cardinality(Parts(HeadPid))
    BY <1>2, <1>3, PartsFinite DEF MultiCountInv, BornInv
  <2>3. finishedAt[HeadPid] = 0
    BY <1>7 DEF MultiCountInv, CountInv
  <2>4. ASSUME NEW pid \in Arrived', NEW left, left = Running(pid) \ {popped}
        PROVE  /\ IsParallel(pid) /\ left # {} => parallelProcTable[pid] = Cardinality(left)
               /\ finishedAt[pid] > 0 <=> left = {}
    <3>1. CASE pid \in Arrived
      BY <2>4, <3>1 DEF MultiCountInv, CountInv
    <3>2. CASE pid = HeadPid
      BY <1>9, <2>1, <2>2, <2>3, <2>4, <3>2
    <3> QED BY <1>7, <3>1, <3>2
  <2> QED BY <1>1, <1>6, <1>7, <2>4 DEF MultiCountInv, CountInv
<1> QED BY <1>5, <1>8, <1>10, PlacedMultiInv DEF MultiCountInv

\* The process that is deleted counts as gone: if it is the last part of its
\* process, and only then, the process is reported.
LEMMA FinishMultiCount ==
  ASSUME MultiCountInv, Finish
  PROVE  MultiCountInv'
<1> DEFINE q == minPtr[i]  owner == PidOf(q)
<1>1. /\ pc = "check" /\ pc' = "free" /\ q \in live /\ i < numCPU /\ ~Rests(i) /\ DeleteMin(i)
      /\ UNCHANGED <<nodeOf, inputList, live, subProcNo, globalTimer>>
      /\ \/ /\ OthersRemain(owner) /\ finishedAt' = finishedAt
            /\ parallelProcTable' = [parallelProcTable EXCEPT ![owner] = @ - 1]
         \/ /\ ~OthersRemain(owner) /\ parallelProcTable' = parallelProcTable
            /\ finishedAt' = [finishedAt EXCEPT ![owner] = globalTimer]
  BY DEF Finish, listVars, placeVars, outputVars, Report
<1>2. popped = NULL /\ popped' = q /\ globalTimer > 0 /\ ~IsPlacing /\ ~IsPlacing'
  BY <1>1, RestsFacts DEF MultiCountInv, CountInv, DeleteMin, IsPlacing
<1>3. owner \in Pid /\ q \in Parts(owner)
  <2>1. PICK pid \in Pid : q \in Parts(pid)
    BY <1>1 DEF MultiCountInv, BornInv, AllParts
  <2> QED BY <2>1, OwnParts
<1>4. owner \in Arrived
  BY <1>1, <1>2, <1>3, WaitingUnborn DEF Arrived
<1> DEFINE old == Running(owner) \ {popped}
<1>5. q \in old /\ IsFiniteSet(old)
  <2>1. q # NULL
    BY <1>3, PartFacts, MultiFacts DEF MultiCountInv
  <2>2. IsFiniteSet(Parts(owner)) /\ old \in SUBSET Parts(owner)
    BY <1>3, PartsFinite DEF MultiCountInv, Running
  <2>3. IsFiniteSet(old)
    <3> HIDE DEF old, owner
    <3> QED BY <2>2, FS_Subset
  <2> QED BY <1>1, <1>2, <1>3, <2>1, <2>3 DEF Running
<1>6. /\ Cardinality(old) \in Nat \ {0} /\ Cardinality(old \ {q}) = Cardinality(old) - 1
      /\ Cardinality(old) = 1 => old \ {q} = {}
      /\ Cardinality(old) # 1 => old \ {q} # {}
  <2> HIDE DEF old, q
  <2>1. Cardinality(old) \in Nat /\ (Cardinality(old) = 0 <=> old = {})
    BY <1>5, FS_CardinalityType, FS_EmptySet
  <2>2. Cardinality(old \ {q}) = Cardinality(old) - 1 /\ IsFiniteSet(old \ {q})
    BY <1>5, FS_RemoveElement
  <2>3. Cardinality(old \ {q}) = 0 <=> old \ {q} = {}
    BY <2>2, FS_EmptySet
  <2> QED BY <1>5, <2>1, <2>2, <2>3
<1>7. IsParallel(owner) => owner \in DOMAIN parallelProcTable /\ parallelProcTable[owner] = Cardinality(old)
  BY <1>4, <1>5 DEF MultiCountInv, BornInv, CountInv
<1>8. ~IsParallel(owner) => old = {q}
  BY <1>3, <1>5 DEF Parts, Running
<1>9. /\ Pid' = Pid /\ Waiting' = Waiting /\ Arrived' = Arrived /\ AllParts' = AllParts
      /\ \A pid : /\ Parts(pid)' = Parts(pid) /\ (IsParallel(pid)' <=> IsParallel(pid))
                  /\ Running(pid)' = Running(pid)
  BY <1>1, SameWaiting DEF Running
<1>10. /\ finishedAt \in [Pid -> Nat] /\ globalTimer \in Nat
       /\ \A pid \in DOMAIN parallelProcTable : pid # owner => parallelProcTable'[pid] = parallelProcTable[pid]
       /\ \A pid \in Pid : pid # owner => finishedAt'[pid] = finishedAt[pid]
       /\ DOMAIN parallelProcTable' = DOMAIN parallelProcTable
  <2>1. finishedAt \in [Pid -> Nat] /\ globalTimer \in Nat
    BY DEF MultiCountInv, MultiInv, MultiTypeOK
  <2> QED BY <1>1, <2>1
<1>11. /\ IsParallel(owner) /\ old \ {q} # {} => parallelProcTable'[owner] = Cardinality(old \ {q})
       /\ finishedAt'[owner] > 0 <=> old \ {q} = {}
  <2>1. finishedAt[owner] = 0
    <3>1. ~(finishedAt[owner] > 0) /\ finishedAt[owner] \in Nat
      BY <1>3, <1>4, <1>5, <1>10 DEF MultiCountInv, CountInv
    <3> QED BY <3>1
  <2>2. CASE OthersRemain(owner)
    <3>1. /\ parallelProcTable' = [parallelProcTable EXCEPT ![owner] = @ - 1] /\ finishedAt' = finishedAt
          /\ IsParallel(owner) /\ parallelProcTable[owner] > 1
      BY <1>1, <2>2 DEF OthersRemain
    <3> HIDE DEF old, q, owner
    <3> QED BY <1>6, <1>7, <2>1, <3>1
  <2>3. CASE ~OthersRemain(owner)
    <3>1. /\ finishedAt' = [finishedAt EXCEPT ![owner] = globalTimer]
          /\ IsParallel(owner) => ~(parallelProcTable[owner] > 1)
      BY <1>1, <2>3 DEF OthersRemain
    <3>2. finishedAt'[owner] > 0
      BY <1>2, <1>3, <1>10, <3>1
    <3>3. old \ {q} = {}
      <4> HIDE DEF old, q, owner
      <4> QED BY <1>6, <1>7, <1>8, <3>1
    <3> QED BY <3>2, <3>3
  <2> QED BY <2>2, <2>3
<1>12. FirstInv' /\ BornInv'
  <2>1. FirstInv'
    BY <1>1, <1>2, KeepFirst DEF MultiCountInv
  <2> QED BY <1>1, <1>2, <1>9, <1>10, <2>1 DEF MultiCountInv, BornInv
<1>13. CountInv'
  <2>1. \A pid \in Waiting : finishedAt'[pid] = 0
    <3>1. \A pid \in Waiting : pid \in Pid /\ pid # owner
      BY <1>4 DEF Arrived, Waiting
    <3> QED BY <1>10, <3>1 DEF MultiCountInv, CountInv
  <2>2. ASSUME NEW pid \in Arrived, NEW left, left = Running(pid) \ {q}
        PROVE  /\ IsParallel(pid) /\ left # {} => parallelProcTable'[pid] = Cardinality(left)
               /\ finishedAt'[pid] > 0 <=> left = {}
    <3>1. CASE pid = owner
      <4>1. left = old \ {q}
        BY <1>2, <1>5, <2>2, <3>1, PartFacts, MultiFacts DEF MultiCountInv, Running
      <4> QED BY <1>11, <3>1, <4>1
    <3>2. CASE pid # owner
      <4>1. left = Running(pid) \ {popped}
        <5>1. q \notin Parts(pid)
          BY <3>2, OwnParts
        <5>2. pid \in Pid
          BY DEF Arrived
        <5>3. NULL \notin Parts(pid)
          BY <5>2, PartFacts, MultiFacts DEF MultiCountInv
        <5> QED BY <1>2, <2>2, <5>1, <5>3 DEF Running
      <4>2. IsParallel(pid) => pid \in DOMAIN parallelProcTable
        BY DEF MultiCountInv, BornInv
      <4>3. pid \in Pid
        BY DEF Arrived
      <4> HIDE DEF q, owner
      <4> QED BY <1>10, <3>2, <4>1, <4>2, <4>3 DEF MultiCountInv, CountInv
    <3> QED BY <3>1, <3>2
  <2> HIDE DEF q, owner
  <2> QED BY <1>1, <1>2, <1>9, <2>1, <2>2 DEF CountInv
<1> QED BY <1>12, <1>13, FinishMultiInv DEF MultiCountInv

\* What was counted as gone is gone.
LEMMA FreeMultiCount ==
  ASSUME MultiCountInv, Free
  PROVE  MultiCountInv'
<1>1. /\ pc = "free" /\ pc' = "check" /\ live' = live \ {popped} /\ popped' = NULL
      /\ UNCHANGED <<nodeOf, inputList, parallelProcTable, finishedAt, subProcNo, globalTimer>>
  BY DEF Free, listVars, placeVars, tableVars, outputVars
<1>2. ~IsPlacing /\ ~IsPlacing' /\ globalTimer > 0
  BY <1>1 DEF IsPlacing, MultiCountInv, CountInv
<1>3. FirstInv'
  BY <1>1, <1>2, KeepFirst DEF MultiCountInv
<1>4. BornInv'
  BY <1>1, <1>2, SameWaiting DEF MultiCountInv, BornInv
<1>5. CountInv'
  <2>1. \A pid \in Arrived : Running(pid)' \ {NULL} = Running(pid) \ {popped}
    <3> TAKE pid \in Arrived
    <3>1. NULL \notin Parts(pid)
      BY PartFacts, MultiFacts DEF MultiCountInv, Arrived
    <3>2. Parts(pid)' = Parts(pid)
      BY <1>1, SameWaiting
    <3> QED BY <1>1, <3>1, <3>2 DEF Running
  <2> QED BY <1>1, <1>2, <2>1, SameWaiting DEF MultiCountInv, CountInv
<1> QED BY <1>3, <1>4, <1>5, FreeMultiInv DEF MultiCountInv

\* The tests of the loops, the ticks, and the iterations over the processors.
LEMMA QuietMultiCount ==
  ASSUME MultiCountInv, MultiInv', call = "none",
         \/ Begin \/ NotDue \/ EndArrivals \/ Remain
         \/ RunCpu \/ SkipCpu \/ Advance \/ CheckOn \/ EndTick
  PROVE  MultiCountInv'
<1>1. /\ UNCHANGED <<nodeOf, inputList, parallelProcTable, finishedAt, live, popped>>
      /\ ~IsPlacing /\ ~IsPlacing'
      /\ pc' \in {"check", "free"} => \/ pc = pc' /\ globalTimer' = globalTimer
                                      \/ globalTimer' = globalTimer + 1
  BY DEF Begin, NotDue, EndArrivals, Remain, RunCpu, SkipCpu, Advance, CheckOn, EndTick, IsPlacing,
         queueVars, callVars, listVars, tableVars, outputVars
<1>2. pc' \in {"check", "free"} => globalTimer' > 0
  BY <1>1, MultiFacts DEF MultiCountInv, CountInv
<1> QED BY <1>1, <1>2, QuietCount

\* The steps that leave the loops where they are.
LEMMA StayMultiCount ==
  ASSUME MultiCountInv, MultiInv',
         \/ QueueStep /\ UNCHANGED <<listVars, multiVars>>
         \/ \E c \in Cpu : UseFreed(c)
         \/ UNCHANGED vars
  PROVE  MultiCountInv'
<1>1. UNCHANGED <<pc, subProcNo, globalTimer, nodeOf, inputList, parallelProcTable, finishedAt>>
  BY DEF UseFreed, vars, listVars, multiVars, placeVars, tableVars, outputVars
<1>2. UNCHANGED <<live, popped>>
  BY DEF UseFreed, vars, QueueStep, SiftUp, SiftDown, PidSort, UndefinedIteration, queueVars, callVars
<1>3. pc' \in {"check", "free"} => globalTimer' > 0
  BY <1>1 DEF MultiCountInv, CountInv
<1> QED BY <1>1, <1>2, <1>3, QuietCount

\* Nothing is being deleted, but at one place.
LEMMA NothingPopped ==
  ASSUME MultiCountInv, pc # "free", NEW pid \in Arrived
  PROVE  Running(pid) \ {popped} = Running(pid)
<1>1. popped = NULL
  BY DEF MultiCountInv, MultiInv, PointerInv
<1>2. NULL \notin Parts(pid)
  BY PartFacts, MultiFacts DEF MultiCountInv, Arrived
<1> QED BY <1>1, <1>2 DEF Running

-----------------------------------------------------------------------------
\* The table, the reports and the parts that exist agree at every step of the
\* simulation with several processors (sim.c:409-503, 563-625, 690-757), whatever
\* their number, the input files and the ties met.
THEOREM CountInvariant == Spec => []MultiCountInv
<1>1. MultiInv /\ MultiInv' /\ MultiCountInv /\ [Next]_vars => MultiCountInv'
  <2> SUFFICES ASSUME MultiInv', MultiCountInv, [Next]_vars PROVE MultiCountInv'
    OBVIOUS
  <2>1. ASSUME call = "none", Step PROVE MultiCountInv'
    <3>1. CASE Spin \/ \E c \in Cpu : UseFreed(c)
      BY <3>1, StayMultiCount DEF Spin
    <3>2. CASE Sort \/ Arrive \/ Place \/ PickMin \/ Placed \/ Finish \/ Free
      BY <3>2, SortMultiCount, ArriveMultiCount, PlaceMultiCount, PickMinMultiCount,
         PlacedMultiCount, FinishMultiCount, FreeMultiCount
    <3>3. CASE \/ Begin \/ NotDue \/ EndArrivals \/ Remain
               \/ RunCpu \/ SkipCpu \/ Advance \/ CheckOn \/ EndTick
      BY <2>1, <3>3, QuietMultiCount
    <3> QED BY <2>1, <3>1, <3>2, <3>3 DEF Step
  <2>2. CASE QueueStep /\ UNCHANGED <<listVars, multiVars>>
    BY <2>2, StayMultiCount
  <2>3. CASE UNCHANGED vars
    BY <2>3, StayMultiCount
  <2> QED BY <2>1, <2>2, <2>3 DEF Next
<1> QED BY <1>1, InitMultiCount, MultiCpuInvariant, PTL DEF Spec

\* remainNumSubs is the number of the subprocesses of a process that have not been
\* deleted (sim.c:596-600, 721-725), so that the last of them finds it to be one.
THEOREM CountsTheSubs == Spec => []SubsAreCounted
<1>1. MultiCountInv => SubsAreCounted
  <2> SUFFICES ASSUME MultiCountInv, pc # "free", NEW pid \in Arrived,
                      IsParallel(pid), Running(pid) # {}
               PROVE  parallelProcTable[pid] = Cardinality(Running(pid))
    BY DEF SubsAreCounted
  <2>1. Running(pid) \ {popped} = Running(pid)
    BY NothingPopped
  <2> QED BY <2>1 DEF MultiCountInv, CountInv
<1> QED BY <1>1, CountInvariant, PTL

\* HandleArrivingProcOnMultiCpu and HandleRemainProcOnMultiCPU report a process
\* finished when its last part has run and been deleted, neither before nor later.
THEOREM ReportsTheLast == Spec => []FinishedWithLastPart
<1>1. MultiCountInv => FinishedWithLastPart
  <2> SUFFICES ASSUME MultiCountInv, pc # "free", NEW pid \in Arrived
               PROVE  finishedAt[pid] > 0 <=> Running(pid) = {}
    BY DEF FinishedWithLastPart
  <2>1. Running(pid) \ {popped} = Running(pid)
    BY NothingPopped
  <2> QED BY <2>1 DEF MultiCountInv, CountInv
<1> QED BY <1>1, CountInvariant, PTL

-----------------------------------------------------------------------------
(***************************************************************************)
(* The statistics.                                                         *)
(***************************************************************************)

\* A process is placed when it arrives.
LEMMA DueNext ==
  ASSUME DueInv, [Next]_vars
  PROVE  DueInv'
<1>1. CASE Arrive
  <2>1. GetFromInputList.arrival = globalTimer /\ UNCHANGED <<inputList, globalTimer>>
    BY <1>1 DEF Arrive, Due, listVars
  <2> QED BY <2>1 DEF DueInv, GetFromInputList
<1>2. CASE Place \/ PickMin \/ Spin \/ (QueueStep /\ UNCHANGED <<listVars, multiVars>>)
           \/ (\E c \in Cpu : UseFreed(c)) \/ UNCHANGED vars
  <2>1. UNCHANGED <<inputList, globalTimer>> /\ (IsPlacing' => IsPlacing)
    BY <1>2 DEF Place, PickMin, Spin, UseFreed, listVars, multiVars, vars, IsPlacing
  <2> QED BY <2>1 DEF DueInv, GetFromInputList
<1>3. CASE \/ Sort \/ Begin \/ Placed \/ NotDue \/ EndArrivals \/ Remain \/ RunCpu \/ SkipCpu \/ Advance
           \/ CheckOn \/ Finish \/ Free \/ EndTick
  <2>1. ~IsPlacing'
    BY <1>3 DEF Sort, Begin, Placed, NotDue, EndArrivals, Remain, RunCpu, SkipCpu, Advance, CheckOn,
                Finish, Free, EndTick, IsPlacing, multiVars
  <2> QED BY <2>1 DEF DueInv
<1> QED BY <1>1, <1>2, <1>3 DEF Next, Step

\* The numbers of a process.
LEMMA RunFacts ==
  ASSUME MultiInv, ReportInv
  PROVE  /\ globalTimer \in Nat /\ finishedAt \in [Pid -> Nat]
         /\ \A pid \in Pid : nodeOf[pid].arrival \in Nat /\ nodeOf[pid].exec \in Nat \ {0}
         /\ Reported \subseteq Pid /\ Arrived \subseteq Pid
         /\ \A pid \in Reported : Runs[pid] \in Fraction
<1>1. /\ globalTimer \in Nat /\ finishedAt \in [Pid -> Nat]
      /\ \A pid \in Pid : nodeOf[pid].arrival \in Nat /\ nodeOf[pid].exec \in Nat \ {0}
  BY DEF MultiInv, MultiTypeOK, Node
<1>2. ASSUME NEW pid \in Reported PROVE Runs[pid] \in Fraction
  <2>1. pid \in Pid /\ nodeOf[pid].arrival < finishedAt[pid]
    BY DEF Reported, ReportInv
  <2>2. finishedAt[pid] - nodeOf[pid].arrival \in Nat
    BY <1>1, <2>1
  <2> QED BY <1>1, <2>1, <2>2 DEF Runs, Fraction
<1> QED BY <1>1, <1>2 DEF Reported, Arrived

\* There are processes, and not more of them than lines.
LEMMA PidsFit ==
  ASSUME Init
  PROVE  IsFiniteSet(Pid) /\ Cardinality(Pid) <= Capacity /\ Pid # {}
<1>1. PICK f \in Files : nodeOf = [pid \in PidsOf(f) |-> FirstOf(f, pid)]
  BY DEF Init
<1>2. Pid = PidsOf(f) /\ Len(f) \in Nat \ {0} /\ Len(f) <= Capacity /\ Capacity \in Nat
  BY <1>1, FilesAssumption, CapacityAssumption DEF Pid, ListOf
<1> DEFINE g == [n \in 1 .. Len(f) |-> f[n].pid]
<1>3. g \in Surjection(1 .. Len(f), Pid)
  BY <1>2 DEF PidsOf, Surjection
<1>4. IsFiniteSet(1 .. Len(f)) /\ Cardinality(1 .. Len(f)) = Len(f)
  BY <1>2, UpTo
<1>5. IsFiniteSet(Pid) /\ Cardinality(Pid) <= Len(f)
  BY <1>3, <1>4, FS_Surjection
<1>6. Cardinality(Pid) \in Nat
  BY <1>5, FS_CardinalityType
<1>7. 1 \in 1 .. Len(f)
  BY <1>2
<1>8. f[1].pid \in Pid
  BY <1>2, <1>7 DEF PidsOf
<1> QED BY <1>2, <1>5, <1>6, <1>8

\* No process has arrived at first.
LEMMA NoneArrived ==
  ASSUME Init
  PROVE  Arrived = {}
<1> SUFFICES ASSUME NEW pid \in Arrived PROVE FALSE
  OBVIOUS
<1>1. finishedAt[pid] = 0 /\ Running(pid) \ {popped} = {}
  BY DEF Init, Running, Arrived
<1>2. finishedAt[pid] > 0 <=> Running(pid) \ {popped} = {}
  BY InitMultiCount DEF MultiCountInv, CountInv
<1> QED BY <1>1, <1>2

\* Before the first arrival nothing has been reported.
LEMMA InitReport ==
  ASSUME Init
  PROVE  MultiReportInv
<1>1. MultiCountInv
  BY InitMultiCount
<1>2. /\ pc = "sort" /\ globalTimer = 0 /\ live = {} /\ finishedAt = [pid \in Pid |-> 0]
      /\ stats = [totalDeltaTime |-> 0, numRunnedProcesses |-> 0,
                  maxTimeOverhead |-> <<0, 1>>, totalTimeOverhead |-> <<0, 1>>]
  BY DEF Init, InitStats
<1>3. IsFiniteSet(Pid) /\ Pid # {}
  BY PidsFit
<1>4. Reported = {} /\ Arrived = {}
  BY <1>2, NoneArrived DEF Reported
<1>5. Agrees(stats, Runs, {})
  BY <1>2, NothingAgrees
<1> QED BY <1>1, <1>2, <1>3, <1>4, <1>5 DEF MultiReportInv, DueInv, ReportInv, IsPlacing

\* Steps that report nothing and let no process arrive.
LEMMA KeepReport ==
  ASSUME ReportInv, UNCHANGED <<nodeOf, finishedAt, stats, globalTimer>>, Arrived' = Arrived,
         pc' \in {"check", "free"} => pc \in {"check", "free"},
         pc' = "done" => loop' = "remaining" /\ IsAllCpuPQEmpty'
  PROVE  ReportInv'
<1>1. Pid' = Pid /\ Reported' = Reported /\ Runs' = Runs
  BY DEF Pid, Reported, Runs
<1> QED BY <1>1 DEF ReportInv

LEMMA QuietReport ==
  ASSUME MultiReportInv,
         \/ Sort \/ Begin \/ Arrive \/ Place \/ PickMin \/ EndArrivals \/ Remain
         \/ RunCpu \/ SkipCpu \/ CheckOn \/ Free \/ EndTick
         \/ QueueStep /\ UNCHANGED <<listVars, multiVars>>
         \/ \E c \in Cpu : UseFreed(c)
         \/ UNCHANGED vars
  PROVE  ReportInv'
<1>1. /\ UNCHANGED <<nodeOf, finishedAt, stats, globalTimer>>
      /\ pc' \in {"check", "free"} => pc \in {"check", "free"}
  BY DEF Sort, Begin, Arrive, Place, PickMin, EndArrivals, Remain, RunCpu, SkipCpu, CheckOn, Free,
         EndTick, UseFreed, vars, multiVars, tableVars, outputVars
<1>2. Arrived' = Arrived
  <2>1. CASE Sort
    <3>1. Waiting' = Waiting
      BY <2>1, SortWaiting DEF MultiReportInv, MultiCountInv
    <3> QED BY <1>1, <3>1 DEF Arrived, Pid
  <2>2. CASE ~Sort
    <3>1. UNCHANGED inputList
      BY <2>2 DEF Begin, Arrive, Place, PickMin, EndArrivals, Remain, RunCpu, SkipCpu, CheckOn, Free,
                  EndTick, UseFreed, vars, listVars
    <3> QED BY <1>1, <3>1, SameWaiting
  <2> QED BY <2>1, <2>2
<1>3. ASSUME pc' = "done" PROVE loop' = "remaining" /\ IsAllCpuPQEmpty'
  <2>1. CASE Remain
    BY <1>3, <2>1 DEF Remain, IsAllCpuPQEmpty, IsEmptyPQ, queueVars, heapVars
  <2>2. CASE QueueStep /\ UNCHANGED <<listVars, multiVars>>
    <3>1. call \in {"siftUp", "siftDown", "pidSort"} /\ pc = "done"
      BY <1>3, <2>2 DEF QueueStep, SiftUp, SiftDown, PidSort, UndefinedIteration, Allocated,
                        Dereferenced, SlotsRead, ItemRead, multiVars
    <3> QED BY <3>1 DEF MultiReportInv, MultiCountInv, MultiInv, PlaceInv
  <2>3. CASE UNCHANGED vars \/ \E c \in Cpu : UseFreed(c)
    <3>1. pc = "done" /\ UNCHANGED <<loop, size>>
      BY <1>3, <2>3 DEF UseFreed, vars, multiVars, queueVars, heapVars
    <3> QED BY <3>1 DEF MultiReportInv, ReportInv, IsAllCpuPQEmpty, IsEmptyPQ
  <2>4. CASE \/ Sort \/ Begin \/ Arrive \/ Place \/ PickMin \/ EndArrivals
             \/ RunCpu \/ SkipCpu \/ CheckOn \/ Free \/ EndTick
    BY <1>3, <2>4 DEF Sort, Begin, Arrive, Place, PickMin, EndArrivals, RunCpu, SkipCpu, CheckOn,
                      Free, EndTick, multiVars
  <2> QED BY <2>1, <2>2, <2>3, <2>4
<1> QED BY <1>1, <1>2, <1>3, KeepReport DEF MultiReportInv

\* The node that leaves the list arrives at this time.
LEMMA PlacedReport ==
  ASSUME MultiReportInv, Placed
  PROVE  ReportInv'
<1>1. /\ pc = "place" /\ pc' \in {"run", "arrive"}
      /\ UNCHANGED <<nodeOf, finishedAt, stats, globalTimer>>
  BY DEF Placed, tableVars, outputVars
<1>2. Pid' = Pid /\ Reported' = Reported /\ Runs' = Runs
  BY <1>1 DEF Pid, Reported, Runs
<1>3. Arrived' = Arrived \cup {HeadPid} /\ HeadPid \in Pid
  BY PlacedArrives DEF MultiReportInv, Waiting
<1>4. nodeOf[HeadPid].arrival = globalTimer
  BY <1>1 DEF MultiReportInv, MultiCountInv, FirstInv, DueInv, IsPlacing
<1>5. globalTimer \in Nat
  BY MultiFacts DEF MultiReportInv, MultiCountInv
<1> QED BY <1>1, <1>2, <1>3, <1>4, <1>5 DEF MultiReportInv, ReportInv

\* The timer advances.
LEMMA AdvanceReport ==
  ASSUME MultiReportInv, NotDue \/ Advance
  PROVE  ReportInv'
<1>1. /\ UNCHANGED <<nodeOf, finishedAt, stats, inputList>>
      /\ globalTimer' = globalTimer \/ globalTimer' = globalTimer + 1
      /\ pc' \in {"arrive", "run", "check"} /\ (pc' = "check" => globalTimer' = globalTimer + 1)
  BY DEF NotDue, Advance, tableVars, outputVars, listVars
<1>2. Pid' = Pid /\ Reported' = Reported /\ Runs' = Runs
  BY <1>1 DEF Pid, Reported, Runs
<1>3. Arrived' = Arrived
  BY <1>1, SameWaiting
<1>4. \A pid \in Arrived : /\ nodeOf[pid].arrival \in Nat /\ globalTimer \in Nat
                           /\ nodeOf[pid].arrival <= globalTimer
  BY RunFacts DEF MultiReportInv, MultiCountInv, ReportInv
<1>5. \A pid \in Arrived : /\ nodeOf[pid].arrival <= globalTimer'
                           /\ pc' = "check" => nodeOf[pid].arrival < globalTimer'
  BY <1>1, <1>4
<1>6. \A pid \in Arrived' :
        /\ nodeOf'[pid].arrival <= globalTimer'
        /\ pc' \in {"check", "free"} => nodeOf'[pid].arrival < globalTimer'
  BY <1>1, <1>3, <1>5
<1>7. \A pid \in Reported' : nodeOf'[pid].arrival < finishedAt'[pid]
  BY <1>1, <1>2 DEF MultiReportInv, ReportInv
<1> QED BY <1>1, <1>2, <1>6, <1>7 DEF MultiReportInv, ReportInv

\* A process that is reported was not, and took the time since it arrived.
LEMMA FinishReport ==
  ASSUME MultiReportInv, Finish
  PROVE  ReportInv'
<1> DEFINE x == PidOf(minPtr[i])
<1>1. /\ pc = "check" /\ pc' = "free" /\ call = "none" /\ minPtr[i] \in live
      /\ UNCHANGED <<nodeOf, inputList, globalTimer>>
      /\ UNCHANGED <<finishedAt, stats>> \/ (~OthersRemain(x) /\ Report(x))
  BY DEF Finish, listVars, outputVars
<1>2. MultiCountInv /\ ReportInv /\ MultiInv
  BY DEF MultiReportInv, MultiCountInv
<1>3. Arrived' = Arrived /\ Pid' = Pid
  BY <1>1, SameWaiting
<1>4. CASE UNCHANGED <<finishedAt, stats>>
  BY <1>1, <1>2, <1>3, <1>4, KeepReport
<1>5. CASE ~OthersRemain(x) /\ Report(x)
  <2>1. x \in Arrived /\ minPtr[i] \in Parts(x)
    <3>1. PICK pid \in Pid : minPtr[i] \in Parts(pid)
      BY <1>1, <1>2 DEF MultiCountInv, BornInv, AllParts
    <3>2. x = pid
      BY <3>1, OwnParts
    <3>3. x \notin Waiting
      BY <1>1, <1>2, <3>1, <3>2, WaitingUnborn DEF IsPlacing
    <3> QED BY <3>1, <3>2, <3>3 DEF Arrived
  <2>2. x \in Pid /\ x \notin Reported
    <3>1. minPtr[i] \in Running(x)
      BY <1>1, <2>1 DEF Running
    <3>2. Running(x) \ {popped} = Running(x)
      BY <1>1, <1>2, <2>1, NothingPopped
    <3>3. ~(finishedAt[x] > 0)
      BY <1>2, <2>1, <3>1, <3>2 DEF MultiCountInv, CountInv
    <3> QED BY <2>1, <3>3 DEF Arrived, Reported
  <2> HIDE DEF x
  <2> DEFINE d == globalTimer - nodeOf[x].arrival  e == nodeOf[x].exec
  <2>3. d \in Nat /\ d > 0 /\ e \in Nat \ {0} /\ globalTimer \in Nat /\ globalTimer > 0
    BY <1>1, <1>2, <2>1, <2>2, RunFacts DEF ReportInv
  <2>4. /\ finishedAt \in [Pid -> Nat] /\ finishedAt' = [finishedAt EXCEPT ![x] = globalTimer]
        /\ stats' = [totalDeltaTime |-> stats.totalDeltaTime + d,
                     numRunnedProcesses |-> stats.numRunnedProcesses + 1,
                     maxTimeOverhead |-> IF Less(stats.maxTimeOverhead, <<d, e>>) THEN <<d, e>>
                                         ELSE stats.maxTimeOverhead,
                     totalTimeOverhead |-> Plus(stats.totalTimeOverhead, <<d, e>>)]
    BY <1>2, <1>5, RunFacts DEF Report, Collect
  <2>5. \A pid \in Pid : Runs'[pid] = <<finishedAt'[pid] - nodeOf[pid].arrival, nodeOf[pid].exec>>
    BY <1>1, <1>3 DEF Runs
  <2>6. Runs'[x] = <<d, e>> /\ finishedAt'[x] = globalTimer
    BY <2>2, <2>4, <2>5
  <2>7. \A pid \in Pid \ {x} : finishedAt'[pid] = finishedAt[pid] /\ Runs'[pid] = Runs[pid]
    BY <2>4, <2>5 DEF Runs
  <2> HIDE DEF d, e
  <2>8. Reported' = Reported \cup {x}
    BY <1>3, <2>2, <2>3, <2>6, <2>7 DEF Reported
  <2>9. \A pid \in Reported : Runs[pid] \in Fraction /\ Runs'[pid] = Runs[pid]
    BY <1>2, <2>2, <2>7, RunFacts
  <2>10. Runs'[x] \in Fraction /\ Runs'[x][1] = d /\ Runs'[x][1] > 0
    BY <2>3, <2>6 DEF Fraction
  <2>11. IsFiniteSet(Reported) /\ Agrees(stats, Runs, Reported)
    BY <1>2, FS_Subset DEF Reported, ReportInv
  <2>12. stats' = [totalDeltaTime |-> stats.totalDeltaTime + Runs'[x][1],
                   numRunnedProcesses |-> stats.numRunnedProcesses + 1,
                   maxTimeOverhead |-> IF Less(stats.maxTimeOverhead, Runs'[x]) THEN Runs'[x]
                                       ELSE stats.maxTimeOverhead,
                   totalTimeOverhead |-> Plus(stats.totalTimeOverhead, Runs'[x])]
    BY <2>4, <2>6, <2>10
  <2>13. Agrees(stats', Runs', Reported \cup {x})
    BY <2>2, <2>9, <2>10, <2>11, <2>12, CollectAgrees
  <2>14. Agrees(stats, Runs, Reported)'
    BY <2>8, <2>13
  <2>15. \A pid \in Reported' : nodeOf'[pid].arrival < finishedAt'[pid]
    <3>1. nodeOf[x].arrival < globalTimer
      BY <1>1, <1>2, <2>1 DEF ReportInv
    <3>2. \A pid \in Reported : pid \in Pid \ {x}
      BY <2>2 DEF Reported
    <3> QED BY <1>1, <1>2, <2>6, <2>7, <2>8, <3>1, <3>2 DEF ReportInv
  <2> QED BY <1>1, <1>2, <1>3, <2>14, <2>15 DEF ReportInv
<1> QED BY <1>1, <1>4, <1>5

-----------------------------------------------------------------------------
\* The statistics agree with the FINISHED lines at every step, whatever the number
\* of processors, the input files and the ties met (sim.c:583-612, 708-737).
THEOREM ReportsWhatRan == Spec => []MultiReportInv
<1>1. MultiReportInv /\ MultiCountInv' /\ [Next]_vars => MultiReportInv'
  <2> SUFFICES ASSUME MultiReportInv, MultiCountInv', [Next]_vars PROVE MultiReportInv'
    OBVIOUS
  <2>1. DueInv'
    BY DueNext DEF MultiReportInv
  <2>2. ReportInv'
    BY QuietReport, PlacedReport, AdvanceReport, FinishReport DEF Next, Step, Spin
  <2> QED BY <2>1, <2>2 DEF MultiReportInv
<1> QED BY <1>1, InitReport, CountInvariant, PTL DEF Spec
=============================================================================
