----------------------------- MODULE OneCpuProofs -----------------------------
(***************************************************************************)
(* OneInv is an invariant of the simulation with one processor, for every  *)
(* set of input files: one lemma per action, on top of what QueueLemmas    *)
(* and SchedulerLemmas say of the queue and of the list. Then what is      *)
(* printed: when each process finished, the statistics at the end, and the *)
(* makespan.                                                               *)
(***************************************************************************)
EXTENDS OneCpuProperties, SchedulerLemmas, FiniteSetTheorems

\* A file whose list InitList sets up.
LEMMA FileNodes ==
  ASSUME NEW f \in Files
  PROVE  /\ f \in Seq(Node) /\ PidsDiffer(f)
         /\ \A n \in 1 .. Len(f) : f[n] \in Node /\ ProcOf(f[n]) \in Proc
         /\ \A p \in Proc : \E n \in 1 .. Len(f) : ProcOf(f[n]) = p
BY FilesAssumption DEF ProcOf, ListOf, PidsOf

LEMMA InitOneInv ==
  ASSUME Init
  PROVE  OneInv
<1>1. PICK f \in Files :
        /\ InitList(f, <<"pid", "arrival">>)
        /\ nodeOf = [p \in Proc |-> f[CHOOSE i \in 1 .. Len(f) : ProcOf(f[i]) = p]]
  BY DEF Init
<1>2. /\ inputList = f /\ sorts = <<"pid", "arrival">> /\ pass = 1
      /\ inputList \in Seq(Node) /\ sorts \in Seq(Field) /\ Len(sorts) = 2
  BY <1>1, FileNodes DEF InitList, Field
<1>3. \A p \in Proc : burstTime(p) \in Nat /\ burstTime(p) > 0
  <2> TAKE p \in Proc
  <2>1. \E n \in 1 .. Len(f) : ProcOf(f[n]) = p
    BY FileNodes
  <2>2. (CHOOSE i \in 1 .. Len(f) : ProcOf(f[i]) = p) \in 1 .. Len(f)
    BY <2>1
  <2>3. nodeOf[p] \in Node
    BY <1>1, <2>2, FileNodes
  <2> QED BY <2>3 DEF burstTime, Node
<1>4. /\ remainingTime \in [Proc \cup {DummyHead} -> Nat] /\ remainingTime[DummyHead] = 0
      /\ \A p \in Proc : remainingTime[p] > 0
  BY <1>3, ProcAssumption DEF Init
<1>5. QueueInv
  BY <1>4, InitInv DEF Init
<1>6. ListInv
  BY <1>1, <1>2, FileNodes DEF ListInv, PassesDone, Sorted
<1>7. OneTypeOK
  BY <1>2, <1>5 DEF OneTypeOK, Init, QueueInv
<1>8. TimeInv
  BY <1>2, <1>4, FileNodes DEF TimeInv, Init
<1>9. PlaceInv /\ PointerInv /\ MinIsRoot
  BY FilesAssumption DEF Init, InitCall, InitializePQ, PlaceInv, PointerInv, MinIsRoot, IsEmptyPQ
<1>10. NoArrivalMissed
  <2>1. \A n \in 1 .. Len(inputList) : inputList[n].arrival \in Nat
    <3> TAKE n \in 1 .. Len(inputList)
    <3>1. inputList[n] \in Node
      BY <1>2
    <3> QED BY <3>1 DEF Node
  <2> QED BY <2>1 DEF NoArrivalMissed, Init
<1> QED BY <1>5, <1>6, <1>7, <1>8, <1>9, <1>10 DEF OneInv

\* The sorts change the order of the list only.
LEMMA SortOneInv ==
  ASSUME OneInv, Sort
  PROVE  OneInv'
<1>1. /\ ListInv' /\ NodesOf(inputList') = NodesOf(inputList)
      /\ Reordered(inputList', inputList)
  BY SortPassInv, EndSortInv DEF OneInv, Sort, SortStep
<1>2. UNCHANGED <<queueVars, oneVars>> /\ pc = "sort"
  BY DEF Sort
<1>3. QueueInv'
  BY <1>2, StutterInv DEF OneInv
<1>4. \A n \in 1 .. Len(inputList') : \E k \in 1 .. Len(inputList) : inputList'[n] = inputList[k]
  BY <1>1 DEF NodesOf
<1>5. OneTypeOK'
  BY <1>1, <1>2, <1>3 DEF OneInv, OneTypeOK, QueueInv, ListInv, oneVars, clockVars, outputVars
<1>6. PlaceInv'
  BY <1>2 DEF OneInv, PlaceInv, queueVars, callVars, oneVars
<1>7. PointerInv' /\ MinIsRoot'
  BY <1>2 DEF OneInv, PointerInv, MinIsRoot, queueVars, callVars, heapVars, oneVars, IsEmptyPQ,
              FindMinRemainTimeProcess
<1>8. TimeInv'
  BY <1>1, <1>2, <1>4, ReorderedPidsDiffer DEF OneInv, TimeInv, queueVars, oneVars, ProcOf
<1>9. NoArrivalMissed'
  BY <1>2, <1>4 DEF OneInv, NoArrivalMissed, oneVars, clockVars
<1> QED BY <1>1, <1>3, <1>5, <1>6, <1>7, <1>8, <1>9 DEF OneInv

\* The facts of OneInv that the lemmas below use most.
LEMMA OneFacts ==
  ASSUME OneInv
  PROVE  /\ Cpu = {0} /\ at = 0 /\ 0 \in Cpu
         /\ QueueInv /\ ListInv /\ TypeOK /\ globalTimer \in Nat
         /\ size[0] \in Nat /\ live \subseteq Proc /\ NULL \notin Proc
         /\ inputList \in Seq(Node)
BY FilesAssumption, ProcAssumption DEF OneInv, OneTypeOK, TypeOK, ListInv

\* While no node is due, the timer may advance: the list is sorted.
LEMMA AdvanceTimer ==
  ASSUME OneInv, pc # "sort", inputList = <<>> \/ ~Due, globalTimer' = globalTimer + 1,
         inputList' = inputList
  PROVE  NoArrivalMissed'
<1> SUFFICES ASSUME NEW n \in 1 .. Len(inputList)
             PROVE  globalTimer + 1 <= inputList[n].arrival
  BY DEF NoArrivalMissed
<1>1. inputList # <<>> /\ 1 \in 1 .. Len(inputList) /\ GetFromInputList = inputList[1]
  BY OneFacts DEF GetFromInputList
<1>2. inputList[1] \in Node /\ inputList[n] \in Node
  BY <1>1, OneFacts
<1>3. inputList[1].arrival \in Nat /\ inputList[n].arrival \in Nat
  BY <1>2 DEF Node
<1>4. inputList[1].arrival # globalTimer
  BY <1>1 DEF Due
<1>5. globalTimer <= inputList[1].arrival
  BY <1>1 DEF OneInv, NoArrivalMissed
<1>6. inputList[1].arrival <= inputList[n].arrival
  BY <1>1 DEF OneInv, PlaceInv, ListInv, Sorted
<1> QED BY <1>3, <1>4, <1>5, <1>6, OneFacts

LEMMA BeginOneInv ==
  ASSUME OneInv, Begin
  PROVE  OneInv'
<1>1. /\ UNCHANGED <<queueVars, listVars, loop, clockVars, minPtr, isRunning, outputVars>>
      /\ pc = "sort" /\ pc' = "arrive" /\ sorts = <<>> /\ loop = "arriving"
  BY DEF Begin, OneInv, PlaceInv
<1>2. QueueInv' /\ ListInv'
  BY <1>1, StutterInv, ListStutterInv DEF OneInv
<1>3. OneTypeOK'
  BY <1>1, <1>2 DEF OneInv, OneTypeOK, QueueInv, listVars, clockVars, outputVars
<1>4. PlaceInv' /\ PointerInv' /\ MinIsRoot'
  BY <1>1 DEF OneInv, PlaceInv, PointerInv, MinIsRoot, queueVars, heapVars, callVars, listVars,
              IsEmptyPQ, FindMinRemainTimeProcess
<1>5. TimeInv' /\ NoArrivalMissed'
  BY <1>1 DEF OneInv, TimeInv, NoArrivalMissed, queueVars, listVars, clockVars, ProcOf
<1> QED BY <1>2, <1>3, <1>4, <1>5 DEF OneInv

\* The process created is the one of the first node, which did not exist.
LEMMA ArriveOneInv ==
  ASSUME OneInv, Arrive
  PROVE  OneInv'
<1> DEFINE p == ProcOf(inputList[1])
<1>1. /\ pc = "arrive" /\ pc' = "inserted" /\ loop = "arriving" /\ inputList # <<>>
      /\ 1 \in 1 .. Len(inputList)
      /\ InsertPQ(p, 0) /\ live' = live \cup {p}
      /\ UNCHANGED <<listVars, remainingTime, loop, clockVars, minPtr, isRunning, outputVars>>
  BY OneFacts DEF Arrive, Due, GetFromInputList
<1>2. p \in Proc /\ remainingTime[p] > 0 /\ p \notin live /\ popped = NULL /\ call = "none"
  BY <1>1 DEF OneInv, TimeInv, PointerInv, InsertPQ
<1>3. QueueInv'
  <2> HIDE DEF p
  <2> QED BY <1>1, <1>2, OneFacts, InsertInv
<1>4. ListInv'
  BY <1>1, ListStutterInv, OneFacts
<1>5. OneTypeOK'
  BY <1>1, <1>3 DEF OneInv, OneTypeOK, QueueInv, listVars, clockVars, outputVars
<1>6. UNCHANGED <<size, popped>> /\ (call' = "siftUp" \/ (call' = "none" /\ size[0] = Capacity))
  BY <1>1, <1>2 DEF InsertPQ, RefuseInsert, StartInsert, IsFullPQ, heapVars, callVars
<1>7. PlaceInv' /\ PointerInv' /\ MinIsRoot'
  BY <1>1, <1>2, <1>6, CapacityAssumption
     DEF OneInv, PlaceInv, PointerInv, MinIsRoot, listVars
<1>8. TimeInv'
  <2>1. \A n \in 1 .. Len(inputList) : ProcOf(inputList[n]) = p => n = 1
    BY <1>1 DEF OneInv, TimeInv, PidsDiffer, ProcOf
  <2>2. UNCHANGED <<inputList, remainingTime, minPtr>>
    BY <1>1 DEF listVars
  <2> HIDE DEF p
  <2> QED BY <1>1, <1>2, <2>1, <2>2 DEF OneInv, TimeInv, ProcOf
<1>9. NoArrivalMissed'
  BY <1>1 DEF OneInv, NoArrivalMissed, listVars, clockVars
<1> QED BY <1>3, <1>4, <1>5, <1>7, <1>8, <1>9 DEF OneInv

\* The pointer is the root again, and the node of the new process is gone.
LEMMA PickMinOneInv ==
  ASSUME OneInv, PickMin
  PROVE  OneInv'
<1>1. /\ pc = "inserted" /\ call = "none" /\ inputList # <<>> /\ sorts = <<>>
      /\ loop = "arriving" /\ size[0] >= 1
      /\ FindMinRemainTimeProcess(0) \in live
      /\ UpdateInputList /\ minPtr' = FindMinRemainTimeProcess(0)
      /\ isRunning' \subseteq isRunning
      /\ pc' = IF Len(inputList) = 1 THEN "tick" ELSE "arrive"
      /\ UNCHANGED <<queueVars, loop, clockVars, outputVars>>
  BY DEF OneInv, OneTypeOK, PlaceInv, PickMin, StalePointers
<1>2. QueueInv'
  BY <1>1, StutterInv, OneFacts
<1>3. /\ ListInv' /\ Len(inputList') = Len(inputList) - 1 /\ inputList \in Seq(Node)
      /\ \A n \in 1 .. Len(inputList') : inputList'[n] = inputList[n + 1]
      /\ inputList' \in Seq(Node) /\ sorts' = <<>>
  BY <1>1, OneFacts, UpdateInv DEF ListInv, UpdateInputList
<1>4. OneTypeOK'
  BY <1>1, <1>2, <1>3, OneFacts DEF OneInv, OneTypeOK, QueueInv, ListInv, clockVars, outputVars
<1>5. pc' = "tick" => inputList' = <<>>
  BY <1>1, <1>3
<1>6. PlaceInv' /\ PointerInv' /\ MinIsRoot'
  BY <1>1, <1>3, <1>5 DEF OneInv, PlaceInv, PointerInv, MinIsRoot, queueVars, heapVars, callVars,
                          IsEmptyPQ, FindMinRemainTimeProcess
<1>7. \A n \in 1 .. Len(inputList') : n + 1 \in 1 .. Len(inputList) /\ n + 1 # 1
  BY <1>3
<1>8. TimeInv'
  <2>1. PidsDiffer(inputList)'
    BY <1>3, <1>7, SMTT(30) DEF OneInv, TimeInv, PidsDiffer
  <2> QED BY <1>1, <1>3, <1>7, <2>1 DEF OneInv, TimeInv, ProcOf, queueVars
<1>9. NoArrivalMissed'
  BY <1>1, <1>3, <1>7 DEF OneInv, NoArrivalMissed, clockVars
<1> QED BY <1>2, <1>3, <1>4, <1>6, <1>8, <1>9 DEF OneInv

LEMMA IdleOneInv ==
  ASSUME OneInv, Idle
  PROVE  OneInv'
<1>1. /\ pc = "arrive" /\ ~Due /\ IsEmptyPQ(0) /\ globalTimer' = globalTimer + 1 /\ lastRan' = NULL
      /\ UNCHANGED <<listVars, queueVars, pc, loop, nodeOf, minPtr, isRunning, stats, finishedAt>>
  BY DEF Idle
<1>2. QueueInv' /\ ListInv'
  BY <1>1, StutterInv, ListStutterInv, OneFacts
<1>3. OneTypeOK'
  BY <1>1, <1>2, OneFacts DEF OneInv, OneTypeOK, QueueInv, listVars
<1>4. PlaceInv' /\ PointerInv' /\ MinIsRoot'
  BY <1>1 DEF OneInv, PlaceInv, PointerInv, MinIsRoot, queueVars, heapVars, callVars, listVars,
              IsEmptyPQ, FindMinRemainTimeProcess
<1>5. TimeInv'
  BY <1>1 DEF OneInv, TimeInv, queueVars, listVars, ProcOf
<1>6. NoArrivalMissed'
  BY <1>1, AdvanceTimer DEF listVars
<1> QED BY <1>2, <1>3, <1>4, <1>5, <1>6 DEF OneInv

LEMMA EndArrivalsOneInv ==
  ASSUME OneInv, EndArrivals
  PROVE  OneInv'
<1>1. /\ pc = "arrive" /\ inputList = <<>> /\ loop' = "remaining" /\ pc' = "tick"
      /\ UNCHANGED <<listVars, queueVars, clockVars, minPtr, isRunning, outputVars>>
  BY DEF EndArrivals
<1>2. QueueInv' /\ ListInv'
  BY <1>1, StutterInv, ListStutterInv, OneFacts
<1>3. OneTypeOK'
  BY <1>1, <1>2 DEF OneInv, OneTypeOK, QueueInv, listVars, clockVars, outputVars
<1>4. PlaceInv' /\ PointerInv' /\ MinIsRoot'
  BY <1>1 DEF OneInv, PlaceInv, PointerInv, MinIsRoot, queueVars, heapVars, callVars, listVars,
              IsEmptyPQ, FindMinRemainTimeProcess
<1>5. TimeInv' /\ NoArrivalMissed'
  BY <1>1 DEF OneInv, TimeInv, NoArrivalMissed, queueVars, listVars, clockVars, ProcOf
<1> QED BY <1>2, <1>3, <1>4, <1>5 DEF OneInv

\* What runs is the root of the heap, which has time left.
LEMMA TickOneInv ==
  ASSUME OneInv, Tick
  PROVE  OneInv'
<1>1. /\ call = "none" /\ ~IsEmptyPQ(0) /\ minPtr \in live /\ minPtr \in Proc
      /\ \/ pc = "tick" /\ inputList = <<>>
         \/ pc = "arrive" /\ inputList # <<>> /\ ~Due /\ loop = "arriving"
      /\ isRunning' = isRunning \cup {minPtr}
      /\ remainingTime' = [remainingTime EXCEPT ![minPtr] = @ - 1]
      /\ globalTimer' = globalTimer + 1 /\ lastRan' = minPtr
      /\ pc' = IF remainingTime'[minPtr] = 0 THEN "finish" ELSE TopOfLoop
      /\ UNCHANGED <<inputList, sorts, pass, listVars, heapVars, callVars, historyVars, live, loop,
                     nodeOf, minPtr, stats, finishedAt>>
  BY OneFacts DEF Tick, AfterTick, AtTick, OneInv, OneTypeOK, PlaceInv, listVars
<1>2. minPtr = FindMinRemainTimeProcess(0) /\ popped = NULL /\ remainingTime[minPtr] > 0
  BY <1>1 DEF OneInv, MinIsRoot, PointerInv, TimeInv
<1>3. QueueInv'
  BY <1>1, <1>2, OneFacts, TickInv
<1>4. ListInv'
  BY <1>1, ListStutterInv, OneFacts
<1>5. pc' \in {"finish", "arrive", "tick"} /\ (pc' = "tick" => loop = "remaining")
      /\ (pc' = "finish" => remainingTime'[minPtr] = 0)
  <2>1. TopOfLoop \in {"arrive", "tick"} /\ (TopOfLoop = "tick" => loop = "remaining")
    BY DEF OneInv, OneTypeOK, TopOfLoop
  <2>2. (pc' = "finish" /\ remainingTime'[minPtr] = 0) \/ pc' = TopOfLoop
    BY <1>1
  <2> QED BY <2>1, <2>2
<1>6. OneTypeOK'
  BY <1>1, <1>3, <1>5, OneFacts DEF OneInv, OneTypeOK, QueueInv
<1>7. PlaceInv'
  BY <1>1, <1>5 DEF OneInv, PlaceInv, callVars
<1>8. PointerInv' /\ MinIsRoot'
  BY <1>1, <1>2, <1>5 DEF PointerInv, MinIsRoot, heapVars, callVars, IsEmptyPQ, FindMinRemainTimeProcess
<1>9. TimeInv'
  <2>1. remainingTime \in [Proc \cup {DummyHead} -> Nat]
    BY OneFacts DEF TypeOK
  <2>2. \A q \in Proc : q # minPtr => remainingTime'[q] = remainingTime[q]
    BY <1>1, <2>1
  <2>3. remainingTime'[minPtr] > 0 \/ pc' = "finish"
    <3>1. remainingTime'[minPtr] = remainingTime[minPtr] - 1 /\ remainingTime[minPtr] \in Nat
      BY <1>1, <2>1
    <3> QED BY <1>1, <1>2, <3>1
  <2>4. \A n \in 1 .. Len(inputList) : ProcOf(inputList[n]) \notin live
    BY <1>1 DEF OneInv, TimeInv
  <2> QED BY <1>1, <2>2, <2>3, <2>4, OneFacts DEF OneInv, TimeInv, ProcOf
<1>10. NoArrivalMissed'
  BY <1>1, AdvanceTimer
<1> QED BY <1>3, <1>4, <1>6, <1>7, <1>8, <1>9, <1>10 DEF OneInv

\* What is deleted is the process that was run and reported.
LEMMA FinishOneInv ==
  ASSUME OneInv, Finish
  PROVE  OneInv'
<1>1. /\ pc = "finish" /\ call = "none" /\ pc' = "free" /\ DeleteMin(0)
      /\ finishedAt' = [finishedAt EXCEPT ![minPtr] = globalTimer]
      /\ UNCHANGED <<listVars, remainingTime, live, loop, clockVars, minPtr, isRunning, lastRan>>
      /\ ~IsEmptyPQ(0) /\ popped = NULL /\ minPtr \in live /\ remainingTime[minPtr] = 0
      /\ minPtr = processes[0][1]
  BY DEF Finish, OneInv, PointerInv, MinIsRoot, FindMinRemainTimeProcess
<1>2. QueueInv'
  BY <1>1, OneFacts, DeleteMinInv
<1>3. ListInv'
  BY <1>1, ListStutterInv, OneFacts
<1>4. OneTypeOK'
  BY <1>1, <1>2, OneFacts DEF OneInv, OneTypeOK, QueueInv, listVars, clockVars
<1>5. call' = "siftDown" /\ popped' = minPtr
  BY <1>1 DEF DeleteMin
<1>6. PlaceInv' /\ PointerInv' /\ MinIsRoot'
  BY <1>1, <1>5 DEF OneInv, PlaceInv, PointerInv, MinIsRoot, listVars
<1>7. TimeInv' /\ NoArrivalMissed'
  BY <1>1 DEF OneInv, TimeInv, NoArrivalMissed, listVars, clockVars, ProcOf
<1> QED BY <1>2, <1>3, <1>4, <1>6, <1>7 DEF OneInv

\* The pointer leaves the freed process whenever another one is queued.
LEMMA FreeOneInv ==
  ASSUME OneInv, Free
  PROVE  OneInv'
<1>1. /\ pc = "free" /\ call = "none" /\ live' = live \ {popped} /\ popped' = NULL
      /\ pc' = TopOfLoop
      /\ UNCHANGED <<listVars, heapVars, call, at, hole, item, historyVars, remainingTime, loop,
                     clockVars, isRunning, outputVars>>
      /\ popped = minPtr /\ popped \in live /\ popped # NULL
  BY OneFacts DEF Free, OneInv, PointerInv
<1>2. QueueInv'
  BY <1>1, OneFacts, FreeInv
<1>3. ListInv'
  BY <1>1, ListStutterInv, OneFacts
<1>4. /\ ~IsEmptyPQ(0) => minPtr' = FindMinRemainTimeProcess(0)
      /\ minPtr' \in Proc \cup {NULL}
  <2>1. ~IsEmptyPQ(0) => FindMinRemainTimeProcess(0) \in Proc
    BY <1>1, OneFacts, Quiet DEF IsEmptyPQ, FindMinRemainTimeProcess
  <2> QED BY <1>1, <2>1, OneFacts DEF Free, NextMin
<1>5. pc' = IF loop = "arriving" THEN "arrive" ELSE "tick"
  BY <1>1 DEF TopOfLoop
<1>6. OneTypeOK'
  BY <1>1, <1>2, <1>4, <1>5 DEF OneInv, OneTypeOK, QueueInv, listVars, clockVars, outputVars
<1>7. PlaceInv' /\ PointerInv' /\ MinIsRoot'
  BY <1>1, <1>4, <1>5 DEF OneInv, OneTypeOK, PlaceInv, PointerInv, MinIsRoot, listVars, heapVars,
                          IsEmptyPQ, FindMinRemainTimeProcess
<1>8. TimeInv'
  BY <1>1 DEF OneInv, TimeInv, listVars, ProcOf
<1>9. NoArrivalMissed'
  BY <1>1 DEF OneInv, NoArrivalMissed, listVars, clockVars
<1> QED BY <1>2, <1>3, <1>6, <1>7, <1>8, <1>9 DEF OneInv

LEMMA DoneOneInv ==
  ASSUME OneInv, Done
  PROVE  OneInv'
<1>1. /\ pc = "tick" /\ loop = "remaining" /\ call = "none" /\ IsEmptyPQ(0) /\ pc' = "done"
      /\ UNCHANGED <<listVars, queueVars, loop, clockVars, minPtr, isRunning, outputVars>>
  BY DEF Done
<1>2. QueueInv' /\ ListInv'
  BY <1>1, StutterInv, ListStutterInv, OneFacts
<1>3. OneTypeOK'
  BY <1>1, <1>2 DEF OneInv, OneTypeOK, QueueInv, listVars, clockVars, outputVars
<1>4. PlaceInv' /\ PointerInv' /\ MinIsRoot'
  BY <1>1 DEF OneInv, PlaceInv, PointerInv, MinIsRoot, queueVars, heapVars, callVars, listVars,
              IsEmptyPQ, FindMinRemainTimeProcess
<1>5. TimeInv' /\ NoArrivalMissed'
  BY <1>1 DEF OneInv, TimeInv, NoArrivalMissed, queueVars, listVars, clockVars, ProcOf
<1> QED BY <1>2, <1>3, <1>4, <1>5 DEF OneInv

\* A freed process is used only if the heap still refers to it.
LEMMA FreedInHeap ==
  ASSUME OneInv, UseFreed
  PROVE  \E k \in 1 .. size[0] : processes[0][k] \notin live
<1>1. CASE pc = "inserted" /\ ~(StalePointers \subseteq live)
  <2>1. call = "none" /\ 1 \in 1 .. size[0]
    BY <1>1, OneFacts DEF UseFreed, OneInv, PlaceInv
  <2> QED BY <1>1, <2>1 DEF StalePointers, FindMinRemainTimeProcess, Slots, Contents
<1>2. CASE AtTick /\ minPtr \notin live
  <2>1. 1 \in 1 .. size[0] /\ minPtr = processes[0][1]
    BY <1>2, OneFacts DEF AtTick, OneInv, MinIsRoot, IsEmptyPQ, FindMinRemainTimeProcess
  <2> QED BY <1>2, <2>1
<1> QED BY <1>1, <1>2 DEF UseFreed

\* The freed process is in the heap, which therefore met a tie.
LEMMA UseFreedOneInv ==
  ASSUME OneInv, UseFreed
  PROVE  OneInv'
<1>1. /\ call = "none" /\ call' = "undefined" /\ pc \in {"inserted", "tick", "arrive"}
      /\ UNCHANGED <<listVars, heapVars, at, hole, item, popped, historyVars, remainingTime, live, oneVars>>
  BY DEF UseFreed, AtTick
<1>2. \E k \in 1 .. size[0] : processes[0][k] \notin live
  BY FreedInHeap
<1>3. QueueInv'
  <2>1. at' = 0
    BY <1>1, OneFacts
  <2> QED BY <1>1, <1>2, <2>1, OneFacts, UseFreedInv
<1>4. ListInv'
  BY <1>1, ListStutterInv, OneFacts
<1>5. OneTypeOK'
  BY <1>1, <1>3 DEF OneInv, OneTypeOK, QueueInv, listVars, oneVars, clockVars, outputVars
<1>6. PlaceInv' /\ PointerInv' /\ MinIsRoot'
  BY <1>1 DEF OneInv, PlaceInv, PointerInv, MinIsRoot, listVars, oneVars
<1>7. TimeInv' /\ NoArrivalMissed'
  BY <1>1 DEF OneInv, TimeInv, NoArrivalMissed, listVars, oneVars, clockVars, ProcOf
<1> QED BY <1>3, <1>4, <1>5, <1>6, <1>7 DEF OneInv

\* While a call runs, pc is "inserted" or "free".
LEMMA QueueStepOneInv ==
  ASSUME OneInv, QueueStep, UNCHANGED <<listVars, oneVars>>
  PROVE  OneInv'
<1>1. call \in {"siftUp", "siftDown", "pidSort"}
  <2>1. UndefinedIteration => call \in {"siftUp", "siftDown", "pidSort"}
    BY DEF UndefinedIteration, Allocated, Dereferenced, SlotsRead, ItemRead
  <2> QED BY <2>1 DEF QueueStep, SiftUp, SiftDown, PidSort
<1>2. /\ (pc = "inserted" /\ call = "siftUp") \/ (pc = "free" /\ call \in {"siftDown", "pidSort"})
      /\ UNCHANGED <<pc, loop, minPtr, inputList, sorts, pass, globalTimer, isRunning, nodeOf,
                     lastRan, finishedAt>>
  <2>1. (pc = "inserted" /\ call = "siftUp") \/ (pc = "free" /\ call \in {"siftDown", "pidSort"})
    <3>1. \/ call \in {"none", "undefined"}
          \/ pc = "inserted" /\ call = "siftUp"
          \/ pc = "free" /\ call \in {"siftDown", "pidSort"}
      BY Zenon DEF OneInv, PlaceInv
    <3> QED BY <1>1, <3>1
  <2> QED BY <2>1 DEF oneVars, listVars, clockVars, outputVars
<1>3. UNCHANGED <<popped, remainingTime, live>>
  BY DEF QueueStep, SiftUp, SiftDown, PidSort, UndefinedIteration
<1>4. QueueInv' /\ ListInv'
  BY QueueStepInv, ListStutterInv, OneFacts
<1>5. OneTypeOK'
  BY <1>2, <1>4 DEF OneInv, OneTypeOK, QueueInv
<1>6. \/ call' = "undefined"
      \/ call = "siftUp" /\ call' = "siftUp"
      \/ call = "siftUp" /\ call' = "none" /\ size'[0] = size[0] + 1
      \/ call # "siftUp" /\ call' \in {"none", "siftDown", "pidSort"}
  <2>1. SiftUp => call' = "siftUp" \/ (call' = "none" /\ size'[0] = size[0] + 1)
    BY OneFacts DEF SiftUp, TypeOK
  <2> QED BY <1>1, <2>1 DEF QueueStep, SiftUp, SiftDown, PidSort, UndefinedIteration
<1>7. PlaceInv'
  BY <1>2, <1>6, OneFacts DEF OneInv, PlaceInv
<1>8. PointerInv' /\ MinIsRoot'
  BY <1>2, <1>3 DEF OneInv, PointerInv, MinIsRoot
<1>9. TimeInv' /\ NoArrivalMissed'
  BY <1>2, <1>3 DEF OneInv, TimeInv, NoArrivalMissed, ProcOf
<1> QED BY <1>4, <1>5, <1>7, <1>8, <1>9 DEF OneInv

LEMMA StutterOneInv ==
  ASSUME OneInv, UNCHANGED vars
  PROVE  OneInv'
<1>1. UNCHANGED <<queueVars, listVars, oneVars>>
  BY DEF vars
<1>2. QueueInv' /\ ListInv'
  BY <1>1, StutterInv, ListStutterInv, OneFacts
<1>3. OneTypeOK'
  BY <1>1, <1>2 DEF OneInv, OneTypeOK, QueueInv, listVars, oneVars, clockVars, outputVars
<1>4. PlaceInv' /\ PointerInv' /\ MinIsRoot'
  BY <1>1 DEF OneInv, PlaceInv, PointerInv, MinIsRoot, queueVars, heapVars, callVars, listVars,
              oneVars, IsEmptyPQ, FindMinRemainTimeProcess
<1>5. TimeInv' /\ NoArrivalMissed'
  BY <1>1 DEF OneInv, TimeInv, NoArrivalMissed, queueVars, listVars, oneVars, clockVars, ProcOf
<1> QED BY <1>2, <1>3, <1>4, <1>5 DEF OneInv

-----------------------------------------------------------------------------
\* The queue, the list, the pointer and the timer agree at every step of the
\* simulation with one processor, whatever the input files.
THEOREM OneCpuInvariant == Spec => []OneInv
<1>1. OneInv /\ [Next]_vars => OneInv'
  BY SortOneInv, BeginOneInv, ArriveOneInv, PickMinOneInv, IdleOneInv, EndArrivalsOneInv,
     TickOneInv, FinishOneInv, FreeOneInv, DoneOneInv, UseFreedOneInv, QueueStepOneInv,
     StutterOneInv DEF Next
<1> QED BY <1>1, InitOneInv, PTL DEF Spec

\* Every variable of HandleOneCPU and of what it calls keeps its type.
THEOREM OneCpuTypes == Spec => []OneTypeOK
<1>1. OneInv => OneTypeOK
  BY DEF OneInv
<1> QED BY <1>1, OneCpuInvariant, PTL

\* The process that HandleArrivingProcOnOneCpu and HandleRemainProcOnOneCPU
\* run, report and delete is the root of the heap.
THEOREM RunsTheRoot == Spec => []MinIsRoot
<1>1. OneInv => MinIsRoot
  BY DEF OneInv
<1> QED BY <1>1, OneCpuInvariant, PTL

\* The timer never passes the arrival time of a process still in the list, so
\* that the test by equality in HandleArrivingProcOnOneCpu finds each of them.
THEOREM MissesNoArrival == Spec => []NoArrivalMissed
<1>1. OneInv => NoArrivalMissed
  BY DEF OneInv
<1> QED BY <1>1, OneCpuInvariant, PTL

-----------------------------------------------------------------------------
(***************************************************************************)
(* The simulation uses its queue as QueueClient does.                      *)
(***************************************************************************)
\* The files have no time below zero, and every process of a file takes some.
LEMMA InitClient ==
  ASSUME Init
  PROVE  Client!Init
<1>1. remainingTime \in [Proc \cup {DummyHead} -> Nat] /\ remainingTime[DummyHead] = 0
  BY InitOneInv DEF OneInv, QueueInv, TypeOK, ShapeInv
<1> QED BY <1>1 DEF Init, Client!Init, InitializePQ, Client!InitializePQ, InitCall, Client!InitCall

\* The process created has not been in the queue before.
LEMMA ArriveClient ==
  ASSUME OneInv, Arrive
  PROVE  Client!Next
<1> DEFINE p == ProcOf(inputList[1])
<1>1. /\ pc = "arrive" /\ 1 \in 1 .. Len(inputList)
      /\ InsertPQ(p, 0) /\ live' = live \cup {p}
      /\ UNCHANGED remainingTime
  BY OneFacts DEF Arrive, Due, GetFromInputList
<1>2. p \in Proc /\ remainingTime[p] > 0 /\ p \notin live /\ popped = NULL /\ call = "none"
  BY <1>1 DEF OneInv, TimeInv, PointerInv, InsertPQ
<1>3. Client!Create(p, 0)
  BY <1>1, <1>2, SameInsertPQ DEF Client!Create, Client!Between
<1> QED BY <1>2, <1>3, OneFacts DEF Client!Next

\* The process that runs is the root, and it has time left.
LEMMA TickClient ==
  ASSUME OneInv, Tick
  PROVE  Client!Next
<1>1. /\ call = "none" /\ ~IsEmptyPQ(0) /\ minPtr \in live
      /\ pc \in {"tick", "arrive"}
      /\ remainingTime' = [remainingTime EXCEPT ![minPtr] = @ - 1]
      /\ UNCHANGED <<heapVars, callVars, historyVars, live>>
  BY DEF Tick, AtTick
<1>2. minPtr = FindMinRemainTimeProcess(0) /\ popped = NULL /\ remainingTime[minPtr] > 0
  BY <1>1 DEF OneInv, MinIsRoot, PointerInv, TimeInv
<1>3. Client!Run(0)
  BY <1>1, <1>2, SameRoot
     DEF Client!Run, Client!Between, Client!heapVars, heapVars, Client!callVars, callVars, Client!historyVars, historyVars
<1> QED BY <1>3, OneFacts DEF Client!Next

LEMMA FinishClient ==
  ASSUME OneInv, Finish
  PROVE  Client!Next
<1>1. /\ call = "none" /\ DeleteMin(0) /\ UNCHANGED <<remainingTime, live>>
      /\ ~IsEmptyPQ(0) /\ popped = NULL /\ minPtr \in live /\ remainingTime[minPtr] = 0
      /\ minPtr = FindMinRemainTimeProcess(0)
  BY DEF Finish, OneInv, PointerInv, MinIsRoot
<1>2. Client!Finish(0)
  BY <1>1, SameRoot DEF Client!Finish, Client!Between
<1> QED BY <1>2, OneFacts DEF Client!Next

LEMMA FreeClient ==
  ASSUME OneInv, Free
  PROVE  Client!Next
<1>1. popped # NULL
  BY OneFacts DEF Free, OneInv, PointerInv
<1>2. Client!Free
  BY <1>1 DEF Free, Client!Free, Client!heapVars, heapVars, Client!historyVars, historyVars
<1> QED BY <1>2 DEF Client!Next

\* Whatever freed process is used, the heap still refers to it.
LEMMA UseFreedClient ==
  ASSUME OneInv, UseFreed
  PROVE  Client!Next
<1>1. /\ call = "none" /\ call' = "undefined" /\ pc \in {"inserted", "tick", "arrive"}
      /\ UNCHANGED <<heapVars, at, hole, item, popped, historyVars, remainingTime, live>>
  BY DEF UseFreed, AtTick
<1>2. popped = NULL /\ at' = 0
  BY <1>1, OneFacts DEF OneInv, PointerInv
<1>3. \E k \in 1 .. size[0] : processes[0][k] \notin live
  BY <1>1, FreedInHeap
<1>4. ~(Slots(0) \subseteq live)
  BY <1>3 DEF Slots, Contents
<1>5. Client!UseFreed(0)
  BY <1>1, <1>2, <1>4, SameRoot
     DEF Client!UseFreed, Client!Between, Client!heapVars, heapVars, Client!historyVars, historyVars
<1> QED BY <1>5, OneFacts DEF Client!Next

\* HandleOneCPU, HandleArrivingProcOnOneCpu and HandleRemainProcOnOneCPU call the
\* queue only as QueueClient does, whatever the input files.
THEOREM UsesTheQueue == Spec => ImplementsQueueClient
<1>1. ASSUME OneInv, [Next]_vars PROVE [Client!Next]_queueVars
  <2>1. CASE Sort \/ Begin \/ PickMin \/ Idle \/ EndArrivals \/ Done \/ UNCHANGED vars
    BY <2>1 DEF Sort, Begin, PickMin, Idle, EndArrivals, Done, vars
  <2>2. CASE QueueStep
    BY <2>2, SameQueueStep DEF Client!Next
  <2> QED
    BY <1>1, <2>1, <2>2, ArriveClient, TickClient, FinishClient, FreeClient, UseFreedClient
    DEF Next
<1> QED BY <1>1, InitClient, OneCpuInvariant, PTL DEF Spec, ImplementsQueueClient

-----------------------------------------------------------------------------
(***************************************************************************)
(* The simulation with one processor implements shortest remaining time,   *)
(* for every set of input files, as long as no deletion meets a tie.  The  *)
(* invariant OneSRTInv says which processes the queue holds; it comes      *)
(* first, then one lemma per action that the abstract scheduler sees.      *)
(***************************************************************************)

\* What the lemmas below use of OneSRTInv while no deletion has met a tie.
LEMMA UntiedFacts ==
  ASSUME OneSRTInv, tied = {}
  PROVE  /\ OneInv /\ NodesInv /\ ReadyInv /\ RootInv /\ QueueInv
         /\ Coming \subseteq Proc /\ Unfinished \subseteq Proc /\ Ready \subseteq Proc
         /\ queued \in [Cpu -> SUBSET Proc] /\ queued[0] \subseteq Proc
         /\ call # "undefined"
         /\ remainingTime \in [Proc \cup {DummyHead} -> Nat]
<1>1. OneInv /\ NodesInv /\ ReadyInv /\ RootInv /\ QueueInv
  BY DEF OneSRTInv, OneInv
<1>2. Coming \subseteq Proc /\ Unfinished \subseteq Proc /\ Ready \subseteq Proc
  BY <1>1 DEF OneInv, TimeInv, Coming, Unfinished, Ready
<1>3. call # "undefined"
  BY <1>1 DEF QueueInv, UndefinedOnlyIfTied
<1>4. queued \in [Cpu -> SUBSET Proc] /\ remainingTime \in [Proc \cup {DummyHead} -> Nat]
  BY <1>1 DEF QueueInv, TypeOK
<1> QED BY <1>1, <1>2, <1>3, <1>4, OneFacts

\* Between calls the slots hold what was handed over, and the root is a minimum.
LEMMA RootIsShortest ==
  ASSUME OneSRTInv, tied = {}, call = "none"
  PROVE  /\ queued[0] = Slots(0) /\ Distinct(processes[0], size[0])
         /\ size[0] \in 0 .. Capacity
         /\ size[0] > 0 => /\ processes[0][1] \in queued[0]
                           /\ \A p \in queued[0] : remainingTime[processes[0][1]] <= remainingTime[p]
<1>1. /\ queued[0] = Slots(0) /\ Distinct(processes[0], size[0]) /\ size[0] \in 0 .. Capacity
  BY UntiedFacts, OneFacts, Quiet DEF Slots
<1>2. \A k \in 1 .. size[0] : remainingTime[processes[0][1]] <= remainingTime[processes[0][k]]
  BY UntiedFacts, OneFacts, RootPromise DEF RootIsMin, Busy
<1> QED BY <1>1, <1>2 DEF Slots, Contents

\* The head of the list, while it has one.
LEMMA HeadFacts ==
  ASSUME OneInv, NodesInv, inputList # <<>>
  PROVE  /\ GetFromInputList = inputList[1] /\ 1 \in 1 .. Len(inputList)
         /\ ProcOf(GetFromInputList) \in Coming
         /\ ProcOf(GetFromInputList) \in Proc /\ ProcOf(GetFromInputList) # NULL
         /\ remainingTime[ProcOf(GetFromInputList)] > 0
         /\ arrivalTime(ProcOf(GetFromInputList)) = GetFromInputList.arrival
<1>1. GetFromInputList = inputList[1] /\ 1 \in 1 .. Len(inputList)
  BY OneFacts DEF GetFromInputList
<1> QED BY <1>1, OneFacts DEF Coming, NodesInv, arrivalTime, OneInv, TimeInv

-----------------------------------------------------------------------------
(***************************************************************************)
(* OneSRTInv is an invariant.                                              *)
(***************************************************************************)
\* There are no more processes than lines in the file.
LEMMA ProcFinite ==
  ASSUME Files # {}
  PROVE  IsFiniteSet(Proc) /\ Cardinality(Proc) <= Capacity /\ Cardinality(Proc) \in Nat
<1>1. PICK f \in Files : TRUE
  OBVIOUS
<1>2. Len(f) \in 1 .. Capacity /\ Proc = PidsOf(f) \X {0} /\ Capacity \in Nat
  BY FilesAssumption, CapacityAssumption DEF ListOf
<1> DEFINE g == [n \in 1 .. Len(f) |-> <<f[n].pid, 0>>]
<1>3. g \in Surjection(1 .. Len(f), Proc)
  BY <1>2, SMTT(30) DEF Surjection, PidsOf
<1>4. IsFiniteSet(1 .. Len(f)) /\ Cardinality(1 .. Len(f)) = Len(f)
  BY <1>2, UpTo
<1> HIDE DEF g
<1>5. IsFiniteSet(Proc) /\ Cardinality(Proc) <= Len(f)
  BY <1>3, <1>4, FS_Surjection
<1> QED BY <1>2, <1>5, FS_CardinalityType

\* The queue has room for a process that is not in it: it holds others only,
\* each one once.
LEMMA RoomForOne ==
  ASSUME Files # {}, OneSRTInv, tied = {}, call = "none", NEW j \in Proc, j \notin queued[0]
  PROVE  size[0] < Capacity
<1> DEFINE g == [k \in 1 .. size[0] |-> processes[0][k]]
<1>1. size[0] \in Nat /\ Capacity \in Nat
  BY OneFacts, CapacityAssumption, UntiedFacts
<1>2. \A k \in 1 .. size[0] : processes[0][k] \in queued[0]
  BY RootIsShortest DEF Slots, Contents
<1>3. g \in [1 .. size[0] -> Proc \ {j}]
  BY <1>2, UntiedFacts
<1>4. g \in Injection(1 .. size[0], Proc \ {j})
  BY <1>3, RootIsShortest DEF Injection, IsInjective, Distinct
<1>5. IsFiniteSet(Proc \ {j}) /\ Cardinality(Proc \ {j}) = Cardinality(Proc) - 1
  BY ProcFinite, FS_RemoveElement
<1>6. Cardinality(1 .. size[0]) = size[0]
  BY <1>1, UpTo
<1> HIDE DEF g
<1>7. Cardinality(1 .. size[0]) <= Cardinality(Proc \ {j})
  BY <1>4, <1>5, FS_Injection
<1> QED BY <1>1, <1>5, <1>6, <1>7, ProcFinite

LEMMA InitOneSRTInv ==
  ASSUME Init
  PROVE  OneSRTInv
<1>1. PICK f \in Files :
        /\ inputList = f
        /\ nodeOf = [p \in Proc |-> f[CHOOSE i \in 1 .. Len(f) : ProcOf(f[i]) = p]]
  BY DEF Init, InitList
<1>2. NodesInv
  <2> SUFFICES ASSUME NEW n \in 1 .. Len(f) PROVE nodeOf[ProcOf(f[n])] = f[n]
    BY <1>1 DEF NodesInv
  <2>1. \A k \in 1 .. Len(f) : ProcOf(f[k]) = ProcOf(f[n]) => k = n
    BY FileNodes DEF PidsDiffer, ProcOf
  <2>2. (CHOOSE i \in 1 .. Len(f) : ProcOf(f[i]) = ProcOf(f[n])) = n
    BY <2>1
  <2>3. ProcOf(f[n]) \in Proc
    BY FileNodes
  <2> QED BY <1>1, <2>2, <2>3
<1>3. Coming = Proc
  BY <1>1, FileNodes DEF Coming
<1>4. pc = "sort" /\ minPtr = NULL /\ queued[0] = {}
  BY FilesAssumption DEF Init, InitCall
<1>5. Ready = {} /\ minPtr \notin Coming
  BY <1>3, <1>4, ProcAssumption DEF Ready, Unfinished
<1> QED BY <1>2, <1>4, <1>5, InitOneInv DEF OneSRTInv, ReadyInv, RootInv

\* What neither creates, runs nor deletes a process nor takes one off the list.
LEMMA SameSRTInv ==
  ASSUME OneSRTInv, OneInv', UNCHANGED <<queued, tied, remainingTime, nodeOf, minPtr>>,
         Coming' = Coming, NodesInv',
         {pc, pc'} \cap {"inserted", "finish"} = {}
  PROVE  OneSRTInv'
<1>1. Ready' = Ready
  BY DEF Ready, Unfinished
<1>2. ASSUME tied = {} PROVE ReadyInv' /\ RootInv'
  BY <1>1, <1>2, UntiedFacts DEF ReadyInv, RootInv
<1> QED BY <1>1, <1>2 DEF OneSRTInv

LEMMA SortSRTInv ==
  ASSUME OneSRTInv, Sort, OneInv'
  PROVE  OneSRTInv'
<1>1. /\ UNCHANGED <<queued, tied, remainingTime, nodeOf, minPtr, pc>> /\ pc = "sort"
      /\ SortStep
  BY DEF Sort, queueVars, historyVars, oneVars, clockVars
<1>2. NodesOf(inputList') = NodesOf(inputList)
  BY <1>1, SortPassInv, EndSortInv DEF OneSRTInv, OneInv, SortStep
<1>3. /\ \A n \in 1 .. Len(inputList') : \E k \in 1 .. Len(inputList) : inputList'[n] = inputList[k]
      /\ \A n \in 1 .. Len(inputList) : \E k \in 1 .. Len(inputList') : inputList[n] = inputList'[k]
  BY <1>2 DEF NodesOf
<1>4. Coming' = Coming
  BY <1>3 DEF Coming, ProcOf
<1>5. NodesInv'
  BY <1>1, <1>3 DEF OneSRTInv, NodesInv, ProcOf
<1> QED BY <1>1, <1>4, <1>5, SameSRTInv

LEMMA QuietSRTInv ==
  ASSUME OneSRTInv, Begin \/ Idle \/ EndArrivals \/ Done, OneInv'
  PROVE  OneSRTInv'
<1>1. /\ UNCHANGED <<queued, tied, remainingTime, nodeOf, minPtr, inputList>>
      /\ {pc, pc'} \cap {"inserted", "finish"} = {}
  BY DEF Begin, Idle, EndArrivals, Done, queueVars, historyVars, listVars, clockVars
<1>2. Coming' = Coming /\ NodesInv'
  BY <1>1 DEF Coming, OneSRTInv, NodesInv, ProcOf
<1> QED BY <1>1, <1>2, SameSRTInv

\* The new process is not in the queue, which has room for it.
LEMMA ArriveSRTInv ==
  ASSUME Files # {}, OneSRTInv, Arrive, OneInv'
  PROVE  OneSRTInv'
<1> DEFINE j == ProcOf(GetFromInputList)
<1>1. /\ pc = "arrive" /\ pc' = "inserted" /\ inputList # <<>> /\ call = "none"
      /\ GetFromInputList.arrival = globalTimer
      /\ InsertPQ(j, 0)
      /\ UNCHANGED <<inputList, remainingTime, globalTimer, nodeOf, minPtr, tied, processes, size>>
  BY DEF Arrive, Due, InsertPQ, RefuseInsert, StartInsert, heapVars, historyVars, listVars, clockVars
<1>2. Coming' = Coming /\ Ready' = Ready /\ NodesInv'
  BY <1>1 DEF Coming, Ready, Unfinished, OneSRTInv, NodesInv, ProcOf
<1>3. ASSUME tied = {} PROVE ReadyInv' /\ RootInv'
  <2>1. j \in Coming /\ j \in Proc
    BY <1>1, HeadFacts DEF OneSRTInv
  <2>2. queued[0] = Ready /\ minPtr \notin Coming
    BY <1>1, <1>3, UntiedFacts DEF ReadyInv
  <2>3. size[0] < Capacity
    <3>1. j \notin queued[0]
      BY <2>1, <2>2 DEF Ready
    <3> HIDE DEF j
    <3> QED BY <1>1, <1>3, <2>1, <3>1, RoomForOne
  <2>4. /\ call' = "siftUp" /\ hole' = size[0] + 1 /\ item' = j
        /\ queued' = [queued EXCEPT ![0] = @ \cup {j}]
    <3>1. size[0] # Capacity
      BY <2>3, OneFacts, CapacityAssumption DEF OneSRTInv
    <3> QED BY <1>1, <3>1 DEF InsertPQ, RefuseInsert, StartInsert, IsFullPQ
  <2>5. queued'[0] = Ready \cup {j}
    BY <1>3, <2>2, <2>4, UntiedFacts, OneFacts
  <2>6. ReadyInv'
    BY <1>1, <1>2, <2>2, <2>5 DEF ReadyInv, GetFromInputList
  <2>7. size[0] \in Nat /\ (size[0] > 0 => processes[0][1] = minPtr)
    BY <1>1, OneFacts DEF OneSRTInv, OneInv, MinIsRoot, IsEmptyPQ, FindMinRemainTimeProcess
  <2>8. RootInv'
    BY <1>1, <2>4, <2>7 DEF RootInv, Beats, GetFromInputList
  <2> QED BY <2>6, <2>8
<1> QED BY <1>1, <1>2, <1>3 DEF OneSRTInv

\* The node that is taken off the list is the one of the new process only.
LEMMA TakeHead ==
  ASSUME OneInv, NodesInv, inputList # <<>>, UpdateInputList, UNCHANGED nodeOf
  PROVE  Coming' = Coming \ {ProcOf(GetFromInputList)} /\ NodesInv'
<1>1. /\ Len(inputList') = Len(inputList) - 1 /\ inputList \in Seq(Node)
      /\ \A n \in 1 .. Len(inputList') : inputList'[n] = inputList[n + 1]
      /\ GetFromInputList = inputList[1]
  BY OneFacts DEF UpdateInputList, GetFromInputList
<1>2. \A n \in 1 .. Len(inputList) : ProcOf(inputList[n]) = ProcOf(inputList[1]) => n = 1
  BY <1>1 DEF OneInv, TimeInv, PidsDiffer, ProcOf
<1>3. \A n \in 1 .. Len(inputList') :
        n + 1 \in 1 .. Len(inputList) /\ n + 1 # 1 /\ inputList'[n] = inputList[n + 1]
  BY <1>1
<1>4. ASSUME NEW n \in 1 .. Len(inputList), n # 1
      PROVE  n - 1 \in 1 .. Len(inputList') /\ inputList'[n - 1] = inputList[n]
  <2>1. n - 1 \in 1 .. Len(inputList') /\ (n - 1) + 1 = n
    BY <1>1, <1>4
  <2> QED BY <1>1, <2>1
<1>5. Coming' = Coming \ {ProcOf(inputList[1])}
  <2>1. Coming' \subseteq Coming \ {ProcOf(inputList[1])}
    BY <1>2, <1>3 DEF Coming, ProcOf
  <2>2. Coming \ {ProcOf(inputList[1])} \subseteq Coming'
    BY <1>4 DEF Coming, ProcOf
  <2> QED BY <2>1, <2>2
<1>6. NodesInv'
  BY <1>3 DEF NodesInv, ProcOf
<1> QED BY <1>1, <1>5, <1>6

LEMMA PickMinSRTInv ==
  ASSUME OneSRTInv, PickMin, OneInv'
  PROVE  OneSRTInv'
<1> DEFINE j == ProcOf(GetFromInputList)
<1>1. /\ pc = "inserted" /\ pc' \in {"tick", "arrive"} /\ call = "none" /\ inputList # <<>>
      /\ UpdateInputList /\ minPtr' = processes[0][1] /\ size[0] >= 1
      /\ UNCHANGED <<queued, tied, remainingTime, nodeOf>>
  BY DEF PickMin, OneSRTInv, OneInv, PlaceInv, queueVars, historyVars, clockVars,
         FindMinRemainTimeProcess
<1>2. Coming' = Coming \ {j} /\ NodesInv'
  BY <1>1, TakeHead DEF OneSRTInv
<1>3. ASSUME tied = {} PROVE ReadyInv' /\ RootInv'
  <2>1. j \in Coming /\ j \in Proc /\ remainingTime[j] > 0
    BY <1>1, HeadFacts DEF OneSRTInv
  <2>2. queued[0] = Ready \cup {j} /\ Ready \cap Coming = {}
    BY <1>1, <1>3, UntiedFacts DEF ReadyInv, Ready
  <2>3. Ready' = Ready \cup {j}
    BY <1>1, <1>2, <2>1 DEF Ready, Unfinished
  <2>4. minPtr' \in queued[0]
    BY <1>1, <1>3, RootIsShortest, OneFacts DEF OneSRTInv
  <2> QED BY <1>1, <1>2, <2>2, <2>3, <2>4 DEF ReadyInv, RootInv
<1> QED BY <1>1, <1>2, <1>3 DEF OneSRTInv

\* The process that runs stays in the queue, with or without time left.
\* The process at the pointer has time left: the abstract scheduler runs it.
LEMMA TickSRTInv ==
  ASSUME OneSRTInv, Tick, OneInv'
  PROVE  OneSRTInv'
<1>1. /\ pc \in {"tick", "arrive"} /\ minPtr = processes[0][1] /\ size[0] > 0 /\ call = "none"
      /\ remainingTime' = [remainingTime EXCEPT ![minPtr] = @ - 1]
      /\ pc' = IF remainingTime'[minPtr] = 0 THEN "finish" ELSE TopOfLoop
      /\ TopOfLoop \in {"tick", "arrive"}
      /\ UNCHANGED <<queued, tied, nodeOf, minPtr, inputList>>
  BY OneFacts DEF Tick, AtTick, AfterTick, TopOfLoop, historyVars, listVars, OneSRTInv, OneInv,
     MinIsRoot, IsEmptyPQ, FindMinRemainTimeProcess
<1>2. Coming' = Coming /\ NodesInv'
  BY <1>1 DEF Coming, OneSRTInv, NodesInv, ProcOf
<1>3. ASSUME tied = {} PROVE ReadyInv' /\ RootInv'
  <2>1. queued[0] = Ready /\ minPtr \in Ready /\ minPtr \notin Coming
    BY <1>1, <1>3, UntiedFacts, RootIsShortest DEF ReadyInv
  <2>2. minPtr \in Proc /\ remainingTime[minPtr] \in Nat
    BY <2>1, <1>3, UntiedFacts
  <2>3. \A p \in Proc : remainingTime'[p] = IF p = minPtr THEN remainingTime[minPtr] - 1
                                             ELSE remainingTime[p]
    BY <1>1, <1>3, UntiedFacts
  <2>4. Unfinished' = IF remainingTime'[minPtr] = 0 THEN Unfinished \ {minPtr} ELSE Unfinished
    BY <2>1, <2>2, <2>3 DEF Unfinished, Ready
  <2>5. Ready' = IF remainingTime'[minPtr] = 0 THEN Ready \ {minPtr} ELSE Ready
    BY <1>2, <2>4 DEF Ready
  <2>6. pc' # "inserted" /\ (pc' = "finish" <=> remainingTime'[minPtr] = 0)
    BY <1>1
  <2> QED BY <1>1, <1>2, <2>1, <2>5, <2>6 DEF ReadyInv, RootInv
<1> QED BY <1>1, <1>2, <1>3 DEF OneSRTInv

\* The process deleted is the one that has no time left.
LEMMA FinishSRTInv ==
  ASSUME OneSRTInv, Finish, OneInv'
  PROVE  OneSRTInv'
<1>1. /\ pc = "finish" /\ pc' = "free" /\ minPtr = processes[0][1] /\ remainingTime[minPtr] = 0
      /\ queued' = [queued EXCEPT ![0] = @ \ {minPtr}] /\ tied \subseteq tied'
      /\ UNCHANGED <<remainingTime, nodeOf, minPtr, inputList>>
  BY DEF Finish, DeleteMin, listVars, clockVars, OneSRTInv, OneInv, PointerInv, MinIsRoot,
     FindMinRemainTimeProcess
<1>2. Coming' = Coming /\ Ready' = Ready /\ NodesInv'
  BY <1>1 DEF Coming, Ready, Unfinished, OneSRTInv, NodesInv, ProcOf
<1>3. ASSUME tied' = {} PROVE ReadyInv' /\ RootInv'
  <2>1. tied = {}
    BY <1>1, <1>3
  <2>2. queued[0] = Ready \cup {minPtr} /\ minPtr \notin Ready /\ minPtr \notin Coming
    BY <1>1, <2>1, UntiedFacts DEF ReadyInv, Ready, Unfinished
  <2>3. queued'[0] = Ready
    BY <1>1, <2>1, <2>2, UntiedFacts, OneFacts
  <2> QED BY <1>1, <1>2, <2>2, <2>3 DEF ReadyInv, RootInv
<1> QED BY <1>2, <1>3 DEF OneSRTInv

LEMMA FreeSRTInv ==
  ASSUME OneSRTInv, Free, OneInv'
  PROVE  OneSRTInv'
<1>1. /\ pc = "free" /\ pc' \in {"tick", "arrive"} /\ call = "none"
      /\ minPtr' = NextMin
      /\ UNCHANGED <<queued, tied, remainingTime, nodeOf, inputList>>
  BY DEF Free, TopOfLoop, historyVars, listVars, clockVars
<1>2. Coming' = Coming /\ Ready' = Ready /\ NodesInv'
  BY <1>1 DEF Coming, Ready, Unfinished, OneSRTInv, NodesInv, ProcOf
<1>3. ASSUME tied = {} PROVE ReadyInv' /\ RootInv'
  <2>1. queued[0] = Ready /\ minPtr \notin Coming
    BY <1>1, <1>3, UntiedFacts DEF ReadyInv
  <2>2. NULL \notin Coming /\ Ready \cap Coming = {}
    BY <1>3, UntiedFacts, ProcAssumption DEF Ready
  <2>3. size[0] > 0 => processes[0][1] \in Ready
    BY <1>1, <1>3, <2>1, RootIsShortest
  <2>4. size[0] # 0 => size[0] > 0
    BY OneFacts DEF OneSRTInv
  <2>5. minPtr' \notin Coming
    BY <1>1, <2>1, <2>2, <2>3, <2>4 DEF NextMin, IsEmptyPQ, FindMinRemainTimeProcess
  <2> QED BY <1>1, <1>2, <2>1, <2>5 DEF ReadyInv, RootInv
<1> QED BY <1>1, <1>2, <1>3 DEF OneSRTInv

\* One test of the loop of InsertPQ: the hole reaches the root only past it.
LEMMA SiftUpSRTInv ==
  ASSUME OneSRTInv, tied = {}, SiftUp, pc = "inserted", inputList # <<>>
  PROVE  LET j == ProcOf(GetFromInputList) IN
         /\ call' = "siftUp" => /\ item' = j
                                /\ IF hole' = 1 THEN Beats(j, size'[0]) ELSE processes'[0][1] = minPtr
         /\ call' = "none" => \/ processes'[0][1] = minPtr
                              \/ processes'[0][1] = j /\ Beats(j, size'[0] - 1)
<1> DEFINE j == ProcOf(GetFromInputList)
           parent == processes[0][hole \div 2]
<1>1. /\ j \in Proc /\ remainingTime[j] > 0 /\ remainingTime[j] \in Nat
  BY HeadFacts, UntiedFacts
<1>2. /\ call = "siftUp" /\ at = 0 /\ item = j /\ item' = j
      /\ IF hole = 1 THEN Beats(j, size[0]) ELSE processes[0][1] = minPtr
  BY UntiedFacts, OneFacts DEF SiftUp, RootInv
<1>3. hole \in 1 .. size[0] + 1 /\ size[0] \in Nat /\ size[0] < Capacity /\ Capacity \in Nat
  BY <1>2, UntiedFacts, OneFacts, CapacityAssumption DEF QueueInv, HoleInv
<1>4. processes[0] \in [0 .. Capacity -> Pointer] /\ processes \in [Cpu -> [0 .. Capacity -> Pointer]]
      /\ size \in [Cpu -> Nat]
  BY UntiedFacts, OneFacts, CapacityAssumption DEF QueueInv, TypeOK
<1>5. hole = 1 => remainingTime[parent] = 0
  BY UntiedFacts, OneFacts, <1>3 DEF QueueInv, ShapeInv
<1>6. hole # 1 => minPtr # NULL
  <2>1. CASE hole # 1
    <3>1. View(0) = [processes[0] EXCEPT ![hole] = item] /\ Count(0) = size[0] + 1
      BY <1>2 DEF View, Moving, Count
    <3>2. View(0)[1] \in Proc
      BY <1>3, <3>1, UntiedFacts, OneFacts DEF QueueInv, ShapeInv
    <3>3. View(0)[1] = minPtr
      BY <1>2, <1>3, <1>4, <2>1, <3>1
    <3> QED BY <3>2, <3>3, ProcAssumption
  <2> QED BY <2>1
<1>7. CASE /\ remainingTime[parent] > remainingTime[item]
           /\ processes' = [processes EXCEPT ![at][hole] = parent]
           /\ hole' = hole \div 2
           /\ UNCHANGED <<size, call>>
  <2>1. hole # 1 /\ processes[0][1] = minPtr
    BY <1>1, <1>2, <1>5, <1>7
  <2>2. processes'[0][1] = minPtr
    BY <1>2, <1>3, <1>4, <1>7, <2>1, OneFacts DEF OneSRTInv
  <2>3. hole' = 1 => Beats(j, size'[0])
    BY <1>2, <1>6, <1>7, <2>1 DEF Beats
  <2> QED BY <1>2, <1>7, <2>2, <2>3
<1>8. CASE /\ remainingTime[parent] <= remainingTime[item]
           /\ processes' = [processes EXCEPT ![at][hole] = item]
           /\ size' = [size EXCEPT ![at] = @ + 1]
           /\ call' = "none"
           /\ UNCHANGED hole
  <2>1. size'[0] - 1 = size[0]
    BY <1>2, <1>3, <1>4, <1>8, OneFacts DEF OneSRTInv
  <2>2. processes'[0][1] = IF hole = 1 THEN j ELSE processes[0][1]
    BY <1>2, <1>3, <1>4, <1>8, OneFacts DEF OneSRTInv
  <2> QED BY <1>2, <1>8, <2>1, <2>2
<1> QED BY <1>2, <1>7, <1>8 DEF SiftUp

\* A call leaves alone which processes the queue has been handed.
LEMMA QueueStepSRTInv ==
  ASSUME OneSRTInv, QueueStep, UNCHANGED <<listVars, oneVars>>, OneInv'
  PROVE  OneSRTInv'
<1>1. UNCHANGED <<queued, tied, remainingTime, pc, nodeOf, minPtr, inputList, globalTimer>>
  BY DEF QueueStep, SiftUp, SiftDown, PidSort, UndefinedIteration, historyVars, listVars, oneVars,
     clockVars
<1>2. Coming' = Coming /\ Ready' = Ready /\ NodesInv'
  BY <1>1 DEF Coming, Ready, Unfinished, OneSRTInv, NodesInv, ProcOf
<1>3. ASSUME tied = {} PROVE ReadyInv' /\ RootInv'
  <2>1. call' # "undefined"
    BY <1>1, <1>3 DEF OneInv, QueueInv, UndefinedOnlyIfTied
  <2>2. CASE pc # "inserted"
    BY <1>1, <1>2, <1>3, <2>2, UntiedFacts DEF ReadyInv, RootInv
  <2>3. CASE pc = "inserted"
    <3>1. inputList # <<>> /\ (call = "siftUp" \/ call = "none")
      BY <1>3, <2>3, UntiedFacts DEF OneInv, PlaceInv
    <3>2. SiftUp
      BY <2>1, <3>1 DEF QueueStep, SiftDown, PidSort, UndefinedIteration, SiftUp
    <3>3. ReadyInv'
      BY <1>1, <1>2, <1>3, UntiedFacts DEF ReadyInv, GetFromInputList
    <3>4. RootInv'
      BY <1>1, <1>3, <2>3, <3>1, <3>2, SiftUpSRTInv, UntiedFacts DEF RootInv, Beats, GetFromInputList
    <3> QED BY <3>3, <3>4
  <2> QED BY <2>2, <2>3
<1> QED BY <1>1, <1>2, <1>3 DEF OneSRTInv

LEMMA UseFreedSRTInv ==
  ASSUME OneSRTInv, UseFreed, OneInv'
  PROVE  OneSRTInv'
<1>1. UNCHANGED <<inputList, nodeOf>> /\ call' = "undefined"
  BY DEF UseFreed, listVars, oneVars, clockVars
<1>2. NodesInv'
  BY <1>1 DEF OneSRTInv, NodesInv, ProcOf
<1>3. tied' # {}
  BY <1>1 DEF OneInv, QueueInv, UndefinedOnlyIfTied
<1> QED BY <1>2, <1>3 DEF OneSRTInv

LEMMA StutterSRTInv ==
  ASSUME OneSRTInv, UNCHANGED vars
  PROVE  OneSRTInv'
<1>1. UNCHANGED <<queueVars, listVars, oneVars>>
  BY DEF vars
<1>2. /\ UNCHANGED <<queued, tied, remainingTime, pc, nodeOf, minPtr, inputList, globalTimer>>
      /\ UNCHANGED <<call, item, hole, processes, size>>
  BY <1>1 DEF queueVars, heapVars, callVars, historyVars, listVars, oneVars, clockVars
<1>3. Coming' = Coming /\ Ready' = Ready /\ NodesInv'
  BY <1>2 DEF Coming, Ready, Unfinished, OneSRTInv, NodesInv, ProcOf
<1>4. ReadyInv => ReadyInv'
  BY <1>2, <1>3 DEF ReadyInv, GetFromInputList
<1>5. RootInv => RootInv'
  BY <1>2 DEF RootInv, Beats, GetFromInputList
<1> QED BY <1>1, <1>2, <1>3, <1>4, <1>5, StutterOneInv DEF OneSRTInv

LEMMA NextSRTInv ==
  ASSUME Files # {}, OneSRTInv, [Next]_vars, OneInv'
  PROVE  OneSRTInv'
BY SortSRTInv, QuietSRTInv, ArriveSRTInv, PickMinSRTInv, TickSRTInv, FinishSRTInv, FreeSRTInv,
   QueueStepSRTInv, UseFreedSRTInv, StutterSRTInv DEF Next

\* While no deletion has met a tie, the queue of HandleOneCPU holds exactly the
\* processes that have arrived and not finished, but for the two places where
\* one of them is on its way.
THEOREM QueueHoldsTheReady == Spec => []OneSRTInv
<1>1. CASE Files = {}
  <2>1. ~Init
    BY <1>1 DEF Init
  <2> QED BY <2>1, PTL DEF Spec
<1>2. CASE Files # {}
  <2>1. OneSRTInv /\ [Next]_vars /\ OneInv' => OneSRTInv'
    BY <1>2, NextSRTInv
  <2> QED BY <2>1, InitOneSRTInv, OneCpuInvariant, PTL DEF Spec
<1> QED BY <1>1, <1>2

-----------------------------------------------------------------------------
(***************************************************************************)
(* The step simulation.                                                    *)
(***************************************************************************)
\* The abstract scheduler sees the same processes ready.
LEMMA AbstractReady ==
  Abstract!Ready = Ready
BY DEF Abstract!Ready, Ready, Unfinished

\* No process that is still in the list is due: the list is sorted.
LEMMA AbstractAllArrived ==
  ASSUME OneSRTInv, pc # "sort", inputList = <<>> \/ ~Due
  PROVE  Abstract!AllArrived
<1> SUFFICES ASSUME NEW p \in Coming, p \in Proc PROVE arrivalTime(p) > globalTimer
  BY DEF Abstract!AllArrived
<1>1. PICK n \in 1 .. Len(inputList) : p = ProcOf(inputList[n])
  BY DEF Coming
<1>2. /\ inputList # <<>> /\ 1 \in 1 .. Len(inputList) /\ GetFromInputList = inputList[1]
      /\ globalTimer \in Nat
  BY <1>1, OneFacts DEF GetFromInputList, OneSRTInv
<1>3. inputList[1].arrival \in Nat /\ inputList[n].arrival \in Nat
  <2>1. inputList[1] \in Node /\ inputList[n] \in Node
    BY <1>1, <1>2, OneFacts DEF OneSRTInv
  <2> QED BY <2>1 DEF Node
<1>4. globalTimer <= inputList[1].arrival /\ inputList[1].arrival # globalTimer
  BY <1>2 DEF OneSRTInv, OneInv, NoArrivalMissed, Due
<1>5. inputList[1].arrival <= inputList[n].arrival
  BY <1>1, <1>2 DEF OneSRTInv, OneInv, PlaceInv, ListInv, Sorted
<1>6. arrivalTime(p) = inputList[n].arrival
  BY <1>1 DEF OneSRTInv, NodesInv, arrivalTime
<1> QED BY <1>2, <1>3, <1>4, <1>5, <1>6

\* What the abstract scheduler does not see.
LEMMA SameSRT ==
  ASSUME UNCHANGED <<globalTimer, nodeOf, remainingTime, minPtr>>, Coming' = Coming
  PROVE  UNCHANGED Abstract!srtVars
BY DEF Abstract!srtVars, arrivalTime

\* All processes are still to come, and each of them needs some time.
LEMMA InitSRT ==
  ASSUME Init
  PROVE  Abstract!Init
<1>1. PICK f \in Files :
        /\ inputList = f
        /\ nodeOf = [p \in Proc |-> f[CHOOSE i \in 1 .. Len(f) : ProcOf(f[i]) = p]]
  BY DEF Init, InitList
<1>2. \A p \in Proc : arrivalTime(p) \in Nat /\ burstTime(p) \in Nat \ {0}
  <2> TAKE p \in Proc
  <2>1. \E n \in 1 .. Len(f) : ProcOf(f[n]) = p
    BY FileNodes
  <2>2. (CHOOSE i \in 1 .. Len(f) : ProcOf(f[i]) = p) \in 1 .. Len(f)
    BY <2>1
  <2>3. nodeOf[p] \in Node
    BY <1>1, <2>2, FileNodes
  <2> QED BY <2>3 DEF arrivalTime, burstTime, Node
<1>3. Coming = Proc
  BY <1>1, FileNodes DEF Coming
<1>4. \A p \in Proc : remainingTime[p] = burstTime(p)
  BY ProcAssumption DEF Init
<1>5. globalTimer = 0 /\ minPtr = NULL
  BY DEF Init
<1> QED BY <1>2, <1>3, <1>4, <1>5 DEF Abstract!Init

\* An empty queue means that nothing is ready.
LEMMA IdleSRT ==
  ASSUME OneSRTInv, tied = {}, Idle
  PROVE  Abstract!Idle
<1>1. /\ pc = "arrive" /\ inputList # <<>> /\ ~Due /\ size[0] = 0
      /\ globalTimer' = globalTimer + 1
      /\ UNCHANGED <<inputList, remainingTime, nodeOf, minPtr>>
  BY DEF Idle, IsEmptyPQ, queueVars, listVars
<1>2. call = "none"
  BY <1>1, UntiedFacts DEF OneInv, PlaceInv
<1>3. Ready = {}
  BY <1>1, <1>2, UntiedFacts, RootIsShortest DEF ReadyInv, Slots, Contents
<1>4. Proc \ Coming # Proc
  BY <1>1, HeadFacts, UntiedFacts
<1>5. Coming' = Coming
  BY <1>1 DEF Coming, ProcOf
<1> QED BY <1>1, <1>3, <1>4, <1>5, AbstractReady, AbstractAllArrived DEF Abstract!Idle, arrivalTime

\* The process at the pointer has time left: the abstract scheduler runs it.
LEMMA TickSRT ==
  ASSUME OneSRTInv, tied = {}, Tick
  PROVE  Abstract!Run
<1>1. /\ pc \in {"tick", "arrive"} /\ (inputList = <<>> \/ ~Due)
      /\ minPtr \in Proc /\ minPtr # NULL /\ remainingTime[minPtr] > 0
      /\ remainingTime' = [remainingTime EXCEPT ![minPtr] = @ - 1]
      /\ globalTimer' = globalTimer + 1
      /\ UNCHANGED <<nodeOf, minPtr, inputList>>
  BY UntiedFacts, OneFacts
     DEF Tick, AtTick, listVars, OneInv, PlaceInv, TimeInv
<1>2. Abstract!AllArrived
  BY <1>1, AbstractAllArrived
<1>3. Coming' = Coming
  BY <1>1 DEF Coming, ProcOf
<1>4. \A p \in Proc : remainingTime'[p] = IF p = minPtr THEN remainingTime[p] - 1
                                           ELSE remainingTime[p]
  BY <1>1, UntiedFacts
<1>5. remainingTime[minPtr] \in Nat
  BY <1>1, UntiedFacts
<1>6. [p \in Proc |-> remainingTime'[p]]
        = [[p \in Proc |-> remainingTime[p]] EXCEPT ![minPtr] = @ - 1]
  BY <1>1, <1>4
<1>7. (IF minPtr # NULL /\ remainingTime'[minPtr] > 0 THEN minPtr ELSE NULL)
        = IF remainingTime[minPtr] = 1 THEN NULL ELSE minPtr
  BY <1>1, <1>4, <1>5
<1> QED BY <1>1, <1>2, <1>3, <1>6, <1>7 DEF Abstract!Run, arrivalTime

\* The new root is a process with the shortest remaining time.
LEMMA FreeSRT ==
  ASSUME OneSRTInv, tied = {}, Free
  PROVE  [Abstract!Dispatch]_(Abstract!srtVars)
<1>1. /\ pc = "free" /\ call = "none" /\ minPtr' = NextMin
      /\ remainingTime[minPtr] = 0 /\ minPtr \in Proc
      /\ UNCHANGED <<globalTimer, nodeOf, remainingTime, inputList>>
  BY UntiedFacts, OneFacts DEF Free, clockVars, listVars, OneInv, PointerInv
<1>2. Coming' = Coming
  BY <1>1 DEF Coming, ProcOf
<1>3. queued[0] = Ready /\ size[0] \in Nat
  BY <1>1, UntiedFacts, RootIsShortest DEF ReadyInv
<1>4. CASE size[0] = 0
  <2>1. minPtr' \in {NULL, minPtr}
    BY <1>1, <1>4 DEF NextMin, IsEmptyPQ
  <2>2. (IF minPtr' # NULL /\ remainingTime'[minPtr'] > 0 THEN minPtr' ELSE NULL)
          = IF minPtr # NULL /\ remainingTime[minPtr] > 0 THEN minPtr ELSE NULL
    BY <1>1, <2>1
  <2> QED BY <1>1, <1>2, <2>2 DEF Abstract!srtVars, arrivalTime
<1>5. CASE size[0] > 0
  <2>1. minPtr' = processes[0][1]
    BY <1>1, <1>5 DEF NextMin, IsEmptyPQ, FindMinRemainTimeProcess
  <2>2. minPtr' \in Ready /\ \A q \in Ready : remainingTime[minPtr'] <= remainingTime[q]
    BY <1>1, <1>3, <1>5, <2>1, RootIsShortest
  <2>3. minPtr' \in Proc /\ minPtr' # NULL /\ remainingTime[minPtr'] > 0
    BY <2>2, UntiedFacts, ProcAssumption DEF Ready, Unfinished
  <2>4. minPtr' \in Abstract!Shortest
    BY <2>2, <2>3, AbstractReady, UntiedFacts DEF Abstract!Shortest
  <2> QED BY <1>1, <1>2, <2>3, <2>4 DEF Abstract!Dispatch, arrivalTime
<1> QED BY <1>3, <1>4, <1>5

\* The process that has arrived is chosen if it needs less time than the one
\* that has the processor.
LEMMA PickMinSRT ==
  ASSUME OneSRTInv, tied = {}, PickMin
  PROVE  Abstract!Arrive(ProcOf(GetFromInputList))
<1> DEFINE j == ProcOf(GetFromInputList)
           cur == IF minPtr # NULL /\ remainingTime[minPtr] > 0 THEN minPtr ELSE NULL
           root == processes[0][1]
<1>1. /\ pc = "inserted" /\ call = "none" /\ inputList # <<>>
      /\ UpdateInputList /\ minPtr' = root /\ size[0] >= 1
      /\ UNCHANGED <<globalTimer, remainingTime, nodeOf>>
  BY DEF PickMin, OneSRTInv, OneInv, PlaceInv, queueVars, clockVars, FindMinRemainTimeProcess
<1>2. /\ j \in Coming /\ j \in Proc /\ j # NULL /\ remainingTime[j] > 0 /\ remainingTime[j] \in Nat
      /\ arrivalTime(j) = globalTimer
  BY <1>1, HeadFacts, UntiedFacts DEF RootInv
<1>3. Coming' = Coming \ {j}
  BY <1>1, TakeHead DEF OneSRTInv
<1>4. /\ queued[0] = Ready \cup {j} /\ minPtr \notin Coming
      /\ \A p \in Ready : p \in Proc /\ p # NULL /\ remainingTime[p] > 0 /\ p \notin Coming
                          /\ remainingTime[p] \in Nat
  BY <1>1, UntiedFacts, ProcAssumption DEF ReadyInv, Ready, Unfinished
<1>5. /\ root \in queued[0] /\ size[0] \in Nat
      /\ \A p \in queued[0] : remainingTime[root] <= remainingTime[p]
      /\ queued[0] = Slots(0)
  BY <1>1, RootIsShortest, OneFacts DEF OneSRTInv
<1>6. \/ root = minPtr
      \/ root = j /\ Beats(j, size[0] - 1)
  BY <1>1, UntiedFacts DEF RootInv
<1>7. minPtr # NULL /\ minPtr \in Proc /\ remainingTime[minPtr] > 0 => minPtr \in Ready
  BY <1>4 DEF Ready, Unfinished
<1>8. size[0] = 1 => Ready = {}
  BY <1>2, <1>4, <1>5 DEF Slots, Contents
<1>9. minPtr \in Proc \cup {NULL}
  BY UntiedFacts DEF OneInv, OneTypeOK
<1>10. cur = NULL => Ready = {}
  <2>1. CASE root = minPtr
    <3>1. root # NULL /\ remainingTime[root] > 0
      BY <1>2, <1>4, <1>5
    <3> QED BY <2>1, <3>1
  <2>2. CASE root = j /\ Beats(j, size[0] - 1)
    <3>1. CASE size[0] = 1
      BY <1>8, <3>1
    <3>2. CASE size[0] > 1
      <4>1. minPtr # NULL /\ remainingTime[j] < remainingTime[minPtr]
        BY <1>5, <2>2, <3>2 DEF Beats
      <4>2. remainingTime[minPtr] \in Nat
        BY <1>9, <4>1, UntiedFacts
      <4> QED BY <1>2, <4>1, <4>2
    <3> QED BY <1>1, <1>5, <3>1, <3>2
  <2> QED BY <1>6, <2>1, <2>2
<1>11. root = IF cur = NULL \/ remainingTime[j] < remainingTime[cur] THEN j ELSE cur
  <2>1. CASE Ready = {}
    <3>1. cur = NULL
      BY <1>7, <1>9, <2>1
    <3> QED BY <1>4, <1>5, <2>1, <3>1
  <2>2. CASE Ready # {}
    <3>1. cur = minPtr /\ minPtr # NULL /\ minPtr \in Ready
      BY <1>7, <1>9, <1>10, <2>2
    <3>2. CASE root = minPtr
      <4>1. ~(remainingTime[j] < remainingTime[minPtr])
        BY <1>2, <1>4, <1>5, <3>1, <3>2
      <4> QED BY <3>1, <3>2, <4>1
    <3>3. CASE root = j /\ Beats(j, size[0] - 1)
      BY <1>1, <1>5, <1>8, <2>2, <3>1, <3>3 DEF Beats
    <3> QED BY <1>6, <3>2, <3>3
  <2> QED BY <2>1, <2>2
<1>12. root \in Proc /\ root # NULL /\ remainingTime[root] > 0
  BY <1>2, <1>4, <1>5
<1>13. Proc \ Coming' = (Proc \ Coming) \cup {j}
  BY <1>2, <1>3
<1>14. cur \in Proc \cup {NULL}
  BY <1>9
<1> QED
  BY <1>1, <1>2, <1>10, <1>11, <1>12, <1>13, <1>14, AbstractReady, ProcAssumption
  DEF Abstract!Arrive, arrivalTime

\* The other steps, of which none takes a process off the list.
LEMMA OtherComing ==
  ASSUME OneSRTInv,
         \/ Sort \/ Begin \/ Arrive \/ EndArrivals \/ Finish \/ Done \/ UseFreed
         \/ QueueStep /\ UNCHANGED <<listVars, oneVars>>
         \/ UNCHANGED vars
  PROVE  Coming' = Coming
<1>1. CASE Sort
  <2>1. NodesOf(inputList') = NodesOf(inputList)
    BY <1>1, SortPassInv, EndSortInv DEF Sort, SortStep, OneSRTInv, OneInv
  <2>2. Coming = {ProcOf(node) : node \in NodesOf(inputList)}
    BY DEF Coming, NodesOf
  <2>3. Coming' = {ProcOf(node) : node \in NodesOf(inputList')}
    BY DEF Coming, NodesOf, ProcOf
  <2> QED BY <2>1, <2>2, <2>3
<1>2. CASE \/ Begin \/ Arrive \/ EndArrivals \/ Finish \/ Done \/ UseFreed
           \/ UNCHANGED listVars
  <2>1. UNCHANGED inputList
    BY <1>2 DEF Begin, Arrive, EndArrivals, Finish, Done, UseFreed, listVars
  <2> QED BY <2>1 DEF Coming, ProcOf
<1> QED BY <1>1, <1>2 DEF vars

\* They are none of the abstract scheduler's.
LEMMA OtherSRT ==
  ASSUME OneSRTInv,
         \/ Sort \/ Begin \/ Arrive \/ EndArrivals \/ Finish \/ Done \/ UseFreed
         \/ QueueStep /\ UNCHANGED <<listVars, oneVars>>
         \/ UNCHANGED vars
  PROVE  UNCHANGED Abstract!srtVars
<1>1. UNCHANGED <<globalTimer, nodeOf, remainingTime, minPtr>>
  BY DEF Sort, Begin, Arrive, EndArrivals, Finish, Done, UseFreed, QueueStep, SiftUp, SiftDown,
         PidSort, UndefinedIteration, vars, queueVars, oneVars, clockVars
<1> QED BY <1>1, OtherComing, SameSRT

\* A heap that has met a tie stays marked.
LEMMA TiedStays ==
  ASSUME OneSRTInv, [Next]_vars
  PROVE  tied \subseteq tied'
BY DEF Next, Sort, Begin, Arrive, PickMin, Idle, EndArrivals, Tick, Finish, Free, Done, UseFreed,
       QueueStep, SiftUp, SiftDown, PidSort, UndefinedIteration, InsertPQ, RefuseInsert, StartInsert,
       DeleteMin, vars, queueVars, historyVars

\* HandleOneCPU runs the process with the shortest remaining time (README.md:14)
\* for every set of input files: until a deletion meets a tie, each of its steps
\* is one of shortest remaining time or changes nothing that one speaks of.
THEOREM SchedulesTheShortest == Spec => ImplementsSRT
<1>1. ASSUME OneSRTInv, [Next]_vars
      PROVE  [Abstract!Next \/ tied' # {}]_(Abstract!srtVars)
  <2> SUFFICES ASSUME tied' = {} PROVE [Abstract!Next]_(Abstract!srtVars)
    OBVIOUS
  <2>1. tied = {}
    BY <1>1, TiedStays
  <2>2. ASSUME PickMin PROVE Abstract!Next
    <3>1. ProcOf(GetFromInputList) \in Proc
      BY <1>1, <2>1, <2>2, HeadFacts, UntiedFacts DEF PickMin, OneInv, PlaceInv
    <3> QED BY <1>1, <2>1, <2>2, <3>1, PickMinSRT DEF Abstract!Next
  <2>3. ASSUME Idle PROVE Abstract!Next
    BY <1>1, <2>1, <2>3, IdleSRT DEF Abstract!Next
  <2>4. ASSUME Tick PROVE Abstract!Next
    BY <1>1, <2>1, <2>4, TickSRT DEF Abstract!Next
  <2>5. ASSUME Free PROVE [Abstract!Next]_(Abstract!srtVars)
    BY <1>1, <2>1, <2>5, FreeSRT DEF Abstract!Next
  <2> QED BY <1>1, <2>2, <2>3, <2>4, <2>5, OtherSRT DEF Next
<1> QED BY <1>1, InitSRT, QueueHoldsTheReady, PTL DEF Spec, ImplementsSRT

-----------------------------------------------------------------------------
(***************************************************************************)
(* What the simulation with one processor prints while it runs: the number *)
(* of processes that remain on a FINISHED line, and a RUNNING line just    *)
(* when the processor turns to a process.                                  *)
(***************************************************************************)

\* The queue has a slot for each process it was handed, and one process has no
\* time left when the number is computed.
LEMMA CountsReady ==
  ASSUME OneSRTInv
  PROVE  RemainingIsCounted
<1> SUFFICES ASSUME Sound, pc = "finish" PROVE ProcRemaining = Cardinality(Ready)
  BY DEF RemainingIsCounted
<1>1. tied = {} /\ call = "none" /\ remainingTime[minPtr] = 0
  BY DEF Sound, OneSRTInv, OneInv, PointerInv
<1>2. /\ queued[0] = Ready \cup {minPtr} /\ minPtr \notin Ready
      /\ queued[0] = Slots(0) /\ Distinct(processes[0], size[0]) /\ size[0] \in Nat
  BY <1>1, UntiedFacts, RootIsShortest DEF ReadyInv, Ready, Unfinished
<1> DEFINE g == [k \in 1 .. size[0] |-> processes[0][k]]
<1>3. g \in Injection(1 .. size[0], queued[0]) /\ g \in Surjection(1 .. size[0], queued[0])
  BY <1>2 DEF Slots, Contents, Distinct, Injection, Surjection, IsInjective
<1>4. IsFiniteSet(1 .. size[0]) /\ Cardinality(1 .. size[0]) = size[0]
  BY <1>2, UpTo
<1> HIDE DEF g
<1>5. IsFiniteSet(queued[0]) /\ Cardinality(queued[0]) = size[0]
  BY <1>3, <1>4, FS_Surjection
<1>6. Cardinality(queued[0] \ {minPtr}) = size[0] - 1
  BY <1>2, <1>5, FS_RemoveElement
<1>7. queued[0] \ {minPtr} = Ready
  BY <1>2
<1> QED BY <1>6, <1>7 DEF ProcRemaining

\* A process that is ready is marked if and only if it goes on.
LEMMA AnnouncesSwitch ==
  ASSUME OneOutputInv
  PROVE  AnnouncedOnSwitch
<1> SUFFICES ASSUME Sound, AtTick PROVE Announces <=> lastRan # minPtr
  BY DEF AnnouncedOnSwitch
<1>1. /\ tied = {} /\ call = "none" /\ pc \notin {"inserted", "finish"} /\ size[0] > 0
      /\ minPtr = processes[0][1] /\ OneSRTInv /\ MarkInv
  BY OneFacts DEF Sound, AtTick, OneOutputInv, OneSRTInv, OneInv, MinIsRoot, IsEmptyPQ,
     FindMinRemainTimeProcess
<1>2. minPtr \in Ready
  BY <1>1, UntiedFacts, RootIsShortest DEF ReadyInv
<1> QED BY <1>1, <1>2 DEF MarkInv, Announces

-----------------------------------------------------------------------------
\* Nothing is marked before the first tick.
LEMMA InitOutputInv ==
  ASSUME Init
  PROVE  OneOutputInv
<1>1. isRunning = {} /\ lastRan = NULL /\ minPtr = NULL /\ pc = "sort"
  BY DEF Init
<1>2. OneSRTInv
  BY InitOneSRTInv
<1>3. tied = {}
  BY DEF Init, InitCall
<1> QED BY <1>1, <1>2, <1>3, UntiedFacts, ProcAssumption DEF OneOutputInv, MarkInv

\* Steps that leave the pointer and the marks alone.
LEMMA SameMarkInv ==
  ASSUME MarkInv, UNCHANGED <<remainingTime, minPtr, isRunning, lastRan>>, Coming' = Coming,
         pc' \in {"finish", "free"} => pc \in {"finish", "free"}
  PROVE  MarkInv'
BY DEF MarkInv, Ready, Unfinished

LEMMA OtherMarkInv ==
  ASSUME OneSRTInv, MarkInv,
         \/ Sort \/ Begin \/ Arrive \/ EndArrivals \/ Finish \/ Done \/ UseFreed
         \/ QueueStep /\ UNCHANGED <<listVars, oneVars>>
         \/ UNCHANGED vars
  PROVE  MarkInv'
<1>1. /\ UNCHANGED <<remainingTime, minPtr, isRunning, lastRan>>
      /\ pc' \in {"finish", "free"} => pc \in {"finish", "free"}
  BY DEF Sort, Begin, Arrive, EndArrivals, Finish, Done, UseFreed, QueueStep, SiftUp, SiftDown,
         PidSort, UndefinedIteration, vars, queueVars, oneVars, outputVars
<1>2. Coming' = Coming
  BY OtherComing
<1> QED BY <1>1, <1>2, SameMarkInv

\* The process that loses the processor loses its mark, the new one has none.
LEMMA PickMinMarkInv ==
  ASSUME OneSRTInv, tied = {}, MarkInv, PickMin
  PROVE  MarkInv'
<1> DEFINE j == ProcOf(GetFromInputList)
<1>1. /\ pc = "inserted" /\ pc' \in {"tick", "arrive"} /\ call = "none" /\ inputList # <<>>
      /\ UpdateInputList /\ minPtr' = processes[0][1]
      /\ isRunning' = IF Pauses(processes[0][1]) THEN isRunning \ {minPtr} ELSE isRunning
      /\ UNCHANGED <<remainingTime, lastRan, nodeOf>>
  BY DEF PickMin, OneSRTInv, OneInv, PlaceInv, queueVars, clockVars, outputVars,
         FindMinRemainTimeProcess
<1>2. /\ j \in Coming /\ j \in Proc /\ remainingTime[j] > 0 /\ Coming' = Coming \ {j}
  BY <1>1, HeadFacts, UntiedFacts, TakeHead
<1>3. Ready' = Ready \cup {j} /\ Ready \cap Coming = {} /\ minPtr \notin Coming
  BY <1>1, <1>2, UntiedFacts DEF Ready, Unfinished, ReadyInv
<1>4. minPtr' \in {minPtr, j}
  BY <1>1, UntiedFacts DEF RootInv
<1>5. j \notin isRunning /\ j # lastRan /\ j # minPtr
  BY <1>2, <1>3 DEF MarkInv
<1>6. CASE minPtr' = minPtr
  <2>1. isRunning' = isRunning
    BY <1>1, <1>6 DEF Pauses
  <2> QED BY <1>1, <1>2, <1>3, <1>5, <1>6, <2>1 DEF MarkInv
<1>7. CASE minPtr' = j
  <2>1. isRunning' \subseteq isRunning /\ (minPtr # NULL => isRunning' = isRunning \ {minPtr})
    BY <1>1, <1>5, <1>7 DEF Pauses
  <2>2. \A p \in Ready : p \notin isRunning'
    BY <2>1, UntiedFacts, ProcAssumption DEF MarkInv
  <2> QED BY <1>1, <1>2, <1>3, <1>5, <1>7, <2>1, <2>2 DEF MarkInv
<1> QED BY <1>4, <1>6, <1>7

\* Nothing is ready while the processor rests.
LEMMA IdleMarkInv ==
  ASSUME OneSRTInv, tied = {}, MarkInv, Idle
  PROVE  MarkInv'
<1>1. /\ pc = "arrive" /\ pc' = "arrive" /\ size[0] = 0 /\ lastRan' = NULL
      /\ UNCHANGED <<inputList, remainingTime, minPtr, isRunning>>
  BY DEF Idle, IsEmptyPQ, queueVars, listVars
<1>2. call = "none"
  BY <1>1, UntiedFacts DEF OneInv, PlaceInv
<1>3. Ready = {}
  BY <1>1, <1>2, UntiedFacts, RootIsShortest DEF ReadyInv, Slots, Contents
<1>4. Coming' = Coming /\ Ready' = Ready
  BY <1>1 DEF Coming, Ready, Unfinished, ProcOf
<1> QED BY <1>1, <1>3, <1>4, UntiedFacts, ProcAssumption DEF MarkInv

LEMMA TickMarkInv ==
  ASSUME OneSRTInv, tied = {}, MarkInv, Tick
  PROVE  MarkInv'
<1>1. /\ minPtr \in Proc /\ isRunning' = isRunning \cup {minPtr} /\ lastRan' = minPtr
      /\ remainingTime' = [remainingTime EXCEPT ![minPtr] = @ - 1]
      /\ UNCHANGED <<minPtr, inputList>>
  BY UntiedFacts, OneFacts DEF Tick, listVars
<1>2. Coming' = Coming /\ minPtr \notin Coming
  BY <1>1, UntiedFacts DEF Coming, ProcOf, ReadyInv
<1>3. \A p \in Ready' : p # minPtr => p \in Ready
  BY <1>1, <1>2, UntiedFacts DEF Ready, Unfinished
<1> QED BY <1>1, <1>2, <1>3 DEF MarkInv

\* The process that gets the processor next is not the one that ran last.
LEMMA FreeMarkInv ==
  ASSUME OneSRTInv, tied = {}, MarkInv, Free
  PROVE  MarkInv'
<1>1. /\ pc = "free" /\ pc' \in {"tick", "arrive"} /\ remainingTime[minPtr] = 0
      /\ lastRan = minPtr
      /\ UNCHANGED <<inputList, remainingTime, isRunning, lastRan>>
  BY UntiedFacts
     DEF Free, TopOfLoop, listVars, outputVars, OneInv, PointerInv, MarkInv
<1>2. Coming' = Coming /\ Ready' = Ready
  BY <1>1 DEF Coming, Ready, Unfinished, ProcOf
<1>3. minPtr \notin Ready
  BY <1>1 DEF Ready, Unfinished
<1>4. \A p \in Ready : p \notin isRunning /\ p # lastRan
  BY <1>1, <1>3 DEF MarkInv
<1> QED BY <1>1, <1>2, <1>4 DEF MarkInv

LEMMA NextOutputInv ==
  ASSUME OneOutputInv, [Next]_vars, OneSRTInv'
  PROVE  OneOutputInv'
<1>1. ASSUME tied' = {} PROVE MarkInv'
  <2>1. OneSRTInv /\ tied = {} /\ MarkInv
    BY <1>1, TiedStays DEF OneOutputInv
  <2> QED BY <2>1, OtherMarkInv, PickMinMarkInv, IdleMarkInv, TickMarkInv, FreeMarkInv DEF Next
<1> QED BY <1>1 DEF OneOutputInv

-----------------------------------------------------------------------------
\* The marks, the pointer and the process that ran last agree in both loops of
\* the simulation with one processor.
THEOREM MarksWhatRuns == Spec => []OneOutputInv
<1>1. OneOutputInv /\ [Next]_vars /\ OneSRTInv' => OneOutputInv'
  BY NextOutputInv
<1> QED BY <1>1, InitOutputInv, QueueHoldsTheReady, PTL DEF Spec

\* HandleOneCPU prints a RUNNING line just when the processor turns to another
\* process than the one it ran in the tick before.
THEOREM AnnouncesEachSwitch == Spec => []AnnouncedOnSwitch
BY MarksWhatRuns, AnnouncesSwitch, PTL

\* The proc_remaining that HandleOneCPU prints is the number of processes that
\* have arrived and not finished.
THEOREM CountsTheRemaining == Spec => []RemainingIsCounted
BY QueueHoldsTheReady, CountsReady, PTL

-----------------------------------------------------------------------------
(***************************************************************************)
(* What the simulation with one processor prints at its end.               *)
(***************************************************************************)

\* The numbers of a process.
LEMMA RunFacts ==
  ASSUME OneInv, ReportInv
  PROVE  /\ \A p \in Proc : arrivalTime(p) \in Nat /\ burstTime(p) \in Nat \ {0} /\ finishedAt[p] \in Nat
         /\ \A p \in Reported : p \in Proc /\ Runs[p] \in Fraction
         /\ Reported \subseteq Proc /\ Coming \subseteq Proc
         /\ globalTimer \in Nat /\ remainingTime \in [Proc \cup {DummyHead} -> Nat]
<1>1. \A p \in Proc : arrivalTime(p) \in Nat /\ burstTime(p) \in Nat \ {0} /\ finishedAt[p] \in Nat
  <2> TAKE p \in Proc
  <2>1. nodeOf[p] \in Node /\ finishedAt[p] \in Nat
    BY DEF ReportInv, OneInv, OneTypeOK
  <2> QED BY <2>1 DEF Node, arrivalTime, burstTime
<1>2. ASSUME NEW p \in Reported PROVE p \in Proc /\ Runs[p] \in Fraction
  <2>1. p \in Proc /\ arrivalTime(p) < finishedAt[p]
    BY DEF Reported, ReportInv
  <2>2. finishedAt[p] - arrivalTime(p) \in Nat
    BY <1>1, <2>1
  <2> QED BY <1>1, <2>1, <2>2 DEF Runs, Fraction
<1>3. Coming \subseteq Proc
  BY DEF OneInv, TimeInv, Coming
<1> QED BY <1>1, <1>2, <1>3, OneFacts DEF Reported, TypeOK

LEMMA InitReportInv ==
  ASSUME Init
  PROVE  ReportInv /\ WorkInv
<1>1. PICK f \in Files :
        /\ inputList = f
        /\ nodeOf = [p \in Proc |-> f[CHOOSE i \in 1 .. Len(f) : ProcOf(f[i]) = p]]
  BY DEF Init, InitList
<1>2. \A p \in Proc : nodeOf[p] \in Node
  <2> TAKE p \in Proc
  <2>1. \E n \in 1 .. Len(f) : ProcOf(f[n]) = p
    BY FileNodes
  <2>2. (CHOOSE i \in 1 .. Len(f) : ProcOf(f[i]) = p) \in 1 .. Len(f)
    BY <2>1
  <2> QED BY <1>1, <2>2, FileNodes
<1>3. Coming = Proc
  BY <1>1, FileNodes DEF Coming
<1>4. /\ pc = "sort" /\ globalTimer = 0 /\ finishedAt = [p \in Proc |-> 0]
      /\ stats = [totalDeltaTime |-> 0, numRunnedProcesses |-> 0,
                  maxTimeOverhead |-> <<0, 1>>, totalTimeOverhead |-> <<0, 1>>]
  BY DEF Init, InitStats
<1>5. \A p \in Proc : remainingTime[p] = burstTime(p) /\ burstTime(p) > 0
  <2> TAKE p \in Proc
  <2>1. remainingTime[p] = burstTime(p)
    BY ProcAssumption DEF Init
  <2>2. nodeOf[p] \in Node
    BY <1>2
  <2> QED BY <2>1, <2>2 DEF burstTime, Node
<1>6. Reported = {} /\ Arrived = {}
  BY <1>3, <1>4 DEF Reported, Arrived
<1>7. Agrees(stats, Runs, Reported)
  BY <1>4, <1>6, NothingAgrees
<1>8. ReportInv
  BY <1>2, <1>4, <1>5, <1>6, <1>7 DEF ReportInv
<1>9. WorkInv
  <2>1. Ready = {} /\ Coming # {}
    <3>1. inputList # <<>>
      BY <1>1, FilesAssumption DEF ListOf
    <3>2. 1 \in 1 .. Len(inputList)
      BY <1>1, <3>1, FileNodes
    <3> QED BY <1>3, <3>2 DEF Coming, Ready, Unfinished
  <2>2. SumFunctionOnSet(Bursts, {}) = 0 /\ SumFunctionOnSet(remainingTime, {}) = 0
    BY SumAdded, FS_EmptySet
  <2>3. \A t : {p \in Arrived : arrivalTime(p) >= t} = {}
    BY <1>6
  <2>4. Left = 0 /\ \A t \in 0 .. globalTimer : ArrivedBound(t) = t
    BY <1>4, <1>6, <2>2, <2>3 DEF ArrivedBound, Left
  <2> QED BY <1>3, <1>4, <1>5, <2>1, <2>4 DEF WorkInv
<1> QED BY <1>8, <1>9

\* Steps that report nothing.
LEMMA SameAgrees ==
  ASSUME ReportInv, UNCHANGED <<nodeOf, finishedAt, stats>>
  PROVE  Reported' = Reported /\ Agrees(stats, Runs, Reported)'
<1>1. Reported' = Reported
  BY DEF Reported
<1>2. Runs' = Runs
  BY DEF Runs, arrivalTime, burstTime
<1> QED BY <1>1, <1>2 DEF ReportInv

\* Steps that neither report nor run a process, nor take one off the list.
LEMMA OtherReportInv ==
  ASSUME OneSRTInv, ReportInv,
         \/ Sort \/ Begin \/ Arrive \/ EndArrivals \/ Free \/ Done \/ UseFreed
         \/ QueueStep /\ UNCHANGED <<listVars, oneVars>>
         \/ UNCHANGED vars
  PROVE  ReportInv'
<1>1. Coming' = Coming
  <2>1. CASE Free
    BY <2>1 DEF Free, listVars, Coming, ProcOf
  <2> QED BY <2>1, OtherComing
<1>2. /\ UNCHANGED <<remainingTime, nodeOf, globalTimer, finishedAt, stats>>
      /\ pc' = "finish" => pc = "finish"
      /\ pc = "finish" => pc' = "finish" /\ minPtr' = minPtr
  BY DEF Sort, Begin, Arrive, EndArrivals, Free, Done, UseFreed, QueueStep, SiftUp, SiftDown,
         PidSort, UndefinedIteration, TopOfLoop, AtTick, vars, queueVars, oneVars, outputVars, clockVars
<1>3. pc' = "inserted" => GetFromInputList'.arrival = globalTimer'
  <2>1. CASE Arrive
    BY <2>1 DEF Arrive, Due, GetFromInputList, listVars, clockVars
  <2>2. CASE ~Arrive
    <3>1. pc' = "inserted" => pc = "inserted" /\ UNCHANGED inputList
      BY <2>2 DEF Sort, Begin, EndArrivals, Free, Done, UseFreed, TopOfLoop, vars, oneVars, listVars
    <3> QED BY <1>2, <3>1 DEF ReportInv, GetFromInputList
  <2> QED BY <2>1, <2>2
<1>4. pc' = "done" => loop' = "remaining" /\ IsEmptyPQ(0)'
  <2>1. CASE Done
    BY <2>1 DEF Done, IsEmptyPQ, queueVars, heapVars
  <2>2. CASE QueueStep /\ UNCHANGED <<listVars, oneVars>>
    <3>1. call \in {"siftUp", "siftDown", "pidSort"}
      BY <2>2 DEF QueueStep, SiftUp, SiftDown, PidSort, UndefinedIteration, Allocated, Dereferenced,
                  SlotsRead, ItemRead
    <3>2. pc \in {"inserted", "free"} /\ pc' = pc
      BY <2>2, <3>1 DEF OneSRTInv, OneInv, PlaceInv, oneVars
    <3> QED BY <3>2
  <2>3. CASE Sort \/ Begin \/ Arrive \/ EndArrivals \/ Free \/ UseFreed \/ UNCHANGED vars
    BY <2>3 DEF Sort, Begin, Arrive, EndArrivals, Free, UseFreed, TopOfLoop, AtTick,
                vars, oneVars, ReportInv, IsEmptyPQ, queueVars, heapVars
  <2> QED BY <2>1, <2>2, <2>3
<1>5. Reported' = Reported /\ Agrees(stats, Runs, Reported)'
  BY <1>2, SameAgrees
<1>6. Arrived' = Arrived
  BY <1>1 DEF Arrived
<1> QED BY <1>2, <1>3, <1>4, <1>5, <1>6 DEF ReportInv, arrivalTime

\* The process that leaves the list arrives at this time.
LEMMA PickMinReportInv ==
  ASSUME OneSRTInv, ReportInv, PickMin
  PROVE  ReportInv'
<1> DEFINE j == ProcOf(GetFromInputList)
<1>1. /\ pc = "inserted" /\ pc' \in {"tick", "arrive"} /\ inputList # <<>> /\ UpdateInputList
      /\ UNCHANGED <<remainingTime, nodeOf, globalTimer, finishedAt, stats>>
  BY DEF PickMin, OneSRTInv, OneInv, PlaceInv, queueVars, clockVars, outputVars
<1>2. Coming' = Coming \ {j} /\ j \in Proc /\ arrivalTime(j) = globalTimer
  BY <1>1, HeadFacts, TakeHead DEF OneSRTInv, ReportInv
<1> HIDE DEF j
<1>3. \A p \in Arrived' : arrivalTime(p)' <= globalTimer'
  <2>1. \A p \in Arrived' : p \in Arrived \/ p = j
    BY <1>2 DEF Arrived
  <2>2. globalTimer \in Nat
    BY OneFacts DEF OneSRTInv
  <2> QED BY <1>1, <1>2, <2>1, <2>2 DEF ReportInv, arrivalTime
<1>4. Reported' = Reported /\ Agrees(stats, Runs, Reported)'
  BY <1>1, SameAgrees
<1> QED BY <1>1, <1>3, <1>4 DEF ReportInv, arrivalTime

LEMMA IdleReportInv ==
  ASSUME OneSRTInv, ReportInv, Idle
  PROVE  ReportInv'
<1>1. /\ pc = "arrive" /\ pc' = "arrive" /\ globalTimer' = globalTimer + 1
      /\ UNCHANGED <<inputList, remainingTime, nodeOf, finishedAt, stats>>
  BY DEF Idle, queueVars, listVars
<1>2. Arrived' = Arrived
  BY <1>1 DEF Arrived, Coming, ProcOf
<1>3. \A p \in Arrived' : arrivalTime(p)' <= globalTimer'
  <2>1. \A p \in Arrived : arrivalTime(p) \in Nat /\ globalTimer \in Nat
    BY RunFacts DEF OneSRTInv, Arrived
  <2> QED BY <1>1, <1>2, <2>1 DEF ReportInv, arrivalTime
<1>4. Reported' = Reported /\ Agrees(stats, Runs, Reported)'
  BY <1>1, SameAgrees
<1> QED BY <1>1, <1>3, <1>4 DEF ReportInv, arrivalTime

LEMMA TickReportInv ==
  ASSUME OneSRTInv, ReportInv, Tick
  PROVE  ReportInv'
<1>1. /\ minPtr \in live /\ minPtr \in Proc /\ pc \in {"tick", "arrive"} /\ minPtr' = minPtr
      /\ remainingTime' = [remainingTime EXCEPT ![minPtr] = @ - 1]
      /\ globalTimer' = globalTimer + 1
      /\ pc' = IF remainingTime'[minPtr] = 0 THEN "finish" ELSE TopOfLoop
      /\ UNCHANGED <<inputList, nodeOf, finishedAt, stats>>
  BY OneFacts DEF Tick, AtTick, AfterTick, listVars, OneSRTInv
<1>2. /\ remainingTime \in [Proc \cup {DummyHead} -> Nat] /\ remainingTime[minPtr] > 0
      /\ globalTimer \in Nat
  BY <1>1, RunFacts DEF OneSRTInv, OneInv, TimeInv
<1>3. pc' \in {"finish", "arrive", "tick"} /\ (pc' = "finish" <=> remainingTime'[minPtr] = 0)
  BY <1>1 DEF TopOfLoop
<1>4. Arrived' = Arrived
  BY <1>1 DEF Arrived, Coming, ProcOf
<1>5. \A p \in Arrived' : arrivalTime(p)' < globalTimer'
  <2>1. \A p \in Arrived : arrivalTime(p) \in Nat
    BY RunFacts DEF OneSRTInv, Arrived
  <2> QED BY <1>1, <1>2, <1>4, <2>1 DEF ReportInv, arrivalTime
<1>6. Reported' = Reported /\ Agrees(stats, Runs, Reported)'
  BY <1>1, SameAgrees
<1>7. \A p \in Proc : p \in Reported <=> remainingTime'[p] = 0 /\ ~(pc' = "finish" /\ p = minPtr)
  <2>1. \A p \in Proc : p # minPtr => remainingTime'[p] = remainingTime[p]
    BY <1>1, <1>2
  <2>2. minPtr \notin Reported
    BY <1>1, <1>2 DEF ReportInv
  <2> QED BY <1>1, <1>3, <2>1, <2>2 DEF ReportInv
<1>8. \A p \in Arrived' : arrivalTime(p)' \in Nat /\ globalTimer' \in Nat
  BY <1>1, <1>2, <1>4, RunFacts DEF OneSRTInv, Arrived, arrivalTime
<1>9. \A p \in Reported' : arrivalTime(p)' < finishedAt'[p]
  BY <1>1, <1>6 DEF ReportInv, arrivalTime
<1> QED BY <1>1, <1>3, <1>5, <1>6, <1>7, <1>8, <1>9 DEF ReportInv

\* The process that is reported was not, and took the time since it arrived.
LEMMA FinishReportInv ==
  ASSUME Files # {}, OneSRTInv, ReportInv, Finish
  PROVE  ReportInv'
<1> DEFINE x == minPtr
<1>1. /\ pc = "finish" /\ pc' = "free"
      /\ finishedAt' = [finishedAt EXCEPT ![x] = globalTimer]
      /\ stats' = [totalDeltaTime |-> stats.totalDeltaTime + (globalTimer - arrivalTime(x)),
                   numRunnedProcesses |-> stats.numRunnedProcesses + 1,
                   maxTimeOverhead |-> IF Less(stats.maxTimeOverhead, <<globalTimer - arrivalTime(x), burstTime(x)>>)
                                       THEN <<globalTimer - arrivalTime(x), burstTime(x)>> ELSE stats.maxTimeOverhead,
                   totalTimeOverhead |-> Plus(stats.totalTimeOverhead, <<globalTimer - arrivalTime(x), burstTime(x)>>)]
      /\ UNCHANGED <<inputList, remainingTime, globalTimer, nodeOf, minPtr>>
  BY DEF Finish, Collect, listVars, clockVars
<1>2. x \in live /\ x \in Proc /\ remainingTime[x] = 0
  BY <1>1, OneFacts DEF OneSRTInv, OneInv, PointerInv
<1>3. x \in Arrived
  BY <1>1, <1>2 DEF OneSRTInv, OneInv, TimeInv, Arrived, Coming
<1>4. arrivalTime(x) \in Nat /\ burstTime(x) \in Nat \ {0} /\ globalTimer \in Nat /\ arrivalTime(x) < globalTimer
  BY <1>1, <1>2, <1>3, RunFacts DEF OneSRTInv, ReportInv
<1>5. finishedAt \in [Proc -> Nat]
  BY DEF OneSRTInv, OneInv, OneTypeOK
<1>6. x \notin Reported /\ Reported' = Reported \cup {x}
  <2>1. x \notin Reported
    BY <1>1, <1>2 DEF ReportInv
  <2>2. finishedAt'[x] > 0 /\ \A p \in Proc : p # x => finishedAt'[p] = finishedAt[p]
    BY <1>1, <1>2, <1>4, <1>5
  <2> HIDE DEF x
  <2> QED BY <1>2, <2>1, <2>2 DEF Reported
<1>7. /\ Runs'[x] = <<globalTimer - arrivalTime(x), burstTime(x)>>
      /\ Runs'[x] \in Fraction /\ Runs'[x][1] > 0
      /\ \A p \in Reported : Runs[p] \in Fraction /\ Runs'[p] = Runs[p]
  <2>1. \A p \in Proc : Runs'[p] = <<finishedAt'[p] - arrivalTime(p), burstTime(p)>>
    BY <1>1 DEF Runs, arrivalTime, burstTime
  <2>2. Runs'[x] = <<globalTimer - arrivalTime(x), burstTime(x)>>
    BY <1>1, <1>2, <1>5, <2>1
  <2>3. \A p \in Reported : finishedAt'[p] = finishedAt[p] /\ p \in Proc /\ Runs[p] \in Fraction
    BY <1>1, <1>5, <1>6, RunFacts DEF OneSRTInv
  <2>4. \A p \in Reported : Runs'[p] = Runs[p]
    BY <2>1, <2>3 DEF Runs
  <2>5. globalTimer - arrivalTime(x) \in Nat /\ globalTimer - arrivalTime(x) > 0
    BY <1>4
  <2> QED BY <1>4, <2>2, <2>3, <2>4, <2>5 DEF Fraction
<1>8. IsFiniteSet(Reported)
  BY ProcFinite, FS_Subset DEF Reported
<1>9. Agrees(stats, Runs, Reported)
  BY DEF ReportInv
<1>10. stats' = [totalDeltaTime |-> stats.totalDeltaTime + Runs'[x][1],
                 numRunnedProcesses |-> stats.numRunnedProcesses + 1,
                 maxTimeOverhead |-> IF Less(stats.maxTimeOverhead, Runs'[x]) THEN Runs'[x] ELSE stats.maxTimeOverhead,
                 totalTimeOverhead |-> Plus(stats.totalTimeOverhead, Runs'[x])]
  BY <1>1, <1>7
<1> HIDE DEF x
<1>11. Agrees(stats', Runs', Reported \cup {x})
  BY <1>6, <1>7, <1>8, <1>9, <1>10, CollectAgrees
<1>12. Agrees(stats, Runs, Reported)'
  BY <1>6, <1>11
<1>13. Arrived' = Arrived
  BY <1>1 DEF Arrived, Coming, ProcOf
<1>14. \A p \in Proc : p \in Reported' <=> remainingTime[p] = 0
  BY <1>1, <1>2, <1>6 DEF ReportInv, x
<1>15. \A p \in Reported' : arrivalTime(p)' < finishedAt'[p]
  BY <1>1, <1>2, <1>4, <1>5, <1>6 DEF ReportInv, arrivalTime, Reported
<1> QED BY <1>1, <1>12, <1>13, <1>14, <1>15 DEF ReportInv, arrivalTime

-----------------------------------------------------------------------------
(***************************************************************************)
(* The work that has arrived, and when it is done.                         *)
(***************************************************************************)
ArrivedFrom(t) == {p \in Arrived : arrivalTime(p) >= t}

\* The sums are over finite sets of numbers.
LEMMA WorkFacts ==
  ASSUME Files # {}, OneSRTInv, ReportInv
  PROVE  /\ IsFiniteSet(Proc) /\ Arrived \in SUBSET Proc /\ Left \in Nat /\ globalTimer \in Nat
         /\ \A p \in Proc : Bursts[p] \in Nat /\ Bursts[p] = burstTime(p)
         /\ \A p \in Proc : remainingTime[p] \in Nat
         /\ \A t : /\ ArrivedFrom(t) \in SUBSET Proc
                   /\ ArrivedBound(t) = t + SumFunctionOnSet(Bursts, ArrivedFrom(t))
                   /\ SumFunctionOnSet(Bursts, ArrivedFrom(t)) \in Nat
<1>1. /\ \A p \in Proc : burstTime(p) \in Nat
      /\ \A p \in Proc : remainingTime[p] \in Nat
      /\ globalTimer \in Nat
  BY RunFacts DEF OneSRTInv
<1>2. \A p \in Proc : Bursts[p] \in Nat /\ Bursts[p] = burstTime(p)
  BY <1>1 DEF Bursts
<1>3. IsFiniteSet(Proc) /\ Arrived \in SUBSET Proc /\ \A t : ArrivedFrom(t) \in SUBSET Proc
  BY ProcFinite DEF Arrived, ArrivedFrom
<1>4. Left \in Nat
  BY <1>1, <1>3, SumAdded DEF Left
<1>5. \A t : SumFunctionOnSet(Bursts, ArrivedFrom(t)) \in Nat
  BY <1>2, <1>3, SumAdded
<1> QED BY <1>1, <1>2, <1>3, <1>4, <1>5 DEF ArrivedBound, ArrivedFrom

\* When nothing is ready no time is left.
LEMMA NothingLeft ==
  ASSUME Files # {}, OneSRTInv, ReportInv, Ready = {}
  PROVE  Left = 0
<1>1. \A p \in Arrived : remainingTime[p] = 0
  <2>1. \A p \in Arrived : p \in Proc /\ remainingTime[p] \in Nat /\ ~(remainingTime[p] > 0)
    BY WorkFacts DEF Ready, Unfinished, Arrived
  <2> QED BY <2>1
<1> QED BY <1>1, WorkFacts, SumAdded DEF Left

\* Nothing has arrived after the timer.
LEMMA NothingFrom ==
  ASSUME Files # {}, OneSRTInv, ReportInv
  PROVE  ArrivedBound(globalTimer + 1) = globalTimer + 1
<1>1. ArrivedFrom(globalTimer + 1) = {}
  <2>1. \A p \in Arrived : arrivalTime(p) \in Nat /\ arrivalTime(p) <= globalTimer
    BY RunFacts DEF OneSRTInv, Arrived, ReportInv
  <2> QED BY <2>1, WorkFacts DEF ArrivedFrom
<1>2. SumFunctionOnSet(Bursts, {}) = 0
  BY SumAdded, FS_EmptySet
<1> QED BY <1>1, <1>2, WorkFacts

\* Steps with no regard to the time.
LEMMA OtherWorkInv ==
  ASSUME OneSRTInv, WorkInv,
         \/ Sort \/ Begin \/ Arrive \/ EndArrivals \/ Finish \/ Free \/ Done \/ UseFreed
         \/ QueueStep /\ UNCHANGED <<listVars, oneVars>>
         \/ UNCHANGED vars
  PROVE  WorkInv'
<1>1. Coming' = Coming
  <2>1. CASE Free
    BY <2>1 DEF Free, listVars, Coming, ProcOf
  <2> QED BY <2>1, OtherComing
<1>2. UNCHANGED <<remainingTime, nodeOf, globalTimer>>
  BY DEF Sort, Begin, Arrive, EndArrivals, Finish, Free, Done, UseFreed, QueueStep, SiftUp, SiftDown,
         PidSort, UndefinedIteration, vars, queueVars, oneVars, clockVars
<1>3. Arrived' = Arrived /\ Ready' = Ready
  BY <1>1, <1>2 DEF Arrived, Ready, Unfinished
<1>4. Left' = Left /\ Bursts' = Bursts /\ \A p \in Proc : burstTime(p)' = burstTime(p)
  BY <1>2, <1>3 DEF Left, Bursts, burstTime
<1>5. /\ \A t : ArrivedBound(t)' = ArrivedBound(t)
      /\ \A p \in Proc : ArrivedBound(arrivalTime(p))' = ArrivedBound(arrivalTime(p))
  BY <1>2, <1>3, <1>4 DEF ArrivedBound, arrivalTime
<1>6. Coming \subseteq Proc /\ Arrived \subseteq Proc
  BY DEF OneSRTInv, OneInv, TimeInv, Coming, Arrived
<1> QED BY <1>1, <1>2, <1>3, <1>4, <1>5, <1>6 DEF WorkInv

\* No work is waiting while the processor rests.
LEMMA IdleWorkInv ==
  ASSUME Files # {}, OneSRTInv, tied = {}, ReportInv, WorkInv, Idle
  PROVE  WorkInv'
<1>1. /\ pc = "arrive" /\ size[0] = 0 /\ globalTimer' = globalTimer + 1 /\ inputList # <<>>
      /\ UNCHANGED <<inputList, remainingTime, nodeOf>>
  BY DEF Idle, IsEmptyPQ, queueVars, listVars
<1>2. call = "none"
  BY <1>1, UntiedFacts DEF OneInv, PlaceInv
<1>3. Ready = {}
  BY <1>1, <1>2, UntiedFacts, RootIsShortest DEF ReadyInv, Slots, Contents
<1>4. Coming' = Coming /\ Arrived' = Arrived /\ Ready' = Ready /\ Coming # {}
  BY <1>1, HeadFacts, UntiedFacts DEF Coming, Arrived, Ready, Unfinished, ProcOf
<1>5. Left' = Left /\ Bursts' = Bursts /\ \A p \in Proc : burstTime(p)' = burstTime(p)
  BY <1>1, <1>4 DEF Left, Bursts, burstTime
<1>6. \A t : ArrivedBound(t)' = ArrivedBound(t)
  BY <1>1, <1>4, <1>5 DEF ArrivedBound, arrivalTime
<1>7. \A t \in 0 .. globalTimer' : ArrivedBound(t) <= globalTimer' + Left
  <2> TAKE t \in 0 .. globalTimer'
  <2>1. CASE t \in 0 .. globalTimer
    <3>1. ArrivedBound(t) <= globalTimer + Left /\ ArrivedBound(t) \in Nat
      BY <2>1, WorkFacts DEF WorkInv
    <3> QED BY <1>1, <3>1, WorkFacts
  <2>2. CASE t = globalTimer + 1
    BY <1>1, <2>2, NothingFrom, WorkFacts
  <2> QED BY <1>1, <2>1, <2>2, WorkFacts
<1>8. \A p \in Coming : p \in Proc
  BY UntiedFacts
<1> QED BY <1>1, <1>3, <1>4, <1>5, <1>6, <1>7, <1>8 DEF WorkInv

\* The tick is charged to a process that has arrived.
LEMMA TickWorkInv ==
  ASSUME Files # {}, OneSRTInv, tied = {}, ReportInv, WorkInv, Tick
  PROVE  WorkInv'
<1>1. /\ minPtr \in live /\ minPtr \in Proc /\ pc \in {"tick", "arrive"}
      /\ remainingTime' = [remainingTime EXCEPT ![minPtr] = @ - 1]
      /\ globalTimer' = globalTimer + 1
      /\ UNCHANGED <<inputList, nodeOf>>
  BY UntiedFacts, OneFacts DEF Tick, AtTick, listVars
<1>2. remainingTime \in [Proc \cup {DummyHead} -> Nat] /\ remainingTime[minPtr] > 0
  BY <1>1, UntiedFacts DEF OneInv, TimeInv
<1>3. minPtr \in Arrived /\ minPtr \notin Coming /\ minPtr \in Ready
  BY <1>1, <1>2, UntiedFacts DEF ReadyInv, Arrived, Ready, Unfinished
<1>4. Coming' = Coming /\ Arrived' = Arrived
  BY <1>1 DEF Coming, Arrived, ProcOf
<1>5. Left = Left' + 1 /\ Left' \in Nat
  <2> DEFINE g == remainingTime'
  <2>1. /\ remainingTime[minPtr] = g[minPtr] + 1
        /\ \A p \in Proc : g[p] \in Nat /\ (p # minPtr => g[p] = remainingTime[p])
    BY <1>1, <1>2
  <2>2. Left' = SumFunctionOnSet(g, Arrived) /\ Left = SumFunctionOnSet(remainingTime, Arrived)
    BY <1>4 DEF Left
  <2>3. /\ IsFiniteSet(Proc) /\ Arrived \in SUBSET Proc /\ \A p \in Proc : remainingTime[p] \in Nat
    BY WorkFacts
  <2> HIDE DEF g
  <2>4. SumFunctionOnSet(remainingTime, Arrived) = SumFunctionOnSet(g, Arrived) + 1
    BY <1>3, <2>1, <2>3, SumLowered
  <2>5. SumFunctionOnSet(g, Arrived) \in Nat
    BY <2>1, <2>3, SumAdded
  <2> QED BY <2>2, <2>4, <2>5
<1>6. Bursts' = Bursts /\ \A p \in Proc : burstTime(p)' = burstTime(p) /\ arrivalTime(p)' = arrivalTime(p)
  BY <1>1 DEF Bursts, burstTime, arrivalTime
<1>7. /\ \A t : ArrivedBound(t)' = ArrivedBound(t)
      /\ \A p \in Proc : ArrivedBound(arrivalTime(p))' = ArrivedBound(arrivalTime(p))
  BY <1>1, <1>4, <1>6 DEF ArrivedBound, arrivalTime
<1>8. \A t \in 0 .. globalTimer' : ArrivedBound(t) <= globalTimer' + Left'
  <2> TAKE t \in 0 .. globalTimer'
  <2>1. CASE t \in 0 .. globalTimer
    <3>1. ArrivedBound(t) <= globalTimer + Left /\ ArrivedBound(t) \in Nat
      BY <2>1, WorkFacts DEF WorkInv
    <3> QED BY <1>1, <1>5, <3>1, WorkFacts
  <2>2. CASE t = globalTimer + 1
    BY <1>1, <1>5, <2>2, NothingFrom, WorkFacts
  <2> QED BY <1>1, <2>1, <2>2, WorkFacts
<1>9. \E p \in Arrived : ArrivedBound(arrivalTime(p))' = globalTimer' + Left'
  <2>1. PICK p \in Arrived : ArrivedBound(arrivalTime(p)) = globalTimer + Left
    BY <1>3 DEF WorkInv
  <2>2. p \in Proc
    BY <2>1 DEF Arrived
  <2>3. globalTimer' + Left' = globalTimer + Left
    <3>1. globalTimer \in Nat
      BY WorkFacts
    <3> QED BY <1>1, <1>5, <3>1
  <2>4. ArrivedBound(arrivalTime(p))' = globalTimer + Left
    BY <1>7, <2>1, <2>2
  <2> QED BY <2>1, <2>3, <2>4
<1>10. \A p \in Coming' : remainingTime'[p] = burstTime(p)'
  <2>1. \A p \in Coming : p \in Proc /\ remainingTime'[p] = remainingTime[p] /\ remainingTime[p] = burstTime(p)
    BY <1>1, <1>2, <1>3, UntiedFacts DEF WorkInv
  <2> QED BY <1>4, <1>6, <2>1
<1> QED BY <1>4, <1>7, <1>8, <1>9, <1>10 DEF WorkInv

\* The process that leaves the list brings its whole time to what is left and to
\* every bound.
LEMMA PickMinWorkInv ==
  ASSUME Files # {}, OneSRTInv, tied = {}, ReportInv, WorkInv, PickMin
  PROVE  WorkInv'
<1> DEFINE j == ProcOf(GetFromInputList)
           b == Bursts[j]
<1>1. /\ pc = "inserted" /\ inputList # <<>> /\ UpdateInputList
      /\ UNCHANGED <<remainingTime, nodeOf, globalTimer>>
  BY DEF PickMin, OneSRTInv, OneInv, PlaceInv, queueVars, clockVars
<1>2. /\ Coming' = Coming \ {j} /\ j \in Proc /\ j \in Coming
      /\ arrivalTime(j) = globalTimer /\ remainingTime[j] = b /\ b \in Nat
  BY <1>1, HeadFacts, TakeHead, UntiedFacts, WorkFacts DEF ReportInv, WorkInv
<1> HIDE DEF j, b
<1>3. Arrived' = Arrived \cup {j} /\ j \in Proc \ Arrived
  BY <1>2 DEF Arrived
<1>4. /\ Bursts' = Bursts
      /\ \A p \in Proc : burstTime(p)' = burstTime(p) /\ arrivalTime(p)' = arrivalTime(p)
  BY <1>1 DEF Bursts, burstTime, arrivalTime
<1>5. Left' = b + Left
  <2>1. SumFunctionOnSet(remainingTime, Arrived \cup {j}) = remainingTime[j] + SumFunctionOnSet(remainingTime, Arrived)
    BY <1>3, WorkFacts, SumAdded
  <2> QED BY <1>1, <1>2, <1>3, <2>1 DEF Left
<1> DEFINE Later(t) == t + SumFunctionOnSet(Bursts', {p \in Arrived' : arrivalTime(p)' >= t})
<1>6. \A t \in 0 .. globalTimer : Later(t) = b + ArrivedBound(t)
  <2> TAKE t \in 0 .. globalTimer
  <2>1. t \in Nat /\ globalTimer \in Nat /\ t <= globalTimer
    BY WorkFacts
  <2>2. {p \in Arrived' : arrivalTime(p)' >= t} = ArrivedFrom(t) \cup {j}
    BY <1>2, <1>3, <1>4, <2>1 DEF ArrivedFrom, Arrived
  <2>3. Later(t) = t + SumFunctionOnSet(Bursts, ArrivedFrom(t) \cup {j})
    BY <1>4, <2>2
  <2>4. ArrivedFrom(t) \in SUBSET Proc /\ j \in Proc \ ArrivedFrom(t)
    BY <1>3, WorkFacts DEF ArrivedFrom
  <2>5. SumFunctionOnSet(Bursts, ArrivedFrom(t) \cup {j}) = b + SumFunctionOnSet(Bursts, ArrivedFrom(t))
    BY <2>4, WorkFacts, SumAdded DEF b
  <2>6. /\ ArrivedBound(t) = t + SumFunctionOnSet(Bursts, ArrivedFrom(t))
        /\ SumFunctionOnSet(Bursts, ArrivedFrom(t)) \in Nat
    BY WorkFacts
  <2> QED BY <1>2, <2>1, <2>3, <2>5, <2>6
<1>7. \A t \in 0 .. globalTimer : ArrivedBound(t) \in Nat /\ ArrivedBound(t) <= globalTimer + Left
  BY WorkFacts DEF WorkInv
<1>8. \A t \in 0 .. globalTimer' : ArrivedBound(t)' <= globalTimer' + Left'
  <2> TAKE t \in 0 .. globalTimer'
  <2>1. t \in 0 .. globalTimer /\ globalTimer \in Nat /\ Left \in Nat
    BY <1>1, WorkFacts
  <2>2. ArrivedBound(t)' = b + ArrivedBound(t)
    BY <1>6, <2>1 DEF ArrivedBound
  <2>3. ArrivedBound(t) \in Nat /\ ArrivedBound(t) <= globalTimer + Left
    BY <1>7, <2>1
  <2> QED BY <1>1, <1>2, <1>5, <2>1, <2>2, <2>3
<1>9. \E p \in Arrived' : ArrivedBound(arrivalTime(p))' = globalTimer' + Left'
  <2>1. PICK p \in Arrived \cup {j} : /\ arrivalTime(p) \in 0 .. globalTimer
                                    /\ ArrivedBound(arrivalTime(p)) = globalTimer + Left
    <3>1. CASE Ready # {}
      <4>1. PICK p \in Arrived : ArrivedBound(arrivalTime(p)) = globalTimer + Left
        BY <3>1 DEF WorkInv
      <4>2. arrivalTime(p) \in 0 .. globalTimer
        BY <4>1, RunFacts, WorkFacts, UntiedFacts DEF ReportInv, Arrived
      <4> QED BY <4>1, <4>2
    <3>2. CASE Ready = {}
      <4>1. Left = 0 /\ globalTimer \in Nat
        BY <3>2, NothingLeft, WorkFacts
      <4>2. ArrivedBound(globalTimer) = globalTimer
        BY <1>7, <4>1, WorkFacts
      <4> QED BY <1>2, <4>1, <4>2
    <3> QED BY <3>1, <3>2
  <2>2. p \in Proc /\ p \in Arrived'
    BY <1>3, <2>1 DEF Arrived
  <2>3. ArrivedBound(arrivalTime(p))' = b + ArrivedBound(arrivalTime(p))
    <3>1. ArrivedBound(arrivalTime(p))' = Later(arrivalTime(p))
      BY <1>4, <2>2 DEF ArrivedBound
    <3>2. Later(arrivalTime(p)) = b + ArrivedBound(arrivalTime(p))
      BY <1>6, <2>1
    <3> QED BY <3>1, <3>2
  <2>4. globalTimer' + Left' = b + (globalTimer + Left)
    BY <1>1, <1>2, <1>5, WorkFacts
  <2> QED BY <2>1, <2>2, <2>3, <2>4
<1>10. \A p \in Coming' : p \in Proc /\ remainingTime'[p] = burstTime(p)'
  BY <1>1, <1>2, <1>4, UntiedFacts DEF WorkInv
<1> QED BY <1>8, <1>9, <1>10 DEF WorkInv

LEMMA NextReportInv ==
  ASSUME Files # {}, OneReportInv, [Next]_vars, OneOutputInv'
  PROVE  OneReportInv'
<1>1. OneSRTInv /\ ReportInv
  BY DEF OneReportInv, OneOutputInv
<1>2. ReportInv'
  BY <1>1, OtherReportInv, PickMinReportInv, IdleReportInv, TickReportInv, FinishReportInv DEF Next
<1>3. ASSUME tied' = {} PROVE WorkInv'
  <2>1. tied = {} /\ WorkInv
    BY <1>1, <1>3, TiedStays DEF OneReportInv
  <2> QED BY <1>1, <2>1, OtherWorkInv, PickMinWorkInv, IdleWorkInv, TickWorkInv DEF Next
<1> QED BY <1>2, <1>3 DEF OneReportInv

-----------------------------------------------------------------------------
\* The statistics agree with the FINISHED lines and the time left with the timer
\* at every step.
THEOREM ReportsWhatRan == Spec => []OneReportInv
<1>1. CASE Files = {}
  <2>1. ~Init
    BY <1>1 DEF Init
  <2> QED BY <2>1, PTL DEF Spec
<1>2. CASE Files # {}
  <2>1. OneReportInv /\ [Next]_vars /\ OneOutputInv' => OneReportInv'
    BY <1>2, NextReportInv
  <2>2. Init => ReportInv /\ WorkInv
    BY InitReportInv
  <2>3. OneOutputInv /\ ReportInv /\ WorkInv => OneReportInv
    BY DEF OneReportInv
  <2> QED BY <2>1, <2>2, <2>3, MarksWhatRuns, PTL DEF Spec
<1> QED BY <1>1, <1>2

\* At the end every process has arrived and is reported.
LEMMA AtTheEnd ==
  ASSUME Files # {}, OneReportInv, Sound, pc = "done"
  PROVE  Coming = {} /\ Ready = {} /\ Reported = Proc /\ Arrived = Proc /\ Proc # {}
<1>1. /\ OneSRTInv /\ tied = {} /\ ReportInv /\ loop = "remaining" /\ size[0] = 0
  BY DEF OneReportInv, OneOutputInv, Sound, ReportInv, IsEmptyPQ
<1>2. call = "none" /\ inputList = <<>>
  BY <1>1, UntiedFacts DEF OneInv, PlaceInv
<1>3. Coming = {} /\ Arrived = Proc
  BY <1>2 DEF Coming, Arrived
<1>4. Ready = {}
  BY <1>1, <1>2, UntiedFacts, RootIsShortest DEF ReadyInv, Slots, Contents
<1>5. Reported = Proc
  <2>1. \A p \in Proc : remainingTime[p] \in Nat /\ ~(remainingTime[p] > 0)
    BY <1>1, <1>3, <1>4, RunFacts, UntiedFacts DEF Ready, Unfinished
  <2>2. \A p \in Proc : p \in Reported
    BY <1>1, <2>1 DEF ReportInv
  <2> QED BY <2>2 DEF Reported
<1>6. Proc # {}
  <2>1. PICK f \in Files : TRUE
    OBVIOUS
  <2>2. Len(f) \in 1 .. Capacity /\ f \in Seq(Node)
    BY FilesAssumption DEF ListOf
  <2>3. 1 \in 1 .. Len(f)
    BY <2>2, CapacityAssumption
  <2> QED BY <2>3, FileNodes
<1> QED BY <1>3, <1>4, <1>5, <1>6

LEMMA PrintsRight ==
  ASSUME Files # {}, OneReportInv
  PROVE  PrintsWhatHappened
<1> SUFFICES ASSUME Sound, pc = "done" PROVE PrintedOf(Runs)
  BY DEF PrintsWhatHappened
<1>1. Reported = Proc /\ Proc # {} /\ IsFiniteSet(Proc)
  BY AtTheEnd, ProcFinite
<1>2. DOMAIN Runs = Proc
  BY DEF Runs
<1>3. Agrees(stats, Runs, Proc) /\ \A p \in Proc : Runs[p] \in Fraction
  BY <1>1, RunFacts DEF OneReportInv, OneOutputInv, OneSRTInv, ReportInv
<1> HIDE DEF Runs
<1> QED BY <1>1, <1>2, <1>3, AgreesPrints

\* The last bound that is met is the greatest.
LEMMA MakespanMet ==
  ASSUME Files # {}, OneReportInv
  PROVE  MakespanIsWork
<1> DEFINE S == {Bound(arrivalTime(p)) : p \in Proc}
<1> SUFFICES ASSUME Sound, pc = "done" PROVE globalTimer = Max(S)
  BY DEF MakespanIsWork
<1>1. OneSRTInv /\ ReportInv /\ WorkInv
  BY DEF OneReportInv, OneOutputInv, Sound
<1>2. Arrived = Proc /\ Coming = {} /\ Left = 0 /\ globalTimer \in Nat
  BY <1>1, AtTheEnd, NothingLeft, WorkFacts
<1>3. \A t : ArrivedBound(t) = Bound(t)
  BY <1>2 DEF ArrivedBound, Bound
<1>4. \A p \in Proc : arrivalTime(p) \in 0 .. globalTimer
  BY <1>1, <1>2, RunFacts DEF ReportInv, OneSRTInv
<1>5. \A p \in Proc : Bound(arrivalTime(p)) \in Nat /\ Bound(arrivalTime(p)) <= globalTimer
  <2> TAKE p \in Proc
  <2>1. ArrivedBound(arrivalTime(p)) \in Nat /\ ArrivedBound(arrivalTime(p)) <= globalTimer + Left
    BY <1>1, <1>4, WorkFacts DEF WorkInv
  <2> QED BY <1>2, <1>3, <2>1
<1>6. \E p \in Proc : Bound(arrivalTime(p)) = globalTimer
  <2>1. PICK p \in Proc : ArrivedBound(arrivalTime(p)) = globalTimer + Left
    BY <1>1, <1>2 DEF WorkInv
  <2> QED BY <1>2, <1>3, <2>1
<1>7. globalTimer \in S /\ \A x \in S : x \in Nat /\ x <= globalTimer
  BY <1>5, <1>6
<1> HIDE DEF S
<1>8. \A m : m \in S /\ (\A x \in S : m >= x) => m = globalTimer
  BY <1>2, <1>7
<1>9. globalTimer \in S /\ \A x \in S : globalTimer >= x
  BY <1>2, <1>7
<1> QED BY <1>8, <1>9 DEF Max

\* What SimRun prints at the end is the mean and the extremes of what
\* HandleOneCPU reported.
THEOREM PrintsTheStatistics == Spec => []PrintsWhatHappened
<1>1. CASE Files = {}
  <2>1. ~Init
    BY <1>1 DEF Init
  <2> QED BY <2>1, PTL DEF Spec
<1>2. CASE Files # {}
  <2>1. OneReportInv => PrintsWhatHappened
    BY <1>2, PrintsRight
  <2> QED BY <2>1, ReportsWhatRan, PTL
<1> QED BY <1>1, <1>2

\* HandleOneCPU ends when the work could not have ended sooner.
THEOREM EndsWithTheWork == Spec => []MakespanIsWork
<1>1. CASE Files = {}
  <2>1. ~Init
    BY <1>1 DEF Init
  <2> QED BY <2>1, PTL DEF Spec
<1>2. CASE Files # {}
  <2>1. OneReportInv => MakespanIsWork
    BY <1>2, MakespanMet
  <2> QED BY <2>1, ReportsWhatRan, PTL
<1> QED BY <1>1, <1>2
=============================================================================
