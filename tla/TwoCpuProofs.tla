----------------------------- MODULE TwoCpuProofs -----------------------------
(***************************************************************************)
(* The simulation with two processors, for every set of input files: as    *)
(* long as no deletion meets a tie, no processor gets two parts of one     *)
(* process, every queue has room for what it is given, and the lines       *)
(* RUNNING and FINISHED say what happens. One lemma per action that        *)
(* TwoCpuInv notices, then what it says of the properties; then the same   *)
(* for TwoSRTInv, and that every step is one of MultiSRT or unseen there;  *)
(* then what is printed at the end.                                        *)
(***************************************************************************)
EXTENDS MultiCpuProofs

\* What TwoCpuInv says while no deletion has met a tie.
LEMMA UntiedFacts ==
  ASSUME TwoCpuInv, tied = {}
  PROVE  /\ MultiInv /\ MultiCountInv /\ KeptInv /\ ApartInv /\ StaleInv /\ RootInv /\ MarkInv
         /\ QueueInv /\ call # "undefined"
         /\ queued \in [Cpu -> SUBSET Proc] /\ lastRan \in [Cpu -> Proc \cup {NULL}]
         /\ isRunning \subseteq Proc
         /\ \A c \in Cpu : queued[c] \subseteq live
<1>1. MultiInv /\ QueueInv
  BY MultiFacts DEF TwoCpuInv, MultiCountInv
<1>2. call # "undefined" /\ queued \in [Cpu -> SUBSET Proc]
  BY <1>1 DEF QueueInv, UndefinedOnlyIfTied, TypeOK
<1>3. \A c \in Cpu : queued[c] \subseteq live
  BY <1>1 DEF QueueInv, HomeInv
<1>4. lastRan \in [Cpu -> Proc \cup {NULL}] /\ isRunning \subseteq Proc
  BY <1>1 DEF MultiInv, MultiTypeOK
<1> QED BY <1>1, <1>2, <1>3, <1>4 DEF TwoCpuInv

\* Between calls a heap that has met no tie holds what its processor was handed,
\* in slots that are its own.
LEMMA SlotsAreQueued ==
  ASSUME QueueInv, tied = {}, call = "none", NEW c \in Cpu
  PROVE  /\ Slots(c) = queued[c] /\ Distinct(processes[c], size[c])
         /\ size[c] \in 0 .. Capacity /\ queued[c] \subseteq Refs(c)
         /\ IsEmptyPQ(c) => queued[c] = {}
         /\ ~IsEmptyPQ(c) => processes[c][1] \in queued[c]
<1>1. Slots(c) = queued[c] /\ Distinct(processes[c], size[c]) /\ size[c] \in 0 .. Capacity
  BY Quiet DEF Slots
<1>2. \A k \in 1 .. size[c] : processes[c][k] \in Refs(c)
  BY Quiet
<1>3. queued[c] \subseteq Refs(c)
  BY <1>1, <1>2 DEF Slots, Contents
<1>4. IsEmptyPQ(c) => queued[c] = {}
  BY <1>1 DEF Slots, Contents, IsEmptyPQ
<1>5. ~IsEmptyPQ(c) => 1 \in 1 .. size[c]
  BY <1>1, CapacityAssumption DEF IsEmptyPQ
<1> QED BY <1>1, <1>3, <1>4, <1>5 DEF Slots, Contents

\* A part is handed to one processor.
LEMMA QueuesApart ==
  ASSUME QueueInv, tied = {}, call = "none", NEW c \in Cpu, NEW d \in Cpu, NEW p \in queued[c],
         p \in queued[d]
  PROVE  c = d
<1>1. p \in Refs(c)
  BY SlotsAreQueued
<1> QED BY <1>1 DEF QueueInv, HomeInv

\* A pointer is NULL only for a processor that has nothing to run.
LEMMA MinIsRootEmpty ==
  ASSUME MultiInv, call = "none", pc \in {"run", "check"}, NEW c \in Cpu, minPtr[c] = NULL
  PROVE  IsEmptyPQ(c)
<1> SUFFICES ASSUME ~IsEmptyPQ(c) PROVE FALSE
  OBVIOUS
<1>1. processes[c][1] = NULL
  BY DEF MultiInv, PointerInv, FindMinRemainTimeProcess
<1>2. 1 \in 1 .. size[c]
  BY MultiFacts, CapacityAssumption DEF IsEmptyPQ
<1>3. processes[c][1] \in Proc
  BY <1>2, MultiFacts, Quiet
<1> QED BY <1>1, <1>3, MultiFacts

\* Outside the deletion a processor owns what its queue was handed.
LEMMA OwnedQueued ==
  ASSUME pc # "free"
  PROVE  \A c : Owned(c) = queued[c]
BY DEF Owned

\* What a step that leaves the parts where they are preserves.
LEMMA KeepOwned ==
  ASSUME KeptInv, ApartInv, live' \subseteq live, \A c \in Cpu : Owned(c)' = Owned(c)
  PROVE  KeptInv' /\ ApartInv'
BY DEF KeptInv, ApartInv

-----------------------------------------------------------------------------
(***************************************************************************)
(* What steps that leave something alone preserve.                         *)
(***************************************************************************)

\* No part comes into being or loses time; what is freed has none left.
LEMMA KeepGone ==
  ASSUME GoneInv, UNCHANGED <<nodeOf, inputList, remainingTime>>,
         \A p \in live : p \in live' \/ remainingTime[p] = 0
  PROVE  GoneInv'
BY SameWaiting DEF GoneInv

\* The marks, in a step that adds no part: a processor that did not run has
\* nothing to run.
LEMMA KeepMark ==
  ASSUME MarkInv, UNCHANGED <<live, remainingTime, minPtr, isRunning>>, pc' # "placed",
         \A c \in Cpu : queued'[c] \subseteq queued[c],
         \A c \in Cpu : lastRan'[c] = lastRan[c] \/ (lastRan'[c] = NULL /\ queued[c] = {}),
         \A c \in Charged' : minPtr[c] # NULL => c \in Charged /\ lastRan'[c] = lastRan[c]
  PROVE  MarkInv'
<1>1. \A p : Unborn(p)' <=> Unborn(p)
  BY DEF Unborn
<1>2. Charged' \subseteq Cpu
  BY DEF Charged
<1> QED BY <1>1, <1>2 DEF MarkInv

\* A step that leaves the queues, the pointers and the files alone.
LEMMA QuietTwo ==
  ASSUME TwoCpuInv, MultiCountInv', UNCHANGED <<queueVars, cpuVars, nodeOf>>, Waiting' = Waiting,
         pc # "free", pc' \notin {"placed", "free"},
         \A c \in Cpu : lastRan'[c] = lastRan[c] \/ (lastRan'[c] = NULL /\ IsEmptyPQ(c)),
         lastRan' = lastRan \/ call = "none",
         \A c \in Charged' : minPtr[c] # NULL => c \in Charged /\ lastRan'[c] = lastRan[c]
  PROVE  TwoCpuInv'
<1>1. UNCHANGED <<queued, live, popped, remainingTime, tied, minPtr, isRunning, call, hole, size,
                  processes, at>>
  BY DEF queueVars, historyVars, callVars, heapVars, cpuVars
<1>2. RoomInv' /\ GoneInv'
  BY <1>1 DEF TwoCpuInv, RoomInv, GoneInv, Pid, Arrived, Parts, NumSubs, IsParallel
<1>3. ASSUME tied = {} PROVE KeptInv' /\ ApartInv' /\ StaleInv' /\ RootInv' /\ MarkInv'
  <2>1. KeptInv' /\ ApartInv' /\ StaleInv' /\ RootInv'
    BY <1>1, <1>3, UntiedFacts, KeepOwned DEF Owned, StaleInv, RootInv
  <2>2. \A c \in Cpu : lastRan'[c] = lastRan[c] \/ (lastRan'[c] = NULL /\ queued[c] = {})
    BY <1>3, UntiedFacts, SlotsAreQueued
  <2> QED BY <1>1, <1>3, <2>1, <2>2, UntiedFacts, KeepMark
<1> QED BY <1>1, <1>2, <1>3 DEF TwoCpuInv

\* The loops and tests that neither place, run nor delete a part.
LEMMA LoopTwo ==
  ASSUME TwoCpuInv, MultiCountInv', call = "none",
         \/ Sort \/ Begin \/ Arrive \/ Spin \/ NotDue \/ EndArrivals \/ Remain
         \/ SkipCpu \/ Advance \/ CheckOn \/ EndTick
  PROVE  TwoCpuInv'
<1>1. MultiInv /\ i \in 0 .. numCPU /\ Cpu = 0 .. numCPU - 1 /\ numCPU \in Nat
  BY MultiFacts DEF TwoCpuInv, MultiCountInv
<1>2. UNCHANGED <<queueVars, cpuVars, nodeOf>> /\ pc # "free" /\ pc' \notin {"placed", "free"}
  BY DEF Sort, Begin, Arrive, Spin, RepeatIsDue, NotDue, EndArrivals, Remain, SkipCpu, Advance,
         CheckOn, EndTick, multiVars, vars, tableVars
<1>3. Waiting' = Waiting
  <2>1. CASE Sort
    BY <1>1, <2>1, SortWaiting
  <2>2. CASE ~Sort
    <3>1. UNCHANGED <<nodeOf, inputList>>
      BY <2>2 DEF Begin, Arrive, Spin, NotDue, EndArrivals, Remain, SkipCpu, Advance, CheckOn, EndTick,
                  vars, listVars, multiVars, tableVars
    <3> QED BY <3>1, SameWaiting
  <2> QED BY <2>1, <2>2
<1>4. CASE Sort \/ Begin \/ Arrive \/ EndArrivals \/ Remain \/ EndTick
  <2>1. lastRan' = lastRan /\ (pc' \in {"sort", "arrive", "place", "done"}
                              \/ (pc' = "run" /\ pc = "arrive" /\ i' = i))
    BY <1>4 DEF Sort, Begin, Arrive, EndArrivals, Remain, EndTick, multiVars
  <2>2. pc = "arrive" => i = 0
    BY <1>1 DEF MultiInv, PlaceInv
  <2>3. Charged' = {}
    BY <1>1, <2>1, <2>2 DEF Charged
  <2> QED BY <1>2, <1>3, <2>1, <2>3, QuietTwo
<1>8. CASE Spin
  <2>1. lastRan' = lastRan /\ Charged' = Charged
    BY <1>8 DEF Spin, vars, multiVars, Charged
  <2> QED BY <1>2, <1>3, <2>1, QuietTwo
<1>5. CASE NotDue
  <2>1. /\ lastRan' = lastRan \/ (\A c \in Cpu : IsEmptyPQ(c) /\ lastRan'[c] = NULL)
        /\ pc = "arrive" /\ pc' \in {"arrive", "run"} /\ i' = i
    BY <1>5 DEF NotDue, IsAllCpuPQEmpty
  <2>2. i = 0
    BY <1>1, <2>1 DEF MultiInv, PlaceInv
  <2>3. Charged' = {}
    BY <1>1, <2>1, <2>2 DEF Charged
  <2> QED BY <1>2, <1>3, <2>1, <2>3, QuietTwo
<1>6. CASE Advance \/ CheckOn
  <2>1. lastRan' = lastRan /\ Charged' \subseteq Charged
    BY <1>1, <1>6 DEF Advance, CheckOn, Charged
  <2> QED BY <1>2, <1>3, <2>1, QuietTwo
<1>7. CASE SkipCpu
  <2>1. /\ pc \in {"run", "check"} /\ pc' = pc /\ i < numCPU /\ i' = i + 1 /\ Rests(i)
        /\ lastRan' = IF pc = "run" THEN [lastRan EXCEPT ![i] = NULL] ELSE lastRan
    BY <1>7 DEF SkipCpu
  <2>2. i \in Cpu /\ minPtr[i] = NULL
    BY <1>1, <2>1, RestsFacts
  <2>3. IsEmptyPQ(i)
    BY <1>1, <2>1, <2>2, MinIsRootEmpty
  <2>4. lastRan \in [Cpu -> Proc \cup {NULL}]
    BY <1>1 DEF MultiInv, MultiTypeOK
  <2>5. \A c \in Cpu : lastRan'[c] = lastRan[c] \/ (lastRan'[c] = NULL /\ IsEmptyPQ(c))
    BY <2>1, <2>3, <2>4
  <2>6. \A c \in Charged' : minPtr[c] # NULL => c \in Charged /\ lastRan'[c] = lastRan[c]
    BY <1>1, <2>1, <2>2, <2>4 DEF Charged
  <2> QED BY <1>2, <1>3, <2>1, <2>5, <2>6, QuietTwo
<1> QED BY <1>4, <1>5, <1>6, <1>7, <1>8

-----------------------------------------------------------------------------
(***************************************************************************)
(* The steps of a call, and the ones that end in undefined behaviour.      *)
(***************************************************************************)

\* An iteration of InsertPQ writes slot 1 only to store the new part there.
LEMMA SiftUpRoot ==
  ASSUME MultiInv, RootInv, SiftUp,
         UNCHANGED <<pc, target, minPtr, inputList, subProcNo, remainingTime>>
  PROVE  RootInv'
<1> SUFFICES ASSUME pc = "placed" PROVE RootInv'
  BY DEF RootInv
<1>1. /\ call = "siftUp" /\ at = target /\ target \in Cpu /\ QueueInv /\ Capacity \in Nat
      /\ processes \in [Cpu -> [0 .. Capacity -> Pointer]] /\ size[target] \in 0 .. Capacity
  BY MultiFacts, CapacityAssumption DEF SiftUp, MultiInv, PlaceInv, TypeOK
<1>2. /\ item = NewPart /\ IF hole = 1 THEN Takes ELSE processes[target][1] = minPtr[target]
      /\ NewPart' = NewPart /\ hole \in 1 .. Capacity
  BY <1>1 DEF RootInv, QueueInv, HoleInv, NewPart, HeadPid, GetFromInputList
<1>3. Takes' <=> Takes
  BY <1>2 DEF Takes
<1>7. queued' = queued /\ minPtr[target] \in queued[target] \cup {NULL}
  BY DEF SiftUp, RootInv, historyVars
<1>4. remainingTime[item] \in Nat /\ (hole = 1 => remainingTime[processes[at][hole \div 2]] = 0)
  BY <1>1, MultiFacts DEF QueueInv, HoleInv, TypeOK, ShapeInv
<1>5. CASE /\ remainingTime[processes[at][hole \div 2]] > remainingTime[item] /\ call' = call /\ item' = item
           /\ processes' = [processes EXCEPT ![at][hole] = processes[at][hole \div 2]]
           /\ hole' = hole \div 2
  <2>1. hole # 1
    BY <1>4, <1>5
  <2>2. processes'[target][1] = processes[target][1]
    BY <1>1, <1>2, <1>5, <2>1
  <2>3. hole' = 1 => Takes
    BY <1>1, <1>2, <1>5, <2>1 DEF Takes
  <2> QED BY <1>1, <1>2, <1>3, <1>5, <1>7, <2>1, <2>2, <2>3 DEF RootInv
<1>6. CASE call' = "none" /\ processes' = [processes EXCEPT ![at][hole] = item]
  <2>1. processes'[target][1] = IF hole = 1 THEN item ELSE processes[target][1]
    BY <1>1, <1>2, <1>6
  <2> QED BY <1>2, <1>3, <1>6, <1>7, <2>1 DEF RootInv
<1> QED BY <1>5, <1>6 DEF SiftUp

\* What an iteration moves is a part that the heap holds, and stays behind in the
\* new hole.
LEMMA SiftStale ==
  ASSUME QueueInv, tied = {}, StaleInv, SiftUp \/ SiftDown, Owned(at)' = Owned(at)
  PROVE  StaleInv'
<1> SUFFICES ASSUME call' \in {"siftUp", "siftDown"}, hole' <= size'[at]
             PROVE  processes'[at][hole'] \in queued[at]
  BY DEF StaleInv, Owned, SiftUp, SiftDown
<1>1. /\ at \in Cpu /\ size[at] \in 0 .. Capacity /\ Capacity \in Nat /\ hole \in 1 .. Capacity
      /\ processes \in [Cpu -> [0 .. Capacity -> Pointer]] /\ hole >= 1
      /\ Moving(at) /\ Contents(View(at), Count(at)) = queued[at]
  BY CapacityAssumption, SiftWrites DEF SiftUp, SiftDown, QueueInv, TypeOK, HoleInv, ContentInv, Moving
<1>2. ASSUME NEW k \in 1 .. size[at], k # hole PROVE processes[at][k] \in queued[at]
  <2>1. View(at)[k] = processes[at][k] /\ k \in 1 .. Count(at)
    BY <1>1, <1>2 DEF View, Count
  <2> QED BY <1>1, <2>1 DEF Contents
<1>3. CASE SiftUp
  <2>1. /\ hole' = hole \div 2 /\ size' = size /\ remainingTime[processes[at][hole \div 2]] > remainingTime[item]
        /\ processes' = [processes EXCEPT ![at][hole] = processes[at][hole \div 2]]
    BY <1>3 DEF SiftUp
  <2>2. remainingTime[DummyHead] = 0 /\ processes[at][0] = DummyHead /\ remainingTime[item] \in Nat
    BY <1>1, <1>3 DEF SiftUp, QueueInv, ShapeInv, HoleInv, TypeOK
  <2>3. hole # 1
    BY <2>1, <2>2
  <2>4. hole' \in 1 .. size[at] /\ hole' # hole
    BY <1>1, <2>1, <2>3
  <2>5. processes'[at][hole'] = processes[at][hole']
    BY <1>1, <2>1, <2>4
  <2> QED BY <1>2, <2>4, <2>5
<1>4. CASE SiftDown
  <2>1. /\ hole' \in {2 * hole, 2 * hole + 1} /\ size' = size
        /\ processes' = [processes EXCEPT ![at][hole] = processes[at][hole']]
    BY <1>4 DEF SiftDown, SmallerChild
  <2>2. hole' \in 1 .. size[at] /\ hole' # hole
    BY <1>1, <2>1
  <2>3. processes'[at][hole'] = processes[at][hole']
    BY <1>1, <2>1, <2>2
  <2> QED BY <1>2, <2>2, <2>3
<1> QED BY <1>3, <1>4

\* While no deletion has met a tie a call moves the parts of its processor, and
\* no freed part is used.
LEMMA StayTwo ==
  ASSUME TwoCpuInv, MultiCountInv',
         \/ QueueStep /\ UNCHANGED <<listVars, multiVars>>
         \/ call = "none" /\ \E c \in Cpu : UseFreed(c)
         \/ UNCHANGED vars
  PROVE  TwoCpuInv'
<1>1. /\ UNCHANGED <<queued, tied, live, popped, remainingTime>>
      /\ UNCHANGED <<pc, i, subProcNo, target, minPtr, isRunning, nodeOf, lastRan, inputList>>
  BY DEF UseFreed, vars, QueueStep, SiftUp, SiftDown, PidSort, UndefinedIteration, queueVars, callVars,
         historyVars, listVars, multiVars, placeVars, cpuVars, tableVars
<1>2. RoomInv' /\ GoneInv'
  BY <1>1, KeepGone DEF TwoCpuInv, RoomInv, Pid
<1>3. ASSUME tied = {} PROVE KeptInv' /\ ApartInv' /\ StaleInv' /\ RootInv' /\ MarkInv'
  <2>1. /\ \A c \in Cpu : Owned(c)' = Owned(c)
        /\ KeptInv' /\ ApartInv'
    BY <1>1, <1>3, UntiedFacts, KeepOwned DEF Owned
  <2>2. MarkInv'
    BY <1>1, <1>3, UntiedFacts, SameWaiting DEF MarkInv, Unborn, Charged, NewPart
  <2>3. call' # "undefined"
    BY <1>1, <1>3, MultiFacts DEF MultiCountInv, MultiInv, QueueInv, UndefinedOnlyIfTied
  <2>4. RootInv'
    <3>1. CASE SiftUp
      BY <1>1, <1>3, <3>1, UntiedFacts, SiftUpRoot
    <3>2. CASE SiftDown \/ PidSort
      <4>1. pc # "placed"
        BY <1>3, <3>2, UntiedFacts DEF SiftDown, PidSort, MultiInv, PlaceInv
      <4> QED BY <1>1, <4>1 DEF RootInv
    <3>3. CASE UndefinedIteration \/ \E c \in Cpu : UseFreed(c)
      BY <2>3, <3>3 DEF UndefinedIteration, UseFreed
    <3>4. CASE UNCHANGED vars
      <4>1. UNCHANGED <<call, item, hole, processes>>
        BY <3>4 DEF vars, queueVars, callVars, heapVars
      <4> QED BY <1>1, <1>3, <4>1, UntiedFacts, SameWaiting DEF RootInv, NewPart, Takes
    <3> QED BY <3>1, <3>2, <3>3, <3>4 DEF QueueStep
  <2>5. StaleInv'
    <3>1. CASE SiftUp \/ SiftDown
      <4>1. at' = at /\ at \in Cpu
        BY <1>3, <3>1, UntiedFacts, SiftWrites
      <4>2. Owned(at)' = Owned(at)
        BY <1>1, <4>1 DEF Owned
      <4> QED BY <1>3, <3>1, <4>2, UntiedFacts, SiftStale
    <3>2. CASE PidSort \/ UndefinedIteration \/ \E c \in Cpu : UseFreed(c)
      BY <2>3, <3>2 DEF PidSort, UndefinedIteration, UseFreed, StaleInv
    <3>3. CASE UNCHANGED vars
      <4>1. UNCHANGED <<call, at, hole, processes, size>>
        BY <3>3 DEF vars, queueVars, callVars, heapVars
      <4> QED BY <1>1, <1>3, <4>1, UntiedFacts DEF StaleInv, Owned
    <3> QED BY <3>1, <3>2, <3>3 DEF QueueStep
  <2> QED BY <2>1, <2>2, <2>4, <2>5
<1> QED BY <1>1, <1>2, <1>3 DEF TwoCpuInv

-----------------------------------------------------------------------------
(***************************************************************************)
(* The actions that run, choose, place and delete parts.                   *)
(***************************************************************************)

\* What runs is marked: it is the root of its heap, and in no other.
LEMMA RunCpuTwo ==
  ASSUME TwoCpuInv, MultiCountInv', call = "none", RunCpu
  PROVE  TwoCpuInv'
<1> DEFINE p == minPtr[i]
<1>1. /\ pc = "run" /\ pc' = "run" /\ i < numCPU /\ ~Rests(i) /\ p \in live /\ i' = i + 1
      /\ remainingTime' = [remainingTime EXCEPT ![p] = @ - 1]
      /\ isRunning' = isRunning \cup {p} /\ lastRan' = [lastRan EXCEPT ![i] = p]
      /\ UNCHANGED <<queued, tied, live, popped, minPtr, nodeOf, inputList, call, at, hole, size,
                     processes>>
  BY DEF RunCpu, historyVars, callVars, heapVars, listVars, tableVars
<1>2. MultiInv
  BY DEF TwoCpuInv, MultiCountInv
<1>3. /\ i \in Cpu /\ i \in Nat /\ ~IsEmptyPQ(i) /\ p = processes[i][1] /\ QueueInv
      /\ remainingTime \in [Proc \cup {DummyHead} -> Nat] /\ Cpu = 0 .. numCPU - 1
  BY <1>1, <1>2, RestsFacts, MultiFacts DEF TypeOK
<1> HIDE DEF p
<1>4. \A q \in Proc : Unborn(q)' => Unborn(q)
  BY <1>1, <1>3 DEF Unborn
<1>5. RoomInv' /\ GoneInv'
  <2>1. RoomInv'
    BY <1>1 DEF TwoCpuInv, RoomInv, Pid
  <2>2. \A pid \in Arrived : \A q \in Parts(pid) : q \in Proc
    BY <1>2 DEF MultiInv, PartInv, Arrived
  <2>3. \A pid \in Arrived : \A q \in Parts(pid) : q \in live' \/ remainingTime'[q] = 0
    BY <1>1, <1>3, <2>2 DEF TwoCpuInv, GoneInv
  <2>4. Arrived' = Arrived /\ \A pid : Parts(pid)' = Parts(pid)
    BY <1>1, SameWaiting
  <2> QED BY <2>1, <2>3, <2>4 DEF GoneInv
<1>6. ASSUME tied = {} PROVE KeptInv' /\ ApartInv' /\ StaleInv' /\ RootInv' /\ MarkInv'
  <2>1. KeptInv' /\ ApartInv' /\ StaleInv' /\ RootInv'
    BY <1>1, <1>6, UntiedFacts, KeepOwned DEF Owned, StaleInv, RootInv
  <2>2. /\ MarkInv /\ lastRan \in [Cpu -> Proc \cup {NULL}] /\ isRunning \subseteq Proc
        /\ p \in queued[i] /\ p \in Proc
        /\ \A c \in Cpu \ {i} : p \notin queued[c]
    BY <1>2, <1>3, <1>6, UntiedFacts, SlotsAreQueued, QueuesApart
  <2>3. \A q \in isRunning' : ~Unborn(q)'
    BY <1>1, <1>4, <2>2 DEF MarkInv, Unborn
  <2>4. \A c \in Cpu : lastRan'[c] # NULL => lastRan'[c] \in live' \/ ~(remainingTime'[lastRan'[c]] > 0)
    <3> SUFFICES ASSUME NEW c \in Cpu, lastRan'[c] # NULL
                 PROVE  lastRan'[c] \in live' \/ ~(remainingTime'[lastRan'[c]] > 0)
      OBVIOUS
    <3>1. CASE c = i
      <4>1. lastRan'[c] = p
        BY <1>1, <2>2, <3>1
      <4> QED BY <1>1, <4>1
    <3>2. CASE c # i
      <4>1. lastRan'[c] = lastRan[c] /\ lastRan[c] \in Proc
        BY <1>1, <2>2, <3>2
      <4>2. ~Unborn(lastRan[c])
        BY <2>2, <4>1 DEF MarkInv
      <4> QED BY <1>4, <4>1, <4>2 DEF Unborn
    <3> QED BY <3>1, <3>2
  <2>5. \A c \in Charged' : minPtr'[c] # NULL => lastRan'[c] = minPtr'[c]
    <3>1. \A c \in Charged' : c = i \/ c \in Charged
      BY <1>1, <1>3 DEF Charged
    <3>2. Charged' \subseteq Cpu
      BY DEF Charged
    <3> QED BY <1>1, <2>2, <3>1, <3>2 DEF MarkInv, p
  <2>6. \A c \in Cpu : \A q \in queued'[c] : q \in isRunning' <=> q = minPtr'[c] /\ q = lastRan'[c]
    <3> SUFFICES ASSUME NEW c \in Cpu, NEW q \in queued[c]
                 PROVE  q \in isRunning \cup {p} <=> q = minPtr[c] /\ q = lastRan'[c]
      BY <1>1
    <3>1. q \in isRunning <=> q = minPtr[c] /\ q = lastRan[c]
      BY <2>2 DEF MarkInv
    <3>2. lastRan'[c] = IF c = i THEN p ELSE lastRan[c]
      BY <1>1, <2>2
    <3>3. CASE c = i
      BY <3>1, <3>2, <3>3 DEF p
    <3>4. CASE c # i
      BY <2>2, <3>1, <3>2, <3>4
    <3> QED BY <3>3, <3>4
  <2>7. pc' # "placed"
    BY <1>1
  <2>8. MarkInv'
    BY <2>3, <2>4, <2>5, <2>6, <2>7 DEF MarkInv, Unborn
  <2> QED BY <2>1, <2>8
<1> QED BY <1>1, <1>5, <1>6 DEF TwoCpuInv

\* A part that loses the processor to another process is paused, and with no two
\* parts of a process on one processor that is every part that loses it.
LEMMA PickMinTwo ==
  ASSUME TwoCpuInv, MultiCountInv', PickMin
  PROVE  TwoCpuInv'
<1> DEFINE new == FindMinRemainTimeProcess(target)  prev == minPtr[target]
<1>1. /\ pc = "placed" /\ pc' = "place" /\ call = "none"
      /\ isRunning' = IF Pauses(prev, new) THEN isRunning \ {prev} ELSE isRunning
      /\ minPtr' = [minPtr EXCEPT ![target] = new]
      /\ UNCHANGED <<queueVars, nodeOf, inputList, lastRan>>
  BY DEF PickMin, listVars, tableVars
<1>2. MultiInv /\ target \in Cpu /\ QueueInv /\ minPtr \in [Cpu -> Proc \cup {NULL}]
  BY MultiFacts DEF TwoCpuInv, MultiCountInv
<1>3. UNCHANGED <<queued, tied, live, popped, remainingTime, call, at, hole, size, processes>>
  BY <1>1 DEF queueVars, historyVars, callVars, heapVars
<1>4. RoomInv' /\ GoneInv'
  BY <1>1, <1>3, KeepGone DEF TwoCpuInv, RoomInv, Pid
<1>5. ASSUME tied = {} PROVE KeptInv' /\ ApartInv' /\ StaleInv' /\ RootInv' /\ MarkInv'
  <2>1. KeptInv' /\ ApartInv' /\ StaleInv' /\ RootInv'
    BY <1>1, <1>3, <1>5, UntiedFacts, KeepOwned DEF Owned, StaleInv, RootInv
  <2>2. MarkInv /\ ApartInv /\ RootInv
    BY <1>5, UntiedFacts
  <2>3. ~IsEmptyPQ(target)
    BY <1>1, <1>2 DEF MultiInv, PlaceInv, IsEmptyPQ
  <2>4. new \in queued[target] /\ new \in {prev, NewPart} /\ lastRan[target] # NewPart
    BY <1>1, <1>2, <1>5, <2>2, <2>3, SlotsAreQueued DEF RootInv, MarkInv, FindMinRemainTimeProcess
  <2>5. \A c \in Cpu : \A q \in queued[c] : q \in isRunning' <=> q = minPtr'[c] /\ q = lastRan[c]
    <3> HIDE DEF new, prev
    <3> SUFFICES ASSUME NEW c \in Cpu, NEW q \in queued[c]
                 PROVE  q \in isRunning' <=> q = minPtr'[c] /\ q = lastRan[c]
      OBVIOUS
    <3>1. q \in isRunning <=> q = minPtr[c] /\ q = lastRan[c]
      BY <2>2 DEF MarkInv
    <3>2. minPtr'[c] = IF c = target THEN new ELSE minPtr[c]
      BY <1>1, <1>2
    <3>3. prev \in queued[target] \cup {NULL} /\ prev \in Proc \cup {NULL} /\ q \in Proc /\ NULL \notin Proc
      BY <1>1, <1>2, <1>5, <2>2, UntiedFacts, MultiFacts DEF RootInv, prev
    <3>4. CASE c # target
      <4>1. q \notin queued[target]
        BY <1>1, <1>2, <1>5, <3>4, QueuesApart
      <4>2. q # prev
        BY <3>3, <4>1
      <4> QED BY <1>1, <3>1, <3>2, <3>4, <4>2
    <3>5. CASE c = target /\ new = prev
      <4>1. ~Pauses(prev, new)
        BY <3>5 DEF Pauses
      <4> QED BY <1>1, <3>1, <3>2, <3>5, <4>1 DEF prev
    <3>6. CASE c = target /\ new # prev
      <4>1. new = NewPart /\ lastRan[c] # new
        BY <2>4, <3>6
      <4>2. prev # NULL => PidOf(prev) # PidOf(new)
        BY <1>1, <2>2, <2>4, <3>3, <3>6, OwnedQueued DEF ApartInv, new, prev
      <4>3. q \in isRunning' <=> q \in isRunning /\ q # prev
        BY <1>1, <3>3, <4>2 DEF Pauses
      <4> QED BY <3>1, <3>2, <3>6, <4>1, <4>3 DEF prev
    <3> QED BY <3>4, <3>5, <3>6
  <2>6. \A q : Unborn(q)' <=> Unborn(q)
    BY <1>3 DEF Unborn
  <2>7. Charged' = {} /\ isRunning' \subseteq isRunning /\ pc' # "placed"
    BY <1>1 DEF Charged
  <2>8. MarkInv'
    BY <1>1, <1>3, <2>2, <2>5, <2>6, <2>7 DEF MarkInv
  <2> QED BY <2>1, <2>8
<1> QED BY <1>1, <1>3, <1>4, <1>5 DEF TwoCpuInv

\* When its node leaves the list all parts of a process exist.
LEMMA PlacedTwo ==
  ASSUME TwoCpuInv, MultiCountInv', Placed
  PROVE  TwoCpuInv'
<1>1. /\ pc = "place" /\ pc' \in {"run", "arrive"} /\ i' = i
      /\ UNCHANGED <<queueVars, cpuVars, nodeOf, lastRan>>
  BY DEF Placed, placeVars, tableVars
<1>2. UNCHANGED <<queued, tied, live, popped, remainingTime, minPtr, isRunning, call, at, hole, size,
                  processes>>
  BY <1>1 DEF queueVars, historyVars, callVars, heapVars, cpuVars
<1>3. MultiCountInv /\ MultiInv
  BY DEF TwoCpuInv, MultiCountInv
<1>4. RoomInv' /\ GoneInv'
  BY <1>1, <1>2, <1>3, PlacedArrives DEF TwoCpuInv, RoomInv, GoneInv, Pid
<1>5. ASSUME tied = {} PROVE KeptInv' /\ ApartInv' /\ StaleInv' /\ RootInv' /\ MarkInv'
  <2>1. KeptInv' /\ ApartInv' /\ StaleInv' /\ RootInv'
    BY <1>1, <1>2, <1>5, UntiedFacts, KeepOwned DEF Owned, StaleInv, RootInv
  <2>2. Charged' = {}
    <3>1. i = 0
      BY <1>1, <1>3 DEF MultiInv, PlaceInv
    <3> QED BY <1>1, <1>3, <3>1, MultiFacts DEF Charged
  <2> QED BY <1>1, <1>2, <1>5, <2>1, <2>2, UntiedFacts, KeepMark
<1> QED BY <1>2, <1>4, <1>5 DEF TwoCpuInv

\* The part that is deleted leaves its queue, and is kept until it is freed.
LEMMA FinishTwo ==
  ASSUME TwoCpuInv, MultiCountInv', Finish
  PROVE  TwoCpuInv'
<1>1. /\ pc = "check" /\ pc' = "free" /\ call = "none" /\ i < numCPU /\ ~Rests(i) /\ DeleteMin(i)
      /\ UNCHANGED <<inputList, remainingTime, live, i, minPtr, isRunning, nodeOf, lastRan>>
  BY DEF Finish, listVars, cpuVars
<1>2. /\ popped' = processes[i][1] /\ tied \subseteq tied'
      /\ queued' = [queued EXCEPT ![i] = @ \ {processes[i][1]}]
  BY <1>1 DEF DeleteMin
<1>3. MultiInv /\ NULL \notin live /\ popped = NULL
  BY <1>1, RestsFacts, MultiFacts DEF TwoCpuInv, MultiCountInv
<1>4. RoomInv' /\ GoneInv'
  BY <1>1, KeepGone DEF TwoCpuInv, RoomInv, Pid
<1>5. ASSUME tied = {} PROVE KeptInv' /\ ApartInv' /\ StaleInv' /\ RootInv' /\ MarkInv'
  <2>1. /\ \A c \in Cpu : queued'[c] \subseteq queued[c] /\ queued[c] \subseteq queued'[c] \cup {popped'}
        /\ KeptInv /\ ApartInv /\ MarkInv
    BY <1>2, <1>5, UntiedFacts
  <2>2. \A c \in Cpu : Owned(c)' = Owned(c)
    <3>1. queued \in [Cpu -> SUBSET Proc] /\ i \in Cpu /\ processes[i][1] \in queued[i]
      BY <1>1, <1>3, <1>5, UntiedFacts, RestsFacts, SlotsAreQueued
    <3>2. \A c \in Cpu : queued'[c] = IF c = i THEN queued[c] \ {processes[i][1]} ELSE queued[c]
      BY <1>2, <3>1
    <3> QED BY <1>1, <1>2, <3>1, <3>2 DEF Owned
  <2>3. KeptInv' /\ ApartInv' /\ StaleInv' /\ RootInv'
    <3>1. RootInv'
      BY <1>1 DEF RootInv
    <3>2. StaleInv'
      BY <1>1 DEF StaleInv, Owned, DeleteMin
    <3> QED BY <1>1, <2>1, <2>2, <3>1, <3>2, KeepOwned
  <2>4. Charged' = Charged
    BY <1>1 DEF Charged
  <2> QED BY <1>1, <2>1, <2>3, <2>4, KeepMark
<1> QED BY <1>2, <1>4, <1>5 DEF TwoCpuInv

\* The part that is freed ran last on its processor: what follows it is not marked.
LEMMA FreeTwo ==
  ASSUME TwoCpuInv, MultiCountInv', Free
  PROVE  TwoCpuInv'
<1>1. /\ pc = "free" /\ pc' = "check" /\ live' = live \ {popped} /\ popped' = NULL /\ i' = i + 1
      /\ minPtr' = [minPtr EXCEPT ![i] = NextMin]
      /\ UNCHANGED <<queued, tied, remainingTime, inputList, isRunning, nodeOf, lastRan, call>>
      /\ call = "none"
  BY DEF Free, listVars, historyVars, tableVars
<1>2. MultiInv /\ i \in Cpu /\ Cpu = 0 .. numCPU - 1 /\ numCPU \in Nat /\ NULL \notin Proc
  BY <1>1, MultiFacts DEF TwoCpuInv, MultiCountInv, MultiInv, PlaceInv
<1>3. /\ popped = minPtr[i] /\ popped \in live /\ remainingTime[popped] = 0 /\ popped \in Proc
      /\ minPtr \in [Cpu -> Proc \cup {NULL}] /\ \A c \in Cpu : popped \notin queued[c]
  BY <1>1, <1>2, MultiFacts DEF MultiInv, PointerInv, QueueInv, HomeInv
<1>4. RoomInv' /\ GoneInv'
  BY <1>1, <1>3, KeepGone DEF TwoCpuInv, RoomInv, Pid
<1>5. ASSUME tied = {} PROVE KeptInv' /\ ApartInv' /\ StaleInv' /\ RootInv' /\ MarkInv'
  <2>1. KeptInv' /\ ApartInv' /\ StaleInv' /\ RootInv' /\ MarkInv
    <3>1. \A c \in Cpu : Owned(c)' \subseteq Owned(c) /\ Owned(c) \ {popped} \subseteq Owned(c)'
      BY <1>1 DEF Owned
    <3> QED BY <1>1, <1>5, <3>1, UntiedFacts DEF KeptInv, ApartInv, StaleInv, RootInv
  <2>2. \A q : Unborn(q)' => Unborn(q)
    BY <1>1, <1>3 DEF Unborn
  <2>3. Charged' = Charged \ {i} /\ i \in Charged
    BY <1>1, <1>2 DEF Charged
  <2>4. lastRan[i] = popped
    BY <1>2, <1>3, <2>1, <2>3 DEF MarkInv
  <2>5. \A c \in Cpu : \A q \in queued[c] : q \in isRunning <=> q = minPtr'[c] /\ q = lastRan[c]
    <3> SUFFICES ASSUME NEW c \in Cpu, NEW q \in queued[c]
                 PROVE  q \in isRunning <=> q = minPtr'[c] /\ q = lastRan[c]
      OBVIOUS
    <3>1. (q \in isRunning <=> q = minPtr[c] /\ q = lastRan[c]) /\ q # popped
      BY <1>3, <2>1 DEF MarkInv
    <3>2. c # i => minPtr'[c] = minPtr[c]
      BY <1>1, <1>3
    <3> QED BY <1>3, <2>4, <3>1, <3>2
  <2>6. \A c \in Charged' : minPtr'[c] = minPtr[c]
    BY <1>1, <1>3, <2>3 DEF Charged
  <2>7. pc' # "placed"
    BY <1>1
  <2>8. MarkInv'
    BY <1>1, <2>1, <2>2, <2>3, <2>5, <2>6, <2>7 DEF MarkInv
  <2> QED BY <2>1, <2>8
<1> QED BY <1>1, <1>4, <1>5 DEF TwoCpuInv

-----------------------------------------------------------------------------
(***************************************************************************)
(* Where a part goes.                                                      *)
(***************************************************************************)

\* The scan for a subprocess ends at a processor without a part of its process:
\* with two processors there is one sibling at most, and it is passed over.
LEMMA NoSibling ==
  ASSUME numCPU = 2, TwoCpuInv, tied = {}, pc = "place", NewPart \in Parts(HeadPid),
         NEW c \in Cpu, PlaceOf(HeadPid, c), NEW q \in queued[c]
  PROVE  PidOf(q) # HeadPid /\ PidOf(q) \in Pid
<1>1. /\ MultiInv /\ MultiCountInv /\ QueueInv /\ call = "none" /\ q \in live
      /\ Cpu = {0, 1} /\ IsPlacing
  <2>1. Cpu = 0 .. 1
    BY FilesAssumption
  <2> QED BY <2>1, UntiedFacts DEF MultiInv, PlaceInv, IsPlacing
<1>2. /\ HeadPid \in Pid /\ 1 \in 1 .. Len(inputList) /\ HeadPid = inputList[1].pid
      /\ subProcNo \in 0 .. 1
  BY <1>1, PartToPlace DEF NewPart
<1>3. PidOf(q) \in Pid /\ q \in Parts(PidOf(q))
  <2>1. PICK pid \in Pid : q \in Parts(pid)
    BY <1>1 DEF MultiCountInv, BornInv, AllParts
  <2> QED BY <2>1, OwnParts
<1>4. ASSUME PidOf(q) = HeadPid PROVE FALSE
  <2>1. q \in Parts(HeadPid) /\ q[2] \in 0 .. 1 /\ q = <<HeadPid, q[2]>>
    <3>1. q \in Parts(HeadPid)
      BY <1>3, <1>4
    <3> QED BY <1>1, <1>2, <3>1, PartFacts
  <2>2. ~(q[2] > subProcNo \/ q[2] = subProcNo)
    BY <1>1, <1>2, <2>1 DEF MultiInv, PartInv, Unborn
  <2>3. q[2] = 0 /\ subProcNo = 1
    BY <1>2, <2>1, <2>2
  <2>4. IsParallel(HeadPid)
    BY <2>3 DEF Parts, NewPart
  <2>5. \A d \in Cpu : isFindProcessPid(d, HeadPid) <=> d = c
    <3> SUFFICES ASSUME NEW d \in Cpu PROVE isFindProcessPid(d, HeadPid) <=> d = c
      OBVIOUS
    <3>1. isFindProcessPid(d, HeadPid) <=> \E p \in queued[d] : PidOf(p) = HeadPid
      <4>1. Slots(d) = queued[d]
        BY <1>1, SlotsAreQueued
      <4> QED BY <4>1 DEF isFindProcessPid, Slots, Contents
    <3>2. ASSUME NEW p \in queued[d], PidOf(p) = HeadPid PROVE p = q
      <4>1. p \in live
        BY UntiedFacts
      <4>2. p \in Parts(HeadPid)
        <5>1. PICK pid \in Pid : p \in Parts(pid)
          BY <1>1, <4>1 DEF MultiCountInv, BornInv, AllParts
        <5> QED BY <3>2, <5>1, OwnParts
      <4>3. p[2] \in 0 .. 1 /\ p = <<HeadPid, p[2]>>
        BY <1>1, <1>2, <4>2, PartFacts
      <4>4. ~(p[2] > subProcNo \/ p[2] = subProcNo)
        BY <1>1, <1>2, <4>1, <4>2 DEF MultiInv, PartInv, Unborn
      <4> QED BY <2>1, <2>3, <4>3, <4>4
    <3>3. d = c => \E p \in queued[d] : PidOf(p) = HeadPid
      BY <1>4
    <3>4. ASSUME NEW p \in queued[d], PidOf(p) = HeadPid PROVE d = c
      <4>1. q \in queued[d]
        BY <3>2, <3>4
      <4> QED BY <1>1, <4>1, QueuesApart
    <3> QED BY <3>1, <3>3, <3>4
  <2>6. c \in SubprocessCandidates(HeadPid)
    BY <2>4 DEF PlaceOf, FirstLeast
  <2>7. SubprocessCandidates(HeadPid) =
          IF c = 0 THEN {1} \cup {d \in 1 .. 1 : d # c} ELSE {0} \cup {d \in 0 .. 1 : d # c}
    <3>1. 0 \in Cpu /\ 1 \in Cpu /\ 1 .. 1 \subseteq Cpu /\ 0 .. 1 \subseteq Cpu
      BY <1>1
    <3>2. isFindProcessPid(0, HeadPid) <=> c = 0
      BY <2>5, <3>1
    <3>3. numCPU - 1 = 1
      OBVIOUS
    <3> QED BY <2>5, <3>1, <3>2, <3>3 DEF SubprocessCandidates
  <2> QED BY <1>1, <2>6, <2>7
<1> QED BY <1>3, <1>4

\* The parts in a queue are of different processes, and not of the one to be placed.
LEMMA HasRoom ==
  ASSUME numCPU = 2, TwoCpuInv, tied = {}, pc = "place", NewPart \in Parts(HeadPid),
         NEW c \in Cpu, PlaceOf(HeadPid, c)
  PROVE  ~IsFullPQ(c)
<1>1. /\ QueueInv /\ call = "none" /\ MultiInv /\ ApartInv
  BY UntiedFacts DEF MultiInv, PlaceInv
<1>2. Slots(c) = queued[c] /\ Distinct(processes[c], size[c]) /\ size[c] \in Nat
  BY <1>1, SlotsAreQueued
<1> DEFINE g == [k \in 1 .. size[c] |-> PidOf(processes[c][k])]  T == Pid \ {HeadPid}
<1>3. HeadPid \in Pid
  BY <1>1, PartToPlace DEF NewPart
<1>4. \A k \in 1 .. size[c] : processes[c][k] \in queued[c]
  BY <1>2 DEF Slots, Contents
<1>5. \A k \in 1 .. size[c] : PidOf(processes[c][k]) \in T
  BY <1>4, NoSibling
<1>6. \A j, k \in 1 .. size[c] : PidOf(processes[c][j]) = PidOf(processes[c][k]) => j = k
  BY <1>1, <1>2, <1>4, OwnedQueued DEF ApartInv, Distinct
<1>7. g \in Injection(1 .. size[c], T)
  <2> HIDE DEF T
  <2> QED BY <1>5, <1>6 DEF Injection, IsInjective
<1>8. IsFiniteSet(T) /\ Cardinality(T) = Cardinality(Pid) - 1
  BY <1>3, FS_RemoveElement DEF TwoCpuInv, RoomInv
<1>9. IsFiniteSet(1 .. size[c]) /\ Cardinality(1 .. size[c]) = size[c]
  BY <1>2, UpTo
<1>10. Cardinality(Pid) \in Nat /\ Cardinality(Pid) <= Capacity /\ Capacity \in Nat
  BY FS_CardinalityType, CapacityAssumption DEF TwoCpuInv, RoomInv
<1> HIDE DEF g, T
<1>11. Cardinality(1 .. size[c]) <= Cardinality(T)
  BY <1>7, <1>8, FS_Injection
<1> QED BY <1>2, <1>8, <1>9, <1>10, <1>11 DEF IsFullPQ

\* A part is handed to a processor that has room for it and no sibling of it.
LEMMA PlaceTwo ==
  ASSUME numCPU = 2, TwoCpuInv, MultiCountInv', Place
  PROVE  TwoCpuInv'
<1> DEFINE p == NewPart
<1>1. /\ pc = "place" /\ pc' = "placed" /\ p \in Parts(HeadPid) /\ live' = live \cup {p}
      /\ UNCHANGED <<inputList, remainingTime, i, subProcNo, minPtr, isRunning, nodeOf, lastRan>>
  BY DEF Place, NewPart, listVars, cpuVars, tableVars
<1>2. PICK c \in Cpu : PlaceOf(HeadPid, c) /\ target' = c /\ InsertPQ(p, c)
  BY DEF Place, NewPart
<1>3. MultiInv /\ p \in Proc /\ Unborn(p) /\ NULL \notin Proc /\ p' = p
  BY <1>1, PartToPlace, SameWaiting, MultiFacts DEF TwoCpuInv, MultiCountInv, NewPart
<1>4. RoomInv' /\ GoneInv'
  <2> HIDE DEF p
  <2> QED BY <1>1, KeepGone DEF TwoCpuInv, RoomInv, Pid
<1>5. call = "none" /\ tied' = tied
  BY <1>2 DEF InsertPQ, RefuseInsert, StartInsert, historyVars
<1>6. ASSUME tied = {} PROVE KeptInv' /\ ApartInv' /\ StaleInv' /\ RootInv' /\ MarkInv'
  <2>1. /\ call' = "siftUp" /\ at' = c /\ hole' = size[c] + 1 /\ item' = p
        /\ queued' = [queued EXCEPT ![c] = @ \cup {p}] /\ UNCHANGED <<processes, size, popped>>
    BY <1>1, <1>2, <1>6, HasRoom DEF InsertPQ, RefuseInsert, StartInsert, heapVars
  <2>2. /\ KeptInv /\ ApartInv /\ MarkInv /\ QueueInv /\ queued \in [Cpu -> SUBSET Proc]
        /\ lastRan \in [Cpu -> Proc \cup {NULL}] /\ size[c] \in Nat
    BY <1>3, <1>6, UntiedFacts, MultiFacts
  <2>3. \A d \in Cpu : queued'[d] = IF d = c THEN queued[d] \cup {p} ELSE queued[d]
    BY <2>1, <2>2
  <2>4. KeptInv'
    <3> HIDE DEF p
    <3> QED BY <1>1, <2>1, <2>2, <2>3, OwnedQueued DEF KeptInv, Owned
  <2>5. ApartInv'
    <3>1. PidOf(p) = HeadPid /\ \A q \in queued[c] : PidOf(q) # HeadPid
      BY <1>1, <1>2, <1>6, NoSibling DEF NewPart, PidOf
    <3> HIDE DEF p
    <3>2. \A d \in Cpu : Owned(d)' = queued'[d] /\ Owned(d) = queued[d]
      BY <1>1 DEF Owned
    <3>3. \A d \in Cpu : \A q, s \in queued[d] : PidOf(q) = PidOf(s) => q = s
      BY <2>2, <3>2 DEF ApartInv
    <3>4. \A d \in Cpu : \A q, s \in queued'[d] : PidOf(q) = PidOf(s) => q = s
      BY <2>3, <3>1, <3>3
    <3> QED BY <3>2, <3>4 DEF ApartInv
  <2>6. RootInv'
    <3>1. minPtr[c] = IF IsEmptyPQ(c) THEN NULL ELSE processes[c][1]
      BY <1>1, <1>3 DEF MultiInv, PointerInv, FindMinRemainTimeProcess
    <3>2. ~IsEmptyPQ(c) => processes[c][1] \in queued[c]
      BY <1>5, <1>6, <2>2, SlotsAreQueued
    <3>3. IsEmptyPQ(c) => hole' = 1
      BY <2>1 DEF IsEmptyPQ
    <3> HIDE DEF p
    <3>4. item' = NewPart'
      BY <1>3, <2>1 DEF p
    <3>5. minPtr'[target'] = minPtr[c]
      BY <1>1, <1>2
    <3>6. CASE IsEmptyPQ(c)
      <4>1. Takes'
        BY <3>1, <3>5, <3>6 DEF Takes
      <4> QED BY <1>1, <1>2, <2>1, <3>1, <3>3, <3>4, <3>5, <3>6, <4>1 DEF RootInv
    <3>7. CASE ~IsEmptyPQ(c)
      <4>1. hole' # 1 /\ processes'[target'][1] = minPtr'[target']
        BY <1>2, <2>1, <2>2, <3>1, <3>5, <3>7 DEF IsEmptyPQ
      <4>2. minPtr'[target'] \in queued'[target']
        BY <1>2, <2>3, <3>1, <3>2, <3>5, <3>7
      <4> QED BY <2>1, <3>4, <4>1, <4>2 DEF RootInv
    <3> QED BY <3>6, <3>7
  <2>7. MarkInv'
    <3> HIDE DEF p
    <3>1. \A q : Unborn(q)' => Unborn(q)
      BY <1>1 DEF Unborn
    <3>2. p \notin isRunning /\ \A d \in Cpu : lastRan[d] # p
      BY <1>3, <2>2 DEF MarkInv
    <3>3. \A d \in Cpu : \A q \in queued'[d] : q \in isRunning <=> q = minPtr[d] /\ q = lastRan[d]
      BY <2>2, <2>3, <3>2, ZenonT(30) DEF MarkInv
    <3>4. Charged' = {}
      BY <1>1 DEF Charged
    <3>5. lastRan'[target'] # NewPart'
      BY <1>1, <1>2, <1>3, <3>2 DEF p
    <3> QED BY <1>1, <2>2, <3>1, <3>3, <3>4, <3>5 DEF MarkInv
  <2>8. StaleInv'
    BY <2>1, <2>2 DEF StaleInv
  <2> QED BY <2>4, <2>5, <2>6, <2>7, <2>8
<1> QED BY <1>4, <1>5, <1>6 DEF TwoCpuInv

-----------------------------------------------------------------------------
\* Nothing is placed at first.
LEMMA InitTwo ==
  ASSUME Init
  PROVE  TwoCpuInv
<1>1. MultiCountInv
  BY InitMultiCount
<1>2. RoomInv
  BY PidsFit DEF RoomInv
<1>3. GoneInv
  BY NoneArrived DEF GoneInv
<1>4. KeptInv /\ ApartInv /\ StaleInv /\ RootInv /\ MarkInv
  BY DEF Init, InitCall, KeptInv, ApartInv, StaleInv, Owned, RootInv, MarkInv, Charged
<1> QED BY <1>1, <1>2, <1>3, <1>4 DEF TwoCpuInv

\* Every step preserves the invariant.
LEMMA NextTwo ==
  ASSUME numCPU = 2, TwoCpuInv, MultiCountInv', [Next]_vars
  PROVE  TwoCpuInv'
<1>1. ASSUME call = "none", Step PROVE TwoCpuInv'
  <2>1. CASE \/ Sort \/ Begin \/ Arrive \/ Spin \/ NotDue \/ EndArrivals \/ Remain
             \/ SkipCpu \/ Advance \/ CheckOn \/ EndTick
    BY <1>1, <2>1, LoopTwo
  <2>2. CASE RunCpu \/ PickMin \/ Place \/ Placed \/ Finish \/ Free
    BY <1>1, <2>2, RunCpuTwo, PickMinTwo, PlaceTwo, PlacedTwo, FinishTwo, FreeTwo
  <2>3. CASE \E c \in Cpu : UseFreed(c)
    BY <1>1, <2>3, StayTwo
  <2> QED BY <1>1, <2>1, <2>2, <2>3 DEF Step
<1>2. CASE QueueStep /\ UNCHANGED <<listVars, multiVars>>
  BY <1>2, StayTwo
<1>3. CASE UNCHANGED vars
  BY <1>3, StayTwo
<1> QED BY <1>1, <1>2, <1>3 DEF Next

\* The simulation with two processors (HandleMultiCPU): until a deletion meets a
\* tie every part that exists is in one queue, no two of a process in the same,
\* and what is marked as running is what its processor ran last.
THEOREM TwoCpuInvariant ==
  ASSUME numCPU = 2
  PROVE  Spec => []TwoCpuInv
<1>1. TwoCpuInv /\ MultiCountInv' /\ [Next]_vars => TwoCpuInv'
  BY NextTwo
<1> QED BY <1>1, InitTwo, CountInvariant, PTL DEF Spec

-----------------------------------------------------------------------------
(***************************************************************************)
(* What the invariant says of the properties.                              *)
(***************************************************************************)

\* Between calls and during them a slot of a heap that has met no tie holds a part
\* of its processor: item in the hole, or what the last iteration left there.
LEMMA SlotsAreOwned ==
  ASSUME TwoCpuInv, tied = {}, NEW c \in Cpu, NEW p \in Slots(c)
  PROVE  p \in Owned(c)
<1>1. /\ QueueInv /\ call # "undefined" /\ StaleInv /\ size[c] \in Nat
      /\ Contents(View(c), Count(c)) = queued[c]
  BY UntiedFacts, MultiFacts DEF QueueInv, ContentInv
<1>2. PICK k \in 1 .. size[c] : p = processes[c][k]
  BY DEF Slots, Contents
<1>3. k \in 1 .. Count(c)
  BY <1>1 DEF Count
<1>4. CASE Moving(c) /\ k = hole
  BY <1>1, <1>2, <1>4 DEF StaleInv, Moving
<1>5. CASE ~(Moving(c) /\ k = hole)
  <2>1. processes \in [Cpu -> [0 .. Capacity -> Pointer]] /\ k \in 0 .. Capacity
    BY <1>1, CapacityAssumption DEF QueueInv, TypeOK
  <2>2. View(c)[k] = p
    BY <1>2, <1>5, <2>1 DEF View
  <2>3. p \in queued[c]
    BY <1>1, <1>3, <2>2 DEF Contents
  <2> QED BY <2>3 DEF Owned
<1> QED BY <1>4, <1>5

\* Two subprocesses of one process never share a processor (README.md:30).
THEOREM PartsStayApart ==
  ASSUME numCPU = 2
  PROVE  Spec => []PartsAreApart
<1>1. TwoCpuInv => PartsAreApart
  <2> SUFFICES ASSUME TwoCpuInv, Sound, NEW c \in Cpu, NEW p \in Slots(c), NEW q \in Slots(c),
                      PidOf(p) = PidOf(q)
               PROVE  p = q
    BY DEF PartsAreApart
  <2>1. ApartInv /\ p \in Owned(c) /\ q \in Owned(c)
    BY SlotsAreOwned, UntiedFacts DEF Sound
  <2> QED BY <2>1 DEF ApartInv
<1> QED BY <1>1, TwoCpuInvariant, PTL

\* Every part is added to a queue that has room for it (README.md:21, 30), though
\* that queue has no more slots than the file has lines.
THEOREM EveryPartHasRoom ==
  ASSUME numCPU = 2
  PROVE  Spec => []RoomForAll
<1>1. TwoCpuInv => RoomForAll
  BY HasRoom DEF RoomForAll, Sound, NewPart
<1> QED BY <1>1, TwoCpuInvariant, PTL

\* A RUNNING line is printed exactly when a processor turns to a process, not
\* while it goes on with it (sim.c:518-541, 651-674).
THEOREM AnnouncesEachSwitch ==
  ASSUME numCPU = 2
  PROVE  Spec => []AnnouncedOnSwitch
<1>1. TwoCpuInv => AnnouncedOnSwitch
  <2> SUFFICES ASSUME TwoCpuInv, Sound, pc = "run", i < numCPU, ~Rests(i)
               PROVE  Announces(i) <=> lastRan[i] # minPtr[i]
    BY DEF AnnouncedOnSwitch
  <2>1. MultiInv /\ MarkInv /\ QueueInv /\ tied = {} /\ call = "none"
    BY UntiedFacts DEF Sound, MultiInv, PlaceInv
  <2>2. i \in Cpu /\ ~IsEmptyPQ(i) /\ minPtr[i] = processes[i][1]
    BY <2>1, RestsFacts
  <2>3. minPtr[i] \in queued[i]
    BY <2>1, <2>2, SlotsAreQueued
  <2> QED BY <2>1, <2>2, <2>3 DEF MarkInv, Announces
<1> QED BY <1>1, TwoCpuInvariant, PTL

\* A part that exists while no process is being placed is one of a process that
\* has arrived.
LEMMA LiveArrived ==
  ASSUME MultiCountInv, ~IsPlacing, NEW p \in live
  PROVE  PidOf(p) \in Arrived /\ p \in Parts(PidOf(p))
<1>1. PICK pid \in Pid : p \in Parts(pid)
  BY DEF MultiCountInv, BornInv, AllParts
<1>2. PidOf(p) = pid
  BY <1>1, OwnParts
<1>3. pid \notin Waiting
  BY <1>1, WaitingUnborn
<1> QED BY <1>1, <1>2, <1>3 DEF Arrived

\* The slots that CountAllProcesses looks at, and the part in each.
CountedSlots == {s \in Cpu \X (1 .. Capacity) :
                   s[2] <= size[s[1]] /\ remainingTime[processes[s[1]][s[2]]] # 0}
InSlot(s) == processes[s[1]][s[2]]

\* The processes that have arrived and have a part with time left.
Remaining == {pid \in Arrived : \E p \in Parts(pid) : remainingTime[p] > 0}

\* When a process finishes every part with time left is in one slot.
LEMMA SlotsCounted ==
  ASSUME TwoCpuInv, tied = {}, pc = "check", call = "none"
  PROVE  /\ IsFiniteSet(CountedSlots)
         /\ \A s \in CountedSlots : InSlot(s) \in Parts(PidOf(InSlot(s)))
                                    /\ PidOf(InSlot(s)) \in Remaining
         /\ \A s, t \in CountedSlots : InSlot(s) = InSlot(t) => s = t
         /\ \A pid \in Remaining : \E s \in CountedSlots : PidOf(InSlot(s)) = pid
<1>1. /\ MultiInv /\ MultiCountInv /\ KeptInv /\ GoneInv /\ QueueInv
      /\ \A c \in Cpu : queued[c] \subseteq live
  BY UntiedFacts DEF TwoCpuInv
<1>2. \A c \in Cpu : Slots(c) = queued[c] /\ Distinct(processes[c], size[c]) /\ size[c] \in 0 .. Capacity
  BY <1>1, SlotsAreQueued
<1>3. live \subseteq Proc /\ remainingTime \in [Proc \cup {DummyHead} -> Nat] /\ Capacity \in Nat
  BY <1>1, CapacityAssumption DEF QueueInv, TypeOK
<1>4. ASSUME NEW s \in CountedSlots
      PROVE  /\ s[1] \in Cpu /\ s[2] \in 1 .. size[s[1]] /\ s = <<s[1], s[2]>>
             /\ InSlot(s) \in queued[s[1]] /\ remainingTime[InSlot(s)] # 0
  <2>1. /\ s[1] \in Cpu /\ s[2] \in 1 .. Capacity /\ s = <<s[1], s[2]>> /\ s[2] <= size[s[1]]
        /\ remainingTime[InSlot(s)] # 0
    BY DEF CountedSlots, InSlot
  <2>2. s[2] \in 1 .. size[s[1]]
    BY <1>2, <2>1
  <2> QED BY <1>2, <2>1, <2>2 DEF InSlot, Slots, Contents
<1>5. IsFiniteSet(CountedSlots)
  <2>1. IsFiniteSet(Cpu)
    <3>1. Cpu = 0 .. numCPU - 1 /\ 0 \in Int /\ numCPU - 1 \in Int
      BY <1>1, <1>3, MultiFacts
    <3> QED BY <3>1, FS_Interval
  <2>2. IsFiniteSet(1 .. Capacity)
    BY CapacityAssumption, UpTo
  <2>3. IsFiniteSet(Cpu \X (1 .. Capacity))
    BY <2>1, <2>2, FS_Product
  <2> QED BY <2>3, FS_Subset DEF CountedSlots
<1>6. ASSUME NEW s \in CountedSlots
      PROVE  InSlot(s) \in Parts(PidOf(InSlot(s))) /\ PidOf(InSlot(s)) \in Remaining
  <2>1. InSlot(s) \in live /\ remainingTime[InSlot(s)] # 0
    BY <1>1, <1>4
  <2>2. remainingTime[InSlot(s)] > 0
    BY <1>3, <2>1
  <2>3. PidOf(InSlot(s)) \in Arrived /\ InSlot(s) \in Parts(PidOf(InSlot(s)))
    BY <1>1, <2>1, LiveArrived DEF IsPlacing
  <2> QED BY <2>2, <2>3 DEF Remaining
<1>7. ASSUME NEW s \in CountedSlots, NEW t \in CountedSlots, InSlot(s) = InSlot(t)
      PROVE  s = t
  <2>1. s[1] = t[1]
    BY <1>1, <1>4, <1>7, QueuesApart
  <2>2. s[2] = t[2]
    BY <1>2, <1>4, <1>7, <2>1 DEF Distinct, InSlot
  <2> QED BY <1>4, <2>1, <2>2
<1>8. ASSUME NEW pid \in Remaining
      PROVE  \E s \in CountedSlots : PidOf(InSlot(s)) = pid
  <2>1. PICK p \in Parts(pid) : remainingTime[p] > 0 /\ pid \in Arrived
    BY DEF Remaining
  <2>2. p \in live /\ PidOf(p) = pid
    BY <1>1, <2>1, OwnParts DEF GoneInv
  <2>3. PICK c \in Cpu : p \in queued[c]
    BY <1>1, <2>2, OwnedQueued DEF KeptInv
  <2>4. PICK k \in 1 .. size[c] : processes[c][k] = p
    BY <1>2, <2>3 DEF Slots, Contents
  <2>5. k \in 1 .. Capacity /\ k <= size[c]
    BY <1>2, <1>3, <2>4
  <2>6. <<c, k>> \in CountedSlots /\ InSlot(<<c, k>>) = p
    BY <1>3, <2>1, <2>3, <2>4, <2>5 DEF CountedSlots, InSlot
  <2> QED BY <2>2, <2>6
<1> QED BY <1>5, <1>6, <1>7, <1>8

\* proc_remaining is the number of the processes that have arrived and have a part
\* with time left: those that finish in the same tick on the other processor are
\* not among them (CountAllProcesses).
THEOREM CountsTheRemaining ==
  ASSUME numCPU = 2
  PROVE  Spec => []RemainingIsCounted
<1>1. TwoCpuInv => RemainingIsCounted
  <2> SUFFICES ASSUME TwoCpuInv, Sound, pc = "check", call = "none"
               PROVE  CountAllProcesses = Cardinality(Remaining)
    BY DEF RemainingIsCounted, Remaining
  <2> DEFINE Single == {s \in CountedSlots : ~IsParallel(PidOf(InSlot(s)))}
             Shared == {t \in CountedSlots : IsParallel(PidOf(InSlot(t)))}
             Split == {PidOf(InSlot(s)) : s \in Shared}
             Whole == {pid \in Remaining : ~IsParallel(pid)}
             g == [s \in Single |-> PidOf(InSlot(s))]
  <2>1. CountAllProcesses = Cardinality(Single) + Cardinality(Split)
    BY DEF CountAllProcesses, CountedSlots, InSlot
  <2>2. /\ IsFiniteSet(CountedSlots)
        /\ \A s \in CountedSlots : InSlot(s) \in Parts(PidOf(InSlot(s)))
                                   /\ PidOf(InSlot(s)) \in Remaining
        /\ \A s, t \in CountedSlots : InSlot(s) = InSlot(t) => s = t
        /\ \A pid \in Remaining : \E s \in CountedSlots : PidOf(InSlot(s)) = pid
    BY SlotsCounted DEF Sound
  <2>3. \A s, t \in Single : PidOf(InSlot(s)) = PidOf(InSlot(t)) => s = t
    <3> SUFFICES ASSUME NEW s \in Single, NEW t \in Single, PidOf(InSlot(s)) = PidOf(InSlot(t))
                 PROVE  s = t
      OBVIOUS
    <3>1. InSlot(s) = <<PidOf(InSlot(s)), 0>> /\ InSlot(t) = <<PidOf(InSlot(s)), 0>>
      BY <2>2 DEF Parts
    <3> QED BY <2>2, <3>1
  <2>4. \A s \in Single : PidOf(InSlot(s)) \in Whole
    BY <2>2
  <2>5. \A pid \in Whole : \E s \in Single : PidOf(InSlot(s)) = pid
    BY <2>2
  <2>6. g \in Injection(Single, Whole) /\ g \in Surjection(Single, Whole)
    <3> HIDE DEF Single, Whole
    <3> QED BY <2>3, <2>4, <2>5 DEF Injection, Surjection, IsInjective
  <2>7. IsFiniteSet(Single)
    BY <2>2, FS_Subset
  <2>8. IsFiniteSet(Whole) /\ Cardinality(Whole) = Cardinality(Single)
    <3> HIDE DEF g, Single, Whole
    <3> QED BY <2>6, <2>7, FS_Surjection
  <2>9. Split = {pid \in Remaining : IsParallel(pid)}
    BY <2>2
  <2>10. Remaining = Whole \cup Split /\ Whole \cap Split = {}
    BY <2>9
  <2>11. IsFiniteSet(Split)
    <3>1. Split \subseteq Pid
      BY <2>9 DEF Remaining, Arrived
    <3> QED BY <3>1, FS_Subset DEF TwoCpuInv, RoomInv
  <2>12. Cardinality(Remaining) = Cardinality(Whole) + Cardinality(Split) - 0
    <3> HIDE DEF Whole, Split
    <3> QED BY <2>8, <2>10, <2>11, FS_Union, FS_EmptySet
  <2>13. Cardinality(Whole) \in Nat /\ Cardinality(Split) \in Nat
    <3> HIDE DEF Whole, Split
    <3> QED BY <2>8, <2>11, FS_CardinalityType
  <2> HIDE DEF Whole, Split, Single
  <2> QED BY <2>1, <2>8, <2>12, <2>13
<1> QED BY <1>1, TwoCpuInvariant, PTL

-----------------------------------------------------------------------------
(***************************************************************************)
(* What the simulation with two processors is as a scheduler.              *)
(***************************************************************************)

\* What TwoSRTInv says while no deletion has met a tie.
LEMMA SRTFacts ==
  ASSUME TwoSRTInv, tied = {}
  PROVE  /\ TwoCpuInv /\ DueInv /\ BusyInv /\ BestInv /\ MultiInv /\ MultiCountInv /\ QueueInv
         /\ KeptInv /\ ApartInv /\ RootInv /\ MarkInv /\ call # "undefined"
         /\ queued \in [Cpu -> SUBSET Proc] /\ remainingTime \in [Proc \cup {DummyHead} -> Nat]
         /\ minPtr \in [Cpu -> Proc \cup {NULL}] /\ lastRan \in [Cpu -> Proc \cup {NULL}]
         /\ AllParts \subseteq Proc /\ NULL \notin Proc
         /\ \A c \in Cpu : queued[c] \subseteq live
<1>1. TwoCpuInv /\ DueInv /\ BusyInv /\ BestInv
  BY DEF TwoSRTInv
<1>2. /\ MultiInv /\ MultiCountInv /\ QueueInv
      /\ KeptInv /\ ApartInv /\ RootInv /\ MarkInv /\ call # "undefined"
      /\ queued \in [Cpu -> SUBSET Proc] /\ lastRan \in [Cpu -> Proc \cup {NULL}]
      /\ \A c \in Cpu : queued[c] \subseteq live
  BY <1>1, UntiedFacts
<1>3. AllParts \subseteq Proc
  BY <1>2 DEF MultiInv, PartInv, AllParts
<1> QED BY <1>1, <1>2, <1>3, MultiFacts DEF TypeOK

\* The part that is being placed is one of a process that waits.
LEMMA NewPartFacts ==
  ASSUME MultiCountInv, IsPlacing
  PROVE  /\ HeadPid \in Waiting /\ HeadPid = inputList[1].pid /\ 1 \in 1 .. Len(inputList)
         /\ inputList # <<>> /\ nodeOf[HeadPid] = GetFromInputList
         /\ NewPart = <<HeadPid, subProcNo>> /\ PidOf(NewPart) = HeadPid /\ NewPart \notin PlacedParts
         /\ subProcNo \in Nat
<1>1. inputList # <<>>
  BY DEF MultiCountInv, MultiInv, PlaceInv, IsPlacing
<1>2. /\ 1 \in 1 .. Len(inputList) /\ GetFromInputList = inputList[1]
      /\ HeadPid = inputList[1].pid /\ HeadPid \in Pid
  BY <1>1, HeadFacts DEF MultiCountInv
<1>3. GetFromInputList = nodeOf[HeadPid]
  BY DEF MultiCountInv, FirstInv
<1>4. HeadPid \in Waiting
  BY <1>2, <1>3 DEF Waiting
<1>5. subProcNo \in Nat
  BY MultiFacts DEF MultiCountInv, MultiInv, MultiTypeOK
<1>6. PidOf(NewPart) = HeadPid /\ NewPart[2] = subProcNo
  BY DEF NewPart, PidOf
<1>7. NewPart \notin BeforeThis
  BY <1>5, <1>6 DEF BeforeThis
<1>8. \A pid \in Arrived : NewPart \notin Parts(pid)
  <2> SUFFICES ASSUME NEW pid \in Arrived, NewPart \in Parts(pid) PROVE FALSE
    OBVIOUS
  <2>1. pid = HeadPid
    BY <1>6, OwnParts
  <2> QED BY <1>4, <2>1 DEF Arrived
<1>9. NewPart \notin PlacedParts
  BY <1>7, <1>8 DEF PlacedParts
<1> QED BY <1>1, <1>2, <1>3, <1>4, <1>5, <1>6, <1>9 DEF NewPart

\* A part that exists has been placed, but for the new one in its queue.
LEMMA LivePlaced ==
  ASSUME MultiCountInv, NEW p \in live
  PROVE  /\ p \in AllParts
         /\ p \in PlacedParts \/ (pc = "placed" /\ p = NewPart)
<1>1. PICK pid \in Pid : p \in Parts(pid)
  BY DEF MultiCountInv, BornInv, AllParts
<1>2. PidOf(p) = pid /\ p \in AllParts
  BY <1>1, OwnParts DEF AllParts
<1>3. CASE pid \in Arrived
  BY <1>1, <1>2, <1>3 DEF PlacedParts
<1>4. CASE pid \in Waiting
  <2>1. IsPlacing
    BY <1>1, <1>4, WaitingUnborn
  <2>2. PICK n \in 1 .. Len(inputList) : inputList[n] = nodeOf[pid]
    BY <1>4 DEF Waiting
  <2>3. inputList[n].pid = pid
    BY <2>2 DEF MultiCountInv, FirstInv, Waiting
  <2>4. /\ HeadPid = inputList[1].pid /\ 1 \in 1 .. Len(inputList) /\ subProcNo \in Nat
        /\ NewPart = <<HeadPid, subProcNo>>
    BY <2>1, NewPartFacts
  <2>5. pid = HeadPid
    <3> SUFFICES ASSUME pid # HeadPid PROVE FALSE
      OBVIOUS
    <3>1. pid \notin DOMAIN parallelProcTable /\ n # 1
      BY <1>4, <2>3, <2>4 DEF MultiCountInv, BornInv, Arrived
    <3> QED BY <1>1, <2>3, <3>1 DEF MultiCountInv, MultiInv, PartInv, Unborn
  <2>6. ~(p[2] > subProcNo \/ (pc = "place" /\ p[2] = subProcNo))
    BY <1>1, <2>1, <2>4, <2>5 DEF MultiCountInv, MultiInv, PartInv, Unborn, IsPlacing
  <2>7. p[2] \in Nat /\ p = <<pid, p[2]>>
    <3>1. p[2] \in 0 .. numCPU - 1 /\ p = <<p[1], p[2]>> /\ p[1] = pid
      BY <1>1, PartFacts DEF MultiCountInv
    <3> QED BY <3>1
  <2>8. p[2] < subProcNo \/ (pc = "placed" /\ p[2] = subProcNo)
    BY <2>1, <2>4, <2>6, <2>7 DEF IsPlacing
  <2>9. p[2] < subProcNo => p \in BeforeThis
    BY <1>2, <2>1, <2>5 DEF BeforeThis, IsPlacing
  <2>10. p[2] < subProcNo => p \in PlacedParts
    BY <2>9 DEF PlacedParts
  <2> QED BY <1>2, <2>4, <2>5, <2>7, <2>8, <2>10
<1> QED BY <1>3, <1>4 DEF Arrived

\* A processor's unfinished parts are those in its queue, but for the new one.
LEMMA UnfinishedQueued ==
  ASSUME TwoSRTInv, tied = {}, NEW c \in Cpu
  PROVE  /\ Unfinished(c) \subseteq queued[c]
         /\ \A p \in queued[c] : remainingTime[p] > 0 =>
              p \in Unfinished(c) \/ (pc = "placed" /\ p = NewPart)
<1>1. \A p \in queued[c] : p \in live
  BY SRTFacts
<1>2. \A p \in live : p \in PlacedParts \/ (pc = "placed" /\ p = NewPart)
  BY SRTFacts, LivePlaced
<1> QED BY <1>1, <1>2 DEF Unfinished

\* Until something runs every part that exists has time left.
LEMMA AllHaveTime ==
  ASSUME MultiInv, pc \notin {"run", "check", "free"}, NEW p \in live
  PROVE  remainingTime[p] > 0
<1>1. remainingTime[p] \in Nat
  BY MultiFacts DEF TypeOK
<1>2. remainingTime[p] # 0
  BY DEF MultiInv, TimeInv
<1> QED BY <1>1, <1>2

\* No process that is still in the list is due: the list is sorted.
LEMMA ComingLater ==
  ASSUME MultiCountInv, pc \notin {"sort", "place", "placed"}, ~Due, NEW p \in AllParts \ PlacedParts
  PROVE  nodeOf[PidOf(p)].arrival > globalTimer
<1>1. PICK pid \in Pid : p \in Parts(pid)
  BY DEF AllParts
<1>2. PidOf(p) = pid /\ pid \in Waiting
  BY <1>1, OwnParts DEF PlacedParts, Arrived
<1>3. PICK n \in 1 .. Len(inputList) : inputList[n] = nodeOf[pid]
  BY <1>2 DEF Waiting
<1>4. inputList # <<>> /\ 1 \in 1 .. Len(inputList) /\ GetFromInputList = inputList[1]
  BY <1>3, HeadFacts DEF MultiCountInv
<1>5. inputList[1].arrival \in Nat /\ inputList[n].arrival \in Nat /\ globalTimer \in Nat
  <2>1. inputList[1] \in Node /\ inputList[n] \in Node
    BY <1>3, <1>4, MultiFacts DEF MultiCountInv
  <2> QED BY <2>1, MultiFacts DEF Node, MultiCountInv
<1>6. inputList[1].arrival # globalTimer
  BY <1>4 DEF Due
<1>7. globalTimer <= inputList[1].arrival
  BY <1>4 DEF MultiCountInv, MultiInv, NoArrivalMissed
<1>8. inputList[1].arrival <= inputList[n].arrival
  BY <1>3, <1>4 DEF MultiCountInv, MultiInv, PlaceInv, ListInv, Sorted
<1> QED BY <1>2, <1>3, <1>5, <1>6, <1>7, <1>8

\* What shortest remaining time does not see.
LEMMA SameSRT ==
  ASSUME UNCHANGED <<globalTimer, nodeOf, remainingTime, minPtr>>,
         \A c \in Cpu : Unfinished(c)' = Unfinished(c),
         PlacedParts' = PlacedParts, HaveRun' = HaveRun
  PROVE  UNCHANGED Abstract!srtVars
<1>1. AllParts' = AllParts
  BY DEF AllParts, Pid, Parts, NumSubs, IsParallel
<1>2. \A c : Chosen(c)' = Chosen(c)
  BY DEF Chosen
<1> QED BY <1>1, <1>2 DEF Abstract!srtVars

\* The processes are split as the abstract scheduler says: k is the largest number
\* of subprocesses up to numCPU that leaves each of them something to do.
LEMMA SplitAsAsked ==
  ASSUME MultiInv, NEW x \in Nat \ {0}
  PROVE  Abstract!Split(x) = IF x < numCPU THEN x ELSE numCPU
<1> DEFINE Largest(k) == x >= k /\ \A l \in 1 .. numCPU : x >= l => l <= k
           best == IF x < numCPU THEN x ELSE numCPU
<1>1. numCPU \in Nat /\ numCPU >= 2
  BY MultiFacts
<1>2. Abstract!Split(x) = CHOOSE k \in 1 .. numCPU : Largest(k)
  BY DEF Abstract!Split
<1>3. best \in 1 .. numCPU /\ Largest(best)
  BY <1>1
<1>4. \A k \in 1 .. numCPU : Largest(k) => k = best
  BY <1>1
<1> HIDE DEF Largest
<1>5. (CHOOSE k \in 1 .. numCPU : Largest(k)) = best
  BY <1>3, <1>4
<1> QED BY <1>2, <1>5

\* So is the share of each of them.
LEMMA ShareAsAsked ==
  ASSUME NEW x \in Nat, NEW k \in Nat \ {0}
  PROVE  Abstract!Share(x, k) = Ceil(<<x, k>>)
<1> DEFINE c == Ceil(<<x, k>>)
           Least(n) == n * k >= x /\ \A m \in 0 .. x : m * k >= x => n <= m
<1>1. c \in Nat
  <2>1. x + k - 1 \in Nat
    OBVIOUS
  <2>2. (x + k - 1) \div k \in Nat
    BY <2>1, Division
  <2> QED BY <2>2 DEF Ceil
<1>2. k * (c - 1) < x /\ x <= k * c
  BY AtLeastMean
<1>3. Abstract!Share(x, k) = CHOOSE n \in 0 .. x : Least(n)
  BY DEF Abstract!Share
<1> HIDE DEF c
<1>4. ASSUME NEW m \in Nat, m < c PROVE m * k < x
  <2>1. m * k <= (c - 1) * k
    BY <1>1, <1>4
  <2> QED BY <1>1, <1>2, <1>4, <2>1
<1>5. c <= x
  <2>1. x * k >= x
    OBVIOUS
  <2> QED BY <1>1, <1>4, <2>1
<1>6. c * k >= x
  BY <1>1, <1>2
<1>7. \A m \in 0 .. x : m * k >= x => c <= m
  BY <1>1, <1>4
<1>8. c \in 0 .. x /\ Least(c)
  BY <1>1, <1>5, <1>6, <1>7
<1>9. \A n \in 0 .. x : Least(n) => n = c
  <2> SUFFICES ASSUME NEW n \in 0 .. x, Least(n) PROVE n = c
    OBVIOUS
  <2>1. n <= c /\ c <= n
    BY <1>6, <1>7, <1>8
  <2> QED BY <1>1, <2>1
<1> HIDE DEF Least
<1>10. (CHOOSE n \in 0 .. x : Least(n)) = c
  BY <1>8, <1>9
<1> QED BY <1>3, <1>10 DEF c

\* The parts of the processes of the file, and the time that each of them is
\* created with, are those that the abstract scheduler asks for (README.md:30).
LEMMA PartsAsAsked ==
  ASSUME MultiInv
  PROVE  /\ Abstract!Part = AllParts
         /\ \A p \in AllParts : /\ Abstract!Due(p) = nodeOf[PidOf(p)].arrival
                               /\ Abstract!Needs(Abstract!JobOf(p)) = burstTime(p)
<1>1. ASSUME NEW pid \in Pid PROVE {pid} \X Abstract!Numbers(nodeOf[pid]) = Parts(pid)
  <2>1. Abstract!Split(nodeOf[pid].exec) = NumSubs(pid)
    <3>1. nodeOf[pid].exec \in Nat \ {0}
      BY DEF MultiInv, MultiTypeOK, Node
    <3> QED BY <3>1, SplitAsAsked DEF NumSubs
  <2>2. {pid} \X {0} = {<<pid, 0>>}
    OBVIOUS
  <2> QED BY <2>1, <2>2 DEF Abstract!Numbers, Parts, IsParallel
<1>2. Abstract!Part = AllParts
  BY <1>1 DEF Abstract!Part, AllParts, Pid
<1>3. ASSUME NEW p \in AllParts
      PROVE  /\ Abstract!Due(p) = nodeOf[PidOf(p)].arrival
             /\ Abstract!Needs(Abstract!JobOf(p)) = burstTime(p)
  <2>1. PICK pid \in Pid : p \in Parts(pid)
    BY DEF AllParts
  <2>2. PidOf(p) = pid /\ Abstract!JobOf(p) = nodeOf[pid]
    BY <2>1, OwnParts DEF Abstract!JobOf, PidOf
  <2>3. nodeOf[pid].exec \in Nat \ {0} /\ NumSubs(pid) \in Nat \ {0}
    <3>1. nodeOf[pid] \in Node
      BY <2>1 DEF MultiInv, MultiTypeOK
    <3>2. numCPU \in Nat /\ NumSubs(pid) \in 1 .. numCPU
      BY <2>1, PartFacts, MultiFacts
    <3> QED BY <3>1, <3>2 DEF Node
  <2>4. Abstract!Share(nodeOf[pid].exec, NumSubs(pid)) = Ceil(<<nodeOf[pid].exec, NumSubs(pid)>>)
    BY <2>3, ShareAsAsked
  <2>5. Abstract!Split(nodeOf[pid].exec) = NumSubs(pid)
    BY <2>3, SplitAsAsked DEF NumSubs
  <2>6. Abstract!Due(p) = nodeOf[PidOf(p)].arrival
    BY <2>2 DEF Abstract!Due
  <2>7. Abstract!Needs(nodeOf[pid]) = burstTime(p)
    BY <2>2, <2>4, <2>5 DEF Abstract!Needs, burstTime, IsParallel
  <2> QED BY <2>2, <2>6, <2>7
<1> QED BY <1>2, <1>3

-----------------------------------------------------------------------------
(***************************************************************************)
(* The load of a processor is a sum over the parts it holds.               *)
(***************************************************************************)
LoadFun(c) == [p \in Unfinished(c) |-> remainingTime[p]]
Summable(c) == IsFiniteSet(Unfinished(c)) /\ \A p \in Unfinished(c) : p \in AllParts /\ remainingTime[p] \in Nat
LoadSums(c) == \E F : IsSum(F, LoadFun(c), Unfinished(c)) /\ Abstract!Load(c) = F[Unfinished(c)]

LEMMA LoadIsSum == \A c \in Cpu : Summable(c) => LoadSums(c)
<1> SUFFICES ASSUME NEW c \in Cpu, Summable(c) PROVE LoadSums(c)
  OBVIOUS
<1> DEFINE S == [d \in Cpu |-> Unfinished(d)][c]  left == [p \in AllParts |-> remainingTime[p]]
           Sums(F) == F = [s \in SUBSET S |-> IF s = {} THEN 0
                           ELSE left[CHOOSE x \in s : TRUE] + F[s \ {CHOOSE x \in s : TRUE}]]
<1>1. LoadFun(c) \in [S -> Nat] /\ IsFiniteSet(S) /\ S = Unfinished(c)
  BY DEF LoadFun, Summable
<1>2. \E F : IsSum(F, LoadFun(c), S)
  <2> HIDE DEF S
  <2> QED BY <1>1, SumExists
<1>3. \A F : IsSum(F, LoadFun(c), S) <=> Sums(F)
  <2>1. \A s \in SUBSET S : s # {} => Picked(s) \in s
    BY DEF Picked
  <2>2. \A x \in S : LoadFun(c)[x] = left[x]
    BY DEF Summable, LoadFun
  <2>3. \A s \in SUBSET S : s # {} => LoadFun(c)[Picked(s)] = left[Picked(s)]
    BY <2>1, <2>2
  <2> HIDE DEF left, S
  <2> QED BY <2>3 DEF IsSum, Picked
<1>4. Abstract!Load(c) = (CHOOSE F : Sums(F))[S]
  BY DEF Abstract!Load, Abstract!MapThenSumSet, Abstract!MapThenFoldSet
<1>5. Sums(CHOOSE F : Sums(F))
  <2> HIDE DEF Sums
  <2> QED BY <1>2, <1>3
<1> DEFINE G == CHOOSE F : Sums(F)
<1> HIDE DEF Sums, S, G
<1>6. IsSum(G, LoadFun(c), S) /\ Abstract!Load(c) = G[S]
  BY <1>3, <1>4, <1>5 DEF G
<1> QED BY <1>1, <1>6 DEF LoadSums

\* The same of the next state.
LEMMA LoadIsSumNext == (\A c \in Cpu : Summable(c) => LoadSums(c))'
BY LoadIsSum, PTL

\* A sum has one value.
LEMMA SumValue ==
  ASSUME NEW S, IsFiniteSet(S), NEW f \in [S -> Nat], NEW F, IsSum(F, f, S), NEW G, IsSum(G, f, S)
  PROVE  F[S] = G[S] /\ F[S] \in Nat
<1> DEFINE h == [x \in S |-> x]
<1>1. h \in Injection(S, S) /\ h \in Surjection(S, S) /\ \A x \in S : f[x] = f[h[x]]
  BY DEF Injection, IsInjective, Surjection
<1> HIDE DEF h
<1>2. F[S] = G[S]
  BY <1>1, SumRenamed
<1>3. F \in [SUBSET S -> Nat] /\ S \in SUBSET S
  BY SumStep DEF AddsUp, Folds
<1>4. F[S] \in Nat
  BY <1>3, Zenon
<1> QED BY <1>2, <1>4

LEMMA PartsSummable ==
  ASSUME TwoCpuInv, NEW c \in Cpu
  PROVE  Summable(c) /\ Abstract!Load(c) \in Nat
<1>1. MultiCountInv /\ MultiInv /\ QueueInv /\ IsFiniteSet(Pid) /\ numCPU \in Nat
  BY MultiFacts DEF TwoCpuInv, RoomInv, MultiCountInv
<1>2. AllParts \subseteq Pid \X (0 .. numCPU - 1)
  BY <1>1, PartFacts DEF AllParts
<1>3. IsFiniteSet(Pid \X (0 .. numCPU - 1))
  <2>1. IsFiniteSet(0 .. numCPU - 1)
    BY <1>1, FS_Interval
  <2> QED BY <1>1, <2>1, FS_Product
<1>4. IsFiniteSet(AllParts)
  BY <1>2, <1>3, FS_Subset
<1>5. \A p \in Unfinished(c) : p \in AllParts
  <2>1. \A p \in Unfinished(c) : p \in live
    BY <1>1 DEF Unfinished, QueueInv, HomeInv
  <2> QED BY <1>1, <2>1, LivePlaced
<1>6. IsFiniteSet(Unfinished(c))
  BY <1>4, <1>5, FS_Subset
<1>7. \A p \in Unfinished(c) : remainingTime[p] \in Nat
  BY <1>1 DEF Unfinished, QueueInv, TypeOK
<1>8. Summable(c)
  BY <1>5, <1>6, <1>7 DEF Summable
<1>9. PICK F : IsSum(F, LoadFun(c), Unfinished(c)) /\ Abstract!Load(c) = F[Unfinished(c)]
  BY <1>8, LoadIsSum DEF LoadSums
<1>10. LoadFun(c) \in [Unfinished(c) -> Nat]
  BY <1>7 DEF LoadFun
<1> QED BY <1>6, <1>8, <1>9, <1>10, SumValue

\* A load changes only with the parts it is of and their time.
LEMMA SameLoad ==
  ASSUME TwoCpuInv, UNCHANGED <<remainingTime, nodeOf>>, NEW c \in Cpu, UNCHANGED Unfinished(c)
  PROVE  UNCHANGED Abstract!Load(c)
<1>1. Summable(c)
  BY PartsSummable
<1>2. AllParts' = AllParts
  BY DEF AllParts, Pid, Parts, NumSubs, IsParallel
<1>3. Summable(c)' /\ LoadFun(c)' = LoadFun(c)
  BY <1>1, <1>2 DEF Summable, LoadFun
<1>4. LoadFun(c) \in [Unfinished(c) -> Nat] /\ IsFiniteSet(Unfinished(c))
  BY <1>1 DEF LoadFun, Summable
<1>5. PICK F : IsSum(F, LoadFun(c), Unfinished(c)) /\ Abstract!Load(c) = F[Unfinished(c)]
  BY <1>1, LoadIsSum DEF LoadSums
<1>6. PICK G : IsSum(G, LoadFun(c), Unfinished(c)) /\ Abstract!Load(c)' = G[Unfinished(c)]
  BY <1>3, LoadIsSumNext DEF LoadSums
<1> QED BY <1>4, <1>5, <1>6, SumValue

\* CountTotalRemainingTime is a sum over the slots of a queue.
SlotTime(c) == [k \in 1 .. size[c] |-> remainingTime[processes[c][k]]]

LEMMA SlotTimeFacts ==
  ASSUME NEW c \in Cpu, QueueInv, call = "none"
  PROVE  SlotTime(c) \in [1 .. size[c] -> Nat] /\ IsFiniteSet(1 .. size[c])
<1>1. /\ size[c] \in Nat /\ \A k \in 1 .. size[c] : processes[c][k] \in Proc
      /\ remainingTime \in [Proc \cup {DummyHead} -> Nat]
  BY Quiet DEF QueueInv, TypeOK
<1>2. IsFiniteSet(1 .. size[c])
  BY <1>1, UpTo
<1> QED BY <1>1, <1>2 DEF SlotTime

LEMMA CountIsSum ==
  ASSUME NEW c \in Cpu, QueueInv, call = "none"
  PROVE  \E F : IsSum(F, SlotTime(c), 1 .. size[c]) /\ CountTotalRemainingTime(c) = F[1 .. size[c]]
<1> DEFINE S == 1 .. size[c]
           Sums(F) == F = [s \in SUBSET S |-> IF s = {} THEN 0
                           ELSE remainingTime[processes[c][CHOOSE x \in s : TRUE]]
                                + F[s \ {CHOOSE x \in s : TRUE}]]
<1>1. SlotTime(c) \in [S -> Nat] /\ IsFiniteSet(S)
  BY SlotTimeFacts
<1>2. \E F : IsSum(F, SlotTime(c), S)
  <2> HIDE DEF S
  <2> QED BY <1>1, SumExists
<1>3. \A F : IsSum(F, SlotTime(c), S) <=> Sums(F)
  <2>1. \A s \in SUBSET S : s # {} => Picked(s) \in s
    BY DEF Picked
  <2>2. \A x \in S : SlotTime(c)[x] = remainingTime[processes[c][x]]
    BY DEF SlotTime
  <2>3. \A s \in SUBSET S : s # {} => SlotTime(c)[Picked(s)] = remainingTime[processes[c][Picked(s)]]
    BY <2>1, <2>2
  <2> HIDE DEF S
  <2> QED BY <2>3 DEF IsSum, Picked
<1>4. CountTotalRemainingTime(c) = (CHOOSE F : Sums(F))[S]
  BY DEF CountTotalRemainingTime, MapThenSumSet, MapThenFoldSet
<1>5. Sums(CHOOSE F : Sums(F))
  <2> HIDE DEF Sums
  <2> QED BY <1>2, <1>3
<1> DEFINE G == CHOOSE F : Sums(F)
<1> HIDE DEF Sums, S, G
<1>6. IsSum(G, SlotTime(c), S) /\ CountTotalRemainingTime(c) = G[S]
  BY <1>3, <1>4, <1>5 DEF G
<1> QED BY <1>6 DEF S

\* When a part is to be placed every part in a queue has time left, and the load
\* of a processor is what CountTotalRemainingTime computes.
LEMMA LoadIsCounted ==
  ASSUME TwoSRTInv, tied = {}, pc = "place", call = "none", NEW c \in Cpu
  PROVE  Unfinished(c) = queued[c] /\ CountTotalRemainingTime(c) = Abstract!Load(c)
<1>1. /\ MultiInv /\ QueueInv /\ TwoCpuInv /\ \A p \in queued[c] : p \in live
  BY SRTFacts
<1>2. Unfinished(c) = queued[c]
  BY <1>1, AllHaveTime, UnfinishedQueued
<1>3. Summable(c) /\ LoadFun(c) \in [queued[c] -> Nat] /\ IsFiniteSet(queued[c])
  BY <1>1, <1>2, PartsSummable DEF LoadFun, Summable
<1>4. PICK G : IsSum(G, LoadFun(c), queued[c]) /\ Abstract!Load(c) = G[queued[c]]
  BY <1>2, <1>3, LoadIsSum DEF LoadSums
<1>5. PICK F : IsSum(F, SlotTime(c), 1 .. size[c]) /\ CountTotalRemainingTime(c) = F[1 .. size[c]]
  BY <1>1, CountIsSum
<1> DEFINE h == [k \in 1 .. size[c] |-> processes[c][k]]
<1>6. h \in Injection(1 .. size[c], queued[c]) /\ h \in Surjection(1 .. size[c], queued[c])
  BY <1>1, SlotsAreQueued DEF Injection, IsInjective, Surjection, Slots, Contents, Distinct
<1>7. \A k \in 1 .. size[c] : SlotTime(c)[k] = LoadFun(c)[h[k]]
  <2>1. \A k \in 1 .. size[c] : processes[c][k] \in queued[c]
    BY <1>1, SlotsAreQueued DEF Slots, Contents
  <2> QED BY <1>2, <2>1 DEF SlotTime, LoadFun
<1>8. SlotTime(c) \in [1 .. size[c] -> Nat] /\ IsFiniteSet(1 .. size[c])
  BY <1>1, SlotTimeFacts
<1> DEFINE S == 1 .. size[c]  T == queued[c]  f == SlotTime(c)  g == LoadFun(c)
<1> HIDE DEF h
<1>9. F[S] = G[T]
  <2>1. /\ IsFiniteSet(S) /\ f \in [S -> Nat] /\ IsSum(F, f, S)
        /\ IsFiniteSet(T) /\ g \in [T -> Nat] /\ IsSum(G, g, T)
        /\ h \in Injection(S, T) /\ h \in Surjection(S, T) /\ \A x \in S : f[x] = g[h[x]]
    BY <1>3, <1>4, <1>5, <1>6, <1>7, <1>8
  <2> HIDE DEF S, T, f, g
  <2> QED BY <2>1, SumRenamed
<1> QED BY <1>2, <1>4, <1>5, <1>9

-----------------------------------------------------------------------------
(***************************************************************************)
(* TwoSRTInv is an invariant.                                              *)
(***************************************************************************)

\* The processor that a part goes to is free for it, and is compared with every
\* processor that is.
LEMMA PlaceIsFree ==
  ASSUME numCPU = 2, TwoSRTInv, tied = {}, pc = "place", NewPart \in Parts(HeadPid),
         NEW c \in Cpu, PlaceOf(HeadPid, c)
  PROVE  /\ c \in Abstract!FreeFor(NewPart)
         /\ \A d \in Abstract!FreeFor(NewPart) :
              \/ Abstract!Load(c) < Abstract!Load(d)
              \/ Abstract!Load(c) = Abstract!Load(d) /\ c <= d
<1>1. /\ QueueInv /\ TwoCpuInv /\ call = "none" /\ Cpu = {0, 1}
  <2>1. Cpu = 0 .. 1
    BY FilesAssumption
  <2> QED BY <2>1, SRTFacts DEF MultiInv, PlaceInv
<1>2. \A d \in Cpu : Unfinished(d) = queued[d] /\ CountTotalRemainingTime(d) = Abstract!Load(d)
  BY <1>1, LoadIsCounted
<1>3. \A d \in Cpu : d \in Abstract!FreeFor(NewPart) <=> \A q \in queued[d] : PidOf(q) # HeadPid
  BY <1>2 DEF Abstract!FreeFor, NewPart, PidOf
<1>4. \A d \in Cpu : isFindProcessPid(d, HeadPid) <=> \E q \in queued[d] : PidOf(q) = HeadPid
  <2> SUFFICES ASSUME NEW d \in Cpu
               PROVE  isFindProcessPid(d, HeadPid) <=> \E q \in queued[d] : PidOf(q) = HeadPid
    OBVIOUS
  <2>1. Slots(d) = queued[d]
    BY <1>1, SlotsAreQueued
  <2> QED BY <2>1 DEF isFindProcessPid, Slots, Contents
<1>5. c \in Abstract!FreeFor(NewPart)
  BY <1>1, <1>3, NoSibling
<1>6. ASSUME NEW d \in Abstract!FreeFor(NewPart)
      PROVE  d \in Cpu /\ d \in IF IsParallel(HeadPid) THEN SubprocessCandidates(HeadPid) ELSE Cpu
  <2>1. d \in Cpu
    BY DEF Abstract!FreeFor
  <2>2. ~isFindProcessPid(d, HeadPid)
    BY <1>3, <1>4, <1>6, <2>1
  <2>3. d \in SubprocessCandidates(HeadPid)
    <3>1. CASE isFindProcessPid(0, HeadPid)
      <4>1. d = 1
        BY <1>1, <2>1, <2>2, <3>1
      <4> QED BY <3>1, <4>1 DEF SubprocessCandidates
    <3>2. CASE ~isFindProcessPid(0, HeadPid)
      <4>1. d \in 0 .. numCPU - 1
        BY <1>1, <2>1
      <4> QED BY <2>2, <3>2, <4>1 DEF SubprocessCandidates
    <3> QED BY <3>1, <3>2
  <2> QED BY <2>1, <2>3
<1>7. ASSUME NEW d \in Abstract!FreeFor(NewPart)
      PROVE  \/ Abstract!Load(c) < Abstract!Load(d)
             \/ Abstract!Load(c) = Abstract!Load(d) /\ c <= d
  <2>1. \/ CountTotalRemainingTime(c) < CountTotalRemainingTime(d)
        \/ CountTotalRemainingTime(c) = CountTotalRemainingTime(d) /\ c <= d
    BY <1>6 DEF PlaceOf, FirstLeast
  <2> QED BY <1>2, <1>6, <2>1
<1> QED BY <1>5, <1>7

\* The parts that have been placed are fixed by the list and what is being placed.
LEMMA SamePlaced ==
  ASSUME UNCHANGED nodeOf, Waiting' = Waiting,
         \/ ~IsPlacing /\ ~IsPlacing'
         \/ UNCHANGED <<inputList, subProcNo>> /\ (IsPlacing' <=> IsPlacing)
  PROVE  PlacedParts' = PlacedParts
<1>1. /\ Pid' = Pid /\ \A pid : Parts(pid)' = Parts(pid)
  BY SameParts
<1>2. Arrived' = Arrived /\ AllParts' = AllParts
  BY <1>1 DEF Arrived, AllParts
<1>3. BeforeThis' = BeforeThis
  <2>1. CASE ~IsPlacing /\ ~IsPlacing'
    BY <2>1 DEF BeforeThis, IsPlacing
  <2>2. CASE UNCHANGED <<inputList, subProcNo>> /\ (IsPlacing' <=> IsPlacing)
    <3>1. HeadPid' = HeadPid
      BY <2>2 DEF HeadPid, GetFromInputList
    <3> QED BY <1>2, <2>2, <3>1 DEF BeforeThis, IsPlacing
  <2> QED BY <2>1, <2>2
<1> QED BY <1>1, <1>2, <1>3 DEF PlacedParts

\* A heap that has met a tie stays marked.
LEMMA TiedStays ==
  ASSUME [Next]_vars
  PROVE  tied \subseteq tied'
BY DEF Next, Step, Sort, Begin, Arrive, Spin, Place, PickMin, Placed, NotDue, EndArrivals, Remain,
       RunCpu, SkipCpu, Advance, CheckOn, Finish, Free, EndTick, UseFreed,
       QueueStep, SiftUp, SiftDown, PidSort, UndefinedIteration, InsertPQ, RefuseInsert, StartInsert,
       DeleteMin, vars, queueVars, historyVars

\* While no deletion has met a tie nothing undefined happens, and calls are made
\* by the insertion and the deletion only.
LEMMA DefinedNext ==
  ASSUME TwoSRTInv, TwoCpuInv', tied' = {}, [Next]_vars
  PROVE  /\ tied = {} /\ call # "undefined" /\ ~\E c \in Cpu : UseFreed(c)
         /\ QueueStep => SiftUp \/ SiftDown \/ PidSort
<1>1. call' # "undefined" /\ tied = {}
  BY TiedStays DEF TwoCpuInv, MultiCountInv, MultiInv, QueueInv, UndefinedOnlyIfTied
<1> QED BY <1>1, SRTFacts DEF UseFreed, QueueStep, UndefinedIteration

\* The tick is made for a processor with something to run.
LEMMA BusyNext ==
  ASSUME TwoSRTInv, TwoCpuInv', tied' = {}, [Next]_vars
  PROVE  BusyInv'
<1> SUFFICES ASSUME pc' = "run"
             PROVE  \E c \in Cpu : IF c < i' THEN lastRan'[c] # NULL ELSE ~IsEmptyPQ(c)'
  BY DEF BusyInv
<1>1. /\ tied = {} /\ call # "undefined" /\ MultiInv /\ MultiCountInv /\ QueueInv /\ KeptInv
      /\ lastRan \in [Cpu -> Proc \cup {NULL}] /\ i \in Nat /\ Cpu = 0 .. numCPU - 1
      /\ numCPU \in Nat
  BY DefinedNext, SRTFacts, MultiFacts
<1>2. CASE NotDue \/ Remain
  <2>1. pc = "arrive" /\ i' = i /\ UNCHANGED size /\ ~IsAllCpuPQEmpty
    BY <1>2 DEF NotDue, Remain, queueVars, heapVars
  <2>2. i = 0
    BY <1>1, <2>1 DEF MultiInv, PlaceInv
  <2> QED BY <1>1, <2>1, <2>2 DEF IsAllCpuPQEmpty, IsEmptyPQ
<1>3. CASE Placed
  <2>1. /\ pc = "place" /\ i' = i /\ UNCHANGED size
        /\ Parts(HeadPid) \subseteq live /\ Parts(HeadPid) # {}
    BY <1>1, <1>3, PlacedArrives DEF Placed, queueVars, heapVars
  <2>2. i = 0 /\ call = "none"
    BY <1>1, <2>1 DEF MultiInv, PlaceInv
  <2>3. PICK p \in live : TRUE
    BY <2>1
  <2>4. PICK c \in Cpu : p \in queued[c]
    BY <1>1, <2>1, OwnedQueued DEF KeptInv
  <2>5. ~IsEmptyPQ(c)
    BY <1>1, <2>2, <2>4, SlotsAreQueued
  <2>6. ~IsEmptyPQ(c)' /\ ~(c < i')
    BY <1>1, <2>1, <2>2, <2>5 DEF IsEmptyPQ
  <2> QED BY <2>6
<1>4. CASE RunCpu
  <2>1. i \in Cpu /\ i' = i + 1 /\ lastRan' = [lastRan EXCEPT ![i] = minPtr[i]] /\ minPtr[i] \in live
    BY <1>1, <1>4 DEF RunCpu
  <2>2. minPtr[i] # NULL
    BY <1>1, <2>1, MultiFacts
  <2>3. lastRan'[i] # NULL /\ i < i'
    BY <1>1, <2>1, <2>2
  <2> QED BY <2>1, <2>3
<1>5. CASE SkipCpu
  <2>1. /\ pc = "run" /\ i \in Cpu /\ i' = i + 1 /\ lastRan' = [lastRan EXCEPT ![i] = NULL] /\ Rests(i)
        /\ UNCHANGED size /\ call = "none" /\ i < numCPU
    BY <1>1, <1>5 DEF SkipCpu, queueVars, heapVars, MultiInv, PlaceInv
  <2>2. IsEmptyPQ(i)
    BY <1>1, <2>1, RestsFacts, MinIsRootEmpty
  <2>3. PICK c \in Cpu : IF c < i THEN lastRan[c] # NULL ELSE ~IsEmptyPQ(c)
    BY <1>1, <2>1, SRTFacts DEF BusyInv
  <2>4. c # i
    BY <1>1, <2>2, <2>3
  <2>5. IF c < i' THEN lastRan'[c] # NULL ELSE ~IsEmptyPQ(c)'
    BY <1>1, <2>1, <2>3, <2>4 DEF IsEmptyPQ
  <2> QED BY <2>5
<1>6. CASE UNCHANGED vars
  <2>1. UNCHANGED <<pc, i, lastRan, size>>
    BY <1>6 DEF vars, multiVars, queueVars, heapVars
  <2> QED BY <1>1, <2>1, SRTFacts DEF BusyInv, IsEmptyPQ
<1>7. CASE QueueStep /\ UNCHANGED <<listVars, multiVars>>
  <2>1. call # "none"
    BY <1>7, DefinedNext DEF SiftUp, SiftDown, PidSort
  <2>2. pc = "run"
    BY <1>7 DEF multiVars
  <2> QED BY <1>1, <2>1, <2>2 DEF MultiInv, PlaceInv
<1>8. CASE Spin
  BY <1>6, <1>8 DEF Spin
<1>9. ~(\/ Sort \/ Begin \/ Arrive \/ Place \/ PickMin \/ EndArrivals \/ Advance \/ CheckOn
        \/ Finish \/ Free \/ EndTick)
  BY DEF Sort, Begin, Arrive, Place, PickMin, EndArrivals, Advance, CheckOn, Finish, Free, EndTick,
         multiVars
<1> QED BY <1>2, <1>3, <1>4, <1>5, <1>6, <1>7, <1>8, <1>9, DefinedNext DEF Next, Step

\* An insertion that begins is not seen: the part is placed when it ends.
LEMMA PlaceUnseen ==
  ASSUME numCPU = 2, TwoSRTInv, tied = {}, Place
  PROVE  /\ UNCHANGED Abstract!srtVars /\ UNCHANGED <<NewPart, minPtr, remainingTime, nodeOf>>
         /\ PlaceOf(HeadPid, target') /\ target' \in Cpu /\ pc = "place" /\ call = "none"
         /\ NewPart \in Parts(HeadPid)
         /\ \A c \in Cpu : /\ queued'[c] = IF c = target' THEN queued[c] \cup {NewPart} ELSE queued[c]
                           /\ Unfinished(c)' = Unfinished(c)
<1> DEFINE p == NewPart
<1>1. /\ pc = "place" /\ pc' = "placed" /\ p \in Parts(HeadPid)
      /\ UNCHANGED <<inputList, remainingTime, i, subProcNo, minPtr, nodeOf, globalTimer>>
  BY DEF Place, NewPart, listVars, cpuVars, tableVars
<1>2. PICK c \in Cpu : PlaceOf(HeadPid, c) /\ target' = c /\ InsertPQ(p, c)
  BY DEF Place, NewPart
<1>3. /\ MultiInv /\ MultiCountInv /\ TwoCpuInv /\ queued \in [Cpu -> SUBSET Proc] /\ call = "none"
  BY <1>1, SRTFacts DEF MultiInv, PlaceInv
<1>4. p \notin PlacedParts /\ p' = p
  BY <1>1, <1>3, NewPartFacts, SameWaiting DEF IsPlacing, NewPart
<1>5. queued' = [queued EXCEPT ![c] = @ \cup {p}]
  BY <1>1, <1>2, <1>3, HasRoom DEF InsertPQ, RefuseInsert, StartInsert
<1>6. PlacedParts' = PlacedParts
  BY <1>1, SamePlaced, SameWaiting DEF IsPlacing
<1>7. HaveRun' = HaveRun
  BY <1>1 DEF HaveRun
<1> HIDE DEF p
<1>8. \A d \in Cpu : queued'[d] = IF d = c THEN queued[d] \cup {p} ELSE queued[d]
  BY <1>3, <1>5
<1>9. \A d \in Cpu : Unfinished(d)' = Unfinished(d)
  BY <1>1, <1>4, <1>6, <1>8 DEF Unfinished
<1>10. UNCHANGED Abstract!srtVars
  BY <1>1, <1>6, <1>7, <1>9, SameSRT
<1> QED BY <1>1, <1>2, <1>3, <1>4, <1>8, <1>9, <1>10 DEF p

\* What a part is compared by does not change while it is inserted.
LEMMA SameFree ==
  ASSUME UNCHANGED Abstract!srtVars, UNCHANGED NewPart
  PROVE  Abstract!FreeFor(NewPart)' = Abstract!FreeFor(NewPart)
BY DEF Abstract!srtVars, Abstract!FreeFor

LEMMA BestNext ==
  ASSUME numCPU = 2, TwoSRTInv, TwoCpuInv', tied' = {}, [Next]_vars
  PROVE  BestInv'
<1> SUFFICES ASSUME pc' = "placed" PROVE BestInv'
  BY DEF BestInv
<1>1. /\ tied = {} /\ call # "undefined" /\ MultiInv /\ TwoCpuInv /\ QueueInv /\ BestInv
      /\ \A c \in Cpu : c \in Abstract!FreeFor(NewPart) => Abstract!Load(c) \in Nat
  BY DefinedNext, SRTFacts, PartsSummable
<1>2. Abstract!FreeFor(NewPart) \subseteq Cpu
  BY DEF Abstract!FreeFor
<1>3. CASE Place
  <2>1. /\ UNCHANGED Abstract!srtVars /\ UNCHANGED <<NewPart, minPtr, remainingTime, nodeOf>>
        /\ PlaceOf(HeadPid, target') /\ target' \in Cpu /\ pc = "place" /\ call = "none"
        /\ NewPart \in Parts(HeadPid)
        /\ \A c \in Cpu : /\ queued'[c] = IF c = target' THEN queued[c] \cup {NewPart} ELSE queued[c]
                          /\ Unfinished(c)' = Unfinished(c)
    BY <1>1, <1>3, PlaceUnseen
  <2>2. Abstract!FreeFor(NewPart)' = Abstract!FreeFor(NewPart)
    BY <2>1, SameFree
  <2>3. \A c \in Cpu : Abstract!Load(c)' = Abstract!Load(c)
    BY <1>1, <2>1, SameLoad
  <2>4. /\ target' \in Abstract!FreeFor(NewPart)
        /\ \A c \in Abstract!FreeFor(NewPart) :
             \/ Abstract!Load(target') < Abstract!Load(c)
             \/ Abstract!Load(target') = Abstract!Load(c) /\ target' <= c
    BY <1>1, <2>1, PlaceIsFree
  <2>5. minPtr'[target'] = NULL => queued[target'] = {}
    <3>1. minPtr[target'] = IF IsEmptyPQ(target') THEN NULL ELSE processes[target'][1]
      BY <1>1, <2>1 DEF MultiInv, PointerInv, FindMinRemainTimeProcess
    <3>2. ~IsEmptyPQ(target') => processes[target'][1] \in queued[target']
      BY <1>1, <2>1, SlotsAreQueued
    <3>3. queued[target'] \subseteq Proc /\ NULL \notin Proc
      BY <1>1, <2>1, SRTFacts
    <3>4. IsEmptyPQ(target') => queued[target'] = {}
      BY <1>1, <2>1, SlotsAreQueued
    <3> QED BY <2>1, <3>1, <3>2, <3>3, <3>4
  <2>6. NewPart' \in queued'[target'] /\ (minPtr'[target'] = NULL => queued'[target'] = {NewPart'})
    BY <2>1, <2>5
  <2>7. \A c \in Abstract!FreeFor(NewPart)' :
             \/ Abstract!Load(target)' < Abstract!Load(c)'
             \/ Abstract!Load(target)' = Abstract!Load(c)' /\ target' <= c
    <3>1. Abstract!Load(target)' = Abstract!Load(target')
      BY <2>1, <2>3 DEF Abstract!Load
    <3> QED BY <1>2, <2>2, <2>3, <2>4, <3>1
  <2> QED BY <2>2, <2>4, <2>6, <2>7 DEF BestInv
<1>4. CASE (QueueStep /\ UNCHANGED <<listVars, multiVars>>) \/ UNCHANGED vars
  <2>1. /\ UNCHANGED <<pc, i, subProcNo, target, minPtr, nodeOf, lastRan, inputList, globalTimer>>
        /\ UNCHANGED <<queued, remainingTime>> /\ pc = "placed" /\ target \in Cpu
    BY <1>1, <1>4, MultiFacts DEF vars, QueueStep, SiftUp, SiftDown, PidSort, UndefinedIteration, queueVars,
       historyVars, listVars, multiVars, placeVars, cpuVars, tableVars
  <2>2. UNCHANGED NewPart
    BY <2>1, SameWaiting DEF NewPart
  <2>3. PlacedParts' = PlacedParts
    BY <2>1, SamePlaced, SameWaiting DEF IsPlacing
  <2>4. \A c \in Cpu : Unfinished(c)' = Unfinished(c)
    BY <2>1, <2>3 DEF Unfinished
  <2>5. HaveRun' = HaveRun
    BY <2>1 DEF HaveRun
  <2>6. Abstract!FreeFor(NewPart)' = Abstract!FreeFor(NewPart)
    BY <2>1, <2>2, <2>3, <2>4, <2>5, SameSRT, SameFree
  <2>7. \A c \in Cpu : Abstract!Load(c)' = Abstract!Load(c)
    BY <1>1, <2>1, <2>4, SameLoad
  <2>8. Abstract!Load(target)' = Abstract!Load(target)
    BY <2>1, <2>7 DEF Abstract!Load
  <2> QED BY <1>1, <1>2, <2>1, <2>2, <2>6, <2>7, <2>8 DEF BestInv
<1>5. ~(\/ Sort \/ Begin \/ Arrive \/ PickMin \/ Placed \/ NotDue \/ EndArrivals \/ Remain \/ RunCpu
        \/ SkipCpu \/ Advance \/ CheckOn \/ Finish \/ Free \/ EndTick)
  BY DEF Sort, Begin, Arrive, PickMin, Placed, NotDue, EndArrivals, Remain, RunCpu, SkipCpu, Advance,
         CheckOn, Finish, Free, EndTick, multiVars
<1> QED BY <1>3, <1>4, <1>5, DefinedNext DEF Next, Step, Spin

\* Until a deletion meets a tie, what is placed is due and goes to the processor
\* with the smallest load among those without a part of its process, and a tick is
\* made for a processor that has something to run (HandleMultiCPU).
THEOREM PlacesOnTheBest ==
  ASSUME numCPU = 2
  PROVE  Spec => []TwoSRTInv
<1>1. Init => TwoSRTInv
  <2> SUFFICES ASSUME Init PROVE TwoSRTInv
    OBVIOUS
  <2>1. TwoCpuInv /\ pc = "sort"
    BY InitTwo DEF Init
  <2> QED BY <2>1 DEF TwoSRTInv, DueInv, BusyInv, BestInv, IsPlacing
<1>2. TwoSRTInv /\ TwoCpuInv' /\ [Next]_vars => TwoSRTInv'
  BY DueNext, BusyNext, BestNext DEF TwoSRTInv
<1> QED BY <1>1, <1>2, TwoCpuInvariant, PTL DEF Spec

-----------------------------------------------------------------------------
(***************************************************************************)
(* The step simulation.                                                    *)
(***************************************************************************)

\* No part has been placed, and each of them needs some time.
LEMMA InitSRT ==
  ASSUME Init
  PROVE  Abstract!Init
<1>1. MultiCountInv /\ MultiInv
  BY InitMultiCount DEF MultiCountInv
<1>2. /\ pc = "sort" /\ globalTimer = 0 /\ parallelProcTable = [pid \in {} |-> 0]
      /\ minPtr = [c \in Cpu |-> NULL] /\ live = {} /\ finishedAt = [pid \in Pid |-> 0]
  BY DEF Init
<1>3. Arrived = {}
  BY NoneArrived
<1>4. PlacedParts = {} /\ HaveRun = {}
  BY <1>2, <1>3 DEF PlacedParts, BeforeThis, HaveRun
<1>5. \A c \in Cpu : Unfinished(c) = {} /\ Chosen(c) = NULL
  BY <1>2, <1>4 DEF Unfinished, Chosen
<1>6. [p \in AllParts |-> remainingTime[p]] = [p \in Abstract!Part |-> Abstract!Needs(Abstract!JobOf(p))]
  <2>1. \A p \in AllParts : remainingTime[p] = burstTime(p)
    BY <1>1, PartFacts DEF Init, AllParts
  <2> QED BY <1>1, <2>1, PartsAsAsked
<1> QED BY <1>2, <1>4, <1>5, <1>6 DEF Abstract!Init

\* The tests, the loops' ends and the steps of a call change nothing that is seen.
LEMMA QuietUnseen ==
  ASSUME TwoSRTInv, tied = {},
         \/ Sort \/ Begin \/ Arrive \/ Spin \/ EndArrivals \/ Remain \/ CheckOn \/ EndTick
         \/ SkipCpu
         \/ NotDue /\ ~IsAllCpuPQEmpty
         \/ QueueStep /\ UNCHANGED <<listVars, multiVars>>
         \/ UNCHANGED vars
  PROVE  UNCHANGED Abstract!srtVars
<1>1. /\ UNCHANGED <<globalTimer, nodeOf, remainingTime, minPtr, queued>>
      /\ \/ ~IsPlacing /\ (~IsPlacing' \/ (Arrive /\ subProcNo' = 0))
         \/ UNCHANGED <<subProcNo, pc, inputList>>
  BY DEF Sort, Begin, Arrive, Spin, EndArrivals, Remain, CheckOn, EndTick, SkipCpu, NotDue, QueueStep,
         SiftUp, SiftDown, PidSort, UndefinedIteration, vars, queueVars, historyVars, multiVars, listVars,
         placeVars, cpuVars, tableVars, IsPlacing
<1>2. MultiInv /\ MultiCountInv /\ i \in 0 .. numCPU /\ Cpu = 0 .. numCPU - 1 /\ numCPU \in Nat
      /\ lastRan \in [Cpu -> Proc \cup {NULL}]
  BY SRTFacts, MultiFacts
<1>3. Waiting' = Waiting
  <2>1. CASE Sort
    BY <1>2, <2>1, SortWaiting
  <2>2. CASE ~Sort
    <3>1. UNCHANGED <<nodeOf, inputList>>
      BY <2>2 DEF Begin, Arrive, Spin, EndArrivals, Remain, CheckOn, EndTick, SkipCpu, NotDue,
                  vars, listVars, multiVars, tableVars
    <3> QED BY <3>1, SameWaiting
  <2> QED BY <2>1, <2>2
<1>4. PlacedParts' = PlacedParts
  <2>1. CASE Arrive
    <3>1. /\ UNCHANGED inputList /\ ~IsPlacing /\ subProcNo' = 0
      BY <2>1 DEF Arrive, listVars, IsPlacing
    <3>2. Pid' = Pid /\ Arrived' = Arrived /\ AllParts' = AllParts /\ \A pid : Parts(pid)' = Parts(pid)
      BY <1>1, <3>1, SameWaiting
    <3>3. BeforeThis = {}
      BY <3>1 DEF BeforeThis, IsPlacing
    <3>4. BeforeThis' = {}
      <4>1. \A p \in AllParts : ~(p[2] < 0)
        <5> SUFFICES ASSUME NEW p \in AllParts PROVE ~(p[2] < 0)
          OBVIOUS
        <5>1. PICK pid \in Pid : p \in Parts(pid)
          BY DEF AllParts
        <5>2. p[2] \in 0 .. numCPU - 1
          BY <1>2, <5>1, PartFacts
        <5> QED BY <1>2, <5>2
      <4> QED BY <3>1, <3>2, <4>1 DEF BeforeThis
    <3> QED BY <3>2, <3>3, <3>4 DEF PlacedParts
  <2>2. CASE ~Arrive
    <3>1. \/ ~IsPlacing /\ ~IsPlacing'
          \/ UNCHANGED <<inputList, subProcNo>> /\ (IsPlacing' <=> IsPlacing)
      BY <1>1, <2>2 DEF IsPlacing
    <3> QED BY <1>1, <1>3, <3>1, SamePlaced
  <2> QED BY <2>1, <2>2
<1>5. HaveRun' = HaveRun
  <2>1. CASE SkipCpu /\ pc = "run"
    <3>1. pc' = "run" /\ i' = i + 1 /\ lastRan' = [lastRan EXCEPT ![i] = NULL] /\ i \in Nat
      BY <1>2, <2>1 DEF SkipCpu
    <3> QED BY <1>2, <2>1, <3>1 DEF HaveRun
  <2>2. CASE UNCHANGED <<pc, i, lastRan>>
    BY <2>2 DEF HaveRun
  <2>3. CASE pc # "run" /\ pc' # "run"
    BY <2>3 DEF HaveRun
  <2>4. CASE pc = "arrive" /\ pc' = "run" /\ i' = i
    <3>1. i = 0
      BY <1>2, <2>4 DEF MultiInv, PlaceInv
    <3> QED BY <1>2, <2>4, <3>1 DEF HaveRun
  <2> QED BY <2>1, <2>2, <2>3, <2>4
      DEF Sort, Begin, Arrive, Spin, EndArrivals, Remain, CheckOn, EndTick, SkipCpu, NotDue, vars, multiVars
<1>6. \A c \in Cpu : Unfinished(c)' = Unfinished(c)
  BY <1>1, <1>4 DEF Unfinished
<1> QED BY <1>1, <1>4, <1>5, <1>6, SameSRT

\* The parts of a process that arrives have been placed before.
LEMMA PlacedUnseen ==
  ASSUME TwoSRTInv, tied = {}, Placed
  PROVE  UNCHANGED Abstract!srtVars
<1>1. /\ pc = "place" /\ pc' \in {"run", "arrive"} /\ i' = i
      /\ <<HeadPid, subProcNo>> \notin Parts(HeadPid)
      /\ UNCHANGED <<globalTimer, nodeOf, remainingTime, minPtr, queued, lastRan>>
  BY DEF Placed, queueVars, historyVars, cpuVars, tableVars
<1>2. MultiInv /\ MultiCountInv
  BY SRTFacts
<1>3. /\ Arrived' = Arrived \cup {HeadPid} /\ AllParts' = AllParts
      /\ \A pid : Parts(pid)' = Parts(pid)
      /\ HeadPid \in Pid
  BY <1>1, <1>2, PlacedArrives, NewPartFacts DEF IsPlacing, Waiting
<1>4. BeforeThis' = {}
  BY <1>1 DEF BeforeThis
<1>5. BeforeThis = Parts(HeadPid)
  <2>1. NumSubs(HeadPid) \in 1 .. numCPU /\ numCPU \in Nat /\ subProcNo \in Nat
    BY <1>1, <1>2, <1>3, PartFacts, MultiFacts, NewPartFacts DEF IsPlacing
  <2>2. ASSUME NEW p \in Parts(HeadPid) PROVE p \in BeforeThis
    <3>1. p[2] < subProcNo
      BY <1>1, <2>1 DEF Parts
    <3>2. PidOf(p) = HeadPid /\ p \in AllParts
      BY <1>3, OwnParts DEF AllParts
    <3> QED BY <1>1, <3>1, <3>2 DEF BeforeThis
  <2>3. ASSUME NEW p \in BeforeThis PROVE p \in Parts(HeadPid)
    <3>1. PICK pid \in Pid : p \in Parts(pid)
      BY DEF BeforeThis, AllParts
    <3> QED BY <3>1, OwnParts DEF BeforeThis
  <2> QED BY <2>2, <2>3
<1>6. PlacedParts' = PlacedParts
  <2>1. PlacedParts = (UNION {Parts(pid) : pid \in Arrived}) \cup Parts(HeadPid)
    BY <1>5 DEF PlacedParts
  <2>2. PlacedParts' = UNION {Parts(pid) : pid \in Arrived \cup {HeadPid}}
    BY <1>3, <1>4 DEF PlacedParts
  <2> QED BY <2>1, <2>2
<1>7. HaveRun' = HaveRun
  <2>1. i = 0 /\ Cpu = 0 .. numCPU - 1 /\ numCPU \in Nat
    BY <1>1, <1>2, MultiFacts DEF MultiInv, PlaceInv
  <2> QED BY <1>1, <2>1 DEF HaveRun
<1>8. \A c \in Cpu : Unfinished(c)' = Unfinished(c)
  BY <1>1, <1>6 DEF Unfinished
<1> QED BY <1>1, <1>6, <1>7, <1>8, SameSRT

\* The part that is deleted has no time left.
LEMMA FinishUnseen ==
  ASSUME TwoSRTInv, tied = {}, Finish
  PROVE  UNCHANGED Abstract!srtVars
<1>1. /\ pc = "check" /\ pc' = "free" /\ i < numCPU /\ ~Rests(i) /\ DeleteMin(i)
      /\ remainingTime[minPtr[i]] = 0
      /\ UNCHANGED <<inputList, remainingTime, minPtr, nodeOf, globalTimer>>
  BY DEF Finish, listVars, cpuVars
<1>2. MultiInv /\ queued \in [Cpu -> SUBSET Proc]
  BY SRTFacts
<1>3. i \in Cpu /\ minPtr[i] = processes[i][1]
  BY <1>1, <1>2, RestsFacts
<1>4. queued' = [queued EXCEPT ![i] = @ \ {processes[i][1]}]
  BY <1>1 DEF DeleteMin
<1>5. PlacedParts' = PlacedParts
  BY <1>1, SamePlaced, SameWaiting DEF IsPlacing
<1>6. HaveRun' = HaveRun
  BY <1>1 DEF HaveRun
<1>7. \A c \in Cpu : queued'[c] = IF c = i THEN queued[c] \ {minPtr[i]} ELSE queued[c]
  BY <1>2, <1>3, <1>4
<1> DEFINE done == minPtr[i]
<1>8. \A c \in Cpu : Unfinished(c)' = Unfinished(c)
  <2>1. ~(remainingTime[done] > 0)
    BY <1>1
  <2>2. \A c \in Cpu : queued'[c] = IF c = i THEN queued[c] \ {done} ELSE queued[c]
    BY <1>7
  <2> HIDE DEF done
  <2> QED BY <1>1, <1>5, <2>1, <2>2 DEF Unfinished
<1> QED BY <1>1, <1>5, <1>6, <1>8, SameSRT

\* With every queue empty nothing is left to work on.
LEMMA IdleSRT ==
  ASSUME TwoSRTInv, tied = {}, NotDue, IsAllCpuPQEmpty
  PROVE  Abstract!Advance \/ OnlyRepeatsLeft
<1>1. /\ pc = "arrive" /\ pc' = "arrive" /\ inputList # <<>> /\ ~Due /\ globalTimer' = globalTimer + 1
      /\ UNCHANGED <<inputList, remainingTime, nodeOf, minPtr, queued>>
  BY DEF NotDue, listVars, queueVars, historyVars, cpuVars, tableVars
<1>2. MultiInv /\ MultiCountInv /\ QueueInv /\ call = "none"
  BY <1>1, SRTFacts DEF MultiInv, PlaceInv
<1>3. \A c \in Cpu : Unfinished(c) = {}
  BY <1>2, UnfinishedQueued, SlotsAreQueued DEF IsAllCpuPQEmpty
<1>4. \A p \in AllParts \ PlacedParts : nodeOf[PidOf(p)].arrival > globalTimer
  BY <1>1, <1>2, ComingLater
<1>5. PlacedParts' = PlacedParts /\ AllParts' = AllParts /\ HaveRun' = {} /\ HaveRun = {}
  BY <1>1, SamePlaced, SameWaiting DEF HaveRun, IsPlacing
<1>6. \A c \in Cpu : Unfinished(c)' = Unfinished(c) /\ Chosen(c)' = Chosen(c)
  BY <1>1, <1>5 DEF Unfinished, Chosen
<1>7. CASE Waiting = {}
  BY <1>1, <1>7 DEF OnlyRepeatsLeft
<1>8. CASE Waiting # {}
  <2>1. PICK pid \in Waiting : TRUE
    BY <1>8
  <2>2. pid \in Pid /\ NumSubs(pid) \in 1 .. numCPU /\ numCPU \in Nat
    BY <1>2, <2>1, PartFacts, MultiFacts DEF Waiting
  <2>3. <<pid, 0>> \in Parts(pid)
    BY <2>2 DEF Parts
  <2>4. <<pid, 0>> \in AllParts /\ PidOf(<<pid, 0>>) = pid
    BY <2>2, <2>3, OwnParts DEF AllParts
  <2>5. <<pid, 0>> \notin PlacedParts
    <3>1. BeforeThis = {}
      BY <1>1 DEF BeforeThis
    <3>2. \A q \in Arrived : <<pid, 0>> \notin Parts(q)
      BY <2>1, <2>4, OwnParts DEF Arrived
    <3> QED BY <3>1, <3>2 DEF PlacedParts
  <2>6. PlacedParts # AllParts
    BY <2>4, <2>5
  <2>7. Abstract!Part = AllParts /\ \A p \in AllParts : Abstract!Due(p) = nodeOf[PidOf(p)].arrival
    BY <1>2, PartsAsAsked
  <2> QED BY <1>1, <1>3, <1>4, <1>5, <1>6, <2>6, <2>7 DEF Abstract!Advance
<1> QED BY <1>7, <1>8

\* The tick ends when every processor with work to do has run.
LEMMA AdvanceSRT ==
  ASSUME TwoSRTInv, tied = {}, Advance
  PROVE  Abstract!Advance
<1>1. /\ pc = "run" /\ pc' = "check" /\ i = numCPU /\ globalTimer' = globalTimer + 1
      /\ UNCHANGED <<inputList, remainingTime, nodeOf, minPtr, queued>>
  BY DEF Advance, listVars, queueVars, historyVars, cpuVars, tableVars
<1>2. /\ MultiInv /\ MultiCountInv /\ QueueInv /\ MarkInv /\ call = "none" /\ ~Due
      /\ Cpu = 0 .. numCPU - 1 /\ numCPU \in Nat
  BY <1>1, SRTFacts, MultiFacts DEF MultiInv, PlaceInv
<1>3. ASSUME NEW c \in Cpu \ HaveRun PROVE Unfinished(c) = {}
  <2>1. lastRan[c] = NULL /\ c \in Charged
    BY <1>1, <1>2, <1>3 DEF HaveRun, Charged
  <2>2. minPtr[c] = NULL
    BY <1>2, <2>1 DEF MarkInv
  <2>3. IsEmptyPQ(c)
    BY <1>1, <1>2, <2>2, MinIsRootEmpty
  <2> QED BY <1>2, <2>3, UnfinishedQueued, SlotsAreQueued
<1>4. HaveRun # {}
  <2>1. PICK c \in Cpu : IF c < i THEN lastRan[c] # NULL ELSE ~IsEmptyPQ(c)
    BY <1>1, SRTFacts DEF BusyInv
  <2>2. c < i
    BY <1>1, <1>2
  <2> QED BY <1>1, <2>1, <2>2 DEF HaveRun
<1>5. \A p \in AllParts \ PlacedParts : nodeOf[PidOf(p)].arrival > globalTimer
  BY <1>1, <1>2, ComingLater
<1>6. PlacedParts' = PlacedParts /\ AllParts' = AllParts /\ HaveRun' = {}
  BY <1>1, SamePlaced, SameWaiting DEF HaveRun, IsPlacing
<1>7. \A c \in Cpu : Unfinished(c)' = Unfinished(c) /\ Chosen(c)' = Chosen(c)
  BY <1>1, <1>6 DEF Unfinished, Chosen
<1>8. Abstract!Part = AllParts /\ \A p \in AllParts : Abstract!Due(p) = nodeOf[PidOf(p)].arrival
  BY <1>2, PartsAsAsked
<1> QED BY <1>1, <1>3, <1>4, <1>5, <1>6, <1>7, <1>8 DEF Abstract!Advance

\* The part that runs is the one the abstract scheduler works on.
LEMMA RunCpuSRT ==
  ASSUME TwoSRTInv, tied = {}, call = "none", RunCpu
  PROVE  Abstract!Work(i)
<1> DEFINE p == minPtr[i]
<1>1. /\ pc = "run" /\ pc' = "run" /\ i < numCPU /\ ~Rests(i) /\ p \in live /\ i' = i + 1
      /\ remainingTime' = [remainingTime EXCEPT ![p] = @ - 1]
      /\ lastRan' = [lastRan EXCEPT ![i] = p]
      /\ UNCHANGED <<queued, minPtr, nodeOf, inputList, globalTimer>>
  BY DEF RunCpu, historyVars, listVars, tableVars
<1>2. /\ MultiInv /\ MultiCountInv /\ QueueInv /\ ~Due /\ numCPU \in Nat
      /\ remainingTime \in [Proc \cup {DummyHead} -> Nat] /\ minPtr \in [Cpu -> Proc \cup {NULL}]
      /\ lastRan \in [Cpu -> Proc \cup {NULL}] /\ AllParts \subseteq Proc /\ NULL \notin Proc
  BY <1>1, SRTFacts, MultiFacts DEF MultiInv, PlaceInv
<1>3. i \in Cpu /\ i \in Nat /\ Cpu = 0 .. numCPU - 1 /\ ~IsEmptyPQ(i) /\ p = processes[i][1]
  BY <1>1, <1>2, RestsFacts, MultiFacts
<1>4. p \in Proc /\ remainingTime[p] \in Nat \ {0} /\ p # NULL
  BY <1>1, <1>2, MultiFacts, HasTime
<1>5. p \in queued[i] /\ \A c \in Cpu \ {i} : p \notin queued[c]
  BY <1>1, <1>2, <1>3, SlotsAreQueued, QueuesApart
<1>6. p \in PlacedParts /\ p \in AllParts
  BY <1>1, <1>2, LivePlaced
<1>7. \A c \in Cpu \ {i} : minPtr[c] # p
  <2> SUFFICES ASSUME NEW c \in Cpu, c # i, minPtr[c] = p PROVE FALSE
    OBVIOUS
  <2>1. ~IsEmptyPQ(c) /\ minPtr[c] = processes[c][1]
    BY <1>1, <1>2, <1>4 DEF MultiInv, PointerInv, FindMinRemainTimeProcess
  <2>2. minPtr[c] \in queued[c]
    BY <1>1, <1>2, <2>1, SlotsAreQueued
  <2> QED BY <1>5, <2>2
<1>8. \A q \in AllParts \ PlacedParts : nodeOf[PidOf(q)].arrival > globalTimer
  BY <1>1, <1>2, ComingLater
<1>9. PlacedParts' = PlacedParts /\ AllParts' = AllParts
  BY <1>1, SamePlaced, SameWaiting DEF IsPlacing
<1> HIDE DEF p
<1>10. HaveRun' = HaveRun \cup {i} /\ i \notin HaveRun
  BY <1>1, <1>2, <1>3, <1>4 DEF HaveRun
<1>11. \A q \in Proc : remainingTime'[q] = IF q = p THEN remainingTime[q] - 1 ELSE remainingTime[q]
  BY <1>1, <1>2
<1>12. Chosen(i) = p /\ p \in Unfinished(i)
  BY <1>4, <1>5, <1>6 DEF Chosen, Unfinished, p
<1>13. \A c \in Cpu : Unfinished(c)' = IF c = i /\ remainingTime[p] = 1 THEN Unfinished(c) \ {p} ELSE Unfinished(c)
  <2> SUFFICES ASSUME NEW c \in Cpu
               PROVE  Unfinished(c)' = IF c = i /\ remainingTime[p] = 1 THEN Unfinished(c) \ {p} ELSE Unfinished(c)
    OBVIOUS
  <2>1. Unfinished(c)' = {q \in queued[c] \cap PlacedParts : remainingTime'[q] > 0}
    BY <1>1, <1>9 DEF Unfinished
  <2>2. \A q \in queued[c] : q \in Proc /\ remainingTime[q] \in Nat
    BY <1>2, SRTFacts
  <2>3. CASE c = i
    <3>1. \A q \in queued[c] \cap PlacedParts :
            remainingTime'[q] > 0 <=> remainingTime[q] > 0 /\ (q = p => remainingTime[p] # 1)
      BY <1>4, <1>11, <2>2
    <3> QED BY <2>1, <2>3, <3>1 DEF Unfinished
  <2>4. CASE c # i
    <3>1. \A q \in queued[c] : remainingTime'[q] = remainingTime[q]
      BY <1>5, <1>11, <2>2, <2>4
    <3> QED BY <2>1, <2>4, <3>1 DEF Unfinished
  <2> QED BY <2>3, <2>4
<1>14. \A c \in Cpu : Chosen(c)' = IF c = i /\ remainingTime[p] = 1 THEN NULL ELSE Chosen(c)
  <2> SUFFICES ASSUME NEW c \in Cpu
               PROVE  Chosen(c)' = IF c = i /\ remainingTime[p] = 1 THEN NULL ELSE Chosen(c)
    OBVIOUS
  <2>1. CASE c = i
    <3>1. minPtr[c] = p /\ minPtr'[c] = p /\ remainingTime'[p] = remainingTime[p] - 1
      BY <1>1, <1>4, <1>11, <2>1 DEF p
    <3> QED BY <1>4, <2>1, <3>1 DEF Chosen
  <2>2. CASE c # i
    <3>1. minPtr[c] # NULL => remainingTime'[minPtr[c]] = remainingTime[minPtr[c]]
      BY <1>2, <1>7, <1>11, <2>2
    <3> QED BY <1>1, <2>2, <3>1 DEF Chosen
  <2> QED BY <2>1, <2>2
<1>15. [q \in AllParts |-> remainingTime'[q]] = [[q \in AllParts |-> remainingTime[q]] EXCEPT ![p] = @ - 1]
  BY <1>2, <1>6, <1>11
<1>16. [c \in Cpu |-> Unfinished(c)'] =
         IF remainingTime[p] = 1 THEN [[c \in Cpu |-> Unfinished(c)] EXCEPT ![i] = @ \ {p}]
         ELSE [c \in Cpu |-> Unfinished(c)]
  BY <1>13
<1>17. [c \in Cpu |-> Chosen(c)'] =
         IF remainingTime[p] = 1 THEN [[c \in Cpu |-> Chosen(c)] EXCEPT ![i] = NULL]
         ELSE [c \in Cpu |-> Chosen(c)]
  BY <1>14
<1>18. Abstract!Part = AllParts /\ \A q \in AllParts : Abstract!Due(q) = nodeOf[PidOf(q)].arrival
  BY <1>2, PartsAsAsked
<1> QED BY <1>1, <1>3, <1>4, <1>6, <1>8, <1>9, <1>10, <1>12, <1>15, <1>16, <1>17, <1>18
        DEF Abstract!Work

\* The root of a heap that has met no tie needs no more time than the others.
LEMMA RootIsShortest ==
  ASSUME QueueInv, tied = {}, call = "none", NEW c \in Cpu, ~IsEmptyPQ(c)
  PROVE  /\ processes[c][1] \in queued[c]
         /\ \A q \in queued[c] : remainingTime[processes[c][1]] <= remainingTime[q]
<1>1. \A k \in 1 .. size[c] : remainingTime[processes[c][1]] <= remainingTime[processes[c][k]]
  BY RootPromise DEF RootIsMin, Busy
<1> QED BY <1>1, SlotsAreQueued DEF Slots, Contents

\* A processor whose part has finished turns to one that needs the least time.
LEMMA FreeSRT ==
  ASSUME TwoSRTInv, tied = {}, Free, MultiCountInv'
  PROVE  [Abstract!Dispatch(i)]_(Abstract!srtVars)
<1>1. /\ pc = "free" /\ pc' = "check" /\ call = "none" /\ minPtr' = [minPtr EXCEPT ![i] = NextMin]
      /\ live' = live \ {popped} /\ i' = i + 1
      /\ UNCHANGED <<queued, remainingTime, inputList, nodeOf, globalTimer>>
  BY DEF Free, listVars, historyVars, tableVars
<1>2. /\ MultiInv /\ QueueInv /\ NULL \notin Proc
      /\ minPtr \in [Cpu -> Proc \cup {NULL}] /\ i \in Cpu
      /\ remainingTime \in [Proc \cup {DummyHead} -> Nat] /\ Cpu = 0 .. numCPU - 1
      /\ remainingTime[minPtr[i]] = 0
  BY <1>1, SRTFacts, MultiFacts DEF MultiInv, PlaceInv, PointerInv
<1>3. PlacedParts' = PlacedParts /\ HaveRun' = HaveRun /\ AllParts' = AllParts
  BY <1>1, SamePlaced, SameWaiting DEF IsPlacing, HaveRun
<1>4. \A c \in Cpu : Unfinished(c)' = Unfinished(c)
  BY <1>1, <1>3 DEF Unfinished
<1>5. Chosen(i) = NULL /\ \A c \in Cpu : c # i => Chosen(c)' = Chosen(c)
  BY <1>1, <1>2 DEF Chosen
<1> DEFINE next == NextMin
<1>0. PICK k \in Cpu : k = i
  BY <1>2
<1>9. \A c \in Cpu : minPtr'[c] = IF c = k THEN next ELSE minPtr[c]
  BY <1>0, <1>1, <1>2
<1> HIDE DEF next
<1>6. CASE IsEmptyPQ(i)
  <2>0. next = NULL
    BY <1>6 DEF NextMin, next
  <2>1. Chosen(k)' = NULL
    BY <1>9, <2>0 DEF Chosen
  <2>2. [c \in Cpu |-> Chosen(c)'] = [c \in Cpu |-> Chosen(c)]
    BY <1>0, <1>5, <2>1
  <2> QED BY <1>1, <1>3, <1>4, <2>2 DEF Abstract!srtVars
<1>7. CASE ~IsEmptyPQ(i)
  <2> DEFINE r == processes[i][1]
  <2>1. /\ r \in queued[i] /\ \A q \in queued[i] : remainingTime[r] <= remainingTime[q]
    BY <1>1, <1>2, <1>7, RootIsShortest
  <2>2. next = r /\ r \in Proc /\ r # NULL /\ r \in live
    BY <1>1, <1>2, <1>7, <2>1, SRTFacts DEF NextMin, FindMinRemainTimeProcess, next
  <2>3. remainingTime[r] # 0
    <3> SUFFICES ASSUME remainingTime[r] = 0 PROVE FALSE
      OBVIOUS
    <3>1. PICK c \in Cpu : minPtr[c] = r /\ c >= i
      BY <1>1, <1>2, <2>2 DEF MultiInv, TimeInv
    <3>2. c # i
      <4>1. popped = minPtr[i] /\ popped \in Proc /\ popped # NULL
        BY <1>1, <1>2, MultiFacts DEF MultiInv, PointerInv
      <4>2. popped \notin queued[i]
        BY <1>2, <4>1 DEF QueueInv, HomeInv
      <4> QED BY <2>1, <3>1, <4>1, <4>2
    <3>3. ~IsEmptyPQ(c) /\ minPtr[c] = processes[c][1]
      BY <1>1, <1>2, <2>2, <3>1, <3>2 DEF MultiInv, PointerInv, FindMinRemainTimeProcess
    <3>4. r \in queued[c]
      BY <1>1, <1>2, <3>1, <3>3, SlotsAreQueued
    <3> QED BY <1>1, <1>2, <2>1, <3>2, <3>4, QueuesApart
  <2> HIDE DEF r
  <2>4. remainingTime[r] > 0
    BY <1>2, <2>2, <2>3
  <2>5. r \in Unfinished(i)
    BY <1>1, <1>2, <2>1, <2>4, UnfinishedQueued
  <2>6. Chosen(k)' = r
    BY <1>1, <1>9, <2>2, <2>4 DEF Chosen
  <2>7. [c \in Cpu |-> Chosen(c)'] = [[c \in Cpu |-> Chosen(c)] EXCEPT ![k] = r]
    BY <1>0, <1>5, <2>6
  <2>8. \A q \in Unfinished(i) : q \in AllParts /\ r \in AllParts /\ remainingTime[r] <= remainingTime[q]
    <3>1. \A q \in queued[i] : q \in AllParts
      BY <1>2, SRTFacts, LivePlaced
    <3> QED BY <1>2, <2>1, <3>1, UnfinishedQueued
  <2> QED BY <1>0, <1>1, <1>2, <1>3, <1>4, <1>5, <2>5, <2>7, <2>8 DEF Abstract!Dispatch
<1> QED BY <1>6, <1>7

\* The part that is placed is chosen if it needs less time than the one that has
\* the processor.
LEMMA PickMinSRT ==
  ASSUME TwoSRTInv, tied = {}, PickMin
  PROVE  Abstract!Arrive(NewPart)
<1> DEFINE p == NewPart  root == processes[target][1]  prev == minPtr[target]
<1>1. /\ pc = "placed" /\ pc' = "place" /\ call = "none" /\ subProcNo' = subProcNo + 1
      /\ minPtr' = [minPtr EXCEPT ![target] = root]
      /\ UNCHANGED <<queued, remainingTime, inputList, nodeOf, globalTimer>>
  BY DEF PickMin, listVars, queueVars, historyVars, tableVars, FindMinRemainTimeProcess
<1>2. /\ MultiInv /\ MultiCountInv /\ QueueInv /\ TwoCpuInv /\ RootInv /\ BestInv /\ DueInv
      /\ target \in Cpu /\ NULL \notin Proc /\ IsPlacing
      /\ minPtr \in [Cpu -> Proc \cup {NULL}] /\ queued \in [Cpu -> SUBSET Proc]
      /\ remainingTime \in [Proc \cup {DummyHead} -> Nat] /\ AllParts \subseteq Proc
      /\ \A c \in Cpu : queued[c] \subseteq live
  BY <1>1, SRTFacts, MultiFacts DEF IsPlacing
<1>3. ~IsEmptyPQ(target)
  BY <1>1, <1>2 DEF MultiInv, PlaceInv, IsEmptyPQ
<1>4. root \in queued[target] /\ \A q \in queued[target] : remainingTime[root] <= remainingTime[q]
  BY <1>1, <1>2, <1>3, RootIsShortest
<1>5. p \in queued[target] /\ (prev = NULL => queued[target] = {p})
  BY <1>1, <1>2 DEF BestInv
<1>6. \A c \in Cpu : \A q \in queued[c] : q \in AllParts /\ q \in Proc /\ q # NULL /\ remainingTime[q] \in Nat
                                          /\ remainingTime[q] > 0
  <2> SUFFICES ASSUME NEW c \in Cpu, NEW q \in queued[c]
               PROVE  q \in AllParts /\ q \in Proc /\ q # NULL /\ remainingTime[q] \in Nat /\ remainingTime[q] > 0
    OBVIOUS
  <2>1. q \in live /\ q \in Proc
    BY <1>2
  <2> QED BY <1>1, <1>2, <2>1, AllHaveTime, LivePlaced
<1>7. prev \in queued[target] \cup {NULL} /\ (root = prev \/ (root = p /\ Takes))
  BY <1>1, <1>2 DEF RootInv
<1>8. /\ HeadPid \in Waiting /\ nodeOf[HeadPid] = GetFromInputList /\ PidOf(p) = HeadPid
      /\ p \notin PlacedParts /\ p = <<HeadPid, subProcNo>> /\ p[2] = subProcNo /\ subProcNo \in Nat
  BY <1>2, NewPartFacts
<1>9. nodeOf[PidOf(p)].arrival = globalTimer
  BY <1>2, <1>8 DEF DueInv
<1>10. HaveRun = {} /\ HaveRun' = {}
  BY <1>1 DEF HaveRun
<1>11. /\ target \in Abstract!FreeFor(p)
       /\ \A c \in Abstract!FreeFor(p) :
            \/ Abstract!Load(target) < Abstract!Load(c)
            \/ Abstract!Load(target) = Abstract!Load(c) /\ target <= c
  BY <1>1, <1>2 DEF BestInv
<1>12. target = Abstract!BestFor(p)
  <2> DEFINE Best(b) == \A d \in Abstract!FreeFor(p) :
               Abstract!Load(b) < Abstract!Load(d) \/ (Abstract!Load(b) = Abstract!Load(d) /\ b <= d)
  <2>1. Abstract!FreeFor(p) \subseteq Cpu
    BY DEF Abstract!FreeFor
  <2>2. \A c \in Abstract!FreeFor(p) : Abstract!Load(c) \in Nat /\ c \in Nat
    <3>1. \A c \in Cpu : Abstract!Load(c) \in Nat
      BY <1>2, PartsSummable
    <3>2. \A c \in Cpu : c \in Nat
      BY <1>1, <1>2, MultiFacts
    <3> QED BY <2>1, <3>1, <3>2
  <2>3. Abstract!BestFor(p) = CHOOSE b \in Abstract!FreeFor(p) : Best(b)
    BY DEF Abstract!BestFor
  <2>4. target \in Abstract!FreeFor(p) /\ Best(target)
    BY <1>11
  <2>5. Abstract!BestFor(p) \in Abstract!FreeFor(p) /\ Best(Abstract!BestFor(p))
    <3> HIDE DEF Best
    <3> QED BY <2>3, <2>4
  <2> QED BY <2>2, <2>4, <2>5
<1> HIDE DEF p, root, prev
<1>13. PlacedParts' = PlacedParts \cup {p} /\ AllParts' = AllParts
  <2>1. /\ Arrived' = Arrived /\ AllParts' = AllParts /\ HeadPid' = HeadPid
        /\ \A pid : Parts(pid)' = Parts(pid)
    BY <1>1, SameWaiting
  <2>2. \A q \in AllParts : PidOf(q) = HeadPid /\ q[2] = subProcNo => q = p
    <3> SUFFICES ASSUME NEW q \in AllParts, PidOf(q) = HeadPid, q[2] = subProcNo PROVE q = p
      OBVIOUS
    <3>1. PICK pid \in Pid : q \in Parts(pid)
      BY DEF AllParts
    <3>2. q = <<pid, q[2]>> /\ pid = HeadPid
      BY <1>2, <3>1, PartFacts, OwnParts
    <3> QED BY <1>8, <3>2
  <2>3. \A q \in AllParts : q[2] \in Nat
    <3> SUFFICES ASSUME NEW q \in AllParts PROVE q[2] \in Nat
      OBVIOUS
    <3>1. PICK pid \in Pid : q \in Parts(pid)
      BY DEF AllParts
    <3>2. q[2] \in 0 .. numCPU - 1
      BY <1>2, <3>1, PartFacts
    <3> QED BY <3>2
  <2>4. BeforeThis' = {q \in AllParts : PidOf(q) = HeadPid /\ q[2] < subProcNo + 1}
    BY <1>1, <2>1 DEF BeforeThis
  <2>5. BeforeThis = {q \in AllParts : PidOf(q) = HeadPid /\ q[2] < subProcNo}
    BY <1>1 DEF BeforeThis
  <2>6. p \in AllParts
    BY <1>2, <1>5, <1>6
  <2>7. BeforeThis' = BeforeThis \cup {p}
    BY <1>8, <2>2, <2>3, <2>4, <2>5, <2>6
  <2> QED BY <2>1, <2>7 DEF PlacedParts
<1>14. \A c \in Cpu : c # target => p \notin queued[c]
  BY <1>1, <1>2, <1>5, QueuesApart
<1>15. \A c \in Cpu : Unfinished(c)' = IF c = target THEN Unfinished(c) \cup {p} ELSE Unfinished(c)
  BY <1>1, <1>2, <1>5, <1>6, <1>13, <1>14 DEF Unfinished
<1>16. /\ Chosen(target) = prev
       /\ prev = NULL => Unfinished(target) = {}
       /\ prev # NULL => prev \in AllParts /\ remainingTime[prev] \in Nat
  <2>1. prev # NULL => prev \in AllParts /\ remainingTime[prev] \in Nat /\ remainingTime[prev] > 0
    BY <1>2, <1>6, <1>7
  <2>2. Chosen(target) = prev
    BY <2>1 DEF Chosen, prev
  <2>3. prev = NULL => Unfinished(target) = {}
    BY <1>5, <1>8 DEF Unfinished
  <2> QED BY <2>1, <2>2, <2>3
<1>17. /\ p \in AllParts /\ remainingTime[p] \in Nat
       /\ root = IF prev = NULL \/ remainingTime[p] < remainingTime[prev] THEN p ELSE prev
  <2>1. p \in AllParts /\ remainingTime[p] \in Nat /\ remainingTime[root] \in Nat /\ root # NULL
    BY <1>2, <1>4, <1>5, <1>6
  <2>2. CASE root = prev
    BY <1>4, <1>5, <1>16, <2>1, <2>2
  <2>3. CASE root = p /\ Takes
    BY <2>1, <2>3 DEF Takes, p, prev
  <2> QED BY <1>7, <2>1, <2>2, <2>3
<1>18. \A c \in Cpu : Chosen(c)' = IF c = target THEN root ELSE Chosen(c)
  <2>1. root # NULL /\ remainingTime[root] > 0
    BY <1>2, <1>4, <1>6
  <2>2. minPtr'[target] = root /\ \A c \in Cpu : c # target => minPtr'[c] = minPtr[c]
    BY <1>1, <1>2
  <2> QED BY <1>1, <2>1, <2>2 DEF Chosen
<1>19. [c \in Cpu |-> Unfinished(c)'] = [[c \in Cpu |-> Unfinished(c)] EXCEPT ![target] = @ \cup {p}]
  BY <1>15
<1>20. [c \in Cpu |-> Chosen(c)'] =
         [[c \in Cpu |-> Chosen(c)] EXCEPT ![target] = IF @ = NULL \/ remainingTime[p] < remainingTime[@] THEN p ELSE @]
  BY <1>16, <1>17, <1>18
<1> DEFINE left == [q \in AllParts |-> remainingTime[q]]
<1>21. [c \in Cpu |-> Chosen(c)'] =
         [[c \in Cpu |-> Chosen(c)] EXCEPT ![target] = IF @ = NULL \/ left[p] < left[@] THEN p ELSE @]
  BY <1>16, <1>17, <1>20, <1>2
<1>22. left[p] = remainingTime[p] /\ left' = left
  BY <1>1, <1>13, <1>17
<1>23. Abstract!Due(p) = globalTimer
  BY <1>2, <1>9, <1>17, PartsAsAsked
<1>24. [c \in Cpu |-> Chosen(c)][target] = NULL => [c \in Cpu |-> Unfinished(c)][target] = {}
  BY <1>2, <1>16
<1> HIDE DEF left
<1>25. Abstract!Arrive(p)
  BY <1>1, <1>8, <1>10, <1>11, <1>12, <1>13, <1>19, <1>21, <1>22, <1>23, <1>24
     DEF Abstract!Arrive, left
<1> QED BY <1>25 DEF p

\* With two processors, as long as no deletion meets a tie, HandleMultiCPU with its
\* heaps, its pointers and its loops schedules what MultiSRT says: a process is split
\* as README.md:30 says; a part goes, when it is due, to the processor that has the
\* least left and no other part of its process; every processor works on a part that
\* needs the least time; and no processor with something to do rests (README.md:21,
\* README.md:28-34).
THEOREM SchedulesTheShortest ==
  ASSUME numCPU = 2
  PROVE  Spec => ImplementsSRT
<1>1. ASSUME TwoSRTInv, TwoCpuInv', TwoSRTInv', [Next]_vars
      PROVE  [\/ Abstract!Next
              \/ tied' # {} \/ ~PartsAreApart' \/ OnlyRepeatsLeft]_(Abstract!srtVars)
  <2> SUFFICES ASSUME tied' = {}, ~OnlyRepeatsLeft
               PROVE  [Abstract!Next]_(Abstract!srtVars)
    OBVIOUS
  <2>1. /\ tied = {} /\ ~\E c \in Cpu : UseFreed(c)
        /\ QueueStep => SiftUp \/ SiftDown \/ PidSort
    BY <1>1, DefinedNext
  <2>2. MultiInv /\ MultiCountInv /\ MultiCountInv' /\ AllParts \subseteq Proc
    BY <1>1, <2>1, SRTFacts DEF TwoCpuInv
  <2>3. ASSUME PickMin PROVE Abstract!Next
    <3>1. NewPart \in AllParts
      <4>1. pc = "placed" /\ HeadPid \in Pid
        BY <1>1, <2>1, <2>2, <2>3, NewPartFacts DEF PickMin, IsPlacing, Waiting
      <4> QED BY <2>2, <4>1 DEF MultiInv, PlaceInv, AllParts, NewPart
    <3>2. NewPart \in Abstract!Part
      BY <2>2, <3>1, PartsAsAsked
    <3> QED BY <1>1, <2>1, <2>3, <3>2, PickMinSRT DEF Abstract!Next
  <2>4. ASSUME NotDue, IsAllCpuPQEmpty PROVE Abstract!Next
    BY <1>1, <2>1, <2>4, IdleSRT DEF Abstract!Next
  <2>5. ASSUME Advance PROVE Abstract!Next
    BY <1>1, <2>1, <2>5, AdvanceSRT DEF Abstract!Next
  <2>6. ASSUME call = "none", RunCpu PROVE Abstract!Next
    <3>1. i \in Cpu
      BY <2>2, <2>6, MultiFacts DEF RunCpu, MultiInv, MultiTypeOK
    <3>2. Abstract!Work(i)
      BY <1>1, <2>1, <2>6, RunCpuSRT
    <3>3. \E c \in Cpu : Abstract!Work(c)
      BY <3>1, <3>2 DEF Abstract!Work
    <3> QED BY <3>3 DEF Abstract!Next
  <2>7. ASSUME Free PROVE [Abstract!Next]_(Abstract!srtVars)
    <3>1. i \in Cpu
      BY <2>2, <2>7, MultiFacts DEF Free, MultiInv, PlaceInv, MultiTypeOK
    <3> QED BY <1>1, <2>1, <2>2, <2>7, <3>1, FreeSRT DEF Abstract!Next
  <2>8. ASSUME Place \/ Placed \/ Finish PROVE UNCHANGED Abstract!srtVars
    BY <1>1, <2>1, <2>8, PlaceUnseen, PlacedUnseen, FinishUnseen
  <2>9. CASE call = "none" /\ Step
    BY <1>1, <2>1, <2>3, <2>4, <2>5, <2>6, <2>7, <2>8, <2>9, QuietUnseen DEF Step
  <2>10. CASE QueueStep /\ UNCHANGED <<listVars, multiVars>>
    BY <1>1, <2>1, <2>10, QuietUnseen
  <2>11. CASE UNCHANGED vars
    BY <1>1, <2>1, <2>11, QuietUnseen
  <2> QED BY <1>1, <2>9, <2>10, <2>11 DEF Next
<1> QED BY <1>1, InitSRT, TwoCpuInvariant, PlacesOnTheBest, PTL DEF Spec, ImplementsSRT

-----------------------------------------------------------------------------
(***************************************************************************)
(* What the simulation prints at its end.                                  *)
(***************************************************************************)

\* With two processors, the statistics and the queues together.
THEOREM PlacesAndReports ==
  ASSUME numCPU = 2
  PROVE  Spec => []TwoReportInv
<1>1. TwoSRTInv /\ MultiReportInv => TwoReportInv
  BY DEF MultiReportInv, TwoReportInv
<1> QED BY <1>1, PlacesOnTheBest, ReportsWhatRan, PTL

\* At the end no part is left, so that every process has been reported.
LEMMA AllReported ==
  ASSUME TwoReportInv, Sound, pc = "done"
  PROVE  Reported = Pid
<1>1. TwoCpuInv /\ tied = {} /\ ReportInv /\ loop = "remaining" /\ IsAllCpuPQEmpty
  BY DEF TwoReportInv, TwoSRTInv, Sound, ReportInv
<1>2. call = "none" /\ inputList = <<>>
  BY <1>1, UntiedFacts DEF MultiInv, PlaceInv
<1>3. Arrived = Pid
  BY <1>2 DEF Arrived, Waiting
<1>4. \A p : p \notin live
  <2>1. \A c \in Cpu : Owned(c) = {}
    BY <1>1, <1>2, UntiedFacts, SlotsAreQueued DEF Owned, IsAllCpuPQEmpty
  <2> QED BY <1>1, <2>1 DEF TwoCpuInv, KeptInv
<1>5. \A pid \in Pid : Running(pid) \ {popped} = {}
  BY <1>4 DEF Running
<1>6. \A pid \in Pid : finishedAt[pid] > 0
  BY <1>1, <1>3, <1>5 DEF TwoCpuInv, MultiCountInv, CountInv
<1> QED BY <1>6 DEF Reported

\* With two processors, as long as no deletion meets a tie, what SimRun prints at
\* the end is the mean and the extremes of what HandleMultiCPU reported.
THEOREM PrintsTheStatistics ==
  ASSUME numCPU = 2
  PROVE  Spec => []PrintsWhatHappened
<1>1. TwoReportInv => PrintsWhatHappened
  <2> SUFFICES ASSUME TwoReportInv, Sound, pc = "done" PROVE PrintedOf(Runs)
    BY DEF PrintsWhatHappened
  <2>1. Reported = Pid /\ IsFiniteSet(Pid) /\ Pid # {} /\ Agrees(stats, Runs, Pid)
    BY AllReported DEF TwoReportInv, ReportInv
  <2>2. DOMAIN Runs = Pid
    BY DEF Runs
  <2>3. \A pid \in Pid : Runs[pid] \in Fraction
    BY <2>1, RunFacts DEF TwoReportInv, TwoSRTInv, TwoCpuInv, MultiCountInv
  <2> HIDE DEF Runs
  <2> QED BY <2>1, <2>2, <2>3, AgreesPrints
<1> QED BY <1>1, PlacesAndReports, PTL
==============================================================================
