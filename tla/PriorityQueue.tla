---------------------------- MODULE PriorityQueue ----------------------------
(***************************************************************************)
(* The run queue of a CPU (process.c): a binary heap of pointers to        *)
(* process_t, ordered by remainingTime.  There is one heap per CPU; the    *)
(* schedulers OneCpu and MultiCpu extend this module and call it.          *)
(*                                                                         *)
(* The heap is an array of POINTERS.  Two slots may hold the same process, *)
(* and a slot may go on holding a process that has been freed: both happen *)
(* in the code, so slots, allocation (live) and contents (queued) are      *)
(* separate pieces of state here and the properties relate them.           *)
(*                                                                         *)
(* InsertPQ and DeleteMinRemainTimeProcess loop.  A call is one start      *)
(* action followed by one action per iteration, until call = "none".  The  *)
(* program is sequential: a caller does nothing else while a call runs.    *)
(***************************************************************************)
EXTENDS Integers

CONSTANTS
  Cpu,        \* ids of the CPUs, 0 .. numCPU-1
  Proc,       \* process_t objects, named <<pid, subProcNo>>
  Capacity,   \* Heap.capacity: the number of lines of the input file
  DummyHead,  \* processes[0], whose remaining time is 0
  NULL        \* the null pointer

ASSUME ProcAssumption ==
  /\ Proc \subseteq Nat \X Nat
  /\ DummyHead \notin Proc /\ NULL \notin Proc /\ NULL # DummyHead

ASSUME CapacityAssumption == Capacity \in Nat \ {0}

VARIABLES
  processes,      \* Heap.processes: [Cpu -> [0 .. Capacity -> pointer]]
  size,           \* Heap.size
  remainingTime,  \* process_t.remainingTime
  live,           \* the processes created and not yet freed
  call,           \* the loop being executed, "none" between calls
  at,             \* the CPU whose heap the call works on
  hole,           \* the loop variable i
  item,           \* newProcess of an insertion, lastProcess of a deletion
  popped,         \* the result of the last deletion, until it is freed
  queued,         \* history: the processes handed to each heap and not deleted
  tied            \* history: CPUs that deleted while lastProcess had a tie

heapVars == <<processes, size>>
callVars == <<call, at, hole, item, popped>>
historyVars == <<queued, tied>>
queueVars == <<heapVars, callVars, historyVars, remainingTime, live>>

Pointer == Proc \cup {DummyHead, NULL}
PidOf(p) == p[1]

InitializePQ ==
  /\ processes = [c \in Cpu |-> [k \in 0 .. Capacity |-> IF k = 0 THEN DummyHead ELSE NULL]]
  /\ size = [c \in Cpu |-> 0]

InitCall ==
  /\ call = "none" /\ at \in Cpu /\ hole = 0 /\ item = NULL /\ popped = NULL
  /\ queued = [c \in Cpu |-> {}]
  /\ tied = {}

IsEmptyPQ(c) == size[c] = 0
\* Mutant: the test allows for one process too many.
IsFullPQ_TooLate(c) == size[c] > Capacity
IsFullPQ(c) == size[c] = Capacity
FindMinRemainTimeProcess(c) == processes[c][1]

-----------------------------------------------------------------------------
(***************************************************************************)
(* Undefined behaviour.  Dereferenced is the set of pointers the next      *)
(* iteration reads through.  If one of them is NULL or was freed the       *)
(* iteration has no defined outcome: the call ends in "undefined", a state *)
(* in which nothing is promised and from which nothing is modelled.        *)
(***************************************************************************)
SlotsRead == {k \in 0 .. Capacity :
  \/ call = "siftUp" /\ k = hole \div 2
  \/ call = "siftDown" /\ k \in {2 * hole, 2 * hole + 1} /\ k <= size[at]
  \/ call = "pidSort" /\ 2 * hole <= size[at] /\ k \in {hole, 2 * hole, 2 * hole + 1}}

ItemRead == call = "siftUp" \/ (call = "siftDown" /\ 2 * hole <= size[at])

Dereferenced == {processes[at][k] : k \in SlotsRead} \cup (IF ItemRead THEN {item} ELSE {})

Allocated(S) == S \subseteq live \cup {DummyHead}

UndefinedIteration ==
  /\ ~Allocated(Dereferenced)
  /\ call' = "undefined"
  /\ UNCHANGED <<heapVars, at, hole, item, popped, historyVars, remainingTime, live>>

-----------------------------------------------------------------------------
(***************************************************************************)
(* InsertPQ                                                                *)
(***************************************************************************)

\* The early return of a full queue: the process is not stored anywhere.
RefuseInsert(c) ==
  /\ IsFullPQ(c)
  /\ UNCHANGED <<heapVars, callVars, historyVars>>

\* Mutant: hole is size and not size + 1 (the last process is overwritten), or
\* size + 2 (a slot is left out).
StartInsert_OnLast(p, c) ==
  /\ ~IsFullPQ(c)
  /\ call' = "siftUp" /\ at' = c /\ hole' = size[c] /\ item' = p
  /\ queued' = [queued EXCEPT ![c] = @ \cup {p}]
  /\ UNCHANGED <<heapVars, popped, tied>>
StartInsert_SkipsSlot(p, c) ==
  /\ ~IsFullPQ(c)
  /\ call' = "siftUp" /\ at' = c /\ hole' = size[c] + 2 /\ item' = p
  /\ queued' = [queued EXCEPT ![c] = @ \cup {p}]
  /\ UNCHANGED <<heapVars, popped, tied>>

StartInsert(p, c) ==
  /\ ~IsFullPQ(c)
  /\ call' = "siftUp" /\ at' = c /\ hole' = size[c] + 1 /\ item' = p
  /\ queued' = [queued EXCEPT ![c] = @ \cup {p}]
  /\ UNCHANGED <<heapVars, popped, tied>>

\* The part of InsertPQ before its loop; the caller sets remainingTime, live.
InsertPQ(p, c) ==
  /\ call = "none"
  /\ RefuseInsert(c) \/ StartInsert(p, c)

\* One test of the for loop of InsertPQ: shift the parent down, or leave the
\* loop and store the new process.
SiftUp ==
  /\ call = "siftUp" /\ Allocated(Dereferenced)
  /\ LET parent == processes[at][hole \div 2] IN
     \/ /\ remainingTime[parent] > remainingTime[item]
        /\ processes' = [processes EXCEPT ![at][hole] = parent]
        /\ hole' = hole \div 2
        /\ UNCHANGED <<size, call>>
     \/ /\ remainingTime[parent] <= remainingTime[item]
        /\ processes' = [processes EXCEPT ![at][hole] = item]
        /\ size' = [size EXCEPT ![at] = @ + 1]
        /\ call' = "none"
        /\ UNCHANGED hole
  /\ UNCHANGED <<at, item, popped, historyVars, remainingTime, live>>

-----------------------------------------------------------------------------
(***************************************************************************)
(* DeleteMinRemainTimeProcess                                              *)
(***************************************************************************)

\* Some process other than the root has lastProcess's remaining time.
LastIsTied(c) ==
  \E k \in 2 .. size[c] - 1 :
    remainingTime[processes[c][k]] = remainingTime[processes[c][size[c]]]

\* The part before the loops.  Every caller has checked ~IsEmptyPQ, so the
\* branch that returns the dummy head is not reached.
DeleteMin(c) ==
  /\ call = "none" /\ ~IsEmptyPQ(c)
  /\ popped' = processes[c][1]
  /\ item' = processes[c][size[c]]
  /\ size' = [size EXCEPT ![c] = @ - 1]
  /\ call' = "siftDown" /\ at' = c /\ hole' = 1
  /\ queued' = [queued EXCEPT ![c] = @ \ {processes[c][1]}]
  /\ tied' = IF LastIsTied(c) THEN tied \cup {c} ELSE tied
  /\ UNCHANGED processes

\* Mutants: the left child whatever the right one is, and the larger child.
SmallerChild_Left == 2 * hole
SmallerChild_Larger ==
  LET h == processes[at]  l == 2 * hole IN
  IF l # size[at] /\ remainingTime[h[l + 1]] > remainingTime[h[l]] THEN l + 1 ELSE l

\* The child the first loop compares lastProcess with.
SmallerChild ==
  LET h == processes[at]  l == 2 * hole IN
  IF l # size[at] /\ remainingTime[h[l + 1]] < remainingTime[h[l]] THEN l + 1 ELSE l

\* Mutant: the loop ends before a left child in the last slot.
Sinks_OffByOne ==
  /\ 2 * hole < size[at]
  /\ remainingTime[item] > remainingTime[processes[at][SmallerChild]]

\* lastProcess is larger than that child and has to go below it.
Sinks ==
  /\ 2 * hole <= size[at]
  /\ remainingTime[item] > remainingTime[processes[at][SmallerChild]]

\* One test of the first loop: move the smaller child up, or leave the loop
\* and store lastProcess.
SiftDown ==
  /\ call = "siftDown" /\ Allocated(Dereferenced)
  /\ \/ /\ Sinks
        /\ processes' = [processes EXCEPT ![at][hole] = processes[at][SmallerChild]]
        /\ hole' = SmallerChild
        /\ UNCHANGED call
     \/ /\ ~Sinks
        /\ processes' = [processes EXCEPT ![at][hole] = item]
        /\ call' = "pidSort" /\ hole' = 1
  /\ UNCHANGED <<size, at, item, popped, historyVars, remainingTime, live>>

\* Slots j and k of the array h, exchanged if they tie in the wrong pid order.
PidOrder(h, j, k) ==
  IF /\ remainingTime[h[j]] = remainingTime[h[k]]
     /\ PidOf(h[j]) > PidOf(h[k])
  THEN [h EXCEPT ![j] = h[k], ![k] = h[j]]
  ELSE h

\* One iteration of the second loop ("add pid sorting").  It follows the
\* leftmost path only, and slot 2*hole+1 may be the one just past the heap.
PidSort ==
  /\ call = "pidSort" /\ Allocated(Dereferenced)
  /\ \/ /\ 2 * hole <= size[at]
        /\ processes' = [processes EXCEPT ![at] =
                           PidOrder(PidOrder(@, hole, 2 * hole), 2 * hole, 2 * hole + 1)]
        /\ hole' = 2 * hole
        /\ UNCHANGED call
     \/ /\ 2 * hole > size[at]
        /\ call' = "none"
        /\ UNCHANGED <<processes, hole>>
  /\ UNCHANGED <<size, at, item, popped, historyVars, remainingTime, live>>

\* A step of the call in progress.
QueueStep == SiftUp \/ SiftDown \/ PidSort \/ UndefinedIteration
=============================================================================
