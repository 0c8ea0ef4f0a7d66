----------------------------- MODULE QueueProofs -----------------------------
(***************************************************************************)
(* The promises of QueueInvariants hold of QueueClient, whatever the       *)
(* constants: the lemmas on QueueInv, put together.                        *)
(***************************************************************************)
EXTENDS QueueClient, QueueLemmas

LEMMA InitQueueInv == Init => QueueInv
<1> SUFFICES ASSUME Init PROVE QueueInv
  OBVIOUS
<1>1. remainingTime \in [Proc \cup {DummyHead} -> Nat] /\ remainingTime[DummyHead] = 0
  BY TimeAssumption DEF Init
<1> QED BY <1>1, InitInv DEF Init

LEMMA NextQueueInv == QueueInv /\ [Next]_vars => QueueInv'
<1> SUFFICES ASSUME QueueInv, [Next]_vars PROVE QueueInv'
  OBVIOUS
<1>1. ASSUME NEW c \in Cpu, NEW p \in Proc, Create(p, c) PROVE QueueInv'
  BY <1>1, InsertInv DEF Create, Between
<1>2. ASSUME NEW c \in Cpu, Run(c) PROVE QueueInv'
  BY <1>2, TickInv DEF Run, Between
<1>3. ASSUME NEW c \in Cpu, UseFreed(c) PROVE QueueInv'
  <2>1. PICK k \in 1 .. size[c] : processes[c][k] \notin live
    BY <1>3 DEF UseFreed, Slots, Contents
  <2> QED BY <1>3, <2>1, UseFreedInv DEF UseFreed, Between
<1>4. ASSUME NEW c \in Cpu, Finish(c) PROVE QueueInv'
  BY <1>4, DeleteMinInv DEF Finish, Between, FindMinRemainTimeProcess
<1>5. CASE Free
  BY <1>5, FreeInv DEF Free
<1>6. CASE QueueStep
  BY <1>6, QueueStepInv
<1>7. CASE UNCHANGED vars
  BY <1>7, StutterInv DEF vars
<1> QED BY <1>1, <1>2, <1>3, <1>4, <1>5, <1>6, <1>7 DEF Next

\* QueueInv is an invariant of the queues: every piece of state that
\* InsertPQ, DeleteMinRemainTimeProcess and free leave behind agrees.
THEOREM QueueInvariant == Spec => []QueueInv
BY InitQueueInv, NextQueueInv, PTL DEF Spec

\* Every variable of the queues keeps its type: sizes within the capacity, slots
\* that hold pointers, no time below zero.
THEOREM QueueTypes == Spec => []TypeOK
<1>1. QueueInv => TypeOK
  BY DEF QueueInv
<1> QED BY <1>1, QueueInvariant, PTL

\* Between calls, every heap that has met no tie is ordered.
THEOREM HeapStaysOrdered == Spec => []HeapOrder
BY QueueInvariant, Promises, PTL

\* FindMinRemainTimeProcess returns a minimum of such a heap.
THEOREM RootStaysMin == Spec => []RootIsMin
BY QueueInvariant, RootPromise, PTL

\* A heap that has met no tie holds what it was handed, each process once.
THEOREM IntactWithoutTies == Spec => []IntactUnlessTied
BY QueueInvariant, Promises, PTL

\* No freed process is read before a tie.
THEOREM DefinedWithoutTies == Spec => []UndefinedOnlyIfTied
BY QueueInvariant, Promises, PTL
=============================================================================
