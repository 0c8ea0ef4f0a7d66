----------------------------- MODULE QueueClient -----------------------------
(***************************************************************************)
(* The run queues used as both scheduler loops of sim.c use them, in every *)
(* order and with no clock: between two calls a new process is created and *)
(* inserted, the process at the root of a heap runs for one tick, or the   *)
(* root that has no time left is deleted and freed.                        *)
(***************************************************************************)
EXTENDS QueueInvariants

CONSTANT Time  \* the execution times; 0 for a process that is never created
ASSUME TimeAssumption == Time \subseteq Nat /\ 0 \in Time

vars == queueVars

Init ==
  /\ InitializePQ /\ InitCall
  /\ live = {}
  /\ remainingTime \in [Proc \cup {DummyHead} -> Time] /\ remainingTime[DummyHead] = 0

Between == call = "none" /\ popped = NULL

\* createProcess and InsertPQ.  A process that ran has no time left, so one
\* that has time left and is not allocated has not been created yet.
Create(p, c) ==
  /\ Between
  /\ p \notin live /\ remainingTime[p] > 0
  /\ live' = live \cup {p}
  /\ InsertPQ(p, c)
  /\ UNCHANGED remainingTime

\* The tick of the process at the root.
Run(c) ==
  /\ Between /\ ~IsEmptyPQ(c)
  /\ LET p == FindMinRemainTimeProcess(c) IN
     /\ p \in live /\ remainingTime[p] > 0
     /\ remainingTime' = [remainingTime EXCEPT ![p] = @ - 1]
  /\ UNCHANGED <<heapVars, callVars, historyVars, live>>

\* A process that was freed by an earlier deletion, but is still in heap c, is
\* used: charged, compared or counted.
UseFreed(c) ==
  /\ Between
  /\ ~(Slots(c) \subseteq live)
  /\ call' = "undefined" /\ at' = c
  /\ UNCHANGED <<heapVars, hole, item, popped, historyVars, remainingTime, live>>

\* The process at the root has finished.
Finish(c) ==
  /\ Between /\ ~IsEmptyPQ(c)
  /\ FindMinRemainTimeProcess(c) \in live
  /\ remainingTime[FindMinRemainTimeProcess(c)] = 0
  /\ DeleteMin(c)
  /\ UNCHANGED <<remainingTime, live>>

\* free(DeleteMinRemainTimeProcess(pq))
Free ==
  /\ call = "none" /\ popped # NULL
  /\ live' = live \ {popped}
  /\ popped' = NULL
  /\ UNCHANGED <<heapVars, call, at, hole, item, historyVars, remainingTime>>

Next ==
  \/ \E c \in Cpu :
       \/ \E p \in Proc : Create(p, c)
       \/ Run(c) \/ UseFreed(c) \/ Finish(c)
  \/ Free
  \/ QueueStep

Spec == Init /\ [][Next]_vars

=============================================================================
