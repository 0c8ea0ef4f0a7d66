--------------------------- MODULE QueueInvariants ---------------------------
(***************************************************************************)
(* What the run queues promise to the schedulers that call them, and the   *)
(* inductive invariant those promises follow from.  The invariants speak   *)
(* of the variables of PriorityQueue only, so that every specification     *)
(* that calls the queues can be checked against them.                      *)
(***************************************************************************)
EXTENDS PriorityQueue

TypeOK ==
  /\ processes \in [Cpu -> [0 .. Capacity -> Pointer]]
  /\ size \in [Cpu -> 0 .. Capacity]
  /\ remainingTime \in [Proc \cup {DummyHead} -> Nat]
  /\ live \subseteq Proc
  /\ call \in {"none", "siftUp", "siftDown", "pidSort", "undefined"}
  /\ at \in Cpu /\ hole \in Nat /\ item \in Pointer /\ popped \in Pointer
  /\ queued \in [Cpu -> SUBSET Proc] /\ tied \subseteq Cpu

\* The invariants of a heap are suspended while a call works on it, and nothing
\* is promised once undefined behaviour was met.
Busy(c) == call = "undefined" \/ (call # "none" /\ at = c)

\* Between calls every process waits below one that needs no more time than it
\* does (InsertPQ and both loops of DeleteMinRemainTimeProcess).  A heap that
\* lost a process to a tie holds another one twice, and running that one
\* changes two of its slots: nothing is promised of such a heap.
HeapOrder == \A c \in Cpu : ~Busy(c) /\ c \notin tied =>
  \A k \in 2 .. size[c] :
    remainingTime[processes[c][k \div 2]] <= remainingTime[processes[c][k]]

\* FindMinRemainTimeProcess reads slot 1 and returns a process with the
\* shortest remaining time of the heap (process.c:82, "the process that has the
\* shortest remaining time").
RootIsMin == \A c \in Cpu : ~Busy(c) /\ c \notin tied =>
  \A k \in 1 .. size[c] :
    remainingTime[processes[c][1]] <= remainingTime[processes[c][k]]

\* The first n slots of an array, and that each one holds another process.
Contents(h, n) == {h[k] : k \in 1 .. n}
Distinct(h, n) == \A j, k \in 1 .. n : h[j] = h[k] => j = k

Slots(c) == Contents(processes[c], size[c])

\* A heap loses or duplicates a process only after a deletion during which the
\* last process had the same remaining time as another one: until then it holds
\* exactly the processes handed to it and not deleted, each one once.
IntactUnlessTied == \A c \in Cpu : ~Busy(c) /\ c \notin tied =>
  Slots(c) = queued[c] /\ Distinct(processes[c], size[c])

\* No read through a slot that holds a freed or null pointer before such a deletion
\* (InsertPQ, DeleteMinRemainTimeProcess).  The pointers that a caller keeps are its
\* own matter.
UndefinedOnlyIfTied == call = "undefined" => at \in tied

-----------------------------------------------------------------------------
(***************************************************************************)
(* The inductive invariant.  While a loop moves a hole through the array,  *)
(* the heap is described as if item already sat in the hole: in that view  *)
(* one iteration exchanges two neighbours.                                 *)
(***************************************************************************)
Moving(c) == call \in {"siftUp", "siftDown"} /\ at = c

View(c) == IF Moving(c) THEN [processes[c] EXCEPT ![hole] = item] ELSE processes[c]
Count(c) == IF call = "siftUp" /\ at = c THEN size[c] + 1 ELSE size[c]

\* Slot k is not smaller than its parent, its grandparent.
Above(c, k) == remainingTime[View(c)[k \div 2]] <= remainingTime[View(c)[k]]
FarAbove(c, k) ==
  k \div 2 >= 2 => remainingTime[View(c)[(k \div 2) \div 2]] <= remainingTime[View(c)[k]]

\* The pointers kept on behalf of a heap, in whatever slot.
Refs(c) == {processes[c][k] : k \in 0 .. Capacity}
           \cup (IF c = at /\ call \in {"siftUp", "siftDown", "pidSort"} THEN {item} ELSE {})

\* Where the hole is, and that item is a process.
HoleInv ==
  /\ call = "siftUp" => /\ size[at] < Capacity
                        /\ hole \in 1 .. size[at] + 1
                        /\ item \in Proc
  /\ call = "siftDown" => /\ size[at] < Capacity
                          /\ hole >= 1 /\ (size[at] >= 1 => hole <= size[at])
                          /\ (size[at] = 0 => hole = 1)
                          /\ item \in Proc
  /\ call = "pidSort" => size[at] < Capacity /\ hole >= 1

\* The dummy head is in slot 0 alone, the slots in use are processes.
ShapeInv ==
  /\ remainingTime[DummyHead] = 0
  /\ \A c \in Cpu : /\ \A k \in 0 .. Capacity : processes[c][k] = DummyHead <=> k = 0
                    /\ call # "undefined" => \A k \in 1 .. Count(c) : View(c)[k] \in Proc

\* Heap order, but for the hole: above it while sifting up, below it while
\* sifting down.
OrderInv == call # "undefined" => \A c \in Cpu \ tied : \A k \in 2 .. Count(c) :
  /\ Above(c, k) \/ (at = c /\ \/ call = "siftUp" /\ k = hole
                               \/ call = "siftDown" /\ k \div 2 = hole)
  /\ Moving(c) /\ k \div 2 = hole => FarAbove(c, k)

\* The heap and queued agree, even half way through a call.
ContentInv == \A c \in Cpu \ tied : call # "undefined" =>
  Contents(View(c), Count(c)) = queued[c] /\ Distinct(View(c), Count(c))

\* lastProcess still sits in the slot just past the heap and ties with nothing.
LastInv == call \in {"siftDown", "pidSort"} /\ at \notin tied =>
  /\ processes[at][size[at] + 1] = item
  /\ size[at] >= 1 => item \in queued[at]
  /\ \A p \in queued[at] : remainingTime[p] = remainingTime[item] => p = item

\* No heap refers to a process of another one, nor to one not created yet.
HomeInv ==
  /\ \A c, d \in Cpu : c # d => Refs(c) \cap queued[d] = {}
  /\ \A c \in Cpu : queued[c] \subseteq live
  /\ \A c \in Cpu : \A p \in Refs(c) \cap Proc : p \in live \/ remainingTime[p] = 0
  /\ popped # NULL => /\ popped \in Proc /\ remainingTime[popped] = 0
                      /\ \A c \in Cpu : popped \notin queued[c]

QueueInv ==
  /\ TypeOK /\ HoleInv /\ ShapeInv /\ OrderInv
  /\ ContentInv /\ LastInv /\ HomeInv /\ UndefinedOnlyIfTied
=============================================================================
