----------------------------- MODULE QueueLemmas -----------------------------
(***************************************************************************)
(* QueueInv is preserved by every step of a call and by whatever a caller  *)
(* does between two calls, for every number of CPUs and processes, every   *)
(* capacity and all execution times.  No lemma mentions a client, so that  *)
(* they serve each specification that calls the run queues.                *)
(***************************************************************************)
EXTENDS QueueUse, FiniteSetsExt, FiniteSetTheorems, TLAPS, WellFoundedInduction

\* Two arrays with slots j and k exchanged.
Exchanged(f, g, j, k) ==
  /\ g[j] = f[k] /\ g[k] = f[j]
  /\ \A i \in DOMAIN f : i # j /\ i # k => g[i] = f[i]

\* An exchange inside the first n slots keeps their contents.
LEMMA ExchangeKeeps ==
  ASSUME NEW C \in Nat, NEW n \in 0 .. C, NEW f, NEW g,
         DOMAIN f = 0 .. C, NEW j \in 1 .. n, NEW k \in 1 .. n,
         Exchanged(f, g, j, k)
  PROVE  /\ Contents(g, n) = Contents(f, n)
         /\ Distinct(f, n) => Distinct(g, n)
<1> DEFINE p == [i \in 1 .. n |-> IF i = j THEN k ELSE IF i = k THEN j ELSE i]
<1>1. \A i \in 1 .. n : p[i] \in 1 .. n /\ g[i] = f[p[i]] /\ f[i] = g[p[i]]
  BY DEF Exchanged
<1>2. \A i, l \in 1 .. n : p[i] = p[l] => i = l
  OBVIOUS
<1> HIDE DEF p
<1>3. Contents(g, n) = Contents(f, n)
  BY <1>1 DEF Contents
<1>4. ASSUME Distinct(f, n)
      PROVE  Distinct(g, n)
  BY <1>1, <1>2, <1>4 DEF Distinct
<1> QED BY <1>3, <1>4

\* Where the parent of a slot is.
LEMMA Parent ==
  ASSUME NEW k \in Nat
  PROVE  /\ k \div 2 \in Nat
         /\ k >= 2 => k \div 2 \in 1 .. k - 1
         /\ k >= 1 => k \div 2 < k
         /\ k = 1 => k \div 2 = 0
         /\ \A h \in Nat : k \div 2 = h <=> k = 2 * h \/ k = 2 * h + 1
OBVIOUS

\* The smallest element of a set of numbers.
LEMMA Smallest ==
  ASSUME NEW S \in SUBSET Nat, S # {}
  PROVE  \E m \in S : \A k \in S : m <= k
<1>1. PICK m \in S : \A y \in S : ~ (<<y, m>> \in OpToRel(<, Nat))
  BY NatLessThanWellFounded, WFMin
<1>2. \A y \in S : ~ (y < m)
  BY <1>1 DEF OpToRel
<1> QED BY <1>2

-----------------------------------------------------------------------------
(***************************************************************************)
(* Types.                                                                  *)
(***************************************************************************)
LEMMA SiftUpType ==
  ASSUME QueueInv, SiftUp
  PROVE  TypeOK'
<1> DEFINE s == processes[at]
<1>1. /\ at \in Cpu /\ s \in [0 .. Capacity -> Pointer] /\ hole \in 1 .. size[at] + 1
      /\ size[at] \in Nat /\ size[at] < Capacity /\ item \in Proc
      /\ processes \in [Cpu -> [0 .. Capacity -> Pointer]]
      /\ size \in [Cpu -> 0 .. Capacity]
  BY CapacityAssumption DEF QueueInv, TypeOK, HoleInv, SiftUp
<1>2. hole \in 0 .. Capacity /\ hole \div 2 \in 0 .. Capacity
  BY <1>1, CapacityAssumption
<1>3. processes' \in [Cpu -> [0 .. Capacity -> Pointer]]
  <2>1. \E p \in Pointer : processes' = [processes EXCEPT ![at][hole] = p]
    BY <1>1, <1>2 DEF SiftUp, Pointer
  <2> QED BY <2>1, <1>1, <1>2
<1>4. size' \in [Cpu -> 0 .. Capacity]
  BY <1>1, CapacityAssumption DEF SiftUp
<1>5. hole' \in Nat /\ call' \in {"none", "siftUp"}
  BY <1>1, <1>2 DEF SiftUp
<1> QED BY <1>3, <1>4, <1>5 DEF SiftUp, QueueInv, TypeOK, historyVars

LEMMA SiftDownType ==
  ASSUME QueueInv, SiftDown
  PROVE  TypeOK'
<1> DEFINE s == processes[at]
<1>1. /\ at \in Cpu /\ s \in [0 .. Capacity -> Pointer] /\ hole \in Nat /\ hole >= 1
      /\ hole <= size[at] + 1
      /\ size[at] \in Nat /\ size[at] < Capacity /\ item \in Proc
      /\ processes \in [Cpu -> [0 .. Capacity -> Pointer]]
  BY CapacityAssumption DEF QueueInv, TypeOK, HoleInv, SiftDown
<1>2. Sinks => SmallerChild \in 1 .. size[at]
  <2>1. SmallerChild = 2 * hole \/ (SmallerChild = 2 * hole + 1 /\ 2 * hole # size[at])
    BY Zenon DEF SmallerChild
  <2>2. Sinks => 2 * hole <= size[at]
    BY DEF Sinks
  <2> QED BY <1>1, <2>1, <2>2
<1>3. processes' \in [Cpu -> [0 .. Capacity -> Pointer]]
  <2>1. \E p \in Pointer : processes' = [processes EXCEPT ![at][hole] = p]
    <3>1. Sinks => s[SmallerChild] \in Pointer
      BY <1>1, <1>2, CapacityAssumption
    <3> QED BY <1>1, <3>1 DEF SiftDown, Pointer
  <2>2. hole \in 0 .. Capacity
    BY <1>1, CapacityAssumption
  <2> QED BY <2>1, <2>2, <1>1
<1>4. hole' \in Nat /\ call' \in {"siftDown", "pidSort"}
  BY <1>1, <1>2 DEF SiftDown
<1> QED BY <1>3, <1>4 DEF SiftDown, QueueInv, TypeOK, historyVars

\* PidOrder exchanges two slots or leaves the array alone.
LEMMA PidOrderType ==
  ASSUME NEW h \in [0 .. Capacity -> Pointer],
         NEW j \in 0 .. Capacity, NEW k \in 0 .. Capacity
  PROVE  /\ PidOrder(h, j, k) \in [0 .. Capacity -> Pointer]
         /\ PidOrder(h, j, k) = h
            \/ (j # k /\ Exchanged(h, PidOrder(h, j, k), j, k))
<1>1. CASE j = k
  <2>1. [h EXCEPT ![j] = h[k], ![k] = h[j]] = h
    BY <1>1
  <2> QED BY <2>1 DEF PidOrder
<1>2. CASE j # k
  BY <1>2 DEF PidOrder, Exchanged
<1> QED BY <1>1, <1>2

LEMMA PidSortType ==
  ASSUME QueueInv, PidSort
  PROVE  TypeOK'
<1>1. /\ at \in Cpu /\ processes[at] \in [0 .. Capacity -> Pointer]
      /\ hole \in Nat /\ hole >= 1 /\ size[at] \in Nat /\ size[at] < Capacity
      /\ processes \in [Cpu -> [0 .. Capacity -> Pointer]]
  BY CapacityAssumption DEF QueueInv, TypeOK, HoleInv, PidSort
<1>2. CASE 2 * hole > size[at]
  BY <1>1, <1>2 DEF PidSort, QueueInv, TypeOK, historyVars
<1>3. CASE 2 * hole <= size[at]
  <2>1. hole \in 0 .. Capacity /\ 2 * hole \in 0 .. Capacity /\ 2 * hole + 1 \in 0 .. Capacity
    BY <1>1, <1>3, CapacityAssumption
  <2> DEFINE f == PidOrder(processes[at], hole, 2 * hole)
             g == PidOrder(f, 2 * hole, 2 * hole + 1)
  <2>2. f \in [0 .. Capacity -> Pointer]
    BY <1>1, <2>1, PidOrderType
  <2> HIDE DEF f
  <2>3. g \in [0 .. Capacity -> Pointer]
    BY <2>1, <2>2, PidOrderType
  <2>4. processes' = [processes EXCEPT ![at] = g] /\ hole' = 2 * hole /\ UNCHANGED call
    BY <1>1, <1>3 DEF PidSort, f
  <2> HIDE DEF g
  <2>5. processes' \in [Cpu -> [0 .. Capacity -> Pointer]] /\ hole' \in Nat
    BY <1>1, <2>3, <2>4
  <2> QED BY <2>4, <2>5 DEF PidSort, QueueInv, TypeOK, historyVars
<1> QED BY <1>1, <1>2, <1>3

-----------------------------------------------------------------------------
(***************************************************************************)
(* What one iteration does to the views of the heaps.                      *)
(***************************************************************************)
\* The views as functions, and the entry of the hole.
LEMMA ViewType ==
  ASSUME QueueInv, NEW c \in Cpu
  PROVE  /\ View(c) \in [0 .. Capacity -> Pointer]
         /\ Count(c) \in 0 .. Capacity
         /\ call # "undefined" => \A k \in 1 .. Count(c) : View(c)[k] \in Proc
         /\ View(c)[0] = DummyHead
         /\ Moving(c) => /\ hole \in 1 .. Capacity
                         /\ View(c)[hole] = item
                         /\ \A k \in 0 .. Capacity : k # hole => View(c)[k] = processes[c][k]
         /\ ~Moving(c) => View(c) = processes[c]
<1>1. /\ size[c] \in 0 .. Capacity /\ processes[c] \in [0 .. Capacity -> Pointer]
      /\ item \in Pointer /\ Capacity \in Nat
  BY CapacityAssumption DEF QueueInv, TypeOK
<1>2. Count(c) \in 0 .. Capacity
  BY <1>1 DEF Count, QueueInv, HoleInv
<1>3. Moving(c) => hole \in 1 .. Capacity
  BY <1>1, CapacityAssumption DEF Moving, QueueInv, HoleInv, TypeOK
<1>4. /\ call # "undefined" => \A k \in 1 .. Count(c) : View(c)[k] \in Proc
      /\ processes[c][0] = DummyHead
  BY <1>1 DEF QueueInv, ShapeInv
<1>5. CASE Moving(c)
  <2>1. View(c) = [processes[c] EXCEPT ![hole] = item]
    BY <1>5 DEF View
  <2> QED BY <1>1, <1>2, <1>3, <1>4, <1>5, <2>1
<1>6. CASE ~Moving(c)
  <2>1. View(c) = processes[c]
    BY <1>6 DEF View
  <2> QED BY <1>1, <1>2, <1>4, <1>6, <2>1
<1> QED BY <1>5, <1>6

\* A step on one heap leaves the view of another heap alone.
LEMMA OtherView ==
  ASSUME QueueInv, SiftUp \/ SiftDown \/ PidSort, NEW c \in Cpu, c # at
  PROVE  View(c)' = View(c) /\ Count(c)' = Count(c) /\ ~Moving(c) /\ ~Moving(c)'
<1>1. /\ at \in Cpu /\ at' = at /\ processes \in [Cpu -> [0 .. Capacity -> Pointer]]
      /\ size \in [Cpu -> 0 .. Capacity]
  BY DEF QueueInv, TypeOK, SiftUp, SiftDown, PidSort
<1>2. processes'[c] = processes[c]
  <2>1. CASE SiftUp
    BY <1>1, <2>1 DEF SiftUp
  <2>2. CASE SiftDown
    BY <1>1, <2>2 DEF SiftDown
  <2>3. CASE PidSort
    BY <1>1, <2>3 DEF PidSort
  <2> QED BY <2>1, <2>2, <2>3
<1>3. size'[c] = size[c]
  BY <1>1 DEF SiftUp, SiftDown, PidSort
<1> QED BY <1>1, <1>2, <1>3 DEF View, Count, Moving

\* SiftUp either exchanges the hole with its parent, or leaves the view alone.
LEMMA SiftUpView ==
  ASSUME QueueInv, SiftUp
  PROVE  /\ hole \div 2 \in 0 .. size[at]
         /\ hole \in 1 .. Count(at) /\ Count(at)' = Count(at) /\ Moving(at)
         /\ \/ /\ call' = "siftUp" /\ hole' = hole \div 2 /\ hole' >= 1
               /\ size' = size
               /\ Exchanged(View(at), View(at)', hole, hole \div 2)
               /\ remainingTime[item] < remainingTime[View(at)[hole \div 2]]
            \/ /\ call' = "none" /\ View(at)' = View(at)
               /\ size' = [size EXCEPT ![at] = @ + 1]
               /\ remainingTime[View(at)[hole \div 2]] <= remainingTime[item]
<1> DEFINE s == processes[at]
           g == hole \div 2
<1>1. /\ at \in Cpu /\ s \in [0 .. Capacity -> Pointer] /\ hole \in 1 .. size[at] + 1
      /\ size[at] \in Nat /\ size[at] < Capacity /\ item \in Proc
      /\ processes \in [Cpu -> [0 .. Capacity -> Pointer]]
      /\ size \in [Cpu -> 0 .. Capacity]
      /\ at' = at /\ call = "siftUp" /\ item' = item
      /\ remainingTime[DummyHead] = 0 /\ remainingTime[item] \in Nat
  BY CapacityAssumption DEF QueueInv, TypeOK, HoleInv, ShapeInv, SiftUp
<1>2. Count(at) = size[at] + 1 /\ Moving(at)
  BY <1>1 DEF Count, Moving
<1>3. /\ View(at)[hole] = item /\ View(at)[0] = DummyHead
      /\ View(at) \in [0 .. Capacity -> Pointer]
      /\ \A k \in 0 .. Capacity : k # hole => View(at)[k] = s[k]
  BY <1>1, <1>2, ViewType
<1>4. g \in 0 .. size[at] /\ g # hole /\ g \in 0 .. Capacity
  BY <1>1, CapacityAssumption
<1>5. remainingTime[s[g]] \in Nat
  <2>1. CASE g = 0
    BY <2>1, <1>1, <1>3, <1>4
  <2>2. CASE g >= 1
    <3>1. g \in 1 .. Count(at)
      BY <1>1, <1>2, <1>4, <2>2
    <3>2. View(at)[g] \in Proc
      BY <1>1, <3>1, ViewType
    <3> QED BY <1>3, <1>4, <3>2 DEF QueueInv, TypeOK
  <2> QED BY <2>1, <2>2, <1>4
<1>6. CASE remainingTime[s[g]] > remainingTime[item]
  <2>1. g >= 1
    BY <1>1, <1>3, <1>4, <1>6
  <2>2. /\ processes' = [processes EXCEPT ![at][hole] = s[g]]
        /\ hole' = g /\ UNCHANGED <<size, call>>
    BY <1>1, <1>5, <1>6 DEF SiftUp
  <2>3. processes'[at] = [s EXCEPT ![hole] = s[g]]
    BY <1>1, <2>2
  <2>4. View(at)' = [processes'[at] EXCEPT ![g] = item]
    BY <1>1, <2>2 DEF View, Moving
  <2>5. Exchanged(View(at), View(at)', hole, g)
    BY <1>1, <1>3, <1>4, <2>3, <2>4, CapacityAssumption DEF Exchanged
  <2>6. Count(at)' = Count(at)
    BY <1>1, <2>2 DEF Count
  <2> QED BY <1>1, <1>2, <1>3, <1>4, <1>6, <2>1, <2>2, <2>5, <2>6
<1>7. CASE remainingTime[s[g]] <= remainingTime[item]
  <2>1. /\ processes' = [processes EXCEPT ![at][hole] = item]
        /\ size' = [size EXCEPT ![at] = @ + 1]
        /\ call' = "none"
    BY <1>1, <1>5, <1>7 DEF SiftUp
  <2>2. processes'[at] = [s EXCEPT ![hole] = item]
    BY <1>1, <2>1
  <2>3. View(at)' = View(at)
    BY <1>1, <2>1, <2>2 DEF View, Moving
  <2>4. Count(at)' = Count(at)
    BY <1>1, <2>1 DEF Count
  <2> QED BY <1>1, <1>2, <1>3, <1>4, <1>7, <2>1, <2>3, <2>4
<1> QED BY <1>1, <1>5, <1>6, <1>7

\* The remaining times of the slots in use are numbers.
LEMMA Times ==
  ASSUME QueueInv, call # "undefined", NEW c \in Cpu, NEW k \in 0 .. Count(c)
  PROVE  remainingTime[View(c)[k]] \in Nat
<1>1. k \in 1 .. Count(c) \/ k = 0
  BY ViewType
<1>2. View(c)[k] \in Proc \cup {DummyHead}
  BY <1>1, ViewType
<1> QED BY <1>2 DEF QueueInv, TypeOK

\* SiftDown either exchanges the hole with its smaller child, or leaves the
\* view alone when no child is smaller than the item.
LEMMA SiftDownView ==
  ASSUME QueueInv, SiftDown
  PROVE  /\ Moving(at) /\ Count(at) = size[at] /\ Count(at)' = Count(at) /\ hole \in 1 .. Capacity
         /\ size' = size
         /\ \/ /\ call' = "siftDown" /\ hole' \div 2 = hole
               /\ hole \in 1 .. Count(at) /\ hole' \in 1 .. Count(at)
               /\ Exchanged(View(at), View(at)', hole, hole')
               /\ remainingTime[View(at)[hole']] < remainingTime[item]
               /\ \A k \in 2 .. Count(at) : k \div 2 = hole =>
                    remainingTime[View(at)[hole']] <= remainingTime[View(at)[k]]
            \/ /\ call' = "pidSort" /\ hole' = 1 /\ View(at)' = View(at)
               /\ \A k \in 2 .. Count(at) : k \div 2 = hole =>
                    remainingTime[item] <= remainingTime[View(at)[k]]
<1> DEFINE s == processes[at]
           m == SmallerChild
<1>1. /\ at \in Cpu /\ s \in [0 .. Capacity -> Pointer]
      /\ size[at] \in Nat /\ size[at] < Capacity /\ item \in Proc
      /\ processes \in [Cpu -> [0 .. Capacity -> Pointer]]
      /\ at' = at /\ call = "siftDown" /\ item' = item /\ size' = size
      /\ remainingTime[item] \in Nat /\ hole \in Nat /\ Capacity \in Nat
      /\ size[at] >= 1 => hole <= size[at]
  BY CapacityAssumption DEF QueueInv, TypeOK, HoleInv, SiftDown
<1>2. Count(at) = size[at] /\ Moving(at)
  BY <1>1 DEF Count, Moving
<1>3. /\ View(at)[hole] = item /\ hole \in 1 .. Capacity
      /\ View(at) \in [0 .. Capacity -> Pointer]
      /\ \A k \in 0 .. Capacity : k # hole => View(at)[k] = s[k]
  BY <1>1, <1>2, ViewType
<1>4. \A k \in 1 .. size[at] : remainingTime[View(at)[k]] \in Nat
  BY <1>1, <1>2, Times
<1>5. \A k \in 1 .. size[at] : k # hole => remainingTime[s[k]] \in Nat /\ s[k] = View(at)[k]
  BY <1>1, <1>3, <1>4
<1>6. Count(at)' = Count(at)
  BY <1>1, <1>2 DEF Count, SiftDown
<1>7. \A k \in Nat : k \div 2 = hole <=> k = 2 * hole \/ k = 2 * hole + 1
  BY <1>1, Parent
<1>8. ASSUME 2 * hole <= size[at]
      PROVE  /\ m \in 1 .. size[at] /\ (m = 2 * hole \/ m = 2 * hole + 1)
             /\ \A k \in 2 .. size[at] : k \div 2 = hole =>
                  remainingTime[View(at)[m]] <= remainingTime[View(at)[k]]
  <2>1. CASE /\ 2 * hole # size[at]
             /\ remainingTime[s[2 * hole + 1]] < remainingTime[s[2 * hole]]
    <3>1. m = 2 * hole + 1
      BY <2>1 DEF SmallerChild
    <3>2. 2 * hole + 1 \in 1 .. size[at] /\ 2 * hole \in 1 .. size[at]
      <4>1. size[at] \in Nat /\ hole \in Nat /\ hole >= 1
        BY <1>1, <1>3
      <4>2. 2 * hole # size[at] /\ 2 * hole <= size[at]
        BY <1>8, <2>1
      <4> QED BY <4>1, <4>2
    <3> HIDE DEF m
    <3>3. s[m] = View(at)[m] /\ s[2 * hole] = View(at)[2 * hole]
      BY <1>1, <1>3, <1>5, <3>1, <3>2
    <3>4. /\ remainingTime[View(at)[m]] \in Nat /\ remainingTime[View(at)[2 * hole]] \in Nat
          /\ remainingTime[View(at)[m]] < remainingTime[View(at)[2 * hole]]
      BY <1>4, <2>1, <3>1, <3>2, <3>3
    <3>5. \A k \in 2 .. size[at] : k \div 2 = hole => k = m \/ k = 2 * hole
      BY <1>1, <1>7, <3>1
    <3>6. \A k \in 2 .. size[at] : k \div 2 = hole =>
            remainingTime[View(at)[m]] <= remainingTime[View(at)[k]]
      BY <3>4, <3>5
    <3> QED BY <3>1, <3>2, <3>6
  <2>2. CASE ~ /\ 2 * hole # size[at]
               /\ remainingTime[s[2 * hole + 1]] < remainingTime[s[2 * hole]]
    <3>1. m = 2 * hole
      BY <2>2 DEF SmallerChild
    <3>2. 2 * hole \in 1 .. size[at]
      BY <1>1, <1>3, <1>8
    <3> HIDE DEF m
    <3>3. ASSUME NEW k \in 2 .. size[at], k \div 2 = hole
          PROVE  remainingTime[View(at)[m]] <= remainingTime[View(at)[k]]
      <4>1. /\ k = 2 * hole \/ (k = 2 * hole + 1 /\ 2 * hole # size[at])
            /\ k \in 1 .. size[at] /\ k # hole /\ 2 * hole # hole
        BY <1>1, <1>3, <1>7, <3>3
      <4>2. /\ s[k] = View(at)[k] /\ s[2 * hole] = View(at)[2 * hole]
            /\ remainingTime[s[k]] \in Nat /\ remainingTime[s[2 * hole]] \in Nat
        BY <1>5, <3>2, <4>1
      <4> QED BY <2>2, <3>1, <4>1, <4>2
    <3> QED BY <3>1, <3>2, <3>3
  <2> QED BY <2>1, <2>2
<1>9. CASE Sinks
  <2>1. /\ 2 * hole <= size[at]
        /\ remainingTime[item] > remainingTime[s[m]]
    BY <1>9 DEF Sinks
  <2>2. /\ processes' = [processes EXCEPT ![at][hole] = s[m]]
        /\ hole' = m /\ call' = call
    BY <1>9 DEF SiftDown
  <2> HIDE DEF m
  <2>3. m \in 1 .. size[at] /\ m # hole /\ m \div 2 = hole /\ m \in 0 .. Capacity
        /\ hole \in 1 .. size[at]
    <3>1. m \in 1 .. size[at] /\ (m = 2 * hole \/ m = 2 * hole + 1)
      BY <1>8, <2>1
    <3>2. m \div 2 = hole
      BY <1>1, <1>7, <3>1
    <3> QED BY <1>1, <1>3, <2>1, <3>1, <3>2
  <2>4. processes'[at] = [s EXCEPT ![hole] = s[m]]
    BY <1>1, <2>2
  <2>5. View(at)' = [processes'[at] EXCEPT ![m] = item]
    BY <1>1, <2>2 DEF View, Moving
  <2>6. Exchanged(View(at), View(at)', hole, m)
    BY <1>1, <1>3, <2>3, <2>4, <2>5 DEF Exchanged
  <2>7. remainingTime[View(at)[m]] < remainingTime[item]
    BY <1>1, <1>5, <2>1, <2>3
  <2> QED BY <1>1, <1>2, <1>3, <1>6, <1>8, <2>1, <2>2, <2>3, <2>6, <2>7
<1>10. CASE ~Sinks
  <2>1. /\ processes' = [processes EXCEPT ![at][hole] = item]
        /\ call' = "pidSort" /\ hole' = 1
    BY <1>10 DEF SiftDown
  <2>2. processes'[at] = [s EXCEPT ![hole] = item]
    BY <1>1, <2>1
  <2>3. View(at)' = View(at)
    BY <1>1, <2>1, <2>2 DEF View, Moving
  <2>4. ~(2 * hole <= size[at]) \/ ~(remainingTime[item] > remainingTime[s[m]])
    BY <1>10 DEF Sinks
  <2> HIDE DEF m
  <2>5. ASSUME NEW k \in 2 .. size[at], k \div 2 = hole
        PROVE  remainingTime[item] <= remainingTime[View(at)[k]]
    <3>1. 2 * hole <= size[at] /\ k \in 1 .. size[at]
      BY <1>1, <1>3, <1>7, <2>5
    <3>2. /\ m \in 1 .. size[at] /\ m # hole
          /\ remainingTime[View(at)[m]] <= remainingTime[View(at)[k]]
      BY <1>1, <1>3, <1>8, <2>5, <3>1
    <3>3. remainingTime[item] <= remainingTime[View(at)[m]]
      BY <1>1, <1>5, <2>4, <3>1, <3>2
    <3> QED BY <1>1, <1>4, <3>1, <3>2, <3>3
  <2> QED BY <1>1, <1>2, <1>3, <1>6, <2>1, <2>3, <2>5
<1> QED BY <1>9, <1>10

-----------------------------------------------------------------------------
(***************************************************************************)
(* Heap order.                                                             *)
(***************************************************************************)
\* The heaps the step does not work on stay ordered.
LEMMA OtherOrder ==
  ASSUME QueueInv, SiftUp \/ SiftDown \/ PidSort, NEW c \in Cpu \ tied, c # at,
         NEW k \in 2 .. Count(c)'
  PROVE  Above(c, k)' /\ ~Moving(c)'
<1>1. /\ View(c)' = View(c) /\ Count(c)' = Count(c) /\ ~Moving(c)'
      /\ remainingTime' = remainingTime /\ call # "undefined"
  BY OtherView DEF SiftUp, SiftDown, PidSort
<1>2. Above(c, k)
  BY <1>1 DEF QueueInv, OrderInv
<1> QED BY <1>1, <1>2 DEF Above

LEMMA SiftUpOrder ==
  ASSUME QueueInv, SiftUp
  PROVE  OrderInv'
<1> DEFINE v == View(at)
           w == View(at)'
           n == Count(at)
           r == remainingTime
           g == hole \div 2
<1>1. /\ at \in Cpu /\ at' = at /\ call = "siftUp" /\ r' = r /\ n \in Nat /\ tied' = tied
      /\ n' = n /\ hole \in 1 .. n /\ Moving(at) /\ v[hole] = item /\ g \in Nat
      /\ DOMAIN v = 0 .. Capacity /\ n <= Capacity /\ Capacity \in Nat
  BY ViewType, SiftUpView, CapacityAssumption DEF QueueInv, TypeOK, SiftUp, historyVars
<1>2. \A k \in 0 .. n : r[v[k]] \in Nat
  BY <1>1, Times
<1> SUFFICES ASSUME at \notin tied
             PROVE  \A k \in 2 .. n :
                      /\ Above(at, k)' \/ (call' = "siftUp" /\ k = hole')
                      /\ Moving(at)' /\ k \div 2 = hole' => FarAbove(at, k)'
  BY <1>1, OtherOrder, Zenon DEF OrderInv
<1>3. \A k \in 2 .. n :
        /\ k \div 2 \in 1 .. k - 1
        /\ k # hole => r[v[k \div 2]] <= r[v[k]]
        /\ k \div 2 = hole /\ hole >= 2 => r[v[g]] <= r[v[k]]
  <2> SUFFICES ASSUME NEW k \in 2 .. n
               PROVE  /\ k \div 2 \in 1 .. k - 1
                      /\ k # hole => r[v[k \div 2]] <= r[v[k]]
                      /\ k \div 2 = hole /\ hole >= 2 => r[v[g]] <= r[v[k]]
    OBVIOUS
  <2>1. k \div 2 \in 1 .. k - 1
    BY <1>1, Parent
  <2>2. /\ Above(at, k) \/ k = hole
        /\ k \div 2 = hole => FarAbove(at, k)
    BY <1>1 DEF QueueInv, OrderInv
  <2> QED BY <2>1, <2>2 DEF Above, FarAbove
<1>4. SUFFICES ASSUME NEW k \in 2 .. n
               PROVE  /\ Above(at, k)' \/ (call' = "siftUp" /\ k = hole')
                      /\ Moving(at)' /\ k \div 2 = hole' => FarAbove(at, k)'
  OBVIOUS
<1>5. CASE /\ call' = "siftUp" /\ hole' = g /\ g >= 1
           /\ Exchanged(v, w, hole, g)
           /\ r[item] < r[v[g]]
  <2>1. /\ w[hole] = v[g] /\ w[g] = item /\ g # hole /\ g \in 1 .. n
        /\ \A i \in 0 .. n : i # hole /\ i # g => w[i] = v[i]
    BY <1>1, <1>5 DEF Exchanged
  <2> HIDE DEF v, w, n, g, r
  <2> DEFINE up == k \div 2
  <2>0. k \in 0 .. n /\ up \in 0 .. n /\ up # k
    BY <1>1, <1>3
  <2>2. ASSUME k # g PROVE r[w[k \div 2]] <= r[w[k]]
    <3>1. CASE k = hole
      BY <1>1, <1>2, <1>5, <2>1, <3>1 DEF g
    <3>2. CASE k # hole /\ k \div 2 = hole
      <4>1. hole >= 2 \/ hole = 1
        BY <1>1
      <4>2. hole >= 2
        BY <1>1, <1>5, <4>1 DEF g
      <4> QED BY <1>2, <1>3, <2>1, <2>2, <3>2, <4>2
    <3>3. CASE k # hole /\ up = g
      <4>1. w[k] = v[k] /\ w[up] = item /\ r[v[g]] <= r[v[k]]
        BY <1>3, <2>0, <2>1, <2>2, <3>3
      <4> QED BY <1>1, <1>2, <1>5, <2>0, <2>1, <4>1
    <3>4. CASE k # hole /\ up # hole /\ up # g
      <4>1. w[k] = v[k] /\ w[up] = v[up] /\ r[v[up]] <= r[v[k]]
        BY <1>3, <2>0, <2>1, <2>2, <3>4
      <4> QED BY <4>1
    <3> QED BY <3>1, <3>2, <3>3, <3>4
  <2>3. ASSUME k \div 2 = g, g >= 2 PROVE r[w[g \div 2]] <= r[w[k]]
    <3>1. /\ g \div 2 \in 1 .. n /\ g \div 2 # g /\ g \div 2 # hole
          /\ r[v[g \div 2]] <= r[v[g]]
      BY <1>1, <1>3, <2>1, <2>3 DEF g
    <3>2. r[v[g]] <= r[w[k]]
      <4>1. CASE k = hole
        BY <1>2, <2>1, <4>1
      <4>2. CASE k # hole
        BY <1>3, <2>1, <2>3, <4>2
      <4> QED BY <4>1, <4>2
    <3>3. w[k] = v[k] \/ w[k] = v[g]
      BY <1>3, <2>1, <2>3
    <3>4. r[w[k]] \in Nat /\ r[v[g \div 2]] \in Nat /\ r[v[g]] \in Nat
      BY <1>2, <2>1, <3>1, <3>3
    <3> QED BY <2>1, <3>1, <3>2, <3>4
  <2> QED BY <1>1, <1>5, <2>2, <2>3 DEF Above, FarAbove, v, w, g, r
<1>6. CASE call' = "none" /\ w = v /\ r[v[g]] <= r[item]
  <2>1. ~Moving(at)'
    BY <1>6 DEF Moving
  <2>2. r[v[k \div 2]] <= r[v[k]]
    BY <1>1, <1>3, <1>6
  <2> QED BY <1>1, <1>6, <2>1, <2>2 DEF Above
<1> QED BY <1>5, <1>6, SiftUpView

LEMMA SiftDownOrder ==
  ASSUME QueueInv, SiftDown
  PROVE  OrderInv'
<1> DEFINE v == View(at)
           w == View(at)'
           n == Count(at)
           r == remainingTime
           m == hole'
<1>1. /\ at \in Cpu /\ at' = at /\ call = "siftDown" /\ r' = r /\ n \in Nat /\ tied' = tied
      /\ n' = n /\ hole \in 1 .. Capacity /\ Moving(at) /\ v[hole] = item
      /\ DOMAIN v = 0 .. Capacity /\ n <= Capacity /\ Capacity \in Nat
  BY ViewType, SiftDownView, CapacityAssumption DEF QueueInv, TypeOK, SiftDown, historyVars
<1>2. \A k \in 0 .. n : r[v[k]] \in Nat
  BY <1>1, Times
<1> SUFFICES ASSUME at \notin tied
             PROVE  \A k \in 2 .. n :
                      /\ Above(at, k)' \/ (call' = "siftDown" /\ k \div 2 = hole')
                      /\ Moving(at)' /\ k \div 2 = hole' => FarAbove(at, k)'
  BY <1>1, OtherOrder, Zenon DEF OrderInv
<1>3. \A k \in 2 .. n :
        /\ k \div 2 \in 1 .. k - 1
        /\ k \div 2 # hole => r[v[k \div 2]] <= r[v[k]]
        /\ k \div 2 = hole /\ hole >= 2 => r[v[hole \div 2]] <= r[v[k]]
  <2> SUFFICES ASSUME NEW k \in 2 .. n
               PROVE  /\ k \div 2 \in 1 .. k - 1
                      /\ k \div 2 # hole => r[v[k \div 2]] <= r[v[k]]
                      /\ k \div 2 = hole /\ hole >= 2 => r[v[hole \div 2]] <= r[v[k]]
    OBVIOUS
  <2>1. k \div 2 \in 1 .. k - 1
    BY <1>1, Parent
  <2>2. /\ Above(at, k) \/ k \div 2 = hole
        /\ k \div 2 = hole => FarAbove(at, k)
    BY <1>1 DEF QueueInv, OrderInv
  <2> QED BY <2>1, <2>2 DEF Above, FarAbove
<1>4. SUFFICES ASSUME NEW k \in 2 .. n
               PROVE  /\ Above(at, k)' \/ (call' = "siftDown" /\ k \div 2 = hole')
                      /\ Moving(at)' /\ k \div 2 = hole' => FarAbove(at, k)'
  OBVIOUS
<1> DEFINE up == k \div 2
<1>5. CASE /\ call' = "siftDown" /\ m \div 2 = hole
           /\ hole \in 1 .. n /\ m \in 1 .. n
           /\ Exchanged(v, w, hole, m)
           /\ r[v[m]] < r[item]
           /\ \A i \in 2 .. n : i \div 2 = hole => r[v[m]] <= r[v[i]]
  <2>1. /\ w[hole] = v[m] /\ w[m] = item /\ m # hole /\ m \in 2 .. n
        /\ \A i \in 0 .. n : i # hole /\ i # m => w[i] = v[i]
    <3> HIDE DEF v, w, n, m, r
    <3>1. m # hole /\ m \in 2 .. n
      BY <1>1, <1>5, Parent
    <3>2. \A i \in 0 .. n : i \in DOMAIN v
      BY <1>1
    <3> QED BY <1>1, <1>5, <3>1, <3>2 DEF Exchanged
  <2> HIDE DEF v, w, n, m, r
  <2>2. k \in 0 .. n /\ up \in 1 .. n /\ up # k
    BY <1>1, <1>3
  <2>3. ASSUME up # m PROVE r[w[up]] <= r[w[k]]
    <3>1. CASE k = m
      BY <1>1, <1>2, <1>5, <2>1, <3>1
    <3>2. CASE k # m /\ up = hole
      <4>1. w[k] = v[k] /\ w[up] = v[m] /\ r[v[m]] <= r[v[k]]
        BY <1>5, <2>1, <2>2, <3>2
      <4> QED BY <4>1
    <3>3. CASE k = hole
      <4>1. w[k] = v[m] /\ w[up] = v[up] /\ hole >= 2
        BY <2>1, <2>2, <2>3, <3>3
      <4>2. r[v[hole \div 2]] <= r[v[m]]
        BY <1>3, <1>5, <2>1, <4>1
      <4> QED BY <3>3, <4>1, <4>2
    <3>4. CASE k # m /\ k # hole /\ up # hole
      <4>1. w[k] = v[k] /\ w[up] = v[up] /\ r[v[up]] <= r[v[k]]
        BY <1>3, <2>1, <2>2, <2>3, <3>4
      <4> QED BY <4>1
    <3> QED BY <3>1, <3>2, <3>3, <3>4
  <2>4. ASSUME up = m PROVE r[w[m \div 2]] <= r[w[k]]
    <3>1. r[v[m]] <= r[v[k]]
      BY <1>3, <2>1, <2>4
    <3>2. k # hole
      BY <1>1, <1>5, <2>1, <2>2, <2>4
    <3>3. w[m \div 2] = v[m] /\ w[k] = v[k]
      BY <1>5, <2>1, <2>2, <2>4, <3>2
    <3> QED BY <3>1, <3>3
  <2> QED BY <1>1, <1>5, <2>3, <2>4 DEF Above, FarAbove, v, w, r, m
<1>6. CASE /\ call' = "pidSort" /\ w = v
           /\ \A i \in 2 .. n : i \div 2 = hole => r[item] <= r[v[i]]
  <2>1. ~Moving(at)'
    BY <1>6 DEF Moving
  <2>2. r[v[up]] <= r[v[k]]
    BY <1>1, <1>3, <1>6
  <2> QED BY <1>1, <1>6, <2>1, <2>2 DEF Above
<1> QED BY <1>5, <1>6, SiftDownView

-----------------------------------------------------------------------------
(***************************************************************************)
(* The second loop of DeleteMinRemainTimeProcess.                          *)
(***************************************************************************)
\* An exchange by pid moves nothing to another remaining time.
LEMMA PidOrderKeeps ==
  ASSUME NEW h \in [0 .. Capacity -> Pointer],
         NEW j \in 1 .. Capacity, NEW k \in 1 .. Capacity
  PROVE  /\ PidOrder(h, j, k)[0] = h[0]
         /\ \A i \in 0 .. Capacity :
              /\ remainingTime[PidOrder(h, j, k)[i]] = remainingTime[h[i]]
              /\ i = j \/ i = k => PidOrder(h, j, k)[i] \in {h[j], h[k]}
              /\ i # j /\ i # k => PidOrder(h, j, k)[i] = h[i]
         /\ \A n \in 0 .. Capacity : j <= n /\ k <= n =>
              /\ Contents(PidOrder(h, j, k), n) = Contents(h, n)
              /\ Distinct(h, n) => Distinct(PidOrder(h, j, k), n)
<1> DEFINE g == PidOrder(h, j, k)
<1>0. Capacity \in Nat /\ j \in 0 .. Capacity /\ k \in 0 .. Capacity
  BY CapacityAssumption
<1>1. g = h \/ (/\ j # k /\ Exchanged(h, g, j, k)
                /\ remainingTime[h[j]] = remainingTime[h[k]])
  BY <1>0, PidOrderType, Zenon DEF PidOrder
<1> HIDE DEF g
<1>2. CASE g = h
  BY <1>2 DEF g
<1>3. CASE /\ j # k /\ Exchanged(h, g, j, k)
           /\ remainingTime[h[j]] = remainingTime[h[k]]
  <2>1. /\ g[j] = h[k] /\ g[k] = h[j]
        /\ \A i \in 0 .. Capacity : i # j /\ i # k => g[i] = h[i]
    BY <1>3 DEF Exchanged
  <2>2. \A n \in 0 .. Capacity : j <= n /\ k <= n =>
              /\ Contents(g, n) = Contents(h, n)
              /\ Distinct(h, n) => Distinct(g, n)
    <3> SUFFICES ASSUME NEW n \in 0 .. Capacity, j <= n, k <= n
                 PROVE  /\ Contents(g, n) = Contents(h, n)
                        /\ Distinct(h, n) => Distinct(g, n)
      OBVIOUS
    <3>1. j \in 1 .. n /\ k \in 1 .. n /\ DOMAIN h = 0 .. Capacity
      BY <1>0
    <3> QED BY <1>0, <1>3, <3>1, ExchangeKeeps
  <2>3. g[0] = h[0]
    BY <1>0, <2>1
  <2>4. \A i \in 0 .. Capacity :
              /\ remainingTime[g[i]] = remainingTime[h[i]]
              /\ i = j \/ i = k => g[i] \in {h[j], h[k]}
              /\ i # j /\ i # k => g[i] = h[i]
    BY <1>0, <1>3, <2>1
  <2> QED BY <2>2, <2>3, <2>4 DEF g
<1> QED BY <1>1, <1>2, <1>3

LEMMA PidSortView ==
  ASSUME QueueInv, PidSort
  PROVE  /\ at \in Cpu /\ at' = at /\ size' = size /\ call' \in {"none", "pidSort"} /\ hole' >= 1
         /\ View(at) = processes[at] /\ View(at)' = processes'[at]
         /\ Count(at) = size[at] /\ Count(at)' = size[at]
         /\ processes'[at] \in [0 .. Capacity -> Pointer]
         /\ processes'[at][0] = processes[at][0]
         /\ \A i \in 1 .. Capacity :
              /\ remainingTime[processes'[at][i]] = remainingTime[processes[at][i]]
              /\ \E l \in 1 .. Capacity : processes'[at][i] = processes[at][l]
              /\ processes'[at][i] = processes[at][i] \/ processes'[at][i] \in Proc
         /\ at \notin tied =>
              /\ Contents(processes'[at], size[at]) = queued[at]
              /\ Distinct(processes'[at], size[at])
              /\ processes'[at][size[at] + 1] = item
<1> DEFINE s == processes[at]
           n == size[at]
           t == processes'[at]
<1>1. /\ at \in Cpu /\ at' = at /\ size' = size /\ call = "pidSort" /\ n \in Nat /\ n < Capacity
      /\ s \in [0 .. Capacity -> Pointer] /\ hole \in Nat /\ hole >= 1 /\ Capacity \in Nat
      /\ processes \in [Cpu -> [0 .. Capacity -> Pointer]] /\ live \subseteq Proc
      /\ \A k \in 1 .. Capacity : s[k] # DummyHead
  BY CapacityAssumption DEF QueueInv, TypeOK, HoleInv, ShapeInv, PidSort
<1>2. /\ call' \in {"none", "pidSort"} /\ hole' >= 1
      /\ View(at) = s /\ View(at)' = t /\ Count(at) = n /\ Count(at)' = n
  BY <1>1 DEF PidSort, View, Count, Moving
<1>3. at \notin tied => /\ Contents(s, n) = queued[at] /\ Distinct(s, n)
                        /\ s[n + 1] = item /\ queued[at] \subseteq Proc
                        /\ \A p \in queued[at] : remainingTime[p] = remainingTime[item] => p = item
  BY <1>1, <1>2 DEF QueueInv, ContentInv, LastInv, TypeOK
<1>4. CASE 2 * hole > n
  <2>1. t = s
    BY <1>1, <1>4 DEF PidSort
  <2> QED BY <1>1, <1>2, <1>3, <2>1
<1>5. CASE 2 * hole <= n
  <2> DEFINE a == 2 * hole
             b == 2 * hole + 1
             f == PidOrder(s, hole, a)
             g == PidOrder(f, a, b)
  <2>1. /\ hole \in 1 .. Capacity /\ a \in 1 .. Capacity /\ b \in 1 .. Capacity
        /\ hole <= n /\ a <= n /\ (b <= n \/ b = n + 1)
    BY <1>1, <1>5
  <2>2. t = g
    BY <1>1, <1>5 DEF PidSort
  <2>3. {s[hole], s[a], s[b]} \subseteq Proc
    <3>1. {s[hole], s[a], s[b]} \subseteq live \cup {DummyHead}
      BY <1>1, <1>5, <2>1 DEF PidSort, Allocated, Dereferenced, SlotsRead
    <3> QED BY <1>1, <2>1, <3>1
  <2> HIDE DEF a, b, t
  <2>4. f \in [0 .. Capacity -> Pointer] /\ hole \in 0 .. Capacity /\ a \in 0 .. Capacity
    BY <1>1, <2>1, PidOrderType
  <2>5. /\ f[0] = s[0]
        /\ \A i \in 0 .. Capacity :
             /\ remainingTime[f[i]] = remainingTime[s[i]]
             /\ i = hole \/ i = a => f[i] \in {s[hole], s[a]}
             /\ i # hole /\ i # a => f[i] = s[i]
    BY <1>1, <2>1, PidOrderKeeps, SMTT(30)
  <2>6. Contents(f, n) = Contents(s, n) /\ (Distinct(s, n) => Distinct(f, n))
    BY <1>1, <2>1, PidOrderKeeps
  <2> HIDE DEF f
  <2>7. g \in [0 .. Capacity -> Pointer] /\ b \in 0 .. Capacity
    BY <1>1, <2>1, <2>4, PidOrderType
  <2>8. /\ g[0] = f[0]
        /\ \A i \in 0 .. Capacity :
             /\ remainingTime[g[i]] = remainingTime[f[i]]
             /\ i = a \/ i = b => g[i] \in {f[a], f[b]}
             /\ i # a /\ i # b => g[i] = f[i]
    BY <1>1, <2>1, <2>4, PidOrderKeeps
  <2>9. b <= n => Contents(g, n) = Contents(f, n) /\ (Distinct(f, n) => Distinct(g, n))
    BY <1>1, <2>1, <2>4, PidOrderKeeps
  <2>10. \A i \in 1 .. Capacity :
              /\ remainingTime[g[i]] = remainingTime[s[i]]
              /\ \E l \in 1 .. Capacity : g[i] = s[l]
              /\ g[i] = s[i] \/ g[i] \in Proc
    <3> HIDE DEF g
    <3> SUFFICES ASSUME NEW i \in 1 .. Capacity
                 PROVE  /\ remainingTime[g[i]] = remainingTime[s[i]]
                        /\ \E l \in 1 .. Capacity : g[i] = s[l]
                        /\ g[i] = s[i] \/ g[i] \in Proc
      OBVIOUS
    <3>1. i \in 0 .. Capacity
      OBVIOUS
    <3>2. f[a] \in {s[hole], s[a]} /\ f[b] \in {s[hole], s[a], s[b]}
      BY <2>1, <2>5, <2>7, <2>4
    <3>3. g[i] \in {s[hole], s[a], s[b]} \/ g[i] = s[i]
      BY <2>5, <2>8, <3>1, <3>2
    <3> QED BY <2>1, <2>3, <2>5, <2>8, <3>1, <3>3
  <2>11. ASSUME at \notin tied
         PROVE  Contents(g, n) = queued[at] /\ Distinct(g, n) /\ g[n + 1] = item
    <3>1. Contents(f, n) = queued[at] /\ Distinct(f, n) /\ f[n + 1] = item
      <4>1. n + 1 \in 0 .. Capacity /\ n + 1 # hole /\ n + 1 # a
        BY <1>1, <2>1
      <4> QED BY <1>3, <2>5, <2>6, <2>11, <4>1
    <3>2. CASE b <= n
      <4>1. n + 1 \in 0 .. Capacity /\ n + 1 # a /\ n + 1 # b
        BY <1>1, <2>1, <3>2 DEF b
      <4> QED BY <2>8, <2>9, <3>1, <3>2, <4>1
    <3>3. CASE b = n + 1
      <4>1. f[a] \in queued[at] /\ f[a] \in Proc
        BY <1>3, <2>1, <2>11, <3>1 DEF Contents
      <4>2. remainingTime[f[a]] = remainingTime[f[b]] => f[a] = f[b]
        BY <1>3, <2>11, <3>1, <3>3, <4>1
      <4>3. PidOf(f[a]) \in Nat
        BY <4>1, ProcAssumption DEF PidOf
      <4>4. g = f
        BY <4>2, <4>3 DEF PidOrder
      <4> QED BY <3>1, <4>4
    <3> QED BY <2>1, <3>2, <3>3
  <2>12. t \in [0 .. Capacity -> Pointer] /\ t[0] = s[0]
    BY <2>2, <2>5, <2>7, <2>8
  <2>13. \A i \in 1 .. Capacity :
              /\ remainingTime[t[i]] = remainingTime[s[i]]
              /\ \E l \in 1 .. Capacity : t[i] = s[l]
              /\ t[i] = s[i] \/ t[i] \in Proc
    BY <2>2, <2>10
  <2>14. at \notin tied => Contents(t, n) = queued[at] /\ Distinct(t, n) /\ t[n + 1] = item
    BY <2>2, <2>11
  <2> QED BY <1>1, <1>2, <2>12, <2>13, <2>14, Zenon DEF t
<1>6. 2 * hole > n \/ 2 * hole <= n
  BY <1>1
<1> QED BY <1>4, <1>5, <1>6

-----------------------------------------------------------------------------
(***************************************************************************)
(* Every step of a call preserves QueueInv.                                *)
(***************************************************************************)
\* SiftUp and SiftDown write one slot, and write a pointer the heap has.
LEMMA SiftWrites ==
  ASSUME QueueInv, SiftUp \/ SiftDown
  PROVE  /\ at \in Cpu /\ hole \in 1 .. Capacity /\ at' = at /\ item' = item
         /\ \E p \in Refs(at) \ {DummyHead} : processes' = [processes EXCEPT ![at][hole] = p]
<1> DEFINE s == processes[at]
<1>1. /\ at \in Cpu /\ at' = at /\ item' = item /\ Capacity \in Nat
      /\ call \in {"siftUp", "siftDown"} /\ item \in Proc
      /\ size[at] \in Nat /\ size[at] < Capacity /\ hole \in Nat /\ hole >= 1
      /\ \A k \in 0 .. Capacity : s[k] = DummyHead <=> k = 0
  BY CapacityAssumption DEF QueueInv, TypeOK, HoleInv, ShapeInv, SiftUp, SiftDown
<1>2. hole \in 1 .. Capacity /\ item \in Refs(at) \ {DummyHead}
  <2>1. Moving(at)
    BY <1>1 DEF Moving
  <2> QED BY <1>1, <2>1, ViewType, ProcAssumption DEF Refs
<1>3. \A k \in 1 .. Capacity : s[k] \in Refs(at) \ {DummyHead}
  BY <1>1 DEF Refs
<1>4. CASE SiftUp
  <2>1. CASE processes' = [processes EXCEPT ![at][hole] = item]
    BY <1>1, <1>2, <2>1
  <2>2. CASE /\ processes' = [processes EXCEPT ![at][hole] = s[hole \div 2]]
             /\ hole' = hole \div 2 /\ call' = call
    <3>1. hole \div 2 \in 1 .. Capacity
      BY <1>1, <1>4, <2>2, SiftUpView DEF SiftUp
    <3> QED BY <1>1, <1>2, <1>3, <2>2, <3>1
  <2> QED BY <1>4, <2>1, <2>2 DEF SiftUp
<1>5. CASE SiftDown
  <2>1. CASE processes' = [processes EXCEPT ![at][hole] = item]
    BY <1>1, <1>2, <2>1
  <2>2. CASE /\ processes' = [processes EXCEPT ![at][hole] = s[SmallerChild]]
             /\ hole' = SmallerChild /\ call' = call
    <3>1. SmallerChild \in 1 .. Capacity
      BY <1>1, <1>5, <2>2, SiftDownView DEF SiftDown
    <3> QED BY <1>1, <1>2, <1>3, <2>2, <3>1
  <2> QED BY <1>5, <2>1, <2>2 DEF SiftDown
<1> QED BY <1>1, <1>2, <1>4, <1>5

\* A step that makes no new reference preserves HomeInv.
LEMMA HomeKept ==
  ASSUME HomeInv, \A c \in Cpu : Refs(c)' \subseteq Refs(c),
         UNCHANGED <<queued, live, remainingTime, popped>>
  PROVE  HomeInv'
<1>1. \A c, d \in Cpu : c # d => Refs(c)' \cap queued[d] = {}
  BY DEF HomeInv
<1>2. \A c \in Cpu : \A p \in Refs(c)' \cap Proc : p \in live \/ remainingTime[p] = 0
  BY DEF HomeInv
<1> QED BY <1>1, <1>2, Zenon DEF HomeInv

\* Neither do SiftUp, SiftDown and PidSort.
LEMMA RefsKept ==
  ASSUME QueueInv, SiftUp \/ SiftDown \/ PidSort
  PROVE  /\ HomeInv' /\ \A c \in Cpu : Refs(c)' \subseteq Refs(c)
         /\ \A c \in Cpu : \A k \in 0 .. Capacity : processes'[c][k] = DummyHead <=> k = 0
<1>1. /\ processes \in [Cpu -> [0 .. Capacity -> Pointer]] /\ Capacity \in Nat /\ at \in Cpu
      /\ at' = at /\ item' = item /\ call \in {"siftUp", "siftDown", "pidSort"}
      /\ UNCHANGED <<queued, live, remainingTime, popped>>
      /\ \A c \in Cpu : \A k \in 0 .. Capacity : processes[c][k] = DummyHead <=> k = 0
      /\ HomeInv
  BY CapacityAssumption DEF QueueInv, TypeOK, ShapeInv, SiftUp, SiftDown, PidSort, historyVars
<1>2. \A c \in Cpu : \A k \in 0 .. Capacity :
        /\ processes'[c][k] \in Refs(c)
        /\ processes'[c][k] = DummyHead <=> k = 0
  <2> SUFFICES ASSUME NEW c \in Cpu, NEW k \in 0 .. Capacity
               PROVE  /\ processes'[c][k] \in Refs(c)
                      /\ processes'[c][k] = DummyHead <=> k = 0
    OBVIOUS
  <2>1. \A l \in 0 .. Capacity : processes[c][l] \in Refs(c)
    BY DEF Refs
  <2>2. CASE SiftUp \/ SiftDown
    <3>1. PICK p \in Refs(at) \ {DummyHead} : processes' = [processes EXCEPT ![at][hole] = p]
      BY <2>2, SiftWrites
    <3>2. hole \in 1 .. Capacity
      BY <2>2, SiftWrites
    <3>3. CASE c = at /\ k = hole
      BY <1>1, <3>1, <3>2, <3>3
    <3>4. CASE ~(c = at /\ k = hole)
      <4>1. processes'[c][k] = processes[c][k]
        BY <1>1, <3>1, <3>4
      <4> QED BY <1>1, <2>1, <4>1
    <3> QED BY <3>3, <3>4
  <2>3. CASE PidSort
    <3>1. CASE c = at
      <4>1. CASE k = 0
        BY <1>1, <2>1, <2>3, <3>1, <4>1, PidSortView
      <4>2. CASE k \in 1 .. Capacity
        <5>1. PICK l \in 1 .. Capacity : processes'[at][k] = processes[at][l]
          BY <2>3, <4>2, PidSortView
        <5> QED BY <1>1, <2>1, <3>1, <4>2, <5>1
      <4> QED BY <1>1, <4>1, <4>2
    <3>2. CASE c # at
      <4>1. processes'[c][k] = processes[c][k]
        BY <1>1, <2>3, <3>2 DEF PidSort
      <4> QED BY <1>1, <2>1, <4>1
    <3> QED BY <3>1, <3>2
  <2> QED BY <2>2, <2>3
<1>3. \A c \in Cpu : Refs(c)' \subseteq Refs(c)
  <2> SUFFICES ASSUME NEW c \in Cpu, NEW p \in Refs(c)' PROVE p \in Refs(c)
    OBVIOUS
  <2>1. p \in {processes'[c][k] : k \in 0 .. Capacity} \/ (c = at /\ p = item)
    BY <1>1 DEF Refs
  <2> QED BY <1>1, <1>2, <2>1 DEF Refs
<1> QED BY <1>1, <1>2, <1>3, HomeKept

\* The view of the heap a sift works on keeps its contents.
LEMMA SiftKeepsContent ==
  ASSUME QueueInv, SiftUp \/ SiftDown
  PROVE  ShapeInv' /\ ContentInv'
<1>1. /\ at \in Cpu /\ at' = at /\ call \in {"siftUp", "siftDown"} /\ call' # "undefined"
      /\ UNCHANGED <<queued, tied, remainingTime>> /\ Capacity \in Nat
  BY CapacityAssumption DEF QueueInv, TypeOK, SiftUp, SiftDown, historyVars
<1>2. /\ View(at) \in [0 .. Capacity -> Pointer] /\ Count(at) \in 0 .. Capacity
      /\ \A k \in 1 .. Count(at) : View(at)[k] \in Proc
  BY <1>1, ViewType
<1>3. /\ Count(at)' = Count(at)
      /\ Contents(View(at)', Count(at)) = Contents(View(at), Count(at))
      /\ Distinct(View(at), Count(at)) => Distinct(View(at)', Count(at))
  <2>1. Count(at)' = Count(at)
    BY SiftUpView, SiftDownView
  <2>2. CASE View(at)' = View(at)
    BY <2>1, <2>2
  <2>3. CASE \E j, k \in 1 .. Count(at) : Exchanged(View(at), View(at)', j, k)
    <3>1. DOMAIN View(at) = 0 .. Capacity
      BY <1>2
    <3> HIDE DEF View, Count
    <3> QED BY <1>1, <1>2, <2>1, <2>3, <3>1, ExchangeKeeps
  <2>4. CASE SiftUp
    <3>1. hole \in 1 .. Count(at) /\ (hole \div 2 >= 1 => hole \div 2 \in 1 .. Count(at))
      BY <1>1, <1>2, <2>4, SiftUpView, Parent
    <3> QED BY <2>2, <2>3, <2>4, <3>1, SiftUpView
  <2>5. CASE SiftDown
    BY <1>1, <2>2, <2>3, <2>5, SiftDownView
  <2> QED BY <2>4, <2>5
<1>4. \A k \in 1 .. Count(at) : View(at)'[k] \in Proc
  <2> SUFFICES ASSUME NEW k \in 1 .. Count(at) PROVE View(at)'[k] \in Proc
    OBVIOUS
  <2>1. View(at)'[k] \in Contents(View(at), Count(at))
    BY <1>3 DEF Contents
  <2> QED BY <1>2, <2>1 DEF Contents
<1>5. ShapeInv'
  <2>1. \A c \in Cpu : \A k \in 1 .. Count(c)' : View(c)'[k] \in Proc
    BY <1>1, <1>3, <1>4, OtherView, ViewType
  <2>2. remainingTime'[DummyHead] = 0
    BY <1>1 DEF QueueInv, ShapeInv
  <2> QED BY <2>1, <2>2, RefsKept DEF ShapeInv
<1>6. ContentInv'
  <2> SUFFICES ASSUME NEW c \in Cpu \ tied
               PROVE  /\ Contents(View(c)', Count(c)') = queued[c]
                      /\ Distinct(View(c)', Count(c)')
    BY <1>1 DEF ContentInv
  <2>1. Contents(View(c), Count(c)) = queued[c] /\ Distinct(View(c), Count(c))
    BY <1>1 DEF QueueInv, ContentInv
  <2>2. CASE c = at
    BY <1>1, <1>3, <2>1, <2>2
  <2>3. CASE c # at
    BY <2>1, <2>3, OtherView
  <2> QED BY <2>2, <2>3
<1> QED BY <1>5, <1>6

LEMMA SiftUpInv ==
  ASSUME QueueInv, SiftUp
  PROVE  QueueInv'
<1>1. /\ at' = at /\ call' \in {"none", "siftUp"} /\ item' = item
      /\ at \in Cpu /\ size \in [Cpu -> 0 .. Capacity] /\ item \in Proc /\ size[at] < Capacity
  BY SiftUpView DEF QueueInv, TypeOK, HoleInv, SiftUp
<1>2. HoleInv'
  BY <1>1, SiftUpView, CapacityAssumption DEF HoleInv
<1>3. LastInv' /\ UndefinedOnlyIfTied'
  BY <1>1 DEF LastInv, UndefinedOnlyIfTied
<1> QED
  BY <1>2, <1>3, SiftUpType, SiftUpOrder, SiftKeepsContent, RefsKept DEF QueueInv

LEMMA SiftDownInv ==
  ASSUME QueueInv, SiftDown
  PROVE  QueueInv'
<1>1. /\ at' = at /\ item' = item /\ size' = size /\ call = "siftDown"
      /\ at \in Cpu /\ size[at] \in 0 .. Capacity /\ item \in Proc /\ size[at] < Capacity
      /\ hole \in 1 .. Capacity /\ size[at] >= 1 => hole <= size[at]
      /\ size[at] = 0 => hole = 1
      /\ UNCHANGED <<queued, tied, remainingTime>> /\ Capacity \in Nat
      /\ processes \in [Cpu -> [0 .. Capacity -> Pointer]]
  BY SiftDownView, CapacityAssumption DEF QueueInv, TypeOK, HoleInv, SiftDown, historyVars
<1>2. \/ call' = "siftDown" /\ hole' \in 1 .. size[at]
      \/ call' = "pidSort" /\ hole' = 1
  BY SiftDownView
<1>3. HoleInv'
  BY <1>1, <1>2 DEF HoleInv
<1>4. LastInv'
  <2> SUFFICES ASSUME at \notin tied
               PROVE  processes'[at][size[at] + 1] = item
    BY <1>1 DEF QueueInv, LastInv
  <2>1. processes[at][size[at] + 1] = item
    BY <1>1 DEF QueueInv, LastInv
  <2>2. CASE size[at] >= 1
    <3>1. hole # size[at] + 1 /\ size[at] + 1 \in 0 .. Capacity
      BY <1>1, <2>2
    <3> QED BY <1>1, <2>1, <3>1, SiftWrites
  <2>3. CASE size[at] = 0
    <3>1. ~Sinks
      BY <1>1, <2>3 DEF Sinks
    <3>2. processes' = [processes EXCEPT ![at][hole] = item]
      BY <3>1 DEF SiftDown
    <3> QED BY <1>1, <2>3, <3>2
  <2> QED BY <1>1, <2>2, <2>3
<1>5. UndefinedOnlyIfTied'
  BY <1>2 DEF UndefinedOnlyIfTied
<1> QED
  BY <1>3, <1>4, <1>5, SiftDownType, SiftDownOrder, SiftKeepsContent, RefsKept DEF QueueInv

LEMMA PidSortInv ==
  ASSUME QueueInv, PidSort
  PROVE  QueueInv'
<1>1. /\ at \in Cpu /\ at' = at /\ item' = item /\ size' = size /\ call = "pidSort"
      /\ call' \in {"none", "pidSort"} /\ hole' >= 1 /\ size[at] < Capacity
      /\ UNCHANGED <<queued, tied, remainingTime>> /\ Capacity \in Nat
      /\ View(at) = processes[at] /\ View(at)' = processes'[at]
      /\ Count(at) = size[at] /\ Count(at)' = size[at] /\ size[at] \in 0 .. Capacity
  BY PidSortView, CapacityAssumption DEF QueueInv, TypeOK, HoleInv, PidSort, historyVars
<1>2. HoleInv' /\ UndefinedOnlyIfTied'
  BY <1>1 DEF HoleInv, UndefinedOnlyIfTied
<1>3. ShapeInv'
  <2>1. ASSUME NEW k \in 1 .. size[at] PROVE processes'[at][k] \in Proc
    <3>1. k \in 1 .. Capacity /\ processes[at][k] \in Proc
      BY <1>1, ViewType
    <3> QED BY <3>1, PidSortView
  <2>2. \A c \in Cpu : \A k \in 1 .. Count(c)' : View(c)'[k] \in Proc
    BY <1>1, <2>1, OtherView, ViewType
  <2>3. remainingTime'[DummyHead] = 0
    BY <1>1 DEF QueueInv, ShapeInv
  <2> QED BY <2>2, <2>3, RefsKept DEF ShapeInv
<1>4. OrderInv'
  <2>1. SUFFICES ASSUME at \notin tied, NEW k \in 2 .. size[at]
                 PROVE  Above(at, k)' /\ ~Moving(at)'
    BY <1>1, OtherOrder DEF OrderInv
  <2>2. Above(at, k)
    BY <1>1, <2>1 DEF QueueInv, OrderInv
  <2>3. k \in 1 .. Capacity /\ k \div 2 \in 1 .. Capacity
    BY <1>1, Parent
  <2> QED BY <1>1, <2>2, <2>3, PidSortView DEF Above, Moving
<1>5. ContentInv'
  <2> SUFFICES ASSUME NEW c \in Cpu \ tied
               PROVE  /\ Contents(View(c)', Count(c)') = queued[c]
                      /\ Distinct(View(c)', Count(c)')
    BY <1>1 DEF ContentInv
  <2>1. CASE c = at
    BY <1>1, <2>1, PidSortView
  <2>2. CASE c # at
    BY <1>1, <2>2, OtherView DEF QueueInv, ContentInv
  <2> QED BY <2>1, <2>2
<1>6. LastInv'
  BY <1>1, PidSortView DEF QueueInv, LastInv
<1> QED
  BY <1>2, <1>3, <1>4, <1>5, <1>6, PidSortType, RefsKept DEF QueueInv

\* An iteration that reads through a freed pointer follows a tie.
LEMMA UndefinedIterationInv ==
  ASSUME QueueInv, UndefinedIteration
  PROVE  QueueInv'
<1> DEFINE v == View(at)
           n == Count(at)
<1>1. /\ at \in Cpu /\ call' = "undefined" /\ call # "undefined" /\ Capacity \in Nat
      /\ UNCHANGED <<processes, size, at, hole, item, popped, queued, tied, remainingTime, live>>
      /\ queued[at] \subseteq live
  BY CapacityAssumption
     DEF UndefinedIteration, Allocated, Dereferenced, SlotsRead, ItemRead, QueueInv, TypeOK, HomeInv, heapVars, historyVars
<1>2. /\ v \in [0 .. Capacity -> Pointer] /\ v[0] = DummyHead /\ n \in 0 .. Capacity
      /\ Moving(at) => /\ v[hole] = item
                       /\ \A k \in 0 .. Capacity : k # hole => v[k] = processes[at][k]
      /\ ~Moving(at) => v = processes[at]
      /\ size[at] \in 0 .. Capacity /\ hole \in Nat
  BY <1>1, ViewType DEF QueueInv, TypeOK
<1>3. at \in tied
  <2> SUFFICES ASSUME at \notin tied
               PROVE  Dereferenced \subseteq live \cup {DummyHead}
    BY DEF UndefinedIteration, Allocated
  <2>1. \A k \in 0 .. n : v[k] \in live \cup {DummyHead}
    <3>1. Contents(v, n) = queued[at]
      BY <1>1 DEF QueueInv, ContentInv
    <3>2. \A k \in 1 .. n : v[k] \in live
      BY <1>1, <3>1 DEF Contents
    <3> QED BY <1>2, <3>2
  <2> HIDE DEF v, n
  <2>2. CASE call = "siftUp"
    <3>1. /\ Moving(at) /\ n = size[at] + 1 /\ hole \in 0 .. n
          /\ hole \div 2 \in 0 .. n /\ hole \div 2 # hole
      BY <1>1, <1>2, <2>2, Parent DEF QueueInv, HoleInv, Moving, Count, n
    <3>2. \A k \in SlotsRead : processes[at][k] = v[k] /\ k \in 0 .. n
      BY <1>2, <2>2, <3>1 DEF SlotsRead
    <3> QED BY <1>2, <2>1, <3>1, <3>2 DEF Dereferenced
  <2>3. CASE call = "siftDown"
    <3>1. Moving(at) /\ n = size[at] /\ hole >= 1 /\ (n >= 1 => hole \in 0 .. n)
      BY <1>1, <1>2, <2>3 DEF QueueInv, HoleInv, Moving, Count, n
    <3>2. \A k \in SlotsRead : processes[at][k] = v[k] /\ k \in 0 .. n
      <4>1. \A k \in SlotsRead : k \in 0 .. Capacity /\ k <= size[at] /\ k # hole
        BY <1>2, <2>3, <3>1 DEF SlotsRead
      <4> QED BY <1>2, <3>1, <4>1
    <3>3. ItemRead => item \in live \cup {DummyHead}
      BY <1>2, <2>1, <2>3, <3>1 DEF ItemRead
    <3> QED BY <2>1, <3>2, <3>3 DEF Dereferenced
  <2>4. CASE call = "pidSort"
    <3>1. ~Moving(at) /\ n = size[at] /\ hole >= 1 /\ processes[at][n + 1] = item
          /\ (n >= 1 => item \in live)
      BY <1>1, <1>2, <2>4 DEF QueueInv, LastInv, HoleInv, Moving, Count, n
    <3>2. \A k \in SlotsRead : k \in 0 .. n \/ (k = n + 1 /\ n >= 1)
      BY <1>2, <2>4, <3>1 DEF SlotsRead
    <3>3. \A k \in SlotsRead : processes[at][k] \in live \cup {DummyHead}
      BY <1>2, <2>1, <3>1, <3>2
    <3> QED BY <2>4, <3>3 DEF Dereferenced, ItemRead
  <2>5. CASE call = "none"
    BY <2>5 DEF Dereferenced, SlotsRead, ItemRead
  <2> QED BY <1>1, <2>2, <2>3, <2>4, <2>5 DEF QueueInv, TypeOK
<1>4. TypeOK'
  BY <1>1 DEF QueueInv, TypeOK
<1>5. HoleInv' /\ OrderInv' /\ ContentInv' /\ LastInv' /\ UndefinedOnlyIfTied'
  BY <1>1, <1>3 DEF HoleInv, OrderInv, ContentInv, LastInv, UndefinedOnlyIfTied
<1>6. ShapeInv'
  BY <1>1 DEF QueueInv, ShapeInv
<1>7. HomeInv'
  <2>1. \A c \in Cpu : Refs(c)' \subseteq Refs(c)
    BY <1>1 DEF Refs
  <2> QED BY <1>1, <2>1, HomeKept DEF QueueInv
<1> QED BY <1>4, <1>5, <1>6, <1>7 DEF QueueInv

\* The step of a call, whoever called.
LEMMA QueueStepInv ==
  ASSUME QueueInv, QueueStep
  PROVE  QueueInv'
BY SiftUpInv, SiftDownInv, PidSortInv, UndefinedIterationInv DEF QueueStep

-----------------------------------------------------------------------------
(***************************************************************************)
(* What a caller may do between two calls.                                 *)
(***************************************************************************)
\* Between calls every view is the array itself.
LEMMA Quiet ==
  ASSUME QueueInv, call = "none", NEW c \in Cpu
  PROVE  /\ View(c) = processes[c] /\ Count(c) = size[c] /\ ~Moving(c)
         /\ size[c] \in 0 .. Capacity /\ processes[c] \in [0 .. Capacity -> Pointer]
         /\ \A k \in 1 .. size[c] : processes[c][k] \in Proc /\ processes[c][k] \in Refs(c)
         /\ c \notin tied => /\ Contents(processes[c], size[c]) = queued[c]
                             /\ Distinct(processes[c], size[c])
                             /\ \A k \in 2 .. size[c] : Above(c, k)
         /\ queued[c] \subseteq live /\ Capacity \in Nat
<1>1. /\ View(c) = processes[c] /\ Count(c) = size[c] /\ ~Moving(c)
      /\ size[c] \in 0 .. Capacity /\ processes[c] \in [0 .. Capacity -> Pointer]
      /\ queued[c] \subseteq live /\ Capacity \in Nat
  BY CapacityAssumption DEF View, Count, Moving, QueueInv, TypeOK, HomeInv
<1>2. \A k \in 1 .. size[c] : processes[c][k] \in Proc /\ processes[c][k] \in Refs(c)
  <2>1. \A k \in 1 .. size[c] : processes[c][k] \in Proc
    BY <1>1, ViewType
  <2> QED BY <1>1, <2>1 DEF Refs
<1>3. c \notin tied => /\ Contents(processes[c], size[c]) = queued[c]
                       /\ Distinct(processes[c], size[c])
                       /\ \A k \in 2 .. size[c] : Above(c, k)
  BY <1>1 DEF QueueInv, ContentInv, OrderInv
<1> QED BY <1>1, <1>2, <1>3

\* createProcess followed by InsertPQ.
LEMMA InsertInv ==
  ASSUME QueueInv, NEW p \in Proc, NEW c \in Cpu, popped = NULL,
         p \notin live, remainingTime[p] > 0, live' = live \cup {p},
         InsertPQ(p, c), UNCHANGED remainingTime
  PROVE  QueueInv'
<1>1. /\ call = "none" /\ UNCHANGED <<processes, size, popped, tied, remainingTime>>
      /\ HomeInv /\ Capacity \in Nat /\ remainingTime[p] \in Nat
  BY CapacityAssumption
     DEF QueueInv, TypeOK, InsertPQ, RefuseInsert, StartInsert, heapVars, callVars, historyVars
<1>2. \A d \in Cpu : p \notin Refs(d) /\ p \notin queued[d]
  BY <1>1 DEF HomeInv
<1>3. CASE RefuseInsert(c)
  <2>1. UNCHANGED <<call, at, hole, item, queued>>
    BY <1>3 DEF RefuseInsert, callVars, historyVars
  <2>2. TypeOK'
    BY <1>1, <2>1 DEF QueueInv, TypeOK
  <2>3. HoleInv' /\ ShapeInv' /\ OrderInv' /\ ContentInv' /\ LastInv' /\ UndefinedOnlyIfTied'
    BY <1>1, <2>1, Zenon
       DEF QueueInv, HoleInv, ShapeInv, OrderInv, ContentInv, LastInv, UndefinedOnlyIfTied,
           View, Count, Moving, Above, FarAbove
  <2>4. HomeInv'
    BY <1>1, <2>1 DEF HomeInv, Refs
  <2> QED BY <2>2, <2>3, <2>4 DEF QueueInv
<1>4. CASE StartInsert(p, c)
  <2>1. /\ call' = "siftUp" /\ at' = c /\ hole' = size[c] + 1 /\ item' = p
        /\ queued' = [queued EXCEPT ![c] = @ \cup {p}]
        /\ size[c] \in 0 .. Capacity /\ size[c] < Capacity
        /\ processes \in [Cpu -> [0 .. Capacity -> Pointer]] /\ queued \in [Cpu -> SUBSET Proc]
    BY <1>1, <1>4 DEF StartInsert, IsFullPQ, QueueInv, TypeOK
  <2>2. \A d \in Cpu : queued'[d] = IF d = c THEN queued[c] \cup {p} ELSE queued[d]
    BY <2>1
  <2>3. \A d \in Cpu : d # c => /\ View(d)' = processes[d] /\ Count(d)' = size[d]
                                /\ ~Moving(d)' /\ queued'[d] = queued[d]
    BY <1>1, <2>1, <2>2 DEF View, Count, Moving
  <2>4. /\ View(c)' = [processes[c] EXCEPT ![size[c] + 1] = p] /\ Count(c)' = size[c] + 1
        /\ Moving(c)'
    BY <1>1, <2>1 DEF View, Count, Moving
  <2>5. /\ View(c)'[size[c] + 1] = p
        /\ \A k \in 0 .. size[c] : View(c)'[k] = processes[c][k]
    BY <1>1, <2>1, <2>4, Quiet
  <2>6. TypeOK'
    BY <1>1, <2>1 DEF QueueInv, TypeOK, Pointer
  <2>7. HoleInv'
    BY <1>1, <2>1 DEF HoleInv
  <2>8. ShapeInv'
    <3>1. \A d \in Cpu : \A k \in 1 .. Count(d)' : View(d)'[k] \in Proc
      <4> SUFFICES ASSUME NEW d \in Cpu, NEW k \in 1 .. Count(d)' PROVE View(d)'[k] \in Proc
        OBVIOUS
      <4>1. CASE d = c
        BY <1>1, <2>1, <2>4, <2>5, <4>1, Quiet
      <4>2. CASE d # c
        BY <1>1, <2>3, <4>2, Quiet
      <4> QED BY <4>1, <4>2
    <3> QED BY <1>1, <3>1 DEF QueueInv, ShapeInv
  <2>9. OrderInv'
    <3> SUFFICES ASSUME NEW d \in Cpu \ tied, NEW k \in 2 .. Count(d)'
                 PROVE  /\ Above(d, k)' \/ (d = c /\ k = size[c] + 1)
                        /\ Moving(d)' /\ k \div 2 = size[c] + 1 => FarAbove(d, k)'
      BY <1>1, <2>1 DEF OrderInv
    <3>1. CASE d = c
      <4>1. k \in 2 .. size[c] + 1 /\ k \div 2 \in 1 .. k - 1
        BY <2>1, <2>4, <3>1, Parent
      <4>2. ASSUME k # size[c] + 1 PROVE Above(d, k)'
        <5>1. k \in 2 .. size[c] /\ k \in 0 .. size[c] /\ k \div 2 \in 0 .. size[c]
          BY <2>1, <4>1, <4>2
        <5>2. Above(c, k)
          BY <1>1, <3>1, <5>1, Quiet
        <5> QED BY <1>1, <2>5, <3>1, <5>1, <5>2, Quiet DEF Above
      <4> QED BY <2>1, <3>1, <4>1, <4>2
    <3>2. CASE d # c
      <4>1. Above(d, k)
        BY <1>1, <2>3, <3>2, Quiet
      <4> QED BY <1>1, <2>3, <3>2, <4>1, Quiet DEF Above
    <3> QED BY <3>1, <3>2
  <2>10. ContentInv'
    <3> SUFFICES ASSUME NEW d \in Cpu \ tied
                 PROVE  /\ Contents(View(d)', Count(d)') = queued'[d]
                        /\ Distinct(View(d)', Count(d)')
      BY <1>1 DEF ContentInv
    <3>1. Contents(processes[d], size[d]) = queued[d] /\ Distinct(processes[d], size[d])
      BY <1>1, Quiet
    <3>2. CASE d = c
      <4>1. Contents(View(d)', Count(d)') = Contents(processes[d], size[d]) \cup {p}
        <5>1. \A k \in 1 .. size[c] + 1 : k \in 1 .. size[c] \/ k = size[c] + 1
          BY <2>1
        <5>2. \A k \in 1 .. size[c] : k \in 1 .. size[c] + 1 /\ k \in 0 .. size[c]
          BY <2>1
        <5>3. size[c] + 1 \in 1 .. size[c] + 1
          BY <2>1
        <5> QED BY <2>4, <2>5, <3>2, <5>1, <5>2, <5>3 DEF Contents
      <4>2. \A k \in 1 .. size[c] : processes[c][k] # p
        BY <1>1, <1>2, Quiet
      <4>3. Distinct(View(d)', Count(d)')
        <5> SUFFICES ASSUME NEW j \in 1 .. size[c] + 1, NEW k \in 1 .. size[c] + 1,
                            View(c)'[j] = View(c)'[k]
                     PROVE  j = k
          BY <2>1, <2>4, <3>2 DEF Distinct
        <5>1. /\ j = size[c] + 1 \/ (j \in 1 .. size[c] /\ j \in 0 .. size[c])
              /\ k = size[c] + 1 \/ (k \in 1 .. size[c] /\ k \in 0 .. size[c])
          BY <2>1
        <5> QED BY <2>5, <3>1, <3>2, <4>2, <5>1 DEF Distinct
      <4> QED BY <2>2, <3>1, <3>2, <4>1, <4>3
    <3>3. CASE d # c
      BY <2>3, <3>1, <3>3
    <3> QED BY <3>2, <3>3
  <2>11. LastInv' /\ UndefinedOnlyIfTied'
    BY <2>1 DEF LastInv, UndefinedOnlyIfTied
  <2>12. HomeInv'
    <3>1. \A d \in Cpu : Refs(d)' \subseteq Refs(d) \cup (IF d = c THEN {p} ELSE {})
      BY <1>1, <2>1 DEF Refs
    <3>2. \A d, e \in Cpu : d # e => Refs(d)' \cap queued'[e] = {}
      BY <1>1, <1>2, <2>2, <3>1 DEF HomeInv
    <3>3. \A d \in Cpu : queued'[d] \subseteq live'
      BY <1>1, <2>2 DEF HomeInv
    <3>4. \A d \in Cpu : \A q \in Refs(d)' \cap Proc : q \in live' \/ remainingTime[q] = 0
      BY <1>1, <3>1 DEF HomeInv
    <3> QED BY <1>1, <3>2, <3>3, <3>4 DEF HomeInv
  <2> QED BY <2>6, <2>7, <2>8, <2>9, <2>10, <2>11, <2>12 DEF QueueInv
<1> QED BY <1>3, <1>4 DEF InsertPQ

\* The part of DeleteMinRemainTimeProcess before its loops, called when the
\* process at the root has no time left.
LEMMA DeleteMinInv ==
  ASSUME QueueInv, NEW c \in Cpu, popped = NULL, DeleteMin(c),
         processes[c][1] \in live, remainingTime[processes[c][1]] = 0,
         UNCHANGED <<remainingTime, live>>
  PROVE  QueueInv'
<1> DEFINE s == processes[c]
           n == size[c]
<1>1. /\ call = "none" /\ UNCHANGED <<processes, remainingTime, live>> /\ HomeInv
      /\ n \in 1 .. Capacity /\ Capacity \in Nat /\ s \in [0 .. Capacity -> Pointer]
      /\ size \in [Cpu -> 0 .. Capacity] /\ queued \in [Cpu -> SUBSET Proc]
      /\ s[1] \in Proc /\ s[1] \in Refs(c) /\ s[n] \in Proc /\ s[n] \in Refs(c)
      /\ \A k \in 1 .. n : s[k] \in Proc
  BY CapacityAssumption, Quiet DEF DeleteMin, IsEmptyPQ, QueueInv, TypeOK
<1>2. /\ call' = "siftDown" /\ at' = c /\ hole' = 1 /\ item' = s[n] /\ popped' = s[1]
      /\ size' = [size EXCEPT ![c] = n - 1]
      /\ queued' = [queued EXCEPT ![c] = @ \ {s[1]}]
      /\ tied' = IF LastIsTied(c) THEN tied \cup {c} ELSE tied
  BY DEF DeleteMin
<1>3. /\ size'[c] = n - 1 /\ queued'[c] = queued[c] \ {s[1]}
      /\ \A d \in Cpu : d # c => size'[d] = size[d] /\ queued'[d] = queued[d]
  BY <1>1, <1>2
<1>4. /\ \A d \in Cpu : d # c => View(d)' = processes[d] /\ Count(d)' = size[d] /\ ~Moving(d)'
      /\ View(c)' = [s EXCEPT ![1] = s[n]] /\ Count(c)' = n - 1 /\ Moving(c)'
  BY <1>1, <1>2, <1>3 DEF View, Count, Moving
<1>5. /\ View(c)'[1] = s[n]
      /\ \A k \in 0 .. Capacity : k # 1 => View(c)'[k] = s[k]
  BY <1>1, <1>4
<1>6. c \notin tied' => /\ Contents(s, n) = queued[c] /\ Distinct(s, n) /\ c \notin tied
                        /\ \A k \in 2 .. n - 1 : remainingTime[s[k]] # remainingTime[s[n]]
  BY <1>1, <1>2, Quiet DEF LastIsTied
<1>7. TypeOK'
  BY <1>1, <1>2 DEF QueueInv, TypeOK, Pointer
<1>8. HoleInv'
  BY <1>1, <1>2, <1>3 DEF HoleInv
<1>9. ShapeInv'
  <2>1. \A d \in Cpu : \A k \in 1 .. Count(d)' : View(d)'[k] \in Proc
    <3> SUFFICES ASSUME NEW d \in Cpu, NEW k \in 1 .. Count(d)' PROVE View(d)'[k] \in Proc
      OBVIOUS
    <3>1. CASE d = c
      <4>1. k \in 1 .. n - 1
        BY <1>4, <3>1
      <4>2. k \in 1 .. n /\ k \in 0 .. Capacity
        BY <1>1, <4>1
      <4> QED BY <1>1, <1>5, <3>1, <4>2
    <3>2. CASE d # c
      BY <1>1, <1>4, <3>2, Quiet
    <3> QED BY <3>1, <3>2
  <2> QED BY <1>1, <2>1 DEF QueueInv, ShapeInv
<1>10. OrderInv'
  <2> SUFFICES ASSUME NEW d \in Cpu \ tied', NEW k \in 2 .. Count(d)'
               PROVE  /\ Above(d, k)' \/ (d = c /\ k \div 2 = 1)
                      /\ Moving(d)' /\ k \div 2 = 1 => FarAbove(d, k)'
    BY <1>2 DEF OrderInv
  <2>0. d \notin tied
    BY <1>2
  <2>1. CASE d = c
    <3>1. k \in 2 .. n /\ k \in 0 .. Capacity /\ k # 1 /\ k \div 2 \in 0 .. Capacity
      <4>1. k \in 2 .. n - 1
        BY <1>4, <2>1
      <4> QED BY <1>1, <4>1, Parent
    <3>2. Above(c, k)
      BY <1>1, <2>0, <2>1, <3>1, Quiet
    <3>3. k \div 2 # 1 => Above(d, k)'
      BY <1>1, <1>5, <2>1, <3>1, <3>2, Quiet DEF Above
    <3>4. k \div 2 = 1 => FarAbove(d, k)'
      BY DEF FarAbove
    <3> QED BY <2>1, <3>3, <3>4
  <2>2. CASE d # c
    <3>1. Above(d, k)
      BY <1>1, <1>4, <2>0, <2>2, Quiet
    <3> QED BY <1>1, <1>4, <2>2, <3>1, Quiet DEF Above
  <2> QED BY <2>1, <2>2
<1>11. ContentInv'
  <2> SUFFICES ASSUME NEW d \in Cpu \ tied'
               PROVE  /\ Contents(View(d)', Count(d)') = queued'[d]
                      /\ Distinct(View(d)', Count(d)')
    BY DEF ContentInv
  <2>0. d \notin tied
    BY <1>2
  <2>1. CASE d = c
    <3>1. \A k \in 1 .. n - 1 : k \in 1 .. n /\ k \in 0 .. Capacity
      BY <1>1
    <3>2. Contents(View(c)', n - 1) = queued[c] \ {s[1]}
      <4>1. ASSUME NEW q \in Contents(View(c)', n - 1) PROVE q \in queued[c] \ {s[1]}
        <5>1. PICK k \in 1 .. n - 1 : q = View(c)'[k]
          BY DEF Contents
        <5>2. PICK l \in 2 .. n : q = s[l]
          BY <1>1, <1>5, <3>1, <5>1
        <5>3. l \in 1 .. n /\ 1 \in 1 .. n /\ l # 1
          BY <1>1
        <5> QED BY <1>6, <2>1, <5>2, <5>3 DEF Contents, Distinct
      <4>2. ASSUME NEW q \in queued[c] \ {s[1]} PROVE q \in Contents(View(c)', n - 1)
        <5>1. PICK l \in 1 .. n : q = s[l]
          BY <1>6, <2>1 DEF Contents
        <5>2. l # 1
          BY <5>1
        <5>3. CASE l = n
          <6>1. 1 \in 1 .. n - 1 /\ q = View(c)'[1]
            BY <1>1, <1>5, <5>1, <5>2, <5>3
          <6> QED BY <6>1 DEF Contents
        <5>4. CASE l # n
          <6>1. l \in 1 .. n - 1 /\ q = View(c)'[l]
            BY <1>1, <1>5, <5>1, <5>2, <5>4
          <6> QED BY <6>1 DEF Contents
        <5> QED BY <5>3, <5>4
      <4> QED BY <4>1, <4>2
    <3>3. Distinct(View(c)', n - 1)
      <4> SUFFICES ASSUME NEW j \in 1 .. n - 1, NEW k \in 1 .. n - 1, View(c)'[j] = View(c)'[k]
                   PROVE  j = k
        BY DEF Distinct
      <4>1. j \in 1 .. n /\ k \in 1 .. n /\ n \in 1 .. n /\ j # n /\ k # n
        BY <1>1
      <4> QED BY <1>5, <1>6, <2>1, <3>1, <4>1 DEF Distinct
    <3> QED BY <1>3, <1>4, <2>1, <3>2, <3>3
  <2>2. CASE d # c
    BY <1>1, <1>3, <1>4, <2>0, <2>2, Quiet
  <2> QED BY <2>1, <2>2
<1>12. LastInv'
  <2> SUFFICES ASSUME c \notin tied'
               PROVE  /\ s[(n - 1) + 1] = s[n]
                      /\ n - 1 >= 1 => s[n] \in queued[c] \ {s[1]}
                      /\ \A p \in queued[c] \ {s[1]} :
                           remainingTime[p] = remainingTime[s[n]] => p = s[n]
    BY <1>1, <1>2, <1>3 DEF LastInv
  <2>1. (n - 1) + 1 = n
    BY <1>1
  <2>2. ASSUME n - 1 >= 1 PROVE s[n] \in queued[c] \ {s[1]}
    <3>1. n \in 1 .. n /\ 1 \in 1 .. n /\ n # 1
      BY <1>1, <2>2
    <3> QED BY <1>6, <3>1 DEF Contents, Distinct
  <2>3. ASSUME NEW p \in queued[c] \ {s[1]}, remainingTime[p] = remainingTime[s[n]]
        PROVE  p = s[n]
    <3>1. PICK k \in 1 .. n : p = s[k]
      BY <1>6 DEF Contents
    <3>2. k = n \/ k \in 2 .. n - 1
      BY <1>1, <3>1
    <3> QED BY <1>6, <2>3, <3>1, <3>2
  <2> QED BY <2>1, <2>2, <2>3
<1>13. HomeInv'
  <2>1. \A d \in Cpu : Refs(d)' \subseteq Refs(d)
    BY <1>1, <1>2 DEF Refs
  <2>2. \A d \in Cpu : queued'[d] \subseteq queued[d]
    BY <1>3
  <2>3. \A d \in Cpu : s[1] \notin queued'[d]
    BY <1>1, <1>3 DEF HomeInv
  <2>4. \A d, e \in Cpu : d # e => Refs(d)' \cap queued'[e] = {}
    BY <1>1, <2>1, <2>2 DEF HomeInv
  <2>5. \A d \in Cpu : queued'[d] \subseteq live'
    BY <1>1, <2>2 DEF HomeInv
  <2>6. \A d \in Cpu : \A p \in Refs(d)' \cap Proc : p \in live' \/ remainingTime'[p] = 0
    BY <1>1, <2>1 DEF HomeInv
  <2>7. popped' \in Proc /\ remainingTime'[popped'] = 0
    BY <1>1, <1>2
  <2> QED BY <1>2, <2>3, <2>4, <2>5, <2>6, <2>7 DEF HomeInv
<1>14. UndefinedOnlyIfTied'
  BY <1>2 DEF UndefinedOnlyIfTied
<1> QED BY <1>7, <1>8, <1>9, <1>10, <1>11, <1>12, <1>13, <1>14 DEF QueueInv

\* One unit of time of the process at the root.
LEMMA TickInv ==
  ASSUME QueueInv, call = "none", popped = NULL, NEW c \in Cpu, ~IsEmptyPQ(c),
         NEW p, p = FindMinRemainTimeProcess(c), p \in live, remainingTime[p] > 0,
         remainingTime' = [remainingTime EXCEPT ![p] = @ - 1],
         UNCHANGED <<heapVars, callVars, historyVars, live>>
  PROVE  QueueInv'
<1>1. /\ UNCHANGED <<processes, size, call, at, hole, item, popped, queued, tied, live>>
      /\ p = processes[c][1] /\ p \in Proc /\ p \in Refs(c) /\ p # DummyHead
      /\ size[c] \in 1 .. Capacity
      /\ remainingTime \in [Proc \cup {DummyHead} -> Nat]
  BY Quiet, ProcAssumption
     DEF heapVars, callVars, historyVars, IsEmptyPQ, FindMinRemainTimeProcess, QueueInv, TypeOK
<1>2. /\ remainingTime'[p] = remainingTime[p] - 1 /\ remainingTime[p] \in Nat
      /\ \A q \in Proc \cup {DummyHead} : q # p => remainingTime'[q] = remainingTime[q]
      /\ \A q \in Proc \cup {DummyHead} : remainingTime[q] \in Nat
      /\ remainingTime' \in [Proc \cup {DummyHead} -> Nat]
  BY <1>1
<1>3. TypeOK' /\ HoleInv' /\ UndefinedOnlyIfTied'
  BY <1>1, <1>2 DEF QueueInv, TypeOK, HoleInv, UndefinedOnlyIfTied
<1>4. ShapeInv'
  BY <1>1, <1>2 DEF QueueInv, ShapeInv, View, Count, Moving
<1>5. ContentInv'
  BY <1>1 DEF QueueInv, ContentInv, View, Count, Moving
<1>6. OrderInv'
  <2> SUFFICES ASSUME NEW d \in Cpu \ tied, NEW k \in 2 .. size[d]
               PROVE  Above(d, k)' /\ ~Moving(d)'
    BY <1>1 DEF OrderInv, Count
  <2>1. /\ k \in 1 .. size[d] /\ k \div 2 \in 1 .. size[d] /\ k # 1
        /\ View(d) = processes[d] /\ View(d)' = processes[d] /\ ~Moving(d)'
    BY <1>1, Quiet, Parent DEF View, Moving
  <2>2. /\ processes[d][k] \in Proc /\ processes[d][k \div 2] \in Proc
        /\ remainingTime[processes[d][k \div 2]] <= remainingTime[processes[d][k]]
    BY <2>1, Quiet DEF Above
  <2>3. processes[d][k] # p
    <3>1. processes[d][k] \in queued[d]
      BY <2>1, Quiet DEF Contents
    <3>2. CASE d = c
      BY <1>1, <2>1, <3>2, Quiet DEF Distinct
    <3>3. CASE d # c
      BY <1>1, <3>1, <3>3 DEF QueueInv, HomeInv
    <3> QED BY <3>2, <3>3
  <2>4. remainingTime'[processes[d][k \div 2]] <= remainingTime'[processes[d][k]]
    BY <1>2, <2>2, <2>3
  <2> QED BY <1>1, <2>1, <2>4 DEF Above
<1>7. LastInv'
  BY <1>1 DEF LastInv
<1>8. HomeInv'
  <2>1. \A d \in Cpu : \A q \in Refs(d) \cap Proc : q \in live \/ remainingTime'[q] = 0
    BY <1>1, <1>2 DEF QueueInv, HomeInv
  <2>2. \A d \in Cpu : Refs(d)' = Refs(d)
    BY <1>1 DEF Refs
  <2> QED BY <1>1, <2>1, <2>2 DEF QueueInv, HomeInv
<1> QED BY <1>3, <1>4, <1>5, <1>6, <1>7, <1>8 DEF QueueInv

\* free(DeleteMinRemainTimeProcess(pq)), once the deletion has returned.
LEMMA FreeInv ==
  ASSUME QueueInv, call = "none", popped # NULL, live' = live \ {popped}, popped' = NULL,
         UNCHANGED <<heapVars, call, at, hole, item, historyVars, remainingTime>>
  PROVE  QueueInv'
<1>1. UNCHANGED <<processes, size, call, at, hole, item, queued, tied, remainingTime>>
  BY DEF heapVars, historyVars
<1>2. TypeOK' /\ HoleInv' /\ UndefinedOnlyIfTied'
  BY <1>1 DEF QueueInv, TypeOK, HoleInv, UndefinedOnlyIfTied, Pointer
<1>3. ShapeInv' /\ ContentInv'
  BY <1>1 DEF QueueInv, ShapeInv, ContentInv, View, Count, Moving
<1>4. OrderInv' /\ LastInv'
  BY <1>1 DEF QueueInv, OrderInv, LastInv, Above, FarAbove, View, Count, Moving
<1>5. HomeInv'
  <2>1. \A d \in Cpu : Refs(d)' = Refs(d)
    BY <1>1 DEF Refs
  <2> QED BY <1>1, <2>1 DEF QueueInv, HomeInv
<1> QED BY <1>2, <1>3, <1>4, <1>5 DEF QueueInv

\* Empty queues, and execution times that are numbers.
LEMMA InitInv ==
  ASSUME InitializePQ, InitCall, live = {},
         remainingTime \in [Proc \cup {DummyHead} -> Nat], remainingTime[DummyHead] = 0
  PROVE  QueueInv
<1>1. /\ processes = [c \in Cpu |-> [k \in 0 .. Capacity |-> IF k = 0 THEN DummyHead ELSE NULL]]
      /\ size = [c \in Cpu |-> 0] /\ call = "none" /\ at \in Cpu /\ hole = 0
      /\ item = NULL /\ popped = NULL /\ queued = [c \in Cpu |-> {}] /\ tied = {}
      /\ Capacity \in Nat
  BY CapacityAssumption DEF InitializePQ, InitCall
<1>2. TypeOK
  BY <1>1 DEF TypeOK, Pointer
<1>3. HoleInv /\ LastInv /\ UndefinedOnlyIfTied
  BY <1>1 DEF HoleInv, LastInv, UndefinedOnlyIfTied
<1>4. \A c \in Cpu : Count(c) = 0
  BY <1>1 DEF Count
<1>5. ShapeInv /\ OrderInv
  BY <1>1, <1>4, ProcAssumption DEF ShapeInv, OrderInv
<1>6. ContentInv
  BY <1>1, <1>4 DEF ContentInv, Contents, Distinct
<1>7. HomeInv
  <2>1. \A c \in Cpu : Refs(c) \cap Proc = {}
    BY <1>1, ProcAssumption DEF Refs
  <2> QED BY <1>1, <2>1 DEF HomeInv
<1> QED BY <1>2, <1>3, <1>5, <1>6, <1>7 DEF QueueInv

\* A caller meets a freed process in slot k: there was a tie.
LEMMA UseFreedInv ==
  ASSUME QueueInv, call = "none", NEW c \in Cpu, NEW k \in 1 .. size[c],
         processes[c][k] \notin live, call' = "undefined", at' = c,
         UNCHANGED <<heapVars, hole, item, popped, historyVars, remainingTime, live>>
  PROVE  QueueInv'
<1>1. /\ processes[c][k] \notin live
      /\ UNCHANGED <<processes, size, hole, item, popped, queued, tied, remainingTime, live>>
  BY DEF heapVars, historyVars
<1>2. c \in tied
  <2>1. processes[c][k] \in Contents(processes[c], size[c])
    BY DEF Contents
  <2> QED BY <1>1, <2>1, Quiet
<1>3. TypeOK' /\ HoleInv' /\ UndefinedOnlyIfTied'
  BY <1>1, <1>2 DEF QueueInv, TypeOK, HoleInv, UndefinedOnlyIfTied
<1>4. ShapeInv' /\ OrderInv' /\ ContentInv' /\ LastInv'
  BY <1>1 DEF QueueInv, ShapeInv, OrderInv, ContentInv, LastInv
<1>5. HomeInv'
  <2>1. \A d \in Cpu : Refs(d)' \subseteq Refs(d)
    BY <1>1 DEF Refs
  <2> QED BY <1>1, <2>1, HomeKept DEF QueueInv
<1> QED BY <1>3, <1>4, <1>5 DEF QueueInv

\* A step of something else.
LEMMA StutterInv ==
  ASSUME QueueInv, UNCHANGED queueVars
  PROVE  QueueInv'
<1>1. UNCHANGED <<processes, size, call, at, hole, item, popped, queued, tied,
                  remainingTime, live>>
  BY DEF queueVars, heapVars, callVars, historyVars
<1>2. TypeOK' /\ HoleInv' /\ LastInv' /\ UndefinedOnlyIfTied'
  BY <1>1 DEF QueueInv, TypeOK, HoleInv, LastInv, UndefinedOnlyIfTied
<1>3. ShapeInv' /\ ContentInv'
  BY <1>1 DEF QueueInv, ShapeInv, ContentInv, View, Count, Moving
<1>4. OrderInv'
  BY <1>1 DEF QueueInv, OrderInv, View, Count, Moving, Above, FarAbove
<1>5. HomeInv'
  BY <1>1 DEF QueueInv, HomeInv, Refs
<1> QED BY <1>2, <1>3, <1>4, <1>5 DEF QueueInv

-----------------------------------------------------------------------------
(***************************************************************************)
(* What QueueInv promises.                                                 *)
(***************************************************************************)
LEMMA Promises ==
  ASSUME QueueInv
  PROVE  HeapOrder /\ IntactUnlessTied /\ UndefinedOnlyIfTied
BY DEF QueueInv, OrderInv, HeapOrder, ContentInv, IntactUnlessTied, Busy, Slots,
       Above, View, Count, Moving

\* The root is a minimum: the smallest slot below it that is smaller would have
\* a parent that is smaller too.
LEMMA RootPromise ==
  ASSUME QueueInv
  PROVE  RootIsMin
<1> SUFFICES ASSUME NEW c \in Cpu, ~Busy(c), c \notin tied
             PROVE  \A k \in 1 .. size[c] :
                      remainingTime[processes[c][1]] <= remainingTime[processes[c][k]]
  BY DEF RootIsMin
<1> DEFINE r(k) == remainingTime[processes[c][k]]
           S == {k \in 1 .. size[c] : ~(r(1) <= r(k))}
<1>1. /\ size[c] \in Nat
      /\ \A k \in 2 .. size[c] : r(k \div 2) <= r(k)
  BY DEF QueueInv, OrderInv, TypeOK, Busy, Above, View, Count, Moving
<1>2. \A k \in 1 .. size[c] : r(k) \in Nat
  BY DEF QueueInv, TypeOK, ShapeInv, Busy, View, Count, Moving
<1>3. SUFFICES ASSUME S # {} PROVE FALSE
  OBVIOUS
<1>4. PICK m \in S : \A k \in S : m <= k
  <2>1. S \in SUBSET Nat
    BY <1>1
  <2> HIDE DEF S
  <2> QED BY <1>3, <2>1, Smallest
<1>5. m \in 2 .. size[c] /\ m \div 2 \in 1 .. size[c] /\ m \div 2 < m
  BY <1>1, <1>2, <1>4, Parent
<1>6. m \div 2 \in S
  BY <1>1, <1>2, <1>4, <1>5
<1> QED BY <1>4, <1>5, <1>6

-----------------------------------------------------------------------------
(***************************************************************************)
(* Client is QueueClient with the variables of the specification that      *)
(* calls the queues, so the operators they share mean the same.            *)
(***************************************************************************)
LEMMA SameInsertPQ ==
  ASSUME NEW p, NEW c
  PROVE  Client!InsertPQ(p, c) <=> InsertPQ(p, c)
BY DEF Client!InsertPQ, InsertPQ, Client!RefuseInsert, RefuseInsert, Client!StartInsert, StartInsert,
       Client!IsFullPQ, IsFullPQ, Client!heapVars, heapVars, Client!callVars, callVars,
       Client!historyVars, historyVars

LEMMA SameRoot ==
  ASSUME NEW c
  PROVE  /\ Client!DeleteMin(c) <=> DeleteMin(c)
         /\ Client!IsEmptyPQ(c) <=> IsEmptyPQ(c)
         /\ Client!FindMinRemainTimeProcess(c) = FindMinRemainTimeProcess(c)
         /\ Client!Slots(c) = Slots(c)
BY DEF Client!DeleteMin, DeleteMin, Client!IsEmptyPQ, IsEmptyPQ,
       Client!FindMinRemainTimeProcess, FindMinRemainTimeProcess,
       Client!Slots, Slots, Client!Contents, Contents, Client!LastIsTied, LastIsTied

LEMMA SameQueueStep == Client!QueueStep <=> QueueStep
<1>1. /\ Client!SmallerChild = SmallerChild /\ (Client!Sinks <=> Sinks)
      /\ Client!Dereferenced = Dereferenced
  BY DEF Client!SmallerChild, SmallerChild, Client!Sinks, Sinks, Client!Dereferenced,
     Dereferenced, Client!SlotsRead, SlotsRead, Client!ItemRead, ItemRead
<1>2. Client!Allocated(Client!Dereferenced) <=> Allocated(Dereferenced)
  BY <1>1 DEF Client!Allocated, Allocated
<1>3. Client!UndefinedIteration <=> UndefinedIteration
  BY <1>1, <1>2 DEF Client!UndefinedIteration, UndefinedIteration, Client!historyVars, historyVars, Client!heapVars, heapVars
<1>4. Client!SiftUp <=> SiftUp
  BY <1>1, <1>2 DEF Client!SiftUp, SiftUp, Client!historyVars, historyVars
<1>5. Client!SiftDown <=> SiftDown
  BY <1>1, <1>2 DEF Client!SiftDown, SiftDown, Client!historyVars, historyVars
<1>6. Client!PidSort <=> PidSort
  <2>1. \A h, j, k : Client!PidOrder(h, j, k) = PidOrder(h, j, k)
    BY DEF Client!PidOrder, PidOrder, Client!PidOf, PidOf
  <2> QED BY <1>2, <2>1 DEF Client!PidSort, PidSort, Client!historyVars, historyVars
<1> QED BY <1>3, <1>4, <1>5, <1>6 DEF Client!QueueStep, QueueStep

\* The slots up to n are n slots.
LEMMA UpTo ==
  ASSUME NEW n \in Nat
  PROVE  IsFiniteSet(1 .. n) /\ Cardinality(1 .. n) = n
<1>1. IsFiniteSet(1 .. n) /\ Cardinality(1 .. n) = IF 1 > n THEN 0 ELSE n - 1 + 1
  BY FS_Interval
<1> QED BY <1>1
=============================================================================
