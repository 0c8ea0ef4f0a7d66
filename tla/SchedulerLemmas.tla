---------------------------- MODULE SchedulerLemmas ----------------------------
(***************************************************************************)
(* What both schedulers need beside the queue: the sorts and removals of   *)
(* the input list keep its nodes and leave it sorted by arrival, sums over *)
(* sets of processes, and the statistics that are printed.                 *)
(***************************************************************************)
EXTENDS QueueLemmas, InputList, Statistics

\* The nodes a list holds.
NodesOf(L) == {L[n] : n \in 1 .. Len(L)}

\* K holds the nodes of L in another order.
Reordered(K, L) ==
  /\ Len(K) = Len(L)
  /\ \E place \in [1 .. Len(L) -> 1 .. Len(L)] :
       /\ \A j, k \in 1 .. Len(L) : place[j] = place[k] => j = k
       /\ \A k \in 1 .. Len(L) : K[k] = L[place[k]]

LEMMA ReorderedPidsDiffer ==
  ASSUME NEW K, NEW L, Reordered(K, L), PidsDiffer(L)
  PROVE  PidsDiffer(K)
BY DEF Reordered, PidsDiffer

\* The fields the sorts compare are numbers.
LEMMA FieldType ==
  ASSUME NEW f \in Field, NEW node \in Node
  PROVE  node[f] \in Nat
<1>1. CASE f = "pid"
  BY <1>1 DEF Node
<1>2. CASE f = "exec"
  BY <1>2 DEF Node
<1>3. CASE f = "arrival"
  BY <1>3 DEF Node
<1> QED BY <1>1, <1>2, <1>3 DEF Field

\* An exchange keeps the length and the nodes of a list.
LEMMA SwapKeeps ==
  ASSUME NEW S, NEW L \in Seq(S), NEW m \in 1 .. Len(L), NEW n \in 1 .. Len(L)
  PROVE  /\ SwapNodes(L, m, n) \in Seq(S)
         /\ Len(SwapNodes(L, m, n)) = Len(L)
         /\ \A k \in 1 .. Len(L) : SwapNodes(L, m, n)[k] =
              IF k = m THEN L[n] ELSE IF k = n THEN L[m] ELSE L[k]
         /\ NodesOf(SwapNodes(L, m, n)) = NodesOf(L)
<1> DEFINE T == SwapNodes(L, m, n)
<1>1. \A k \in 1 .. Len(L) : L[k] \in S
  OBVIOUS
<1>2. T \in Seq(S)
  BY <1>1 DEF SwapNodes
<1>3. Len(T) = Len(L)
  BY <1>2 DEF SwapNodes
<1>4. \A k \in 1 .. Len(L) : T[k] = IF k = m THEN L[n] ELSE IF k = n THEN L[m] ELSE L[k]
  BY DEF SwapNodes
<1>5. NodesOf(T) \subseteq NodesOf(L)
  BY <1>3, <1>4 DEF NodesOf
<1>6. ASSUME NEW k \in 1 .. Len(L) PROVE L[k] \in NodesOf(T)
  <2>1. CASE k = m
    BY <2>1, <1>3, <1>4 DEF NodesOf
  <2>2. CASE k = n
    BY <2>2, <1>3, <1>4 DEF NodesOf
  <2>3. CASE k # m /\ k # n
    BY <2>3, <1>3, <1>4 DEF NodesOf
  <2> QED BY <2>1, <2>2, <2>3
<1>7. NodesOf(L) \subseteq NodesOf(T)
  BY <1>6 DEF NodesOf
<1> QED BY <1>2, <1>3, <1>4, <1>5, <1>7

\* One pass of a sort.
LEMMA SortPassInv ==
  ASSUME ListInv, SortPass
  PROVE  /\ ListInv' /\ NodesOf(inputList') = NodesOf(inputList)
         /\ Reordered(inputList', inputList)
<1> DEFINE L == inputList  f == Head(sorts)
<1>1. /\ L \in Seq(Node) /\ sorts \in Seq(Field) /\ sorts # <<>> /\ pass \in Nat \ {0}
      /\ pass < Len(L) /\ pass' = pass + 1 /\ sorts' = sorts
  BY DEF ListInv, SortPass
<1>2. f \in Field /\ \A k \in 1 .. Len(L) : L[k] \in Node /\ L[k][f] \in Nat
  BY <1>1, FieldType
<1>3. PICK m \in 1 .. Len(L) : FirstSmallest(L, pass, m, f) /\ inputList' = SwapNodes(L, pass, m)
  BY DEF SortPass
<1>4. m \in pass .. Len(L) /\ \A k \in pass .. Len(L) : L[m][f] <= L[k][f]
  BY <1>3 DEF FirstSmallest
<1>5. pass \in 1 .. Len(L)
  BY <1>1
<1>6. /\ inputList' \in Seq(Node) /\ Len(inputList') = Len(L)
      /\ \A k \in 1 .. Len(L) : inputList'[k] = IF k = pass THEN L[m] ELSE IF k = m THEN L[pass] ELSE L[k]
      /\ NodesOf(inputList') = NodesOf(L)
  <2>1. /\ SwapNodes(L, pass, m) \in Seq(Node)
        /\ Len(SwapNodes(L, pass, m)) = Len(L)
        /\ \A k \in 1 .. Len(L) : SwapNodes(L, pass, m)[k] =
             IF k = pass THEN L[m] ELSE IF k = m THEN L[pass] ELSE L[k]
        /\ NodesOf(SwapNodes(L, pass, m)) = NodesOf(L)
    <3> HIDE DEF L
    <3> QED BY <1>1, <1>5, SwapKeeps
  <2> QED BY <2>1, <1>3
<1>7. Reordered(inputList', L)
  <2> DEFINE place == [x \in 1 .. Len(L) |-> IF x = pass THEN m ELSE IF x = m THEN pass ELSE x]
  <2>1. place \in [1 .. Len(L) -> 1 .. Len(L)]
    BY <1>5
  <2>2. \A j, k \in 1 .. Len(L) : place[j] = place[k] => j = k
    BY <1>5
  <2>3. \A k \in 1 .. Len(L) : inputList'[k] = L[place[k]]
    BY <1>5, <1>6
  <2> HIDE DEF place
  <2> QED BY <1>6, <2>1, <2>2, <2>3 DEF Reordered
<1>8. PassesDone'
  <2> SUFFICES ASSUME NEW j \in 1 .. pass, NEW k \in j .. Len(L)
               PROVE  inputList'[j][f] <= inputList'[k][f]
    BY <1>1, <1>6 DEF PassesDone
  <2>1. PICK x \in j .. Len(L) : inputList'[k] = L[x] /\ (j = pass => x \in pass .. Len(L))
    BY <1>1, <1>4, <1>5, <1>6
  <2>2. CASE j = pass
    BY <2>1, <2>2, <1>1, <1>4, <1>6
  <2>3. CASE j < pass
    <3>1. inputList'[j] = L[j]
      BY <2>3, <1>1, <1>4, <1>5, <1>6
    <3>2. L[j][f] <= L[x][f]
      BY <2>3, <1>1, SMTT(30) DEF ListInv, PassesDone
    <3> QED BY <3>1, <3>2, <2>1
  <2> QED BY <2>2, <2>3, <1>1
<1> QED BY <1>1, <1>6, <1>7, <1>8 DEF ListInv, Sorted

\* The end of a sort: all its passes are made.
LEMMA EndSortInv ==
  ASSUME ListInv, EndSort
  PROVE  /\ ListInv' /\ NodesOf(inputList') = NodesOf(inputList)
         /\ Reordered(inputList', inputList)
<1> DEFINE L == inputList  f == Head(sorts)
<1>1. /\ L \in Seq(Node) /\ sorts \in Seq(Field) /\ sorts # <<>> /\ pass \in Nat \ {0}
      /\ pass >= Len(L) /\ pass' = 1 /\ sorts' = Tail(sorts) /\ inputList' = L
  BY DEF ListInv, EndSort
<1>2. sorts' \in Seq(Field) /\ (sorts' # <<>> => sorts'[Len(sorts')] = "arrival")
  BY <1>1 DEF ListInv
<1>3. ASSUME sorts' = <<>> PROVE f = "arrival"
  <2>1. Len(sorts') = Len(sorts) - 1 /\ Len(sorts) \in Nat
    BY <1>1
  <2>2. Len(sorts) = 1
    BY <2>1, <1>3
  <2>3. Head(sorts) = sorts[1]
    BY <1>1
  <2> QED BY <2>2, <2>3, <1>1 DEF ListInv
<1>4. ASSUME NEW m \in 1 .. Len(L), NEW n \in 1 .. Len(L), m <= n
      PROVE  L[m].arrival <= L[n].arrival \/ f # "arrival"
  <2>1. CASE m < pass
    BY <2>1, <1>1, <1>4 DEF ListInv, PassesDone
  <2>2. CASE m = n
    <3>1. L[m] \in Node
      BY <1>1
    <3>2. L[m].arrival \in Nat
      BY <3>1 DEF Node
    <3> QED BY <2>2, <3>2
  <2> QED BY <2>1, <2>2, <1>1, <1>4
<1>5. Sorted'
  BY <1>1, <1>3, <1>4 DEF Sorted
<1>6. PassesDone' /\ Reordered(inputList', L)
  <2>1. PassesDone'
    BY <1>1 DEF PassesDone
  <2> DEFINE place == [x \in 1 .. Len(L) |-> x]
  <2>2. place \in [1 .. Len(L) -> 1 .. Len(L)] /\ \A k \in 1 .. Len(L) : place[k] = k
    OBVIOUS
  <2> HIDE DEF place
  <2> QED BY <1>1, <2>1, <2>2 DEF Reordered
<1> QED BY <1>1, <1>2, <1>5, <1>6 DEF ListInv

\* The removal of the first node of a sorted list.
LEMMA UpdateInv ==
  ASSUME ListInv, sorts = <<>>, inputList # <<>>, UpdateInputList
  PROVE  /\ ListInv'
         /\ Len(inputList') = Len(inputList) - 1
         /\ \A n \in 1 .. Len(inputList') : inputList'[n] = inputList[n + 1]
<1>1. /\ inputList \in Seq(Node) /\ inputList' = Tail(inputList)
      /\ sorts' = <<>> /\ pass' = pass
  BY DEF ListInv, UpdateInputList
<1>2. /\ inputList' \in Seq(Node) /\ Len(inputList') = Len(inputList) - 1
      /\ \A n \in 1 .. Len(inputList') : inputList'[n] = inputList[n + 1]
  BY <1>1
<1>3. Sorted' /\ PassesDone'
  BY <1>1, <1>2 DEF ListInv, Sorted, PassesDone
<1> QED BY <1>1, <1>2, <1>3 DEF ListInv

LEMMA ListStutterInv ==
  ASSUME ListInv, UNCHANGED listVars
  PROVE  ListInv'
BY DEF ListInv, listVars, PassesDone, Sorted

-----------------------------------------------------------------------------
(***************************************************************************)
(* Folds over finite sets: F gives what op makes of base and of the values *)
(* of f over every subset of S.  The library's induction takes an operator *)
(* as its parameter, a set of subsets serves here.                         *)
(***************************************************************************)

\* Without an element a set is smaller.
LEMMA Sizes ==
  ASSUME NEW S, IsFiniteSet(S), NEW s \in SUBSET S
  PROVE  /\ Cardinality(s) \in Nat
         /\ \A x \in s : Cardinality(s \ {x}) = Cardinality(s) - 1 /\ Cardinality(s \ {x}) \in Nat
<1>1. IsFiniteSet(s)
  BY FS_Subset
<1>2. \A x \in s : Cardinality(s \ {x}) = Cardinality(s) - 1 /\ IsFiniteSet(s \ {x})
  BY <1>1, FS_RemoveElement
<1> QED BY <1>1, <1>2, FS_CardinalityType

\* What holds of a set if it does without any one of its elements, holds of all.
LEMMA SetInduction ==
  ASSUME NEW S, IsFiniteSet(S), NEW P, \A s \in SUBSET S : (\A x \in s : s \ {x} \in P) => s \in P
  PROVE  \A s \in SUBSET S : s \in P
<1> DEFINE N == {n \in Nat : \E s \in SUBSET S : Cardinality(s) = n /\ s \notin P}
<1>1. \A s \in SUBSET S : /\ Cardinality(s) \in Nat
                          /\ \A x \in s : Cardinality(s \ {x}) = Cardinality(s) - 1 /\ Cardinality(s \ {x}) \in Nat
  BY Sizes
<1>2. ASSUME N # {} PROVE FALSE
  <2>1. PICK m \in N : \A k \in N : m <= k
    BY <1>2, Smallest
  <2>2. PICK s \in SUBSET S : Cardinality(s) = m /\ s \notin P
    BY <2>1
  <2>3. PICK x \in s : s \ {x} \notin P
    BY <2>2
  <2>4. Cardinality(s \ {x}) = m - 1 /\ m - 1 \in Nat /\ m \in Nat
    <3> HIDE DEF N
    <3>1. /\ Cardinality(s) \in Nat
          /\ Cardinality(s \ {x}) = Cardinality(s) - 1 /\ Cardinality(s \ {x}) \in Nat
      BY <1>1, <2>3
    <3> QED BY <2>2, <3>1
  <2>5. m - 1 \in N
    BY <2>3, <2>4
  <2> QED BY <2>1, <2>4, <2>5
<1> QED BY <1>1, <1>2

Picked(s) == CHOOSE x \in s : TRUE
IsFold(F, op, base, f, S) ==
  F = [s \in SUBSET S |-> IF s = {} THEN base ELSE op[<<f[Picked(s)], F[s \ {Picked(s)}]>>]]

\* What is in the set counts once, whichever element is taken out first.
Folds(F, op, base, f, S, D) ==
  /\ F \in [SUBSET S -> D] /\ F[{}] = base
  /\ \A s \in SUBSET S : \A x \in s : F[s] = op[<<f[x], F[s \ {x}]>>]

Commutes(op, D) ==
  /\ op \in [D \X D -> D]
  /\ \A a, b, c \in D : op[<<a, op[<<b, c>>]>>] = op[<<b, op[<<a, c>>]>>]

LEMMA PickedIn == \A s : s # {} => Picked(s) \in s
BY DEF Picked

\* There is such a function: a rule for a set needs it only for smaller ones.
LEMMA FoldExists ==
  ASSUME NEW S, IsFiniteSet(S), NEW D, NEW op \in [D \X D -> D], NEW base \in D, NEW f, \A x \in S : f[x] \in D
  PROVE  \E F : IsFold(F, op, base, f, S)
<1> DEFINE Upto(n) == {s \in SUBSET S : Cardinality(s) <= n}
           Value(F, s) == IF s = {} THEN base ELSE op[<<f[Picked(s)], F[s \ {Picked(s)}]>>]
           Fits(n) == \E F \in [Upto(n) -> D] : \A s \in Upto(n) : F[s] = Value(F, s)
           N == {n \in Nat : ~Fits(n)}
<1>1. \A s \in SUBSET S : Cardinality(s) \in Nat
  BY FS_Subset, FS_CardinalityType
<1>2. ASSUME NEW m \in Nat, m = 0 \/ Fits(m - 1) PROVE Fits(m)
  <2>1. CASE m = 0
    <3>1. \A s \in Upto(0) : s = {}
      BY <1>1, FS_Subset, FS_EmptySet
    <3> HIDE DEF Upto
    <3>2. [s \in Upto(0) |-> base] \in [Upto(0) -> D] /\ \A s \in Upto(0) : [t \in Upto(0) |-> base][s] = base
      OBVIOUS
    <3> QED BY <2>1, <3>1, <3>2
  <2>2. CASE m # 0
    <3>1. PICK G \in [Upto(m - 1) -> D] : \A s \in Upto(m - 1) : G[s] = Value(G, s)
      BY <1>2, <2>2
    <3> DEFINE F == [s \in Upto(m) |-> Value(G, s)]
    <3>2. ASSUME NEW s \in Upto(m), s # {}
          PROVE  s \ {Picked(s)} \in Upto(m - 1) /\ Picked(s) \in S
      <4>1. Picked(s) \in s
        BY <3>2, PickedIn, Sizes
      <4>2. Cardinality(s \ {Picked(s)}) = Cardinality(s) - 1
        BY <4>1, PickedIn, Sizes
      <4> QED BY <1>1, <4>1, <4>2
    <3>3. \A s \in Upto(m) : Value(G, s) \in D
      <4> HIDE DEF Upto
      <4> QED BY <3>1, <3>2
    <3>4. F \in [Upto(m) -> D]
      BY <3>3
    <3>5. \A s \in Upto(m - 1) : s \in Upto(m) /\ F[s] = G[s]
      <4>1. \A s \in Upto(m - 1) : s \in Upto(m)
        BY <1>1
      <4> HIDE DEF Upto
      <4> QED BY <3>1, <4>1
    <3>6. \A s \in Upto(m) : F[s] = Value(F, s)
      <4> HIDE DEF Upto
      <4>1. \A s \in Upto(m) : F[s] = Value(G, s)
        OBVIOUS
      <4> HIDE DEF F
      <4> QED BY <3>2, <3>5, <4>1
    <3> HIDE DEF Upto, F
    <3> QED BY <3>4, <3>6
  <2> QED BY <2>1, <2>2
<1>3. N = {}
  <2> HIDE DEF Fits
  <2> SUFFICES ASSUME N # {} PROVE FALSE
    OBVIOUS
  <2>1. PICK m \in N : \A k \in N : m <= k
    BY Smallest
  <2>2. m \in Nat /\ ~Fits(m)
    BY <2>1
  <2>3. m # 0 => m - 1 \in Nat /\ m - 1 \notin N
    BY <2>1, <2>2
  <2> QED BY <1>2, <2>2, <2>3
<1> DEFINE top == Cardinality(S)
<1>4. top \in Nat /\ Upto(top) = SUBSET S
  BY <1>1, FS_Subset, FS_CardinalityType
<1>5. Fits(top)
  <2> HIDE DEF top, Fits
  <2> QED BY <1>3, <1>4
<1>6. PICK F \in [SUBSET S -> D] : \A s \in SUBSET S : F[s] = Value(F, s)
  <2> HIDE DEF top, Upto
  <2> QED BY <1>4, <1>5
<1>7. F = [s \in SUBSET S |-> Value(F, s)]
  BY <1>6
<1> QED BY <1>7 DEF IsFold

LEMMA FoldStep ==
  ASSUME NEW S, IsFiniteSet(S), NEW D, NEW op, Commutes(op, D), NEW base \in D, NEW f, \A x \in S : f[x] \in D,
         NEW F, IsFold(F, op, base, f, S)
  PROVE  Folds(F, op, base, f, S, D)
<1>1. /\ F[{}] = base
      /\ \A s \in SUBSET S : s # {} => F[s] = op[<<f[Picked(s)], F[s \ {Picked(s)}]>>]
  BY DEF IsFold
<1>2. \A s \in SUBSET S : F[s] \in D
  <2> DEFINE P == {s \in SUBSET S : F[s] \in D}
  <2>1. ASSUME NEW s \in SUBSET S, \A x \in s : s \ {x} \in P PROVE s \in P
    <3>1. CASE s = {}
      BY <1>1, <3>1, Zenon
    <3>2. CASE s # {}
      <4>1. Picked(s) \in s /\ Picked(s) \in S
        BY <3>2, PickedIn
      <4>2. F[s \ {Picked(s)}] \in D /\ f[Picked(s)] \in D
        BY <2>1, <4>1
      <4> QED BY <1>1, <3>2, <4>2 DEF Commutes
    <3> QED BY <3>1, <3>2
  <2> HIDE DEF P
  <2>2. \A s \in SUBSET S : s \in P
    BY <2>1, SetInduction
  <2> QED BY <2>2 DEF P
<1>3. \A s \in SUBSET S : \A x \in s : F[s] = op[<<f[x], F[s \ {x}]>>]
  <2> DEFINE P == {s \in SUBSET S : \A x \in s : F[s] = op[<<f[x], F[s \ {x}]>>]}
  <2>1. ASSUME NEW s \in SUBSET S, \A x \in s : s \ {x} \in P PROVE s \in P
    <3> SUFFICES ASSUME NEW x \in s PROVE F[s] = op[<<f[x], F[s \ {x}]>>]
      OBVIOUS
    <3> DEFINE y == Picked(s)
    <3>1. y \in s /\ F[s] = op[<<f[y], F[s \ {y}]>>]
      BY <1>1, PickedIn
    <3> HIDE DEF y
    <3> SUFFICES ASSUME y # x PROVE F[s] = op[<<f[x], F[s \ {x}]>>]
      BY <3>1
    <3>2. F[s \ {y}] = op[<<f[x], F[(s \ {y}) \ {x}]>>] /\ F[s \ {x}] = op[<<f[y], F[(s \ {x}) \ {y}]>>]
      <4>1. s \ {y} \in P /\ s \ {x} \in P
        BY <2>1, <3>1
      <4> QED BY <3>1, <4>1
    <3>3. (s \ {y}) \ {x} = (s \ {x}) \ {y} /\ (s \ {x}) \ {y} \in SUBSET S
      OBVIOUS
    <3>4. F[(s \ {y}) \ {x}] = F[(s \ {x}) \ {y}]
      BY <3>3, Zenon
    <3>5. F[(s \ {x}) \ {y}] \in D /\ f[x] \in D /\ f[y] \in D
      BY <1>2, <3>1, <3>3
    <3> HIDE DEF P
    <3>6. op[<<f[y], op[<<f[x], F[(s \ {x}) \ {y}]>>]>>] = op[<<f[x], op[<<f[y], F[(s \ {x}) \ {y}]>>]>>]
      BY <3>5 DEF Commutes
    <3> QED BY <3>1, <3>2, <3>4, <3>6
  <2> HIDE DEF P
  <2>2. \A s \in SUBSET S : s \in P
    BY <2>1, SetInduction
  <2> QED BY <2>2 DEF P
<1>4. F \in [SUBSET S -> D]
  BY <1>2 DEF IsFold
<1> QED BY <1>1, <1>3, <1>4 DEF Folds

\* Folds over sets of which one renames the elements of the other are equal.
LEMMA FoldRenamed ==
  ASSUME NEW S, IsFiniteSet(S), NEW T, NEW D, NEW op, NEW base, NEW f, NEW g, NEW F, NEW G,
         Folds(F, op, base, f, S, D), Folds(G, op, base, g, T, D),
         NEW h \in Injection(S, T), \A x \in S : f[x] = g[h[x]]
  PROVE  F[S] = G[{h[x] : x \in S}]
<1> DEFINE image(s) == {h[x] : x \in s}
           P == {s \in SUBSET S : F[s] = G[image(s)]}
<1>1. /\ \A x \in S : h[x] \in T
      /\ \A x, y \in S : h[x] = h[y] => x = y
  BY DEF Injection, IsInjective
<1>2. ASSUME NEW s \in SUBSET S, \A x \in s : s \ {x} \in P PROVE s \in P
  <2>1. CASE s = {}
    <3>1. image(s) = {}
      BY <2>1
    <3> HIDE DEF image
    <3>2. F[{}] = base /\ G[{}] = base
      BY DEF Folds
    <3> QED BY <2>1, <3>1, <3>2, Zenon
  <2>2. CASE s # {}
    <3>1. PICK x \in s : TRUE
      BY <2>2
    <3>2. F[s \ {x}] = G[image(s \ {x})]
      BY <1>2, <3>1
    <3>3. image(s) \in SUBSET T /\ h[x] \in image(s) /\ image(s \ {x}) = image(s) \ {h[x]}
      BY <1>1, <3>1
    <3> HIDE DEF image
    <3>4. F[s] = op[<<f[x], F[s \ {x}]>>] /\ G[image(s)] = op[<<g[h[x]], G[image(s) \ {h[x]}]>>]
      BY <3>1, <3>3 DEF Folds
    <3>5. G[image(s) \ {h[x]}] = G[image(s \ {x})]
      BY <3>3, Zenon
    <3> QED BY <3>1, <3>2, <3>4, <3>5
  <2> QED BY <2>1, <2>2
<1>3. S \in P
  <2> HIDE DEF P
  <2>1. \A s \in SUBSET S : s \in P
    BY <1>2, SetInduction
  <2> QED BY <2>1
<1> QED BY <1>3

\* The fold over a set does not depend on the function outside of it.
LEMMA FoldKept ==
  ASSUME NEW S, IsFiniteSet(S), NEW T, S \subseteq T, NEW D, NEW op, NEW base, NEW f, NEW g,
         NEW F, NEW G, Folds(F, op, base, f, S, D), Folds(G, op, base, g, T, D),
         \A x \in S : f[x] = g[x]
  PROVE  F[S] = G[S]
<1> DEFINE h == [x \in S |-> x]
<1>1. h \in Injection(S, T) /\ (\A x \in S : f[x] = g[h[x]]) /\ {h[x] : x \in S} = S
  BY DEF Injection, IsInjective
<1> HIDE DEF h
<1>2. F[S] = G[{h[x] : x \in S}]
  BY <1>1, FoldRenamed
<1> QED BY <1>1, <1>2, Zenon

-----------------------------------------------------------------------------
(***************************************************************************)
(* Sums and sums of fractions are folds.                                   *)
(***************************************************************************)
\* Sums, as MapThenSumSet computes them.
IsSum(F, f, S) ==
  F = [s \in SUBSET S |-> IF s = {} THEN 0 ELSE f[Picked(s)] + F[s \ {Picked(s)}]]
Add == [xy \in Nat \X Nat |-> xy[1] + xy[2]]
AddsUp(F, f, S) == Folds(F, Add, 0, f, S, Nat)

LEMMA AddCommutes == Commutes(Add, Nat)
<1>1. \A a, b \in Nat : Add[<<a, b>>] = a + b
  BY DEF Add
<1>2. Add \in [Nat \X Nat -> Nat]
  BY DEF Add
<1> HIDE DEF Add
<1>3. \A a, b, c \in Nat : Add[<<a, Add[<<b, c>>]>>] = a + (b + c)
  BY <1>1
<1> QED BY <1>2, <1>3 DEF Commutes

LEMMA SumExists ==
  ASSUME NEW S, IsFiniteSet(S), NEW f, \A x \in S : f[x] \in Nat
  PROVE  \E F : IsSum(F, f, S)
<1>1. PICK F : IsFold(F, Add, 0, f, S)
  BY AddCommutes, FoldExists DEF Commutes
<1>2. F \in [SUBSET S -> Nat]
  BY <1>1, AddCommutes, FoldStep DEF Folds
<1>3. \A s \in SUBSET S : s # {} => Picked(s) \in S /\ s \ {Picked(s)} \in SUBSET S
  BY PickedIn
<1>4. \A s \in SUBSET S : s # {} => Add[<<f[Picked(s)], F[s \ {Picked(s)}]>>] = f[Picked(s)] + F[s \ {Picked(s)}]
  <2> SUFFICES ASSUME NEW s \in SUBSET S, s # {}
               PROVE  Add[<<f[Picked(s)], F[s \ {Picked(s)}]>>] = f[Picked(s)] + F[s \ {Picked(s)}]
    OBVIOUS
  <2>1. f[Picked(s)] \in Nat /\ F[s \ {Picked(s)}] \in Nat
    BY <1>2, <1>3
  <2> QED BY <2>1 DEF Add
<1>5. IsSum(F, f, S)
  BY <1>1, <1>4 DEF IsFold, IsSum
<1> QED BY <1>5

LEMMA SumStep ==
  ASSUME NEW S, IsFiniteSet(S), NEW f, \A x \in S : f[x] \in Nat, NEW F, IsSum(F, f, S)
  PROVE  AddsUp(F, f, S)
<1>1. /\ F[{}] = 0
      /\ \A s \in SUBSET S : s # {} => F[s] = f[Picked(s)] + F[s \ {Picked(s)}]
  BY DEF IsSum
<1> DEFINE P == {s \in SUBSET S : F[s] \in Nat}
<1>2. ASSUME NEW s \in SUBSET S, \A x \in s : s \ {x} \in P PROVE s \in P
  <2>1. CASE s = {}
    <3>1. F[{}] \in Nat
      BY <1>1
    <3> QED BY <2>1, <3>1, Zenon
  <2>2. CASE s # {}
    <3>1. Picked(s) \in s /\ Picked(s) \in S
      BY <2>2, PickedIn
    <3>2. F[s \ {Picked(s)}] \in Nat /\ f[Picked(s)] \in Nat
      BY <1>2, <3>1
    <3>3. F[s] = f[Picked(s)] + F[s \ {Picked(s)}]
      BY <1>1, <2>2
    <3> QED BY <3>2, <3>3
  <2> QED BY <2>1, <2>2
<1>3. \A s \in SUBSET S : s \in P
  <2> HIDE DEF P
  <2> QED BY <1>2, SetInduction
<1>4. \A s \in SUBSET S : s # {} => Add[<<f[Picked(s)], F[s \ {Picked(s)}]>>] = f[Picked(s)] + F[s \ {Picked(s)}]
  <2> SUFFICES ASSUME NEW s \in SUBSET S, s # {}
               PROVE  Add[<<f[Picked(s)], F[s \ {Picked(s)}]>>] = f[Picked(s)] + F[s \ {Picked(s)}]
    OBVIOUS
  <2>1. f[Picked(s)] \in Nat /\ F[s \ {Picked(s)}] \in Nat
    BY <1>3, PickedIn
  <2> QED BY <2>1 DEF Add
<1>5. IsFold(F, Add, 0, f, S)
  BY <1>4 DEF IsFold, IsSum
<1> QED BY <1>5, AddCommutes, FoldStep DEF AddsUp

\* Sums over sets of which one renames the elements of the other are equal.
LEMMA SumRenamed ==
  ASSUME NEW S, IsFiniteSet(S), NEW f \in [S -> Nat], NEW F, IsSum(F, f, S),
         NEW T, IsFiniteSet(T), NEW g \in [T -> Nat], NEW G, IsSum(G, g, T),
         NEW h, h \in Injection(S, T), h \in Surjection(S, T), \A x \in S : f[x] = g[h[x]]
  PROVE  F[S] = G[T]
<1>1. {h[x] : x \in S} = T
  BY DEF Injection, Surjection
<1>2. F[S] = G[{h[x] : x \in S}]
  BY SumStep, FoldRenamed DEF AddsUp
<1> QED BY <1>1, <1>2, Zenon

\* The sum over a set is that of a function that adds up.
LEMMA SumFunctionIs ==
  ASSUME NEW S, IsFiniteSet(S), NEW f, \A x \in S : f[x] \in Nat
  PROVE  \E F : AddsUp(F, f, S) /\ SumFunctionOnSet(f, S) = F[S]
<1> DEFINE F == CHOOSE F : IsSum(F, f, S)
<1>1. SumFunctionOnSet(f, S) = F[S]
  BY DEF SumFunctionOnSet, FoldFunctionOnSet, MapThenFoldSet, IsSum, Picked
<1>2. IsSum(F, f, S)
  BY SumExists
<1> HIDE DEF F
<1> QED BY <1>1, <1>2, SumStep

\* Sums over subsets of one set.
LEMMA SumsIn ==
  ASSUME NEW T, IsFiniteSet(T), NEW f, \A x \in T : f[x] \in Nat
  PROVE  \E F : AddsUp(F, f, T) /\ \A S \in SUBSET T : SumFunctionOnSet(f, S) = F[S]
<1>1. PICK F : AddsUp(F, f, T)
  BY SumFunctionIs
<1>2. ASSUME NEW S \in SUBSET T PROVE SumFunctionOnSet(f, S) = F[S]
  <2>1. IsFiniteSet(S)
    BY FS_Subset
  <2>2. PICK G : AddsUp(G, f, S) /\ SumFunctionOnSet(f, S) = G[S]
    BY <2>1, SumFunctionIs
  <2> QED BY <1>1, <2>1, <2>2, FoldKept DEF AddsUp
<1> QED BY <1>1, <1>2

\* A sum is a number; one element more adds what is its own; a sum of zeros is 0.
LEMMA SumAdded ==
  ASSUME NEW T, IsFiniteSet(T), NEW f, \A x \in T : f[x] \in Nat, NEW S \in SUBSET T
  PROVE  /\ SumFunctionOnSet(f, S) \in Nat
         /\ \A x \in T \ S : SumFunctionOnSet(f, S \cup {x}) = f[x] + SumFunctionOnSet(f, S)
         /\ (\A x \in S : f[x] = 0) => SumFunctionOnSet(f, S) = 0
<1>1. PICK F : AddsUp(F, f, T) /\ \A s \in SUBSET T : SumFunctionOnSet(f, s) = F[s]
  BY SumsIn
<1>2. F \in [SUBSET T -> Nat] /\ F[{}] = 0 /\ \A s \in SUBSET T : \A x \in s : F[s] = f[x] + F[s \ {x}]
  <2>1. F \in [SUBSET T -> Nat] /\ F[{}] = 0 /\ \A s \in SUBSET T : \A x \in s : F[s] = Add[<<f[x], F[s \ {x}]>>]
    BY <1>1 DEF AddsUp, Folds
  <2>2. \A s \in SUBSET T : \A x \in s : f[x] \in Nat /\ F[s \ {x}] \in Nat
    BY <2>1
  <2> QED BY <2>1, <2>2 DEF Add
<1>3. ASSUME NEW x \in T \ S PROVE F[S \cup {x}] = f[x] + F[S]
  <2>1. S \cup {x} \in SUBSET T /\ (S \cup {x}) \ {x} = S
    OBVIOUS
  <2>2. F[S \cup {x}] = f[x] + F[(S \cup {x}) \ {x}]
    BY <1>2, <2>1
  <2> QED BY <2>1, <2>2
<1>4. ASSUME \A x \in S : f[x] = 0 PROVE F[S] = 0
  <2> DEFINE P == {s \in SUBSET S : F[s] = 0}
  <2>1. ASSUME NEW s \in SUBSET S, \A x \in s : s \ {x} \in P PROVE s \in P
    <3>1. CASE s = {}
      BY <1>2, <3>1, Zenon
    <3>2. CASE s # {}
      <4>1. PICK x \in s : TRUE
        BY <3>2
      <4>2. s \in SUBSET T /\ F[s \ {x}] = 0 /\ f[x] = 0
        BY <1>4, <2>1, <4>1
      <4>3. F[s] = f[x] + F[s \ {x}]
        BY <1>2, <4>1, <4>2
      <4> QED BY <4>2, <4>3
    <3> QED BY <3>1, <3>2
  <2>2. IsFiniteSet(S)
    BY FS_Subset
  <2> HIDE DEF P
  <2>3. S \in P
    BY <2>1, <2>2, SetInduction
  <2> QED BY <2>3 DEF P
<1>5. \A x \in T \ S : S \cup {x} \in SUBSET T
  OBVIOUS
<1> QED BY <1>1, <1>2, <1>3, <1>4, <1>5

\* One of the numbers becomes smaller by one.
LEMMA SumLowered ==
  ASSUME NEW T, IsFiniteSet(T), NEW f, NEW g, \A x \in T : f[x] \in Nat /\ g[x] \in Nat,
         NEW S \in SUBSET T, NEW y \in S, f[y] = g[y] + 1, \A x \in S \ {y} : f[x] = g[x]
  PROVE  SumFunctionOnSet(f, S) = SumFunctionOnSet(g, S) + 1
<1> DEFINE R == S \ {y}
<1>1. R \in SUBSET T /\ y \in T \ R /\ R \cup {y} = S /\ IsFiniteSet(R)
  BY FS_Subset
<1>2. \A x \in R : f[x] = g[x]
  OBVIOUS
<1> HIDE DEF R
<1>3. PICK F : AddsUp(F, f, R) /\ SumFunctionOnSet(f, R) = F[R]
  BY <1>1, SumFunctionIs
<1>4. PICK G : AddsUp(G, g, R) /\ SumFunctionOnSet(g, R) = G[R]
  BY <1>1, SumFunctionIs
<1>5. F[R] = G[R]
  BY <1>1, <1>2, <1>3, <1>4, FoldKept DEF AddsUp
<1>6. /\ SumFunctionOnSet(f, S) = f[y] + SumFunctionOnSet(f, R)
      /\ SumFunctionOnSet(g, S) = g[y] + SumFunctionOnSet(g, R)
      /\ SumFunctionOnSet(g, R) \in Nat
  <2>1. /\ SumFunctionOnSet(f, R \cup {y}) = f[y] + SumFunctionOnSet(f, R)
        /\ SumFunctionOnSet(g, R \cup {y}) = g[y] + SumFunctionOnSet(g, R)
        /\ SumFunctionOnSet(g, R) \in Nat
    BY <1>1, SumAdded
  <2> QED BY <1>1, <2>1
<1> QED BY <1>3, <1>4, <1>5, <1>6

-----------------------------------------------------------------------------
(***************************************************************************)
(* The statistics.  Fractions are added like numbers.                      *)
(***************************************************************************)
Fraction == Nat \X (Nat \ {0})
IsRatios(F, f, S) ==
  F = [s \in SUBSET S |-> IF s = {} THEN <<0, 1>> ELSE Plus(f[Picked(s)], F[s \ {Picked(s)}])]
AddFractions == [xy \in Fraction \X Fraction |-> Plus(xy[1], xy[2])]
RatiosAddUp(F, f, S) == Folds(F, AddFractions, <<0, 1>>, f, S, Fraction)

LEMMA PlusType ==
  ASSUME NEW x \in Fraction, NEW y \in Fraction
  PROVE  Plus(x, y) \in Fraction /\ AddFractions[<<x, y>>] = Plus(x, y)
<1>1. ASSUME NEW a \in Nat, NEW b \in Nat PROVE a * b \in Nat /\ (a # 0 /\ b # 0 => a * b # 0)
  OBVIOUS
<1>2. x[1] \in Nat /\ x[2] \in Nat \ {0} /\ y[1] \in Nat /\ y[2] \in Nat \ {0}
  BY DEF Fraction
<1>3. x[1] * y[2] \in Nat /\ y[1] * x[2] \in Nat /\ x[2] * y[2] \in Nat \ {0}
  BY <1>1, <1>2
<1>4. Plus(x, y) \in Fraction
  BY <1>3 DEF Plus, Fraction
<1>5. <<x, y>> \in Fraction \X Fraction /\ <<x, y>>[1] = x /\ <<x, y>>[2] = y
  OBVIOUS
<1> QED BY <1>4, <1>5 DEF AddFractions

LEMMA AddFractionsCommutes == Commutes(AddFractions, Fraction)
<1>1. AddFractions \in [Fraction \X Fraction -> Fraction]
  <2>1. \A xy \in Fraction \X Fraction : xy[1] \in Fraction /\ xy[2] \in Fraction
    OBVIOUS
  <2>2. \A xy \in Fraction \X Fraction : Plus(xy[1], xy[2]) \in Fraction
    BY <2>1, PlusType
  <2> QED BY <2>2 DEF AddFractions
<1>2. ASSUME NEW x \in Fraction, NEW y \in Fraction, NEW z \in Fraction
      PROVE  AddFractions[<<x, AddFractions[<<y, z>>]>>] = AddFractions[<<y, AddFractions[<<x, z>>]>>]
  <2>1. /\ AddFractions[<<x, AddFractions[<<y, z>>]>>] = Plus(x, Plus(y, z))
        /\ AddFractions[<<y, AddFractions[<<x, z>>]>>] = Plus(y, Plus(x, z))
    BY PlusType
  <2>2. /\ x[1] \in Nat /\ x[2] \in Nat /\ y[1] \in Nat /\ y[2] \in Nat /\ z[1] \in Nat /\ z[2] \in Nat
    BY DEF Fraction
  <2>3. ASSUME NEW a \in Nat, NEW b \in Nat, NEW c \in Nat, NEW d \in Nat, NEW e \in Nat, NEW f \in Nat
        PROVE  /\ a * (d * f) + (c * f + e * d) * b = c * (b * f) + (a * f + e * b) * d
               /\ b * (d * f) = d * (b * f)
    OBVIOUS
  <2>4. Plus(x, Plus(y, z)) = Plus(y, Plus(x, z))
    BY <2>2, <2>3 DEF Plus
  <2> QED BY <2>1, <2>4
<1> QED BY <1>1, <1>2 DEF Commutes

LEMMA RatiosExist ==
  ASSUME NEW S, IsFiniteSet(S), NEW f, \A x \in S : f[x] \in Fraction
  PROVE  \E F : IsRatios(F, f, S) /\ RatiosAddUp(F, f, S)
<1>0. <<0, 1>> \in Fraction
  BY DEF Fraction
<1>1. PICK F : IsFold(F, AddFractions, <<0, 1>>, f, S)
  BY <1>0, AddFractionsCommutes, FoldExists DEF Commutes
<1>2. Folds(F, AddFractions, <<0, 1>>, f, S, Fraction)
  BY <1>0, <1>1, AddFractionsCommutes, FoldStep
<1>3. RatiosAddUp(F, f, S)
  BY <1>2 DEF RatiosAddUp
<1>4. \A s \in SUBSET S : s # {} =>
        AddFractions[<<f[Picked(s)], F[s \ {Picked(s)}]>>] = Plus(f[Picked(s)], F[s \ {Picked(s)}])
  <2> SUFFICES ASSUME NEW s \in SUBSET S, s # {}
               PROVE  AddFractions[<<f[Picked(s)], F[s \ {Picked(s)}]>>] = Plus(f[Picked(s)], F[s \ {Picked(s)}])
    OBVIOUS
  <2>1. Picked(s) \in S /\ F[s \ {Picked(s)}] \in Fraction
    BY <1>2, PickedIn DEF Folds
  <2> QED BY <1>0, <2>1, PlusType
<1>5. IsRatios(F, f, S)
  BY <1>1, <1>4 DEF IsFold, IsRatios
<1> QED BY <1>3, <1>5

LEMMA RatiosStep ==
  ASSUME NEW S, IsFiniteSet(S), NEW f, \A x \in S : f[x] \in Fraction, NEW F, IsRatios(F, f, S)
  PROVE  RatiosAddUp(F, f, S)
<1>0. <<0, 1>> \in Fraction
  BY DEF Fraction
<1>1. /\ F[{}] = <<0, 1>>
      /\ \A s \in SUBSET S : s # {} => F[s] = Plus(f[Picked(s)], F[s \ {Picked(s)}])
  BY DEF IsRatios
<1> DEFINE P == {s \in SUBSET S : F[s] \in Fraction}
<1>2. ASSUME NEW s \in SUBSET S, \A x \in s : s \ {x} \in P PROVE s \in P
  <2>1. CASE s = {}
    <3>1. F[{}] \in Fraction
      BY <1>0, <1>1
    <3> QED BY <2>1, <3>1, Zenon
  <2>2. CASE s # {}
    <3>1. Picked(s) \in s /\ Picked(s) \in S
      BY <2>2, PickedIn
    <3>2. F[s \ {Picked(s)}] \in Fraction /\ f[Picked(s)] \in Fraction
      BY <1>2, <3>1
    <3> QED BY <1>1, <2>2, <3>2, PlusType
  <2> QED BY <2>1, <2>2
<1>3. \A s \in SUBSET S : s \in P
  <2> HIDE DEF P
  <2> QED BY <1>2, SetInduction
<1>4. \A s \in SUBSET S : s # {} =>
        AddFractions[<<f[Picked(s)], F[s \ {Picked(s)}]>>] = Plus(f[Picked(s)], F[s \ {Picked(s)}])
  <2> SUFFICES ASSUME NEW s \in SUBSET S, s # {}
               PROVE  AddFractions[<<f[Picked(s)], F[s \ {Picked(s)}]>>] = Plus(f[Picked(s)], F[s \ {Picked(s)}])
    OBVIOUS
  <2>1. Picked(s) \in S /\ F[s \ {Picked(s)}] \in Fraction
    BY <1>3, PickedIn
  <2> QED BY <1>0, <2>1, PlusType
<1>5. IsFold(F, AddFractions, <<0, 1>>, f, S)
  BY <1>4 DEF IsFold, IsRatios
<1>6. Folds(F, AddFractions, <<0, 1>>, f, S, Fraction)
  BY <1>0, <1>5, AddFractionsCommutes, FoldStep
<1> QED BY <1>6 DEF RatiosAddUp

LEMMA RatiosIs ==
  ASSUME NEW S, IsFiniteSet(S), NEW f, \A p \in S : f[p] \in Fraction
  PROVE  \E F : RatiosAddUp(F, f, S) /\ Ratios(f, S) = F[S]
<1> DEFINE F == CHOOSE F : IsRatios(F, f, S)
<1>1. Ratios(f, S) = F[S]
  BY DEF Ratios, FoldFunctionOnSet, MapThenFoldSet, IsRatios, Picked
<1>2. IsRatios(F, f, S)
  BY RatiosExist
<1> HIDE DEF F
<1> QED BY <1>1, <1>2, RatiosStep

-----------------------------------------------------------------------------
(***************************************************************************)
(* What the statistics are of, and what is printed.                        *)
(***************************************************************************)
\* A function that adds up does so over a larger set.
LEMMA Division ==
  ASSUME NEW a \in Nat, NEW b \in Nat \ {0}
  PROVE  /\ a \div b \in Nat
         /\ (a \div b) * b <= a /\ a < (a \div b) * b + b
<1>1. a = b * (a \div b) + (a % b) /\ a % b \in 0 .. b - 1 /\ a \div b \in Int
  BY SMT
<1>2. a \div b >= 0
  BY SMT
<1>3. b * (a \div b) = (a \div b) * b
  BY <1>1
<1> QED BY <1>1, <1>2, <1>3

LEMMA AtLeastMean ==
  ASSUME NEW a \in Nat, NEW n \in Nat \ {0}
  PROVE  n * (Ceil(<<a, n>>) - 1) < a /\ a <= n * Ceil(<<a, n>>)
<1> DEFINE c == (a + n - 1) \div n
<1>1. c \in Nat /\ c * n <= a + n - 1 /\ a + n - 1 < c * n + n
  <2>1. a + n - 1 \in Nat
    OBVIOUS
  <2> QED BY <2>1, Division
<1>2. Ceil(<<a, n>>) = c
  BY DEF Ceil
<1> HIDE DEF c
<1>3. n * (c - 1) = c * n - n /\ n * c = c * n /\ c * n \in Nat
  BY <1>1
<1> QED BY <1>1, <1>2, <1>3

LEMMA RoundsToNearest ==
  ASSUME NEW f \in Fraction
  PROVE  IsNearest(RoundToTwoDigit(f), f)
<1> DEFINE h == (200 * f[1] + f[2]) \div (2 * f[2])
<1>1. f[1] \in Nat /\ f[2] \in Nat \ {0}
  BY DEF Fraction
<1>2. 200 * f[1] + f[2] \in Nat /\ 2 * f[2] \in Nat \ {0}
  BY <1>1
<1>3. h \in Nat /\ h * (2 * f[2]) <= 200 * f[1] + f[2] /\ 200 * f[1] + f[2] < h * (2 * f[2]) + 2 * f[2]
  BY <1>2, Division
<1> HIDE DEF h
<1>4. h * (2 * f[2]) = 2 * (h * f[2]) /\ h * f[2] \in Nat
  BY <1>1, <1>3
<1>5. IsNearest(h, f)
  BY <1>1, <1>3, <1>4 DEF IsNearest
<1> QED BY <1>5 DEF h, RoundToTwoDigit

LEMMA LessTransitive ==
  ASSUME NEW x \in Fraction, NEW y \in Fraction, NEW z \in Fraction, Less(x, y), Less(y, z)
  PROVE  Less(x, z)
<1>1. ASSUME NEW a \in Nat, NEW b \in Nat, NEW c \in Nat \ {0} PROVE a < b <=> a * c < b * c
  OBVIOUS
<1>2. x[1] \in Nat /\ x[2] \in Nat \ {0} /\ y[1] \in Nat /\ y[2] \in Nat \ {0} /\ z[1] \in Nat /\ z[2] \in Nat \ {0}
  BY DEF Fraction
<1>3. /\ x[1] * y[2] \in Nat /\ y[1] * x[2] \in Nat /\ y[1] * z[2] \in Nat /\ z[1] * y[2] \in Nat
      /\ x[1] * z[2] \in Nat /\ z[1] * x[2] \in Nat
  BY <1>2
<1>4. (x[1] * y[2]) * z[2] < (y[1] * x[2]) * z[2]
  BY <1>1, <1>2, <1>3 DEF Less
<1>5. (y[1] * z[2]) * x[2] < (z[1] * y[2]) * x[2]
  BY <1>1, <1>2, <1>3 DEF Less
<1>6. /\ (x[1] * y[2]) * z[2] = (x[1] * z[2]) * y[2]
      /\ (y[1] * x[2]) * z[2] = (y[1] * z[2]) * x[2]
      /\ (z[1] * y[2]) * x[2] = (z[1] * x[2]) * y[2]
  BY <1>2
<1>7. (x[1] * z[2]) * y[2] < (z[1] * x[2]) * y[2]
  <2>1. /\ (x[1] * y[2]) * z[2] \in Nat /\ (y[1] * x[2]) * z[2] \in Nat
        /\ (y[1] * z[2]) * x[2] \in Nat /\ (z[1] * y[2]) * x[2] \in Nat
    BY <1>2, <1>3
  <2> QED BY <1>4, <1>5, <1>6, <2>1
<1> QED BY <1>1, <1>2, <1>3, <1>7 DEF Less

\* Nothing is reported at the start.
LEMMA NothingAgrees ==
  ASSUME NEW st, NEW run,
         st = [totalDeltaTime |-> 0, numRunnedProcesses |-> 0,
               maxTimeOverhead |-> <<0, 1>>, totalTimeOverhead |-> <<0, 1>>]
  PROVE  Agrees(st, run, {})
<1>1. IsFiniteSet({}) /\ Cardinality({}) = 0
  BY FS_EmptySet
<1>2. PICK F : AddsUp(F, [p \in {} |-> run[p][1]], {}) /\ Taken(run, {}) = F[{}]
  <2>1. [p \in {} |-> run[p][1]] \in [{} -> Nat]
    OBVIOUS
  <2> QED BY <1>1, <2>1, SumFunctionIs DEF Taken
<1>3. PICK G : RatiosAddUp(G, run, {}) /\ Ratios(run, {}) = G[{}]
  BY <1>1, RatiosIs
<1> QED BY <1>1, <1>2, <1>3 DEF AddsUp, RatiosAddUp, Folds, Agrees

\* One more process.
LEMMA CollectAgrees ==
  ASSUME NEW st, NEW st2, NEW S, IsFiniteSet(S), NEW x, x \notin S, NEW run, NEW run2,
         Agrees(st, run, S), \A p \in S : run[p] \in Fraction /\ run2[p] = run[p],
         run2[x] \in Fraction, run2[x][1] > 0,
         st2 = [totalDeltaTime |-> st.totalDeltaTime + run2[x][1],
                numRunnedProcesses |-> st.numRunnedProcesses + 1,
                maxTimeOverhead |-> IF Less(st.maxTimeOverhead, run2[x]) THEN run2[x] ELSE st.maxTimeOverhead,
                totalTimeOverhead |-> Plus(st.totalTimeOverhead, run2[x])]
  PROVE  Agrees(st2, run2, S \cup {x})
<1> DEFINE T == S \cup {x}
<1>1. IsFiniteSet(T) /\ Cardinality(T) = Cardinality(S) + 1 /\ Cardinality(S) \in Nat
  BY FS_AddElement, FS_CardinalityType
<1>2. S \subseteq T /\ T \ {x} = S /\ S \in SUBSET S /\ x \in T /\ T # {}
  OBVIOUS
<1>3. \A p \in T : run2[p] \in Fraction
  OBVIOUS
<1> HIDE DEF T
<1>4. st2.totalDeltaTime = Taken(run2, T)
  <2> DEFINE f == [p \in S |-> run[p][1]]  g == [p \in T |-> run2[p][1]]
  <2>1. f \in [S -> Nat] /\ g \in [T -> Nat] /\ g[x] = run2[x][1] /\ \A p \in S : f[p] = g[p]
    BY <1>2, <1>3 DEF Fraction
  <2>2. Taken(run, S) = SumFunctionOnSet(f, S) /\ Taken(run2, T) = SumFunctionOnSet(g, T)
    BY DEF Taken
  <2> HIDE DEF f, g
  <2>3. PICK F : AddsUp(F, f, S) /\ SumFunctionOnSet(f, S) = F[S]
    BY <2>1, SumFunctionIs
  <2>4. PICK G : AddsUp(G, g, T) /\ SumFunctionOnSet(g, T) = G[T]
    BY <1>1, <2>1, SumFunctionIs
  <2>5. F[S] = G[S]
    BY <1>2, <2>1, <2>3, <2>4, FoldKept DEF AddsUp
  <2>6. G[T] = Add[<<g[x], G[T \ {x}]>>] /\ G \in [SUBSET T -> Nat]
    BY <1>2, <2>4 DEF AddsUp, Folds
  <2>7. G[T] = Add[<<g[x], G[S]>>] /\ G[S] \in Nat /\ g[x] \in Nat
    <3>1. G[T \ {x}] = G[S]
      BY <1>2, Zenon
    <3>2. S \in SUBSET T
      BY <1>2
    <3> QED BY <1>2, <2>1, <2>6, <3>1, <3>2
  <2>8. Add[<<g[x], G[S]>>] = g[x] + G[S]
    BY <2>7 DEF Add
  <2> QED BY <2>1, <2>2, <2>3, <2>4, <2>5, <2>7, <2>8 DEF Agrees
<1>5. st2.totalTimeOverhead = Ratios(run2, T)
  <2>1. PICK F : RatiosAddUp(F, run, S) /\ Ratios(run, S) = F[S]
    BY RatiosIs
  <2>2. PICK G : RatiosAddUp(G, run2, T) /\ Ratios(run2, T) = G[T]
    BY <1>1, <1>3, RatiosIs
  <2>3. F[S] = G[S]
    BY <1>2, <2>1, <2>2, FoldKept DEF RatiosAddUp
  <2>4. G[T] = AddFractions[<<run2[x], G[T \ {x}]>>] /\ G \in [SUBSET T -> Fraction]
    BY <1>2, <2>2 DEF RatiosAddUp, Folds
  <2>5. G[T] = AddFractions[<<run2[x], G[S]>>] /\ G[S] \in Fraction
    <3>1. G[T \ {x}] = G[S]
      BY <1>2, Zenon
    <3>2. S \in SUBSET T
      BY <1>2
    <3> QED BY <2>4, <3>1, <3>2
  <2>6. G[T] = Plus(run2[x], G[S])
    BY <2>5, PlusType
  <2>7. Plus(run2[x], G[S]) = Plus(G[S], run2[x])
    <3>1. \A a, b, c, d \in Nat : a * d + c * b = c * b + a * d /\ b * d = d * b
      OBVIOUS
    <3>2. run2[x][1] \in Nat /\ run2[x][2] \in Nat /\ G[S][1] \in Nat /\ G[S][2] \in Nat
      BY <2>5 DEF Fraction
    <3> QED BY <3>1, <3>2 DEF Plus
  <2>8. st.totalTimeOverhead = G[S]
    BY <2>1, <2>3 DEF Agrees
  <2> QED BY <2>2, <2>6, <2>7, <2>8
<1>6. IsLargest(st2.maxTimeOverhead, run2, T)
  <2> DEFINE max == st.maxTimeOverhead  new == run2[x]
  <2>1. st2.maxTimeOverhead = IF Less(max, new) THEN new ELSE max
    OBVIOUS
  <2>2. \A f \in Fraction : ~Less(f, f)
    BY DEF Less, Fraction
  <2>3. CASE S = {}
    <3>1. max = <<0, 1>> /\ T = {x}
      BY <2>3 DEF Agrees, T
    <3>2. Less(max, new)
      BY <3>1 DEF Less, Fraction
    <3> QED BY <2>1, <2>2, <3>1, <3>2 DEF IsLargest
  <2>4. CASE S # {}
    <3>1. PICK p \in S : max = run[p] /\ \A q \in S : ~Less(max, run[q])
      BY <2>4 DEF Agrees, IsLargest
    <3>2. max = run2[p] /\ max \in Fraction /\ \A q \in S : ~Less(max, run2[q])
      BY <3>1
    <3>3. ASSUME Less(max, new), NEW q \in T PROVE ~Less(new, run2[q])
      <4>1. CASE q \in S
        BY <1>3, <3>2, <3>3, <4>1, LessTransitive
      <4>2. CASE q = x
        BY <2>2, <4>2
      <4> QED BY <4>1, <4>2 DEF T
    <3>4. ASSUME ~Less(max, new), NEW q \in T PROVE ~Less(max, run2[q])
      BY <3>2, <3>4 DEF T
    <3> HIDE DEF max
    <3>5. CASE Less(max, new)
      BY <1>2, <2>1, <3>3, <3>5 DEF IsLargest
    <3>6. CASE ~Less(max, new)
      BY <1>2, <2>1, <3>2, <3>4, <3>6 DEF IsLargest
    <3> QED BY <3>5, <3>6
  <2> QED BY <2>3, <2>4
<1>7. st2.numRunnedProcesses = Cardinality(T)
  BY <1>1 DEF Agrees
<1> QED BY <1>2, <1>4, <1>5, <1>6, <1>7 DEF Agrees, T

\* What is printed for statistics that are those of all processes.
LEMMA AgreesPrints ==
  ASSUME NEW run, NEW S, S = DOMAIN run, IsFiniteSet(S), S # {}, \A p \in S : run[p] \in Fraction,
         Agrees(stats, run, S)
  PROVE  PrintedOf(run)
<1> DEFINE n == Cardinality(S)
<1>1. n \in Nat \ {0}
  BY FS_CardinalityType, FS_EmptySet
<1>2. n * (TurnaroundTime - 1) < Taken(run, S) /\ Taken(run, S) <= n * TurnaroundTime
  <2>1. PICK F : AddsUp(F, [p \in S |-> run[p][1]], S) /\ Taken(run, S) = F[S]
    <3>1. [p \in S |-> run[p][1]] \in [S -> Nat]
      BY DEF Fraction
    <3> QED BY <3>1, SumFunctionIs DEF Taken
  <2>2. Taken(run, S) \in Nat
    BY <2>1 DEF AddsUp, Folds
  <2>3. TurnaroundTime = Ceil(<<Taken(run, S), n>>)
    BY DEF TurnaroundTime, RoundToInt, Agrees
  <2> HIDE DEF n
  <2> QED BY <1>1, <2>2, <2>3, AtLeastMean
<1>3. \E f \in {run[p] : p \in S} : IsNearest(MaxOverhead, f) /\ IsLargest(f, run, S)
  <2>1. IsLargest(stats.maxTimeOverhead, run, S)
    BY DEF Agrees
  <2>2. PICK p \in S : stats.maxTimeOverhead = run[p]
    BY <2>1 DEF IsLargest
  <2>3. IsNearest(MaxOverhead, run[p])
    BY <2>2, RoundsToNearest DEF MaxOverhead
  <2> QED BY <2>1, <2>2, <2>3
<1>4. IsNearest(MeanOverhead, <<Ratios(run, S)[1], Ratios(run, S)[2] * n>>)
  <2>1. PICK F : RatiosAddUp(F, run, S) /\ Ratios(run, S) = F[S]
    BY RatiosIs
  <2>2. Ratios(run, S) \in Fraction
    BY <2>1 DEF RatiosAddUp, Folds
  <2>3. stats.totalTimeOverhead = Ratios(run, S) /\ stats.numRunnedProcesses = n
    BY DEF Agrees
  <2> HIDE DEF n
  <2>4. Ratios(run, S)[1] \in Nat /\ Ratios(run, S)[2] * n \in Nat \ {0}
    <3>1. \A a, b \in Nat \ {0} : a * b \in Nat \ {0}
      OBVIOUS
    <3> QED BY <1>1, <2>2, <3>1 DEF Fraction
  <2>5. <<Ratios(run, S)[1], Ratios(run, S)[2] * n>> \in Fraction
    BY <2>4 DEF Fraction
  <2> QED BY <2>3, <2>5, RoundsToNearest DEF MeanOverhead
<1> QED BY <1>2, <1>3, <1>4 DEF PrintedOf
=============================================================================
