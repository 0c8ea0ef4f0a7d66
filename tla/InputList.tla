------------------------------ MODULE InputList ------------------------------
(***************************************************************************)
(* The list of the processes still to arrive (linkedlist.c), as a sequence *)
(* of nodes.  The dummy head carries no data and is left out.  The sorts   *)
(* are selection sorts that exchange the data of two nodes; here one pass  *)
(* of their outer loop is one action.  A caller first lets its sorts run   *)
(* and then takes the nodes from the front.                                *)
(***************************************************************************)
EXTENDS InputNodes

VARIABLES
  inputList,  \* the nodes
  sorts,      \* the sorts still to be made, by the field they compare
  pass        \* p, the node the outer loop of the first of them has come to

listVars == <<inputList, sorts, pass>>

Field == {"pid", "exec", "arrival"}

\* Mutant: the list is taken in the order of the lines.
InitList_Unsorted(file, fields) == inputList = file /\ sorts = <<>> /\ pass = 1

\* The list read from a file, and the sorts of HandleOneCPU or HandleMultiCPU.
InitList(file, fields) == inputList = file /\ sorts = fields /\ pass = 1

\* Mutant: the inner loop starts one node too late.
FirstSmallest_SkipsOne(L, n, m, field) ==
  /\ m \in n + 1 .. Len(L)
  /\ \A k \in n + 1 .. Len(L) : L[m][field] <= L[k][field]

\* Node m is the first of the smallest nodes from node n on: the inner loop,
\* whose comparison is strict.
FirstSmallest(L, n, m, field) ==
  /\ m \in n .. Len(L)
  /\ \A k \in n .. Len(L) : L[m][field] <= L[k][field]
  /\ \A k \in n .. m - 1 : L[m][field] < L[k][field]

\* The data of two nodes change places, the nodes stay.
SwapNodes(L, m, n) ==
  [k \in 1 .. Len(L) |-> IF k = m THEN L[n] ELSE IF k = n THEN L[m] ELSE L[k]]

\* One pass puts the smallest of the remaining nodes in its place.  What was
\* there moves to the place of the smallest: the sorts are not stable.
SortPass ==
  /\ sorts # <<>> /\ pass < Len(inputList)
  /\ \E m \in 1 .. Len(inputList) :
       /\ FirstSmallest(inputList, pass, m, Head(sorts))
       /\ inputList' = SwapNodes(inputList, pass, m)
  /\ pass' = pass + 1
  /\ UNCHANGED sorts

\* The last node needs no pass: the sort returns.
EndSort ==
  /\ sorts # <<>> /\ pass >= Len(inputList)
  /\ sorts' = Tail(sorts) /\ pass' = 1
  /\ UNCHANGED inputList

SortStep == SortPass \/ EndSort

\* The read of the first node, and its removal.
GetFromInputList == Head(inputList)
UpdateInputList == inputList' = Tail(inputList) /\ UNCHANGED <<sorts, pass>>

-----------------------------------------------------------------------------
\* The passes made so far have sorted the nodes before pass, and none of the
\* nodes behind it belongs before them.
PassesDone == sorts # <<>> =>
  \A m \in 1 .. pass - 1 : \A n \in m .. Len(inputList) :
    inputList[m][Head(sorts)] <= inputList[n][Head(sorts)]

\* The sorts end with the one by arrival: its result is what the callers rely on.
Sorted == sorts = <<>> =>
  \A m, n \in 1 .. Len(inputList) : m <= n => inputList[m].arrival <= inputList[n].arrival

\* What holds at every step.
ListInv ==
  /\ inputList \in Seq(Node) /\ sorts \in Seq(Field) /\ pass \in Nat \ {0}
  /\ sorts # <<>> => sorts[Len(sorts)] = "arrival"
  /\ PassesDone /\ Sorted
=============================================================================
