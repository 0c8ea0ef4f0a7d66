------------------------------ MODULE InputNodes ------------------------------
(***************************************************************************)
(* The nodes of the input list (input_node_t in linkedlist.h), and what    *)
(* the schedulers need of a list: InputFile hands such a list over, the    *)
(* schedulers assume one.                                                  *)
(***************************************************************************)
EXTENDS Integers, Sequences

Node == [pid : Nat, arrival : Nat, exec : Nat \ {0}, parallel : {0, 1}]

\* A list with something in it, from a file of at least as many lines.
ListOf(L, lines) == L \in Seq(Node) /\ Len(L) \in 1 .. lines

PidsOf(L) == {L[n].pid : n \in 1 .. Len(L)}

\* No process id occurs twice.
PidsDiffer(L) == \A m, n \in 1 .. Len(L) : L[m].pid = L[n].pid => m = n
=============================================================================
