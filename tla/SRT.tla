--------------------------------- MODULE SRT ---------------------------------
(***************************************************************************)
(* Shortest remaining time on one processor, as README.md:14 of the source *)
(* asks for it, with no queue: the processes that arrived are a set.       *)
(***************************************************************************)
EXTENDS Integers

CONSTANTS Proc, None

VARIABLES
  now,      \* the time
  due,      \* when each process arrives; it never changes
  left,     \* the execution time each process has left
  arrived,  \* the processes that have arrived
  cur       \* the process that has the processor, or None

srtVars == <<now, due, left, arrived, cur>>

Ready == {p \in arrived : left[p] > 0}
Shortest == {p \in Ready : \A q \in Ready : left[p] <= left[q]}
AllArrived == \A p \in Proc \ arrived : due[p] > now

Init ==
  /\ now = 0 /\ arrived = {} /\ cur = None
  /\ due \in [Proc -> Nat] /\ left \in [Proc -> Nat \ {0}]

\* "scheduled if there is no other process running"; else the running process
\* "is postponed [...] if and only if j has a shorter execution time".
Arrive(j) ==
  /\ j \in Proc \ arrived /\ due[j] = now
  /\ cur = None => Ready = {}
  /\ arrived' = arrived \cup {j}
  /\ cur' = IF cur = None \/ left[j] < left[cur] THEN j ELSE cur
  /\ UNCHANGED <<now, due, left>>

\* "resumed [...] if it is the process with the shortest remaining time left".
Dispatch ==
  /\ cur = None
  /\ cur' \in Shortest
  /\ UNCHANGED <<now, due, left, arrived>>

\* One unit of time for the running process.
Run ==
  /\ cur # None /\ AllArrived
  /\ now' = now + 1
  /\ left' = [left EXCEPT ![cur] = @ - 1]
  /\ cur' = IF left[cur] = 1 THEN None ELSE cur
  /\ UNCHANGED <<due, arrived>>

\* One unit of time with nothing to run, while a process is still to come.
Idle ==
  /\ Ready = {} /\ AllArrived /\ arrived # Proc
  /\ now' = now + 1
  /\ UNCHANGED <<due, left, arrived, cur>>

Next == (\E j \in Proc : Arrive(j)) \/ Dispatch \/ Run \/ Idle

Spec == Init /\ [][Next]_srtVars
=============================================================================
