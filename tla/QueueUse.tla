------------------------------- MODULE QueueUse -------------------------------
(***************************************************************************)
(* The scheduler loops use the queues as QueueClient does, so that what is *)
(* proved of QueueClient holds of them: only a root is charged, only a     *)
(* root with no time left is deleted, every process is created once, and   *)
(* what was deleted is freed before the next call to any queue.            *)
(***************************************************************************)
EXTENDS QueueInvariants

Client == INSTANCE QueueClient WITH Time <- Nat

\* Every step of the loops is a step of the client or leaves the queues alone:
\* sim.c:180-331 with one processor, sim.c:349-762 with several.
ImplementsQueueClient == Client!Init /\ [][Client!Next]_queueVars
=============================================================================
