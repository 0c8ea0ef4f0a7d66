------------------------------- MODULE MCOneCpu -------------------------------
\* Every workload of four processes that arrive within two ticks, read from
\* lines in an order that the sorts have to change.
EXTENDS OneCpuProperties
CONSTANTS MaxArrival, MaxTime
MCCpu == {0}
MCProc == {<<pid, 0>> : pid \in 1 .. 4}
MCFiles ==
  {[i \in 1 .. 4 |-> [pid |-> <<3, 1, 4, 2>>[i], arrival |-> a[i], exec |-> e[i], parallel |-> 0]] :
     a \in [1 .. 4 -> 0 .. MaxArrival], e \in [1 .. 4 -> 1 .. MaxTime]}
=============================================================================
