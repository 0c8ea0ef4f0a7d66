------------------------------ MODULE MCMultiCpu ------------------------------
\* Every workload of three processes, parallelisable or not, and of two of which
\* one, parallelisable, has its id repeated by a later line.
EXTENDS MultiCpuProperties
CONSTANTS MaxArrival, MaxTime
MCCpu == 0 .. numCPU - 1
MCProc == (1 .. 3) \X MCCpu
Workload(ids) ==
  {[n \in 1 .. 3 |-> [pid |-> ids[n], arrival |-> a[n], exec |-> e[n], parallel |-> s[n]]] :
     a \in [1 .. 3 -> 0 .. MaxArrival], e \in [1 .. 3 -> 1 .. MaxTime], s \in [1 .. 3 -> {0, 1}]}
MCFiles == Workload(<<3, 1, 2>>) \cup {f \in Workload(<<2, 1, 2>>) : RepeatsApart(f)}
=============================================================================
