------------------------------ MODULE MCOverflow ------------------------------
\* One file of six lines: three processes that load the processors unevenly at
\* time 0, and three that are split in three at time 1.
EXTENDS MultiCpuProperties
MCCpu == 0 .. numCPU - 1
MCProc == (1 .. 6) \X MCCpu
MCFiles ==
  {[n \in 1 .. 6 |-> [pid |-> n, arrival |-> <<0, 0, 0, 1, 1, 1>>[n],
                      exec |-> <<1, 2, 60, 3, 3, 3>>[n], parallel |-> IF n <= 3 THEN 0 ELSE 1]]}
=============================================================================
