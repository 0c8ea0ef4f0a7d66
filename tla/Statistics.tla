------------------------------ MODULE Statistics ------------------------------
(***************************************************************************)
(* The statistics that the scheduler loops of sim.c collect whenever a     *)
(* process finishes, and SimRun rounds and prints.  A double is a fraction *)
(* <<numerator, denominator>>: the arithmetic is exact.                    *)
(***************************************************************************)
EXTENDS Integers, FiniteSetsExt

VARIABLE stats

InitStats ==
  stats = [totalDeltaTime |-> 0, numRunnedProcesses |-> 0,
           maxTimeOverhead |-> <<0, 1>>, totalTimeOverhead |-> <<0, 1>>]

Less(x, y) == x[1] * y[2] < y[1] * x[2]
Plus(x, y) == <<x[1] * y[2] + y[1] * x[2], x[2] * y[2]>>

\* A process that needs execTime took deltaTime from its arrival to its end.
Collect(deltaTime, execTime) ==
  LET timeOverhead == <<deltaTime, execTime>>  max == stats.maxTimeOverhead IN
  stats' = [totalDeltaTime |-> stats.totalDeltaTime + deltaTime,
            numRunnedProcesses |-> stats.numRunnedProcesses + 1,
            maxTimeOverhead |-> IF Less(max, timeOverhead) THEN timeOverhead ELSE max,
            totalTimeOverhead |-> Plus(stats.totalTimeOverhead, timeOverhead)]

-----------------------------------------------------------------------------
\* The least integer that is not below a fraction.
Ceil(f) == (f[1] + f[2] - 1) \div f[2]

RoundToInt(f) == Ceil(f)

\* Mutant: the conversion to an integer does the rounding.
RoundToTwoDigit_Down(f) == (100 * f[1]) \div f[2]

\* In hundredths: 100 * f + 0.5, without its decimals.
RoundToTwoDigit(f) == (200 * f[1] + f[2]) \div (2 * f[2])

\* The three numbers SimRun prints besides the timer, the last two in hundredths.
TurnaroundTime == RoundToInt(<<stats.totalDeltaTime, stats.numRunnedProcesses>>)
MaxOverhead == RoundToTwoDigit(stats.maxTimeOverhead)
MeanOverhead ==
  RoundToTwoDigit(<<stats.totalTimeOverhead[1],
                    stats.totalTimeOverhead[2] * stats.numRunnedProcesses>>)

-----------------------------------------------------------------------------
\* h hundredths are as near to a fraction as any other number of them.
IsNearest(h, f) == LET twice == 2 * (h * f[2] - 100 * f[1]) IN twice \in -f[2] .. f[2]

Taken(run, S) == SumFunctionOnSet([p \in S |-> run[p][1]], S)
Ratios(run, S) == FoldFunctionOnSet(Plus, <<0, 1>>, run, S)
IsLargest(f, run, S) == \E p \in S : f = run[p] /\ \A q \in S : ~Less(f, run[q])

\* What is printed when run[p] is the time each process p took and the time it
\* needed: the least integer not below the mean time taken, the largest ratio of
\* the two, and their mean.
PrintedOf(run) ==
  LET S == DOMAIN run  n == Cardinality(S) IN
  /\ n * (TurnaroundTime - 1) < Taken(run, S) /\ Taken(run, S) <= n * TurnaroundTime
  /\ \E f \in {run[p] : p \in S} : IsNearest(MaxOverhead, f) /\ IsLargest(f, run, S)
  /\ IsNearest(MeanOverhead, <<Ratios(run, S)[1], Ratios(run, S)[2] * n>>)

\* The statistics st are those of the processes S.
Agrees(st, run, S) ==
  /\ st.numRunnedProcesses = Cardinality(S)
  /\ st.totalDeltaTime = Taken(run, S)
  /\ st.totalTimeOverhead = Ratios(run, S)
  /\ IF S = {} THEN st.maxTimeOverhead = <<0, 1>> ELSE IsLargest(st.maxTimeOverhead, run, S)
=============================================================================
