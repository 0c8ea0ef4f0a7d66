--------------------------- MODULE OneCpuProperties ---------------------------
(***************************************************************************)
(* What the simulation with one processor promises.  A heap that deleted   *)
(* while its last process had a tie may have lost a process (IntactUnless- *)
(* Tied): what follows from then on is no promise of the code, and most of *)
(* the properties speak of runs without such a deletion.                   *)
(***************************************************************************)
EXTENDS OneCpu, QueueUse

Sound == call # "undefined" /\ tied = {}

OneTypeOK ==
  /\ TypeOK
  /\ pc \in {"sort", "arrive", "inserted", "tick", "finish", "free", "done"}
  /\ loop \in {"arriving", "remaining"}
  /\ globalTimer \in Nat
  /\ inputList \in Seq(Node) /\ pass \in Nat /\ sorts \in Seq(Field)
  /\ minPtr \in Proc \cup {NULL} /\ isRunning \subseteq Proc
  /\ lastRan \in Proc \cup {NULL} /\ finishedAt \in [Proc -> Nat]

\* The program runs and reports one process, minRemainTimeProcess_ptr, and
\* deletes another pointer, the root of the heap: they are the same whenever a
\* process is queued (sim.c:213-218 and 276-278 keep them so).
MinIsRoot ==
  call = "none" /\ ~IsEmptyPQ(0) /\ pc \notin {"inserted", "free"} =>
    minPtr = FindMinRemainTimeProcess(0)

\* The inner loop takes a process only when the timer EQUALS its arrival time:
\* no step may carry the timer past a process that is still in the list, or
\* the outer loop never ends (sim.c:185 and 195).
NoArrivalMissed == \A i \in 1 .. Len(inputList) : globalTimer <= inputList[i].arrival

\* A RUNNING line is printed exactly when the processor turns to a process: not
\* while it goes on with the one it ran in the last tick, and always when it
\* comes back to one that was postponed (isRunning, sim.c:213-218 and 241-248).
AnnouncedOnSwitch == Sound /\ AtTick => (Announces <=> lastRan # minPtr)

Unfinished == {p \in Proc : remainingTime[p] > 0}
Coming == {ProcOf(inputList[i]) : i \in 1 .. Len(inputList)}

\* The processes that have arrived and have time left.
Ready == Unfinished \ Coming

\* proc_remaining, computed from the size of the heap, is the number of the
\* processes that have arrived and not finished (sim.c:257-260 and 306-309).
RemainingIsCounted ==
  Sound /\ pc = "finish" => ProcRemaining = Cardinality(Ready)

\* When the work that arrives from time t on cannot end before Bound(t).
Bursts == [p \in Proc |-> burstTime(p)]
Bound(t) == t + SumFunctionOnSet(Bursts, {p \in Proc : arrivalTime(p) >= t})

\* The makespan is the time the processor needs when it never rests while work
\* is there: no tick is lost or charged twice between the two loops.
MakespanIsWork ==
  Sound /\ pc = "done" => globalTimer = Max({Bound(arrivalTime(p)) : p \in Proc})

\* What SimRun prints at the end (sim.c:115-118) agrees with the FINISHED lines:
\* each process counts once, in whichever loop it finished, with the time from
\* its arrival to that line.
Runs == [p \in Proc |-> <<finishedAt[p] - arrivalTime(p), burstTime(p)>>]
PrintsWhatHappened == Sound /\ pc = "done" => PrintedOf(Runs)

\* "The simulation should terminate once all processes have run to completion"
\* (README.md:16).
Terminates == <>((pc = "done" /\ Unfinished = {}) \/ ~Sound)

-----------------------------------------------------------------------------
(***************************************************************************)
(* The inductive invariant that MinIsRoot and NoArrivalMissed follow from: *)
(* from where the queue is called, which processes exist and have time     *)
(* left, and what the pointer is at each place.                            *)
(***************************************************************************)
PlaceInv ==
  /\ call \in {"none", "undefined"} \/ (pc = "inserted" /\ call = "siftUp")
                                    \/ (pc = "free" /\ call \in {"siftDown", "pidSort"})
  /\ pc # "sort" => sorts = <<>>
  /\ pc = "sort" => loop = "arriving"
  /\ pc = "inserted" => inputList # <<>> /\ (call = "none" => size[0] >= 1)
  /\ pc = "tick" \/ loop = "remaining" => inputList = <<>>

\* The process that runs, and the one being deleted.
PointerInv ==
  /\ popped = IF pc = "free" THEN minPtr ELSE NULL
  /\ pc = "finish" => call = "none" /\ ~IsEmptyPQ(0)
  /\ pc \in {"finish", "free"} => minPtr \in live /\ remainingTime[minPtr] = 0

\* A process is in the list once and has not been created yet, one that exists
\* has time left.
TimeInv ==
  /\ PidsDiffer(inputList)
  /\ \A n \in 1 .. Len(inputList) :
       LET p == ProcOf(inputList[n]) IN
       /\ p \in Proc /\ remainingTime[p] > 0
       /\ p \in live => pc = "inserted" /\ n = 1
  /\ \A p \in live : remainingTime[p] > 0 \/ (pc \in {"finish", "free"} /\ p = minPtr)

OneInv ==
  /\ OneTypeOK /\ QueueInv /\ ListInv
  /\ PlaceInv /\ PointerInv /\ TimeInv /\ MinIsRoot /\ NoArrivalMissed

-----------------------------------------------------------------------------
(***************************************************************************)
(* The queue, the pointer and the timer implement shortest remaining time  *)
(* (README.md:14).  A process has arrived when its node has left the list; *)
(* nothing is chosen while the pointer is left on a finished process.      *)
(***************************************************************************)
Abstract == INSTANCE SRT WITH
  None <- NULL,
  now <- globalTimer,
  due <- [p \in Proc |-> arrivalTime(p)],
  left <- [p \in Proc |-> remainingTime[p]],
  arrived <- Proc \ Coming,
  cur <- IF minPtr # NULL /\ remainingTime[minPtr] > 0 THEN minPtr ELSE NULL

\* As long as no deletion meets a tie, every step of the program is a step of
\* shortest remaining time or changes nothing it speaks of.
ImplementsSRT == Abstract!Init /\ [][Abstract!Next \/ tied' # {}]_(Abstract!srtVars)

-----------------------------------------------------------------------------
(***************************************************************************)
(* What the refinement needs beside OneInv: which processes the queue      *)
(* holds at each place, and which one an insertion makes the root.         *)
(***************************************************************************)

\* The queue holds the processes that are ready, and at two places one more.
ReadyInv ==
  /\ queued[0] = Ready \cup (IF pc = "inserted" THEN {ProcOf(GetFromInputList)}
                             ELSE IF pc = "finish" THEN {minPtr} ELSE {})
  /\ minPtr \notin Coming

\* The new process beats the one the pointer refers to, if the queue was not
\* empty before.
Beats(j, others) == others > 0 => minPtr # NULL /\ remainingTime[j] < remainingTime[minPtr]

\* The root is replaced by the new process only if that one needs less time.
RootInv == pc = "inserted" => LET j == ProcOf(GetFromInputList) IN
  /\ GetFromInputList.arrival = globalTimer
  /\ call = "siftUp" => /\ item = j
                        /\ IF hole = 1 THEN Beats(j, size[0]) ELSE processes[0][1] = minPtr
  /\ call = "none" => \/ processes[0][1] = minPtr
                      \/ processes[0][1] = j /\ Beats(j, size[0] - 1)

\* A process in the list takes its fields from the node there.
NodesInv == \A n \in 1 .. Len(inputList) : nodeOf[ProcOf(inputList[n])] = inputList[n]

\* The inductive invariant: the heap is complete until a deletion meets a tie.
OneSRTInv == OneInv /\ NodesInv /\ (tied = {} => ReadyInv /\ RootInv)

\* What AnnouncedOnSwitch needs: of the processes that are ready, the one that
\* ran last and has not lost the processor is marked, and no other.
MarkInv ==
  /\ isRunning \cap Coming = {} /\ lastRan \notin Coming
  /\ pc \in {"finish", "free"} => lastRan = minPtr
  /\ \A p \in Ready : p \in isRunning <=> p = minPtr /\ p = lastRan

\* The invariant of everything HandleOneCPU prints while it runs.
OneOutputInv == OneSRTInv /\ (tied = {} => MarkInv)

-----------------------------------------------------------------------------
(***************************************************************************)
(* What PrintsWhatHappened and MakespanIsWork follow from.                 *)
(***************************************************************************)
Reported == {p \in Proc : finishedAt[p] > 0}
Arrived == Proc \ Coming

\* A process that has arrived is reported when it has no time left, later than
\* it arrived, and the statistics are those of the reported processes.
ReportInv ==
  /\ \A p \in Proc : nodeOf[p] \in Node
  /\ pc = "inserted" => GetFromInputList.arrival = globalTimer
  /\ pc = "done" => loop = "remaining" /\ IsEmptyPQ(0)
  /\ \A p \in Arrived : arrivalTime(p) <= globalTimer /\ (pc = "finish" => arrivalTime(p) < globalTimer)
  /\ \A p \in Proc : p \in Reported <=> remainingTime[p] = 0 /\ ~(pc = "finish" /\ p = minPtr)
  /\ \A p \in Reported : arrivalTime(p) < finishedAt[p]
  /\ Agrees(stats, Runs, Reported)

\* The time left of the processes that have arrived, and when the work among it
\* that arrives from t on cannot end before.
Left == SumFunctionOnSet(remainingTime, Arrived)
ArrivedBound(t) == t + SumFunctionOnSet(Bursts, {p \in Arrived : arrivalTime(p) >= t})

\* Without rest the processor ends no earlier than any of these bounds, and no
\* later than the greatest one unless it waits for a process to arrive.
WorkInv ==
  /\ \A p \in Coming : remainingTime[p] = burstTime(p)
  /\ \A t \in 0 .. globalTimer : ArrivedBound(t) <= globalTimer + Left
  /\ Ready # {} \/ Coming = {} =>
       \E p \in Arrived : ArrivedBound(arrivalTime(p)) = globalTimer + Left

\* The invariant of what is printed at the end.
OneReportInv == OneOutputInv /\ ReportInv /\ (tied = {} => WorkInv)

-----------------------------------------------------------------------------
(***************************************************************************)
(* What the documents say and the code does not do.                        *)
(***************************************************************************)

\* Every process runs to completion (README.md:16): one that has arrived and
\* has time left is still in the queue.
NoProcessLost ==
  call = "none" /\ pc # "inserted" => Ready \subseteq Slots(0)

\* "Process ids are used to break ties, giving preference to processes with
\* smaller ids" (README.md:14): when a process has finished and no other arrives
\* at that time, the one of the waiting processes that gets the processor.
PidBreaksTies ==
  /\ Sound /\ AtTick /\ Announces
  /\ lastRan # NULL /\ lastRan \notin live
  /\ \A p \in Slots(0) : arrivalTime(p) < globalTimer
  => \A p \in Slots(0) : remainingTime[p] = remainingTime[minPtr] => PidOf(minPtr) <= PidOf(p)

\* The same (README.md:14) when no process has run yet that is still there: of
\* those that have all arrived just now, the one that gets the processor.
PidOrdersArrivals ==
  /\ Sound /\ AtTick
  /\ \A p \in Slots(0) : arrivalTime(p) = globalTimer
  => \A p \in Slots(0) : remainingTime[p] = remainingTime[minPtr] => PidOf(minPtr) <= PidOf(p)

\* "if there is a prev minRemainTime is in PQ, and new min process is not the prev
\* one, prev should pause" (sim.c:211): the previous process that the pause reads,
\* because the pointer to it is not NULL, is in the queue.
PrevIsQueued ==
  Sound /\ pc = "inserted" /\ call = "none" /\ minPtr # NULL => minPtr \in Slots(0)
=============================================================================
