------------------------------- MODULE MultiSRT -------------------------------
(***************************************************************************)
(* Shortest remaining time on several processors, with no queues and no    *)
(* order of the processors: what is assigned to a processor is a set.  The *)
(* unit of work is a part, <<process, number>>; a process that is not      *)
(* split has one part.  It is what README.md:21 and README.md:28-34 of the *)
(* source ask for.  With two processors, too, a process is split and its   *)
(* parts are assigned as README.md:30 says: what README.md:23-25 says of   *)
(* two processors is not in here.                                          *)
(***************************************************************************)
EXTENDS Integers, FiniteSetsExt

CONSTANTS
  Cpu,
  N,       \* the number of processors
  None

VARIABLES
  now,     \* the time
  jobs,    \* the processes: when each arrives, the time it needs, and whether it
           \* is parallelisable (1) or not (0); it never changes
  left,    \* the execution time each part has left
  placed,  \* the parts that have been assigned to a processor
  on,      \* the unfinished parts assigned to each processor
  cur,     \* the part each processor works on, or None
  ran      \* the processors that have worked in this unit of time

srtVars == <<now, jobs, left, placed, on, cur, ran>>

\* "split into k <= N subprocesses, where k is the largest value for which
\* x/k >= 1".
Split(x) == CHOOSE k \in 1 .. N : x >= k /\ \A l \in 1 .. N : x >= l => l <= k

\* x/k, rounded up.
Share(x, k) == CHOOSE n \in 0 .. x : n * k >= x /\ \A m \in 0 .. x : m * k >= x => n <= m

\* The parts of a process, and the time each of them needs: "Each subprocess is
\* then assigned execution time of" the share and one.
Numbers(job) == IF job.parallel = 1 THEN 0 .. Split(job.exec) - 1 ELSE {0}
Needs(job) == IF job.parallel = 1 THEN Share(job.exec, Split(job.exec)) + 1 ELSE job.exec

Part == UNION {{pid} \X Numbers(jobs[pid]) : pid \in DOMAIN jobs}
JobOf(p) == jobs[p[1]]
Due(p) == JobOf(p).arrival

Load(c) == MapThenSumSet(LAMBDA p : left[p], on[c])

\* The processors that hold no other part of the process of p.
FreeFor(p) == {c \in Cpu : \A q \in on[c] : q[1] # p[1]}

\* "assigned to k processors with shortest time left to complete [...] Use CPU
\* ids to break ties".
BestFor(p) == CHOOSE c \in FreeFor(p) : \A d \in FreeFor(p) :
  Load(c) < Load(d) \/ (Load(c) = Load(d) /\ c <= d)

Init ==
  /\ now = 0 /\ placed = {} /\ ran = {}
  /\ on = [c \in Cpu |-> {}] /\ cur = [c \in Cpu |-> None]
  /\ left = [p \in Part |-> Needs(JobOf(p))]

\* A part that arrives takes the processor from one that needs more time.
Arrive(p) ==
  /\ p \notin placed /\ Due(p) = now /\ ran = {}
  /\ FreeFor(p) # {}
  /\ LET c == BestFor(p) IN
     /\ cur[c] = None => on[c] = {}
     /\ on' = [on EXCEPT ![c] = @ \cup {p}]
     /\ cur' = [cur EXCEPT ![c] = IF @ = None \/ left[p] < left[@] THEN p ELSE @]
  /\ placed' = placed \cup {p}
  /\ UNCHANGED <<now, jobs, left, ran>>

Dispatch(c) ==
  /\ cur[c] = None
  /\ \E p \in on[c] : /\ \A q \in on[c] : left[p] <= left[q]
                      /\ cur' = [cur EXCEPT ![c] = p]
  /\ UNCHANGED <<now, jobs, left, placed, on, ran>>

\* The work of processor c in this unit of time, for which all that is due has
\* arrived.
Work(c) ==
  /\ cur[c] # None /\ c \notin ran
  /\ \A p \in Part \ placed : Due(p) > now
  /\ left' = [left EXCEPT ![cur[c]] = @ - 1]
  /\ ran' = ran \cup {c}
  /\ on' = IF left[cur[c]] = 1 THEN [on EXCEPT ![c] = @ \ {cur[c]}] ELSE on
  /\ cur' = IF left[cur[c]] = 1 THEN [cur EXCEPT ![c] = None] ELSE cur
  /\ UNCHANGED <<now, jobs, placed>>

\* Time passes when no processor with work to do has rested.
Advance ==
  /\ \A c \in Cpu \ ran : on[c] = {}
  /\ \A p \in Part \ placed : Due(p) > now
  /\ ran # {} \/ placed # Part
  /\ now' = now + 1 /\ ran' = {}
  /\ UNCHANGED <<jobs, left, placed, on, cur>>

Next ==
  \/ \E p \in Part : Arrive(p)
  \/ \E c \in Cpu : Dispatch(c) \/ Work(c)
  \/ Advance

Spec == Init /\ [][Next]_srtVars
=============================================================================
