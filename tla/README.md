# A verification development of the multi-process simulator

The program (`src/`, about 1,900 lines of C) simulates processes on one or more
CPUs. It reads a file with one process per line (arrival time, id, execution
time, parallelisable or not), runs shortest-remaining-time scheduling in steps
of one time unit, prints a line whenever a CPU turns to a process and whenever a
process finishes, and prints statistics at the end. It is one thread: nothing
runs concurrently and nothing is persisted. What makes it hard is the other kind
of interleaving, that of several processes over many ticks: a heap of pointers
whose state depends on its whole history, cached pointers that must follow it,
queues of fixed size, objects that are freed while something still refers to
them, and two copies of each loop that have to agree where they meet.

This directory holds TLA+ modules of that program, TLC configurations that check
them on small instances, and theorems that TLAPS proves for every value of the
constants. `PROJECT.json` lists the components, runs, mutants, findings, hazards
and theorems, and maps each definition to the lines it models.

## 1. Inventory

| component | code | state | operations | what has to be right |
|---|---|---|---|---|
| run queue | `process.c` | array of pointers, size, capacity; the processes it points to, and whether they are freed | `InsertPQ`, `DeleteMinRemainTimeProcess`, `FindMinRemainTimeProcess`, counts | ordered between calls, a minimum at the root, holds exactly what was inserted and not deleted, no use after free, room for what is inserted |
| input list | `linkedlist.c` | linked list of nodes | insert, three selection sorts, read and remove the first node | the sorts keep the nodes and leave them by arrival |
| one CPU | `sim.c:121-143, 180-331` | timer, queue, pointer to the running process, its `isRunning` mark | `HandleOneCPU` and its two loops | what runs is the root; no arrival is missed; the processor always works on a shortest process; each switch announced once; returns with everything finished |
| several CPUs | `sim.c:145-177, 333-762` | a queue, a pointer per CPU; the table of parallel processes | `HandleMultiCPU` and its two loops | the same per CPU; placement; the last subprocess reports, and only that one; `proc_remaining` |
| statistics | `sim.c:93-119` and four copies in the loops | four accumulators | collect, round, print | each process once, with its own times |
| hash table | `myHashtable.c` | array of chains, size, capacity, threshold | create, insert, find, contains, reserve, resize, rehash, destroy | a map from process id to its entry, through every resize, and whatever `malloc` refuses |
| reader | `sim.c:53-91`, `readFile.c` | the file, a line buffer, the list being built | `CountLines`, `ReadFile`, field extraction | the list is the file up to its first empty line; the count is enough for the queues; no read behind the buffer |
| command line | `main.c`, `sim.c:19-51` | – | getopt | pure I/O, left out |
| own scheduler | `report.txt` | – | – | described, never implemented: `-c` is parsed and ignored |

How they interact: `main` counts the lines, reads the list and calls `SimRun`,
which calls one of two handlers. A handler sorts the list, makes one queue per
CPU with as many slots as the file has lines, and calls two functions in turn.
The *arriving* function runs as long as nodes are left: it inserts every node
whose arrival time equals the timer, choosing again after each insertion, then
makes one tick. The *remaining* function runs ticks until the queues are empty.
In a tick the process a pointer refers to is charged one unit; when it has none
left it is reported, the **root of the heap** is deleted and freed, and the
pointer is set to the new root. The queue, the pointers and the mark
`isRunning` are shared by everything above them without any check that they agree.

## 2. Modules

| module | models | kind |
|---|---|---|
| `PriorityQueue` | the run queue: one action for the start of a call, one per iteration of its loops | component |
| `QueueInvariants` | what the queues promise to any client; the inductive invariant `QueueInv` | properties |
| `QueueClient` | the queue used in every order of insertions, ticks, deletions, without clock or list | closed specification, and the abstraction the two schedulers implement |
| `InputNodes` | the nodes of the list, and what the schedulers need of a list | shared definitions |
| `InputFile`, `InputFileProperties` | the two passes over the file, the buffer, the conversions, the call of `SimRun` | closed specification, properties |
| `InputList` | the list of processes to arrive, its sorts, one action per pass | component |
| `HashTable` | the table of parallel processes: chains, one action per node moved by a resize, failing `malloc` | closed specification |
| `HashTableProperties` | its properties and refinement mapping | properties |
| `Table` | what `sim.c` expects of the table: a function from ids to numbers | abstract specification |
| `Statistics` | the accumulators, and the numbers `SimRun` prints | component |
| `QueueUse` | that a scheduler uses its queues as `QueueClient` does | property of both schedulers |
| `OneCpu` | the scheduler with one CPU; composes queue, list and statistics | closed specification |
| `OneCpuProperties` | its properties, inductive invariants and the refinement mapping to `SRT` | properties |
| `MultiCpu` | the scheduler with `numCPU` CPUs; composes the same components | closed specification |
| `MultiCpuProperties` | its properties, inductive invariants and the refinement mapping to `MultiSRT` | properties |
| `SRT`, `MultiSRT` | shortest remaining time on one and on several processors, with sets and no queues | abstract specifications |
| `QueueLemmas`, `QueueProofs` | the queue | proofs |
| `SchedulerLemmas` | what both schedulers need beside the queue: the sorts, sums over finite sets, the statistics | proofs |
| `OneCpuProofs` | the scheduler with one CPU: its invariants, that it is a client of the queue and implements `SRT`, what it prints while it runs and at its end, and when it ends | proofs |
| `MultiCpuProofs` | the scheduler with any number of CPUs: its invariants, that it is a client of the queues, counts the subprocesses, reports each process with its last part and keeps the statistics | proofs |
| `TwoCpuProofs` | the same with two CPUs: what needs that number, that it implements `MultiSRT`, and what it prints at its end | proofs |
| `InputFileProofs` | the reader | proofs |
| `HashTableProofs` | the hash table, and that it implements `Table` | proofs |
| `MCQueueClient`, `MCOneCpu`, `MCMultiCpu`, `MCOverflow`, `MCHashTable`, `MCInputFile` | finite constants | model checking |

How the parts are put together. The schedulers EXTEND the queue, the list and the
statistics and call their operators, so that their steps contain the steps of
those parts. The reader and the table are specifications of their own, joined to
the schedulers by what each side promises: `InputFile` ends in a list that
satisfies `ListOf`, which is the assumption `FilesAssumption` of the schedulers,
and `MultiCpu` uses the table as a function, which is what `HashTable` is shown to
implement (`Table`).

State and actions:

- *Pointers.* A `process_t` is named `<<pid, subProcNo>>`. The slots of a heap
  hold names, `DummyHead` (slot 0) or `NULL`. `live` is the set of processes
  allocated; `remainingTime` is a function of the name and not of the slot, as
  two slots may hold the same process. The remaining fields of the C structure
  are copies of the input (`nodeOf`) or marks (`isRunning`).
- *Undefined behaviour.* A read through a freed or null pointer leads to the
  state `call = "undefined"`, where nothing more is modelled: no property is
  claimed from there on, and `UndefinedOnlyIfTied` says when the heap can lead
  there. One such read goes on: when the arriving loop with one CPU keeps the
  pointer of a freed process over an idle period (`sim.c:276`), the next arrival
  reads it without any tie (`sim.c:213`). That it does is departure 4 below
  (`PrevIsQueued`); what is read and written is the freed block or the new
  process in its place, and the model takes it to change nothing else
  (`StalePointers`).
- *Calls.* `InsertPQ` and `DeleteMinRemainTimeProcess` are a start action and
  one action per test of a loop (`SiftUp`, `SiftDown`, `PidSort`). While
  `call # "none"` the caller does nothing: its actions test it. `hole` is the
  loop variable `i`, `item` is `newProcess` or `lastProcess`.
- *Places.* `pc` names the place of the program in the scheduler: `sort`,
  `arrive` (top of the outer loop and of the inner one), `inserted` or
  `place`/`placed`, `tick` or `run`/`check`, `finish`, `free`, `done`; `loop`
  says which of the two functions is executing. Code the two functions share
  word for word is one action with a test of `loop` where they differ
  (`NextMin`, `TopOfLoop`, `Rests`).
- *Repeated ids.* The table of parallel processes is asked before a process is
  placed. A parallelisable line whose id is in the table is neither placed nor
  removed, and the inner loop tests it again for ever (`sim.c:412`): `Spin`, which
  is a stutter and stays one. Without a table (`tableIsNull`, the result of
  `InitHashtable` that `sim.c:345` ignores) the answer is -1, taken for yes: then
  every parallelisable process spins.
- *The buffer.* `ReadFile` never clears its buffer, and `ExtractPN` looks for a
  newline: `InputFile` keeps the indexes at which the buffer holds one. `fgets`
  overwrites its line and the zero behind it, and an earlier, longer line may have
  left a newline further on.
- *Numbers.* `strtoul` stops at the largest `unsigned long` and the conversion
  keeps the low half (`ExtractIntNumber`). Overheads are fractions, added and
  compared exactly; the numbers printed are in hundredths, as `round` makes them.
- *Faults.* The only faults the code handles are refusals of `malloc` in the hash
  table. `htAllocateFails` and the second half of `Push` are those, up to
  `MaxFailures` times; the code goes on with a null array, or with a chain it has
  lost, and so does the model. `MultiCpu` starts with a table or without one.
- *History variables.* `queued` and `tied` record what each heap was handed and
  whether it ever deleted while its last process had a tie; `lastRan` and
  `finishedAt` what ran and when a process was reported; `entered` and `failed`
  what was put into the table and how often memory was refused. No guard of the
  code reads them; `failed` bounds the faults, and `CountDown` asks `entered`
  because `sim.c` counts down only what it has inserted.
- *Mutants.* Operators whose comment begins with "Mutant" are variants of the
  definition that follows, each with a mistake that could be made in that code.
  No specification uses them. `PROJECT.json` says which property finds which.

The models were compared with the compiled program: for about 4,700 workloads
with one, two and three CPUs the times at which each process finishes and the
makespan are the same in the final state of TLC and in the output, and all 290
workloads that end in `undefined` abort or crash when run.

## 3. What the runs check

| run | instance | shows |
|---|---|---|
| `queue` | 1 heap of 4 slots, 5 processes, times 1..3 | all insertion, tick and deletion orders, a full and a refused queue: `HeapOrder`, `RootIsMin`, `IntactUnlessTied`, `UndefinedOnlyIfTied`, and the inductive `QueueInv` |
| `one_cpu` | 4 processes, arrivals 0..2, times 1..3, lines in an order all sorts must change | the properties of `OneCpuProperties`, the inductive `OneReportInv`, refinement of `QueueClient` and `SRT`, termination |
| `two_cpus` | 2 CPUs, 3 processes, parallelisable or not, arrivals 0..2, times 1..3, with and without a repeated id, with and without a table | the properties of `MultiCpuProperties`, the inductive `TwoReportInv`, refinement of `QueueClient` and `MultiSRT`, termination |
| `three_cpus` | 3 CPUs, arrivals 0..1, times 1..3, so up to three subprocesses; a file with one line more than it has processes | counting of subprocesses, reports, splitting and placement as part of the refinement of `MultiSRT` |
| `input_file` | every file of at most 4 lines, empty or of 3 lengths and 4 contents, the last with or without a newline; 4 values of an `unsigned int`, 16 of an `unsigned long` | the inductive `ReaderInv`, what the schedulers are handed, and when the reader fails |
| `hash_table` | 3 keys under every hash up to renaming, 2 values, capacities 1 and 2 that grow, one failure of `malloc` | `NodesInPlace`, `SizeCounts`, the inductive `TableInv`, refinement of `Table`, the refusal included |
| `one_cpu_lost`, `one_cpu_ties`, `one_cpu_order`, `one_cpu_stale` | as `one_cpu` | violations, see section 4 |
| `two_cpus_own`, `overflow` | 2 and 3 CPUs; `overflow` is one file of 6 lines | violations, see section 4 |

Why the bounds are enough. A heap of four slots has a root with two children and
a grandchild: every branch of the three loops is taken, with the right child
absent and present, and five processes fill and overflow it. Four processes with
times up to 3 give idle gaps before and between arrivals, preemption, a return
to a postponed process in either loop, simultaneous arrivals, and ties at every
position; three processes on two CPUs give simultaneous finishes, subprocesses
that finish in one tick, in different ticks, and in different loops, and a
repeated line that comes while the first one runs and after it has ended. Three
CPUs with time 3 is the least instance in which a process has three subprocesses.
Four lines are a long one, one that overwrites part of it, an empty one and a last
one without newline; the lengths 7, 8 and 9 put the newline that a line leaves at,
just behind and well behind the zero of the next one. Widths of 4 and 16 have
numbers that fit, that lose their high half and that are stopped. Three keys with
hashes 0, 2 and 3 collide under one capacity and part under the next; a table of
one chain grows twice. The minimum capacity, 8 in the code, is 1 there, and
`MaxFailures` is 1: the code does not look back at an earlier refusal.
Constants that are bounds of the instance (`MaxTime`, `MaxArrival`, the number of
processes, of lines, of keys) are bounds of the *input*; nothing but `MaxFailures`
caps a counter.

Properties that relate two pieces of state or two moments, by what could go wrong:

- `MinIsRoot` – charged and reported is one pointer, deleted another one;
- `NoArrivalMissed` – arrivals are found by equality with the timer only;
- `AnnouncedOnSwitch` – RUNNING lines against what actually ran in the tick before;
- `RemainingIsCounted` – `proc_remaining` against who has arrived and not finished;
- `MakespanIsWork` – the final time against the latest bound that the work
  arriving from any moment on imposes;
- `PrintsWhatHappened` – the three numbers printed at the end against the times of
  the FINISHED lines: rounding included, each process once, in whichever of the
  four copies of the code it was collected;
- `SubsAreCounted`, `FinishedWithLastPart` – `remainNumSubs` against the
  subprocesses that exist, and the FINISHED line against the last of them;
- `PartsAreApart`, `RoomForAll` – placement against siblings and capacity;
- `ImplementsQueueClient` – the loops call the queues only as `QueueClient` does:
  only a root with time left is charged, only a root without is deleted, what is
  deleted is freed before the next call. All that is proved of `QueueClient`
  therefore holds in the schedulers;
- `ImplementsSRT` – every step of the program is a step of the abstract
  scheduler or leaves alone what that one speaks of. `arrived` is what has left
  the list, `cur` is the pointer while its process has time left; in `MultiSRT`
  a part is placed when its CPU has chosen again, and `ran` are the CPUs the
  loop has passed in this tick. `MultiSRT` splits a process by its own reading of
  `README.md:30` (`Split`, `Share`) and takes nothing from the code's `NumSubs` and
  `Parts`, so that the loop at `sim.c:416` is held against the document. When only
  repeated lines are left, the program waits for them as for any other line
  (`OnlyRepeatsLeft`);
- `NodesInPlace`, `SizeCounts` – a node stays in the chain its key hashes to under
  the capacity of the moment and is nowhere twice, also half way through a resize;
  growth is tested by equality, which the size must not jump over;
- `ImplementsTable` – each call answers as the function does; a resize in the
  middle of an insertion changes nothing; a refusal of `malloc` loses the chain of
  the node (`LoseSome`) or the array (`LoseAll`) and nothing else, and no call
  answers as if it had succeeded;
- `ListIsFile`, `HandsOver` – the list against the lines, and against what the
  schedulers assume of it;
- `FailsOnlyIf` – the only ways to read what is not the program's: an empty list,
  and a last line without newline unless an earlier one has left a newline in the
  buffer.

Most scheduler properties are conditional on `Sound` (no undefined behaviour, no
deletion with a tie so far). The first violation below shows why they need such a
condition. `tied` is wider than the ties that do harm: many a deletion whose last
process has the same time as another loses nothing, and what follows it is not
covered all the same. States with ties in the heap that no deletion has met are
within it. `QueueInv`, `OneReportInv`,
`TwoReportInv`, `MinIsRoot`, `NoArrivalMissed`, `SubsAreCounted`,
`FinishedWithLastPart` and `ImplementsQueueClient` hold without it, though the two
inductive invariants of the schedulers say less once a deletion has met a tie.

Fairness. `FairSpec` adds `WF_vars(Next)`: the program is a single thread that
never waits for anything, so it takes a next step as long as there is one. No
fairness is assumed of individual actions. `Terminates` says that the program
returns with no time left on any process unless a tie or undefined behaviour was
met before or, with several CPUs, a line is due that makes it spin. A program that has
returned, or whose behaviour is undefined, stutters by an explicit disjunct of
`Next`, so that deadlock is checked in every run but `queue`, where the client may
have nothing left to do.

## 4. Where the code departs from its documents

1. `one_cpu_lost` – a process is lost (`process.c:137`). The pid sort of a
   deletion compares slot `2i` with slot `2i+1` even when that one is just past
   the heap and still holds `lastProcess`. On a tie in the wrong pid order the
   exchange puts one process into the heap twice and the other one past its end.
2. `one_cpu_ties` – ties are not broken by process id (`README.md:14`).
3. `one_cpu_order` – processes that arrive together do not leave the list in the
   order of their ids: the sorts by id and by execution time are made first, and the
   sort by arrival exchanges nodes and is not stable.
4. `one_cpu_stale` – the pause reads a freed process (`sim.c:213`). The comment at
   `sim.c:211` speaks of a previous process that is in the queue; the code tests
   that the pointer is not `NULL`, and the pointer outlives its process when the
   queue runs empty (`sim.c:276`).
5. `two_cpus_own` – with two CPUs subprocess i.0 goes to the less loaded CPU
   (`README.md:25` asks for CPU 0).
6. `overflow` – CPU 1 gets more parts than the file has lines, and `InsertPQ` drops
   one with a message. Running the program on that file prints the message and never
   reports the process. The cause is the scan for a CPU: when CPU 0 holds a
   subprocess it starts with CPU 1 whether or not that one holds one too
   (`sim.c:452`), so that two subprocesses of a process share CPU 1 while another
   CPU holds none, against `README.md:30`.
7. Without a run: with two CPUs `README.md:23` splits every parallelisable process
   into i.0 and i.1, of ⌈x/2⌉ + 1 each. One of time x = 1 stays whole in the code,
   with a single part of time 2 (`sim.c:416-425`), which is what `README.md:30`
   states for three CPUs and more. `MultiSRT` follows `README.md:30` with two CPUs
   too, and so `ImplementsSRT` does not speak of `README.md:23`. For x > 1 the two
   agree.

## 5. What is proved

All theorems are proved by TLAPS from the named assumptions only:
`ProcAssumption` (names are pairs of numbers, distinct from the dummy head and
`NULL`), `CapacityAssumption` (at least one slot), `TimeAssumption` of the client
(times are natural numbers), `WidthAssumption` and `InputFilesAssumption` of the reader,
`TableAssumption` of the table, and for each scheduler its `FilesAssumption`. That
one is what the reader hands over: every file is a list of at least one node and
at most `Capacity` of them. With one CPU its ids differ; with several, only
parallelisable processes share an id, and those arrive one after the other. The
number of processes, of CPUs and of slots, the files and all times are arbitrary.

*The queue* (`QueueLemmas`, `QueueProofs`). `HeapOrder` is not inductive: in the
middle of a call one slot is stale. `QueueInv` describes the array as if `item`
already sat in the hole (`View`): in that view an iteration exchanges two
neighbours (`Exchanged`, `ExchangeKeeps`), which keeps the contents. Order holds
except at the hole, and around the hole between its parent and its children
(`FarAbove`), so that moving the hole repairs one pair and breaks one other.
`LastInv` carries the fact that makes the pid sort harmless without ties: the
slot past the heap holds `lastProcess`, whose time differs from every other.
`HomeInv` keeps the heaps apart: none refers to a process queued in another one,
and a process not created yet is in none. `RootStaysMin` needs an induction
along the path to the root; it is done by the least counterexample, from the
well-foundedness of `<`. Theorems: `QueueInvariant`, `QueueTypes`,
`HeapStaysOrdered`, `RootStaysMin`, `IntactWithoutTies`, `DefinedWithoutTies`.
The lemmas do not mention the client, and are what the schedulers' proofs rest on.

*The list* (`SchedulerLemmas`). A pass exchanges two nodes, so that the list stays a
reordering of the file (`Reordered`), and extends the sorted prefix (`PassesDone`);
when the last sort ends the list is ordered by arrival.

*Sums and statistics* (`SchedulerLemmas`). The folds of the community modules are
recursive functions over sets, about which nothing can be said by unfolding. Their
value is the one that some function on the subsets assigns by adding element after
element (`Folds`, `AddsUp`, `IsSum`); such a function exists for every finite set
(`FoldExists`, by a smallest counterexample instead of an induction), and its value
depends neither on the order nor on the names of the elements (`FoldStep`,
`FoldRenamed`), because the operation commutes: addition of numbers, and that of
fractions as `Plus` writes them (`AddFractionsCommutes`). From there a sum is known by
what one element more does to it (`SumAdded`, `SumLowered`), and `Collect` by what it
does to the processes reported so far (`CollectAgrees`). `AgreesPrints` then reads off
the three numbers: the ceiling is the least integer that is not below the mean
(`AtLeastMean`), the hundredths are a nearest number of them (`RoundsToNearest`).

*One CPU* (`OneCpuProofs`). `OneInv` joins `QueueInv` and `ListInv` with where the
program can be (`PlaceInv`), what the pointers are there (`PointerInv`), which
processes exist and have time left (`TimeInv`). One lemma per action, each citing
the queue's lemma for the call it makes. `TimeInv` provides what `InsertInv` and
`DeleteMinInv` ask of their caller; `MinIsRoot` that a tick charges the root;
the sorted list that the timer may advance (`AdvanceTimer`). The same facts show
that every step is one of `QueueClient` or leaves the queue alone. Theorems:
`OneCpuInvariant`, `OneCpuTypes`, `RunsTheRoot`, `MissesNoArrival`, `UsesTheQueue`.

*One CPU runs the shortest* (`OneCpuProofs`). `OneSRTInv` adds, as long as no
deletion has met a tie: between arrivals the queue holds exactly the processes that
have arrived and have time left (`ReadyInv`); after an insertion the root is the
new process just when that one needs strictly less time than the root before
(`RootInv`); the list holds what has not arrived (`NodesInv`). That the queue is
never full follows from an injection of its slots into the processes (`RoomForOne`,
with the library's theorems on finite sets). From that every step is a step of
`SRT`. Theorems: `QueueHoldsTheReady`, `SchedulesTheShortest`.

*One CPU announces what happens* (`OneCpuProofs`). `OneOutputInv` adds that of
the processes that are ready only the one that goes on is marked as running.
Theorems: `MarksWhatRuns`, `AnnouncesEachSwitch`, `CountsTheRemaining`.

*One CPU prints and ends right* (`OneCpuProofs`). `ReportInv` says at every step, ties
or not, that the processes reported are those without time left, each reported later
than it arrived, and that the accumulators are the sums and the largest ratio over
them (`Agrees`): in either loop a process is added once, with the time since its
arrival. `PrintsWhatHappened` follows at the end, when a queue that has lost nothing is
empty, so that all are reported (`AtTheEnd`). `MakespanIsWork` is about the end only;
`WorkInv` is what it is while the program runs, until a deletion meets a tie. With the
work that has arrived from t on (`ArrivedBound`) and the time left of all that has
arrived (`Left`), no bound exceeds timer plus time left, and one of them equals it
while something is ready or nothing is to come. An arrival adds its time to the bounds
and to the time left; a tick moves one unit from the time left to the timer; an idle
tick is made only when nothing is left, and then the bound of the next arrival is met
with equality. Theorems: `ReportsWhatRan`, `PrintsTheStatistics`, `EndsWithTheWork`.

*Several CPUs* (`MultiCpuProofs`). `MultiInv` has the same parts, with two
difficulties of its own. A process consists of parts that are created one by one:
`PartInv` says which of them are unborn while the node is being placed, and that
only parallelisable processes are in the table or twice in the list. And nothing in
the code keeps two CPUs from charging one process in the same tick, when its time
would fall below zero: `HeldInv` says that whatever *existing* process a heap refers
to was handed to that heap, so that with `HomeInv` no two CPUs have the same one at
their root (`RootsDiffer`); `TimeInv` that an existing process without time left is
the one of a CPU that the tick has passed and the check has not. Together they give
`HasTime`: what is charged has time left. Theorems: `MultiCpuInvariant`,
`RunsTheRoots`, `MissesNoArrival`, `UsesTheQueues`.

*Several CPUs report the last part* (`MultiCpuProofs`). `MultiCountInv` adds
that the node a process is created from is the first of its id to arrive
(`FirstInv`, from the order of the list: a repeated line cannot overtake it), that
the table holds the parallelisable processes that have arrived (`BornInv`), and
that it counts their existing parts but for the one being deleted (`CountInv`). The
cardinality of the parts is that of an interval (`PartsFinite`); a deletion takes
one element away, and leaves none just when the count was one. Ties do not matter
here: a process that a tie has lost is never deleted, and never counted down.
Theorems: `CountInvariant`, `CountsTheSubs`, `ReportsTheLast`.

*Several CPUs keep the statistics* (`MultiCpuProofs`). `MultiReportInv` adds for any
number of CPUs, whatever ties were met, that a process is placed when it arrives
(`DueInv`), that one that has arrived did so no later than now, and earlier while the
processors are checked, and that the accumulators agree with the processes reported
(`ReportInv`). By `CountInv` a process whose last part is being deleted was not
reported before. Theorem: `ReportsWhatRan`.

*Two CPUs* (`TwoCpuProofs`). The theorems of this module have `numCPU = 2` as a
hypothesis, which the program meets when it is called with `-p 2`: departure 6 is the
counterexample with three. `TwoCpuInv` is `MultiCountInv` and, until a deletion
meets a tie: every part that exists was handed to a CPU (`KeptInv`), no CPU was handed
two of one process (`ApartInv`), the queues have a slot for every process of the file
(`RoomInv`), a part exists until it has no time left (`GoneInv`), and the mark
`isRunning` is that of the part a CPU ran last and has not paused (`MarkInv`).
`ApartInv` is where the number counts: with two CPUs the first subprocess goes to the
less loaded one and the second to the other, while the scan for a third starts at
CPU 1 whatever that one holds. A queue then holds at most one part of each process, an
injection of its slots into the ids, so that it is full only when the file has no
further process. `StaleInv` and `RootInv` carry this through the iterations
of a call, in which a slot is stale. Theorems: `TwoCpuInvariant`, `PartsStayApart`,
`EveryPartHasRoom`, `AnnouncesEachSwitch`, `CountsTheRemaining`.

*Two CPUs run the shortest* (`TwoCpuProofs`). `TwoSRTInv` adds what the refinement of
`MultiSRT` needs of the actions before it: what is placed is due (`DueInv`), a tick is
made for some CPU (`BusyInv`), and between the choice of a CPU and the end of the
insertion that CPU is still the best of those free for the part (`BestInv`). That the
loop at `sim.c:416` finds the k of `README.md:30` and the division the share of each
part is proved for any number of CPUs (`SplitAsAsked`, `ShareAsAsked`,
`PartsAsAsked`). The code
adds up slots, `MultiSRT` the parts of a set; both are sums over finite sets
(`SumExists`, `SumStep`, `SumRenamed`). From this `LoadIsCounted`: the load that the
code computes from the heap of a CPU is the sum over what that CPU still has to do. A
step of the program is then an arrival when the pointer is chosen again
(`PickMinSRT`), a dispatch when a finished part is freed (`FreeSRT`), work
(`RunCpuSRT`), the passage of time (`IdleSRT`, `AdvanceSRT`), or nothing that
`MultiSRT` sees (`QuietUnseen`, `PlaceUnseen`, `PlacedUnseen`, `FinishUnseen`).
Theorems: `PlacesOnTheBest`, `SchedulesTheShortest`.

*Two CPUs print what happened* (`TwoCpuProofs`). When the program ends every queue is
empty, by `KeptInv` no part is left, and by `CountInv` every process is reported
(`AllReported`). With three CPUs a part may be in no queue (departure 6), and the
program may end without it. Theorems: `PlacesAndReports`, `PrintsTheStatistics`.

*The reader* (`InputFileProofs`), for every file and all widths of the numbers.
`ReaderInv` says of either pass how far it has come: the first has counted the lines up
to `position`, the second has made a node of each of them and met no empty one
(`PassInv`, `NodesInv`), and the buffer holds the newlines of those lines that no later
one has reached (`BufferInv`). The two passes read the same
file with different tests, and the invariant is what makes them agree. Theorems:
`ReaderInvariant`, `ListsTheRecords`, `HandsOverAList`, `FailsAsStated`.

*The hash table* (`HashTableProofs`), for all keys and values, every hash function, any
capacity and any number of refusals of `malloc`. `TableInv` relates the two arrays
half way through a resize: a node is in the chain of its key under the capacity of the
array it is in, and in one of them only; and the size, the capacity and the threshold
are such that the test by equality is never jumped over (`CapacityInv`). The null
array is a function without a chain (`NoChains`), so that one variable has one
type. A chain is a sequence; what the proofs need of it is what it means to
put a node in front of it and to take the first one away. What a refusal costs is
proved as well: a node that is refused takes its chain along and no other
(`PushLoses`), and a call without an array changes nothing (`IsRefused`). Theorems: `TableInvariant`,
`NodesStayInPlace`, `SizeCountsTheNodes`, `TableIsImplemented`.

Only model-checked:

- liveness (`Terminates`), which is out of reach of TLAPS under fairness;
- `ImplementsSRT` for three or more CPUs, where two parts of a process may share one and
  the next queue may then be full: the run has queues with a slot to spare.
  `PartsAreApart` and `RoomForAll` do not hold there at all.

## 6. Not modelled

- Execution times of 0, which wrap round (`sim.c:250`), and simulations of more than
  2^32 ticks: in the schedulers times are natural numbers, and a process takes some.
- Ids that are repeated with one CPU, and repeated ids of processes that are not
  parallelisable or arrive together with several. `HandsOver` states what the reader
  guarantees.
- Lines longer than the buffer, and lines that are not of the form the program asks
  for.
- Refusals of `malloc` outside the hash table, and in the scheduler those of an
  insertion or a resize: `HashTable` says what the table answers then, `MultiCpu`
  has a table that is never made, or one that is the function `Table` states. The
  release of memory at the end.
- The list of parallel indexes (`linkedlist.c:82-192`), `DropPQ` and the tests of the
  table that nothing calls.
- The command line, the texts printed, and the scheduler of `report.txt`, which is
  not implemented.

## 7. Plan

Done, in this order: the queue, its client and proofs; the list; one CPU with its
abstract scheduler, and the proofs of its invariant, its refinement and its output;
several CPUs with theirs, and the proofs of their invariant and their counts; the
statistics; the reader; the hash table; the proofs of the reader, of the table, and of
two CPUs up to the refinement of `MultiSRT`; sums and statistics, and with them what
either scheduler prints at its end and when the one with one CPU ends.

Left:

1. Three and more CPUs: `RemainingIsCounted` and `AnnouncedOnSwitch` there, with an
   invariant that survives two parts in one queue and a part in none.
2. The table in `MultiCpu` as an instance of `HashTable`, so that an insertion that
   is refused, and what follows from it, are seen in the scheduler.
