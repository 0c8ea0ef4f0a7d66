-------------------------------- MODULE Table --------------------------------
(***************************************************************************)
(* What sim.c expects of parallelProcTable: a function from the process    *)
(* ids entered so far to how many of their subprocesses remain, and calls  *)
(* that answer according to it; and what a caller must expect of it when   *)
(* memory is refused.                                                      *)
(***************************************************************************)
EXTENDS Integers

CONSTANTS Key, Value, None

VARIABLES
  entries,  \* a function from the keys entered to their values
  answer    \* what the last call returned: <<operation, key, result>>

tableVars == <<entries, answer>>

Entered == DOMAIN entries
Read(k) == IF k \in Entered THEN entries[k] ELSE None
Entry(k, v) == [j \in Entered \cup {k} |-> IF j = k THEN v ELSE entries[j]]

Init == entries = [k \in {} |-> None] /\ answer = <<"init", None, 0>>

Reserve ==
  /\ answer' = <<"reserve", None, 0>>
  /\ UNCHANGED entries

\* An insertion tells an update (1) from a new entry (0).
Insert(k, v) ==
  /\ entries' = Entry(k, v)
  /\ answer' = <<"insert", k, IF k \in Entered THEN 1 ELSE 0>>

Contains(k) ==
  /\ answer' = <<"contains", k, IF k \in Entered THEN 1 ELSE 0>>
  /\ UNCHANGED entries

Find(k) ==
  /\ answer' = <<"find", k, Read(k)>>
  /\ UNCHANGED entries

\* One more subprocess has finished, unless it is the last one.
CountDown(k) ==
  /\ k \in Entered
  /\ entries' = IF entries[k] > 1 THEN Entry(k, entries[k] - 1) ELSE entries
  /\ answer' = <<"find", k, entries[k]>>

Next ==
  \/ Reserve
  \/ \E k \in Key :
       \/ \E v \in Value : Insert(k, v)
       \/ Contains(k) \/ Find(k) \/ CountDown(k)

Spec == Init /\ [][Next]_tableVars

-----------------------------------------------------------------------------
\* Out of memory.  An insertion that gets none for a new entry says so, and the
\* entries of the keys C are gone.
LoseSome(k, C) ==
  /\ k \notin Entered
  /\ entries' = [j \in Entered \ C |-> entries[j]]
  /\ answer' = <<"insert", k, -1>>

\* A call that gets none for a larger table loses all entries at once.
LoseAll ==
  /\ entries' = [k \in {} |-> None]
  /\ UNCHANGED answer

\* Without a table every call but one that looks for a value is refused.
Refuse ==
  /\ Entered = {}
  /\ answer' \in ({"init", "reserve"} \X {None} \X {-1}) \cup ({"insert", "contains"} \X Key \X {-1})
  /\ UNCHANGED entries
=============================================================================
