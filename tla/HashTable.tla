------------------------------ MODULE HashTable ------------------------------
(***************************************************************************)
(* The table of the parallel processes (myHashtable.c): an array of        *)
(* chains.  A chain is a sequence of nodes, the first one at its head, and *)
(* a node is its key and its value.  What the value points to is used by   *)
(* sim.c for one number, remainNumSubs.                                    *)
(*                                                                         *)
(* A resize moves the nodes one by one from the old array to the new one:  *)
(* one action per iteration of the loops of htRehash.  malloc may fail,    *)
(* MaxFailures times; the code then goes on, and so does the model.        *)
(***************************************************************************)
EXTENDS Integers, Sequences, FiniteSets

CONSTANTS
  Key,              \* the process ids
  Value,            \* the numbers of subprocesses
  Hashes,           \* the functions the table may hash its keys with
  MinimumCapacity,  \* MINIMUM_CAPACITY, 8 in the code
  Sizes,            \* the numbers given to InitHashtable
  Reserved,         \* the numbers given to reserveCapacityOfHashtable
  MaxFailures,      \* how often malloc may return NULL: a bound of the faults
  NULL

ASSUME TableAssumption ==
  /\ Value \subseteq Nat \ {0} /\ \A v \in Value : v > 1 => v - 1 \in Value
  /\ Sizes \subseteq Nat /\ Reserved \subseteq Nat
  /\ MinimumCapacity \in Nat \ {0} /\ MaxFailures \in Nat
  /\ \A h \in Hashes : h \in [Key -> Nat]
  /\ NULL \notin Key

VARIABLES
  nodes,      \* table->nodes: the chains by their index, or NoChains for NULL
  size, capacity, threshold,
  hash,       \* table->hash
  call,       \* where a call is: see TableTypeOK; "none" between calls
  next,       \* what follows a resize: "none" or "store"
  key, value, \* the arguments of the insertion being made
  old,        \* during a resize, what is left of the chains of the old array
  chain,      \* the loop variable of htRehash
  answer,     \* what the last call returned: <<operation, key, result>>
  entered,    \* history: the keys that the caller has inserted
  failed      \* history: how often malloc has returned NULL

arrayVars == <<nodes, capacity, threshold>>
moveVars == <<next, old, chain>>
argVars == <<key, value>>
historyVars == <<entered, failed>>
vars == <<arrayVars, size, hash, call, moveVars, argVars, answer, historyVars>>

\* An allocated array has one chain at least: that with none stands for NULL.
NoChains == [i \in {} |-> <<>>]

Init ==
  /\ nodes = NoChains /\ size = 0 /\ capacity = 0 /\ threshold = 0
  /\ hash \in Hashes
  /\ call = "start" /\ next = "none"
  /\ key = NULL /\ value = NULL
  /\ old = NoChains /\ chain = 0
  /\ answer = <<"init", NULL, 0>>
  /\ entered = {} /\ failed = 0

-----------------------------------------------------------------------------
HashtableIsInitialized == nodes # NoChains

\* The new array of htAllocate, all of whose chains are empty.
EmptyChains(n) == [i \in 0 .. n - 1 |-> <<>>]

htAllocate(n) ==
  /\ nodes' = EmptyChains(n)
  /\ capacity' = n
  /\ threshold' = n * 5
  /\ UNCHANGED failed

htAllocateFails ==
  /\ failed < MaxFailures
  /\ nodes' = NoChains
  /\ failed' = failed + 1
  /\ UNCHANGED <<capacity, threshold>>

htHash(k) == hash[k] % capacity

\* Node n is the first one of chain c with key k: where the loop over a chain
\* ends.
FirstWith(c, k, n) ==
  /\ n \in 1 .. Len(c) /\ c[n].key = k
  /\ \A m \in 1 .. n - 1 : c[m].key # k
Has(c, k) == \E n \in 1 .. Len(c) : FirstWith(c, k, n)

\* The call ends with this result.
Returns(operation, k, result) ==
  /\ call' = "none"
  /\ answer' = <<operation, k, result>>
NoArguments == key' = NULL /\ value' = NULL

InitHashtable(n) ==
  /\ call = "start"
  /\ \/ /\ htAllocate(IF n < MinimumCapacity THEN MinimumCapacity ELSE n)
        /\ size' = 0
        /\ Returns("init", NULL, 0)
     \/ /\ htAllocateFails
        /\ Returns("init", NULL, -1)
        /\ UNCHANGED size
  /\ UNCHANGED <<hash, moveVars, argVars, entered>>

-----------------------------------------------------------------------------
(***************************************************************************)
(* htResize and htRehash                                                   *)
(***************************************************************************)

\* The capacity that htResize makes of the one it is given, 0 for no resize.
NewCapacity(n) ==
  IF n >= MinimumCapacity THEN n ELSE IF capacity > MinimumCapacity THEN MinimumCapacity ELSE 0

\* The part of htResize before the loops.
htResize(n) ==
  \/ /\ htAllocate(n)
     /\ old' = nodes /\ chain' = 0
     /\ call' = "rehash"
  \/ /\ htAllocateFails
     /\ call' = "failed"
     /\ UNCHANGED <<old, chain>>

\* Mutants: the rest of a chain is dropped, or a node keeps its old index.
htRehash_DropsRest ==
  /\ call = "rehash" /\ chain \in DOMAIN old /\ old[chain] # <<>>
  /\ LET node == Head(old[chain]) IN
     nodes' = [nodes EXCEPT ![htHash(node.key)] = <<node>> \o @]
  /\ old' = [old EXCEPT ![chain] = <<>>]
  /\ UNCHANGED <<capacity, threshold, size, hash, call, next, chain, argVars, answer, historyVars>>
htRehash_SameIndex ==
  /\ call = "rehash" /\ chain \in DOMAIN old /\ old[chain] # <<>>
  /\ nodes' = [nodes EXCEPT ![chain] = <<Head(old[chain])>> \o @]
  /\ old' = [old EXCEPT ![chain] = Tail(@)]
  /\ UNCHANGED <<capacity, threshold, size, hash, call, next, chain, argVars, answer, historyVars>>

\* One iteration of the inner loop: a node moves to the front of its new chain.
htRehash ==
  /\ call = "rehash" /\ chain \in DOMAIN old /\ old[chain] # <<>>
  /\ LET node == Head(old[chain]) IN
     nodes' = [nodes EXCEPT ![htHash(node.key)] = <<node>> \o @]
  /\ old' = [old EXCEPT ![chain] = Tail(@)]
  /\ UNCHANGED <<capacity, threshold, size, hash, call, next, chain, argVars, answer, historyVars>>

\* The inner loop ends, and the outer one goes on.
RehashNextChain ==
  /\ call = "rehash" /\ chain \in DOMAIN old /\ old[chain] = <<>>
  /\ chain' = chain + 1
  /\ UNCHANGED <<arrayVars, size, hash, call, next, old, argVars, answer, historyVars>>

\* Every chain has moved, or there is no new array: the old one is freed, or
\* lost.  InsertHashtable ignores which of the two it was.
EndResize ==
  /\ \/ call = "rehash" /\ chain \notin DOMAIN old
     \/ call = "failed"
  /\ \/ next = "store" /\ call' = "store" /\ UNCHANGED answer
     \/ next = "none" /\ Returns("reserve", NULL, IF call = "failed" THEN -1 ELSE 0)
  /\ old' = NoChains /\ chain' = 0 /\ next' = "none"
  /\ UNCHANGED <<arrayVars, size, hash, argVars, historyVars>>

reserveCapacityOfHashtable(n) ==
  /\ call = "none"
  /\ LET m == NewCapacity(n \div 5) IN
     \/ /\ HashtableIsInitialized /\ n > threshold /\ m # 0
        /\ htResize(m)
        /\ next' = "none"
        /\ UNCHANGED answer
     \/ /\ HashtableIsInitialized => n <= threshold \/ m = 0
        /\ Returns("reserve", NULL, IF HashtableIsInitialized THEN 0 ELSE -1)
        /\ UNCHANGED <<arrayVars, moveVars, failed>>
  /\ UNCHANGED <<size, hash, argVars, entered>>

-----------------------------------------------------------------------------
(***************************************************************************)
(* InsertHashtable                                                         *)
(***************************************************************************)

\* Mutant: the table grows at the limit that reserveCapacityOfHashtable tests.
htShouldGrow_AtThreshold == size = threshold
htShouldGrow == size = capacity

\* The part before the chain is searched.  A size beyond the capacity ends the
\* program (htShouldGrow).
InsertHashtable(k, v) ==
  /\ call = "none"
  /\ entered' = entered \cup {k}
  /\ IF HashtableIsInitialized THEN key' = k /\ value' = v ELSE NoArguments
  /\ LET m == NewCapacity(size * 2) IN
     \/ /\ ~HashtableIsInitialized
        /\ Returns("insert", k, -1)
        /\ UNCHANGED <<arrayVars, moveVars, failed>>
     \/ /\ HashtableIsInitialized /\ (~htShouldGrow \/ m = 0)
        /\ call' = IF size > capacity THEN "exit" ELSE "store"
        /\ UNCHANGED <<arrayVars, moveVars, failed, answer>>
     \/ /\ HashtableIsInitialized /\ htShouldGrow /\ m # 0
        /\ htResize(m)
        /\ next' = "store"
        /\ UNCHANGED answer
  /\ UNCHANGED <<size, hash>>

\* The key is found in its chain: its value is overwritten.
Update ==
  /\ call = "store" /\ HashtableIsInitialized
  /\ \E n \in 1 .. Len(nodes[htHash(key)]) :
       /\ FirstWith(nodes[htHash(key)], key, n)
       /\ nodes' = [nodes EXCEPT ![htHash(key)][n].value = value]
  /\ Returns("insert", key, 1) /\ NoArguments
  /\ UNCHANGED <<size, capacity, threshold, hash, moveVars, historyVars>>

\* Mutant: the new node is put in place of the first one.
htPushFront_Replaces ==
  nodes' = [nodes EXCEPT ![htHash(key)] =
              <<[key |-> key, value |-> value]>> \o IF @ = <<>> THEN @ ELSE Tail(@)]

\* The node is created with the chain behind it.
htPushFront ==
  nodes' = [nodes EXCEPT ![htHash(key)] = <<[key |-> key, value |-> value]>> \o @]

\* The key is not found.  A node that cannot be created leaves NULL at the head
\* of the chain: the chain is lost.
Push ==
  /\ call = "store" /\ HashtableIsInitialized
  /\ ~Has(nodes[htHash(key)], key)
  /\ \/ /\ htPushFront
        /\ size' = size + 1
        /\ Returns("insert", key, 0)
        /\ UNCHANGED failed
     \/ /\ failed < MaxFailures
        /\ nodes' = [nodes EXCEPT ![htHash(key)] = <<>>]
        /\ failed' = failed + 1
        /\ Returns("insert", key, -1)
        /\ UNCHANGED size
  /\ NoArguments
  /\ UNCHANGED <<capacity, threshold, hash, moveVars, entered>>

-----------------------------------------------------------------------------
(***************************************************************************)
(* The other calls.                                                        *)
(***************************************************************************)
ContainsInHashtable(k) ==
  /\ call = "none"
  /\ Returns("contains", k, IF ~HashtableIsInitialized THEN -1
                            ELSE IF Has(nodes[htHash(k)], k) THEN 1 ELSE 0)
  /\ UNCHANGED <<arrayVars, size, hash, moveVars, argVars, historyVars>>

FindFromHashtable(k) ==
  /\ call = "none" /\ HashtableIsInitialized
  /\ LET c == nodes[htHash(k)] IN
     \/ \E n \in 1 .. Len(c) : FirstWith(c, k, n) /\ Returns("find", k, c[n].value)
     \/ ~Has(c, k) /\ Returns("find", k, NULL)
  /\ UNCHANGED <<arrayVars, size, hash, moveVars, argVars, historyVars>>

\* The caller counts a subprocess down through the pointer that it gets from
\* FindFromHashtable, for a process it has inserted.
CountDown(k) ==
  /\ call = "none" /\ HashtableIsInitialized /\ k \in entered
  /\ LET c == nodes[htHash(k)] IN
     \E n \in 1 .. Len(c) :
       /\ FirstWith(c, k, n)
       /\ Returns("find", k, c[n].value)
       /\ nodes' = IF c[n].value > 1 THEN [nodes EXCEPT ![htHash(k)][n].value = @ - 1] ELSE nodes
  /\ UNCHANGED <<capacity, threshold, size, hash, moveVars, argVars, historyVars>>

\* What is read through a null pointer: the array when its allocation failed, by
\* the rest of an insertion or by FindFromHashtable, or the value of a process
\* whose node was lost, by the caller.
StoreInNull ==
  /\ call = "store" /\ ~HashtableIsInitialized
  /\ call' = "undefined"
  /\ UNCHANGED <<arrayVars, size, hash, moveVars, argVars, answer, historyVars>>

ReadNull ==
  /\ call = "none"
  /\ HashtableIsInitialized => \E k \in entered : ~Has(nodes[htHash(k)], k)
  /\ call' = "undefined"
  /\ UNCHANGED <<arrayVars, size, hash, moveVars, argVars, answer, historyVars>>

\* Every node of every chain is freed, then the array, if there is one.
CleanAndDestroyHashtable ==
  /\ call = "none"
  /\ call' = "destroyed"
  /\ UNCHANGED <<arrayVars, size, hash, moveVars, argVars, answer, historyVars>>

-----------------------------------------------------------------------------
\* A call in progress.
CallStep == htRehash \/ RehashNextChain \/ EndResize \/ Update \/ Push \/ StoreInNull

Ended == call \in {"destroyed", "exit", "undefined"}

Next ==
  \/ \E n \in Sizes : InitHashtable(n)
  \/ \E n \in Reserved : reserveCapacityOfHashtable(n)
  \/ \E k \in Key :
       \/ \E v \in Value : InsertHashtable(k, v)
       \/ ContainsInHashtable(k) \/ FindFromHashtable(k) \/ CountDown(k)
  \/ CallStep \/ ReadNull \/ CleanAndDestroyHashtable
  \/ Ended /\ UNCHANGED vars

Spec == Init /\ [][Next]_vars
=============================================================================
