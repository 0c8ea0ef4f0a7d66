-------------------------- MODULE HashTableProperties --------------------------
(***************************************************************************)
(* What the hash table promises to sim.c, and the refinement of Table.     *)
(***************************************************************************)
EXTENDS HashTable

Node == [key : Key, value : Value]

\* The nodes of a chain, and those of an array of chains.
NodesIn(c) == {c[n] : n \in 1 .. Len(c)}
NodesOf(array) == UNION {NodesIn(array[i]) : i \in DOMAIN array}
Held == NodesOf(nodes) \cup NodesOf(old)
KeysHeld == {node.key : node \in Held}

\* An array holds no key in two places.
EachKeyOnce(array) == \A i, j \in DOMAIN array : \A m \in 1 .. Len(array[i]), n \in 1 .. Len(array[j]) :
  array[i][m].key = array[j][n].key => i = j /\ m = n

TableTypeOK ==
  /\ nodes # NoChains => nodes \in [0 .. capacity - 1 -> Seq(Node)]
  /\ \E n \in 0 .. capacity : old \in [0 .. n - 1 -> Seq(Node)]
  /\ size \in Nat /\ capacity \in Nat /\ threshold \in Nat /\ chain \in Nat /\ hash \in Hashes
  /\ call \in {"start", "none", "rehash", "failed", "store", "undefined", "destroyed"}
  /\ next \in {"none", "store"} /\ key \in Key \cup {NULL} /\ value \in Value \cup {NULL}
  /\ entered \subseteq Key /\ failed \in 0 .. MaxFailures

\* A search looks in one chain only, and a resize changes the chain of a key:
\* whatever was resized, moved, updated or lost, a node is in the chain that its
\* key hashes to under the capacity of the moment, no key has two nodes, and
\* during a resize none is in both arrays (htHash, htRehash).
NodesInPlace ==
  /\ \A i \in DOMAIN nodes : \A node \in NodesIn(nodes[i]) : htHash(node.key) = i
  /\ EachKeyOnce(nodes) /\ EachKeyOnce(old)
  /\ \A p \in NodesOf(nodes), q \in NodesOf(old) : p.key # q.key

\* size counts the nodes that have not been lost; it stays within the capacity,
\* so that the growth test by equality is not jumped over and htShouldGrow never
\* ends the program; and without a failure no null pointer is read.
SizeCounts ==
  /\ call # "exit" /\ (call # "start" /\ HashtableIsInitialized => size <= capacity)
  /\ Cardinality(KeysHeld) <= size
  /\ failed = 0 => call # "undefined" /\ Cardinality(KeysHeld) = size

-----------------------------------------------------------------------------
(***************************************************************************)
(* The inductive invariant that these follow from.                         *)
(***************************************************************************)

\* The array never shrinks below its least size, an insertion has room for one
\* more node, and the limit is known.
CapacityInv == HashtableIsInitialized =>
  /\ capacity >= MinimumCapacity /\ threshold = capacity * 5 /\ size <= capacity
  /\ call = "store" \/ next = "store" => size < capacity

\* Where a call is, and what it works with.
CallInv ==
  /\ call \in {"start", "failed"} => ~HashtableIsInitialized
  /\ call = "start" => size = 0 /\ answer = <<"init", NULL, 0>>
  /\ call = "rehash" => HashtableIsInitialized
  /\ call # "rehash" => old = NoChains
  /\ \A i \in DOMAIN old : i < chain => old[i] = <<>>
  /\ next = "store" => call \in {"rehash", "failed"}
  /\ call = "store" \/ next = "store" => key \in entered /\ value \in Value

\* What is held was inserted, and without a failure what was inserted is held, but
\* for the key that is being inserted.
EnteredInv ==
  /\ KeysHeld \subseteq entered /\ IsFiniteSet(entered)
  /\ call = "start" => entered = {}
  /\ failed = 0 =>
       /\ call # "failed" /\ (call = "start" \/ HashtableIsInitialized)
       /\ entered \subseteq KeysHeld \cup (IF call = "store" \/ next = "store" THEN {key} ELSE {})

\* What every step of the table keeps, whatever malloc has refused: an insertion
\* always has room for its node, and nothing that was inserted is lost unless
\* memory was refused (InsertHashtable, htResize, htRehash).
TableInv == TableTypeOK /\ NodesInPlace /\ SizeCounts /\ CapacityInv /\ CallInv /\ EnteredInv

-----------------------------------------------------------------------------
\* The function that the chains of both arrays stand for.
EntriesHeld == [k \in KeysHeld |-> (CHOOSE node \in Held : node.key = k).value]

Abstract == INSTANCE Table WITH None <- NULL, entries <- EntriesHeld

\* malloc refuses memory: for a node, and what its chain held is lost, or for an
\* array, and everything is.  A call that finds no array comes after that.
LosesChain == /\ failed' > failed /\ HashtableIsInitialized'
              /\ Abstract!LoseSome(key, {k \in Key : htHash(k) = htHash(key)})
LosesArray == failed' > failed /\ ~HashtableIsInitialized' /\ Abstract!LoseAll
Refuses == failed' > 0 /\ ~HashtableIsInitialized' /\ Abstract!Refuse

\* Every call answers as the table of Table does, and a resize in the middle of an
\* insertion changes nothing.  When malloc refuses memory, no more is lost than the
\* chain of the node (myHashtable.c:259) or the array (myHashtable.c:284), what is
\* left is found as before, and no call answers as if it had succeeded.
ImplementsTable ==
  /\ Abstract!Init
  /\ [][Abstract!Next \/ LosesChain \/ LosesArray \/ Refuses]_(Abstract!tableVars)
=============================================================================
