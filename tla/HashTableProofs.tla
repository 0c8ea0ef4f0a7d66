---------------------------- MODULE HashTableProofs ----------------------------
(***************************************************************************)
(* The promises of the hash table, and that it implements Table, for every *)
(* set of keys, every hash function and every capacity.                    *)
(***************************************************************************)
EXTENDS HashTableProperties, FiniteSetTheorems, SequenceTheorems, TLAPS

-----------------------------------------------------------------------------
(***************************************************************************)
(* Chains.                                                                 *)
(***************************************************************************)
Keys(c) == {node.key : node \in NodesIn(c)}
KeysApart(c) == \A m, n \in 1 .. Len(c) : c[m].key = c[n].key => m = n

\* A node in front of a chain.
LEMMA PushChain ==
  ASSUME NEW c \in Seq(Node), NEW node \in Node, NEW d, d = <<node>> \o c
  PROVE  /\ d \in Seq(Node)
         /\ NodesIn(d) = NodesIn(c) \cup {node}
         /\ KeysApart(c) /\ node.key \notin Keys(c) => KeysApart(d)
<1>1. /\ d \in Seq(Node) /\ Len(d) = Len(c) + 1 /\ Len(c) \in Nat
      /\ \A n \in 1 .. Len(d) : d[n] = IF n = 1 THEN node ELSE c[n - 1]
  OBVIOUS
<1>2. NodesIn(d) = NodesIn(c) \cup {node}
  <2>1. \A n \in 1 .. Len(c) : n + 1 \in 1 .. Len(d) /\ d[n + 1] = c[n]
    BY <1>1
  <2>2. 1 \in 1 .. Len(d) /\ d[1] = node
    BY <1>1
  <2>3. \A n \in 1 .. Len(d) : d[n] = node \/ (n - 1 \in 1 .. Len(c) /\ d[n] = c[n - 1])
    BY <1>1
  <2> QED BY <1>1, <2>1, <2>2, <2>3 DEF NodesIn
<1>3. ASSUME KeysApart(c), node.key \notin Keys(c) PROVE KeysApart(d)
  <2>1. \A n \in 1 .. Len(c) : c[n].key # node.key
    BY <1>3 DEF Keys, NodesIn
  <2> SUFFICES ASSUME NEW m \in 1 .. Len(d), NEW n \in 1 .. Len(d), d[m].key = d[n].key PROVE m = n
    BY DEF KeysApart
  <2>2. CASE m = 1 \/ n = 1
    BY <1>1, <2>1, <2>2
  <2>3. CASE m # 1 /\ n # 1
    <3>1. /\ m - 1 \in 1 .. Len(c) /\ d[m] = c[m - 1]
          /\ n - 1 \in 1 .. Len(c) /\ d[n] = c[n - 1]
      BY <1>1, <2>3
    <3>2. m - 1 = n - 1
      BY <1>3, <3>1 DEF KeysApart
    <3> QED BY <3>2
  <2> QED BY <2>2, <2>3
<1> QED BY <1>1, <1>2, <1>3

\* The rest of a chain.
LEMMA TailChain ==
  ASSUME NEW c \in Seq(Node), c # <<>>, NEW d, d = Tail(c)
  PROVE  /\ Head(c) \in Node /\ d \in Seq(Node)
         /\ NodesIn(c) = NodesIn(d) \cup {Head(c)}
         /\ KeysApart(c) => KeysApart(d) /\ Head(c).key \notin Keys(d)
<1>1. /\ d \in Seq(Node) /\ Len(c) = Len(d) + 1 /\ Len(d) \in Nat /\ Head(c) = c[1]
      /\ \A n \in 1 .. Len(d) : d[n] = c[n + 1]
  OBVIOUS
<1>2. c[1] \in Node
  BY <1>1
<1>3. NodesIn(c) = NodesIn(d) \cup {c[1]}
  <2>1. \A n \in 1 .. Len(d) : n + 1 \in 1 .. Len(c) /\ d[n] = c[n + 1]
    BY <1>1
  <2>2. \A n \in 1 .. Len(c) : n = 1 \/ (n - 1 \in 1 .. Len(d) /\ d[n - 1] = c[n])
    BY <1>1
  <2>3. 1 \in 1 .. Len(c)
    BY <1>1
  <2> QED BY <2>1, <2>2, <2>3 DEF NodesIn
<1>4. ASSUME KeysApart(c) PROVE KeysApart(d) /\ c[1].key \notin Keys(d)
  BY <1>1, <1>4 DEF KeysApart, Keys, NodesIn
<1> QED BY <1>1, <1>2, <1>3, <1>4

\* The value of one node of a chain is changed.
LEMMA SetChain ==
  ASSUME NEW c \in Seq(Node), NEW n \in 1 .. Len(c), KeysApart(c), NEW new, new.key = c[n].key,
         NEW d \in Seq(Node), Len(d) = Len(c), d[n] = new,
         \A m \in 1 .. Len(c) : m # n => d[m] = c[m]
  PROVE  /\ NodesIn(d) = (NodesIn(c) \ {c[n]}) \cup {new}
         /\ Keys(d) = Keys(c) /\ KeysApart(d)
<1>1. \A m \in 1 .. Len(c) : m # n => c[m] # c[n]
  BY DEF KeysApart
<1>2. NodesIn(d) = (NodesIn(c) \ {c[n]}) \cup {new}
  BY <1>1 DEF NodesIn
<1>3. \A m \in 1 .. Len(c) : d[m].key = c[m].key
  OBVIOUS
<1>4. KeysApart(d)
  BY <1>3 DEF KeysApart
<1>5. Keys(d) = Keys(c)
  <2>1. \A k : k \in Keys(d) <=> \E m \in 1 .. Len(c) : k = d[m].key
    BY DEF Keys, NodesIn
  <2>2. \A k : k \in Keys(c) <=> \E m \in 1 .. Len(c) : k = c[m].key
    BY DEF Keys, NodesIn
  <2>3. \A k : k \in Keys(d) <=> k \in Keys(c)
    BY ONLY <1>3, <2>1, <2>2
  <2> HIDE DEF Keys
  <2> QED BY ONLY <2>3
<1> QED BY <1>2, <1>4, <1>5

\* The first node with a key is the only one: what a search finds.
LEMMA Search ==
  ASSUME NEW c \in Seq(Node), KeysApart(c), NEW k
  PROVE  /\ \A n \in 1 .. Len(c) : FirstWith(c, k, n) <=> c[n].key = k
         /\ Has(c, k) <=> k \in Keys(c)
<1>1. ASSUME NEW n \in 1 .. Len(c) PROVE FirstWith(c, k, n) <=> c[n].key = k
  <2>1. \A m \in 1 .. n - 1 : m \in 1 .. Len(c) /\ m # n
    OBVIOUS
  <2> QED BY <2>1 DEF FirstWith, KeysApart
<1> QED BY <1>1 DEF Has, Keys, NodesIn

-----------------------------------------------------------------------------
(***************************************************************************)
(* Arrays of chains: what a change of one chain does to the nodes held.    *)
(***************************************************************************)
ArrayKeys(array) == {node.key : node \in NodesOf(array)}

\* An array of chains, and another that differs from it in one chain.
IsArray(array) == array \in [DOMAIN array -> Seq(Node)]
SameBut(array, b, h) ==
  /\ b = [i \in DOMAIN array |-> b[i]] /\ h \in DOMAIN array
  /\ \A i \in DOMAIN array : i # h => b[i] = array[i]

\* Set B is set A with one more element, or with y for x.
Adds(A, B, x) == B = A \cup {x}
Swaps(A, B, x, y) == B = (A \ {x}) \cup {y}

\* Chain d is chain c with a node in front, or with another value in node n.
PushedTo(c, d, node) == d = <<node>> \o c
ValueSet(c, d, n, v) == d = [c EXCEPT ![n] = [@ EXCEPT !.value = v]]

LEMMA SameButChains ==
  ASSUME NEW S, NEW array \in [S -> Seq(Node)], NEW b, NEW h, SameBut(array, b, h), b[h] \in Seq(Node)
  PROVE  b \in [S -> Seq(Node)]
<1>1. DOMAIN b = S /\ \A i \in S : b[i] \in Seq(Node)
  BY DEF SameBut
<1>2. b = [i \in S |-> b[i]]
  BY DEF SameBut
<1> QED BY <1>1, <1>2

LEMMA ArrayOf ==
  ASSUME NEW S, NEW array, array \in [S -> Seq(Node)]
  PROVE  IsArray(array) /\ DOMAIN array = S
BY DEF IsArray

\* In one array each chain holds a key once, and no two chains hold the same.
LEMMA OnceByChain ==
  ASSUME NEW S, NEW array \in [S -> Seq(Node)]
  PROVE  EachKeyOnce(array) <=>
           /\ \A i \in S : KeysApart(array[i])
           /\ \A i, j \in S : i # j => \A k \in Keys(array[i]) : k \notin Keys(array[j])
<1>1. DOMAIN array = S /\ \A i \in S : array[i] \in Seq(Node)
  OBVIOUS
<1>2. ASSUME EachKeyOnce(array), NEW i \in S PROVE KeysApart(array[i])
  BY <1>1, <1>2 DEF EachKeyOnce, KeysApart
<1>3. ASSUME EachKeyOnce(array), NEW i \in S, NEW j \in S, i # j
      PROVE  \A k \in Keys(array[i]) : k \notin Keys(array[j])
  <2>1. \A m \in 1 .. Len(array[i]), n \in 1 .. Len(array[j]) : array[i][m].key # array[j][n].key
    BY <1>1, <1>3 DEF EachKeyOnce
  <2> QED BY <2>1 DEF Keys, NodesIn
<1>4. ASSUME \A i \in S : KeysApart(array[i]),
             \A i, j \in S : i # j => \A k \in Keys(array[i]) : k \notin Keys(array[j])
      PROVE  EachKeyOnce(array)
  <2> SUFFICES ASSUME NEW i \in S, NEW j \in S, NEW m \in 1 .. Len(array[i]),
                      NEW n \in 1 .. Len(array[j]), array[i][m].key = array[j][n].key
               PROVE  i = j /\ m = n
    BY <1>1 DEF EachKeyOnce
  <2>1. array[i][m].key \in Keys(array[i]) /\ array[j][n].key \in Keys(array[j])
    BY DEF Keys, NodesIn
  <2>2. i = j
    BY <1>4, <2>1
  <2> QED BY <1>4, <2>2 DEF KeysApart
<1> QED BY <1>2, <1>3, <1>4

\* The nodes of the chains but one.
Others(array, h) == UNION {NodesIn(array[i]) : i \in DOMAIN array \ {h}}

LEMMA SplitNodes ==
  ASSUME NEW array, NEW h \in DOMAIN array
  PROVE  NodesOf(array) = Others(array, h) \cup NodesIn(array[h])
<1>1. \A x : x \in NodesOf(array) <=> \E i \in DOMAIN array : x \in NodesIn(array[i])
  BY DEF NodesOf
<1>2. \A x : x \in Others(array, h) <=> \E i \in DOMAIN array \ {h} : x \in NodesIn(array[i])
  BY DEF Others
<1>3. \A x : x \in NodesOf(array) <=> x \in Others(array, h) \/ x \in NodesIn(array[h])
  BY <1>1, <1>2
<1> QED BY <1>3

LEMMA OneChain ==
  ASSUME NEW array, NEW b, NEW h, SameBut(array, b, h)
  PROVE  /\ NodesOf(array) = Others(array, h) \cup NodesIn(array[h])
         /\ NodesOf(b) = Others(array, h) \cup NodesIn(b[h])
<1>1. Others(b, h) = Others(array, h)
  BY DEF Others, SameBut
<1> QED BY <1>1, SplitNodes DEF SameBut

LEMMA PushArray ==
  ASSUME NEW array, NEW b, NEW h, NEW node \in Node, IsArray(array), SameBut(array, b, h),
         PushedTo(array[h], b[h], node)
  PROVE  /\ IsArray(b) /\ Adds(NodesIn(array[h]), NodesIn(b[h]), node)
         /\ Adds(NodesOf(array), NodesOf(b), node)
         /\ EachKeyOnce(array) /\ node.key \notin ArrayKeys(array) => EachKeyOnce(b)
<1> DEFINE S == DOMAIN array
<1>0. /\ array \in [S -> Seq(Node)] /\ b \in [S -> Seq(Node)] /\ h \in S
      /\ \A i \in S : i # h => b[i] = array[i]
  <2>1. array \in [S -> Seq(Node)] /\ DOMAIN b = S /\ h \in S /\ \A i \in S : i # h => b[i] = array[i]
    BY DEF IsArray, SameBut
  <2>2. b[h] \in Seq(Node)
    BY <2>1, PushChain DEF PushedTo
  <2>3. b \in [S -> Seq(Node)]
    BY ONLY <2>1, <2>2, SameBut(array, b, h), SameButChains
  <2> QED BY ONLY <2>1, <2>3
<1> USE <1>0
<1> HIDE DEF S
<1>1. /\ NodesOf(array) = Others(array, h) \cup NodesIn(array[h])
      /\ NodesOf(b) = Others(array, h) \cup NodesIn(b[h])
  BY ONLY SameBut(array, b, h), OneChain
<1>3. /\ NodesIn(b[h]) = NodesIn(array[h]) \cup {node}
      /\ KeysApart(array[h]) /\ node.key \notin Keys(array[h]) => KeysApart(b[h])
  BY PushChain DEF PushedTo
<1>4. ASSUME EachKeyOnce(array), node.key \notin ArrayKeys(array) PROVE EachKeyOnce(b)
  <2>1. \A i \in S : node.key \notin Keys(array[i])
    BY <1>4 DEF ArrayKeys, Keys, NodesOf
  <2>2. Keys(b[h]) = Keys(array[h]) \cup {node.key}
    BY <1>3 DEF Keys
  <2>3. /\ \A i \in S : KeysApart(array[i])
        /\ \A i, j \in S : i # j => \A k \in Keys(array[i]) : k \notin Keys(array[j])
    BY <1>4, OnceByChain
  <2>4. \A i \in S : KeysApart(b[i])
    BY <1>3, <2>1, <2>3
  <2>5. \A i, j \in S : i # j => \A k \in Keys(b[i]) : k \notin Keys(b[j])
    BY <2>1, <2>2, <2>3
  <2> QED BY <2>4, <2>5, OnceByChain
<1> QED BY <1>1, <1>3, <1>4 DEF IsArray, S, Adds

LEMMA TailArray ==
  ASSUME NEW array, NEW b, NEW h, array[h] # <<>>, IsArray(array), SameBut(array, b, h),
         b[h] = Tail(array[h]), EachKeyOnce(array)
  PROVE  /\ IsArray(b) /\ Head(array[h]) \in Node
         /\ NodesOf(array) = NodesOf(b) \cup {Head(array[h])}
         /\ EachKeyOnce(b) /\ Head(array[h]).key \notin ArrayKeys(b)
<1> DEFINE S == DOMAIN array
<1>0. /\ array \in [S -> Seq(Node)] /\ b \in [S -> Seq(Node)] /\ h \in S
      /\ \A i \in S : i # h => b[i] = array[i]
  <2>1. array \in [S -> Seq(Node)] /\ DOMAIN b = S /\ h \in S /\ \A i \in S : i # h => b[i] = array[i]
    BY DEF IsArray, SameBut
  <2>2. b[h] \in Seq(Node)
    BY <2>1
  <2>3. b \in [S -> Seq(Node)]
    BY ONLY <2>1, <2>2, SameBut(array, b, h), SameButChains
  <2> QED BY ONLY <2>1, <2>3
<1> USE <1>0
<1> HIDE DEF S
<1> DEFINE node == Head(array[h])
<1>1. /\ \A i \in S : KeysApart(array[i])
      /\ \A i, j \in S : i # j => \A k \in Keys(array[i]) : k \notin Keys(array[j])
  BY OnceByChain
<1>2. /\ node \in Node /\ NodesIn(array[h]) = NodesIn(b[h]) \cup {node}
      /\ KeysApart(b[h]) /\ node.key \notin Keys(b[h])
  BY <1>1, TailChain
<1> HIDE DEF node
<1>3. /\ NodesOf(array) = Others(array, h) \cup NodesIn(array[h])
      /\ NodesOf(b) = Others(array, h) \cup NodesIn(b[h])
  BY ONLY SameBut(array, b, h), OneChain
<1>4. Keys(array[h]) = Keys(b[h]) \cup {node.key}
  BY <1>2 DEF Keys
<1>5. EachKeyOnce(b)
  <2>1. \A i \in S : KeysApart(b[i])
    BY <1>1, <1>2, <1>3
  <2>2. \A i, j \in S : i # j => \A k \in Keys(b[i]) : k \notin Keys(b[j])
    BY <1>1, <1>3, <1>4
  <2> QED BY ONLY <1>0, <2>1, <2>2, OnceByChain
<1>6. \A i \in S : node.key \notin Keys(b[i])
  BY <1>1, <1>2, <1>3, <1>4
<1>7. node.key \notin ArrayKeys(b)
  BY <1>3, <1>6 DEF ArrayKeys, NodesOf, Keys
<1> QED BY <1>2, <1>3, <1>5, <1>7 DEF node, IsArray, S

LEMMA SetArray ==
  ASSUME NEW array, NEW b, NEW h, NEW n \in 1 .. Len(array[h]), NEW v \in Value,
         IsArray(array), SameBut(array, b, h), EachKeyOnce(array),
         ValueSet(array[h], b[h], n, v)
  PROVE  /\ IsArray(b) /\ EachKeyOnce(b) /\ \A i \in DOMAIN array : Keys(b[i]) = Keys(array[i])
         /\ Swaps(NodesOf(array), NodesOf(b), array[h][n], [key |-> array[h][n].key, value |-> v])
<1> DEFINE S == DOMAIN array
<1>0. /\ array \in [S -> Seq(Node)] /\ b \in [S -> Seq(Node)] /\ h \in S
      /\ \A i \in S : i # h => b[i] = array[i]
  <2>1. array \in [S -> Seq(Node)] /\ DOMAIN b = S /\ h \in S /\ \A i \in S : i # h => b[i] = array[i]
    BY DEF IsArray, SameBut
  <2>2. b[h] \in Seq(Node)
    <3> DEFINE c == array[h]  e == [c[n] EXCEPT !.value = v]
    <3>1. c \in Seq(Node) /\ n \in 1 .. Len(c) /\ b[h] = [c EXCEPT ![n] = e]
      BY <2>1 DEF ValueSet
    <3>2. c[n] \in Node
      BY <3>1
    <3>3. e \in Node
      BY <3>2 DEF Node
    <3> HIDE DEF c, e
    <3> QED BY ONLY <3>1, <3>3, ExceptSeq
  <2>3. b \in [S -> Seq(Node)]
    BY ONLY <2>1, <2>2, SameBut(array, b, h), SameButChains
  <2> QED BY ONLY <2>1, <2>3
<1> USE <1>0
<1> HIDE DEF S
<1> DEFINE node == array[h][n]  new == [key |-> node.key, value |-> v]
<1>1. array[h] \in Seq(Node) /\ node \in Node
  OBVIOUS
<1>2. new \in Node /\ new.key = node.key /\ [node EXCEPT !.value = v] = new
  BY <1>1 DEF Node
<1>3. /\ Len(b[h]) = Len(array[h])
      /\ \A m \in 1 .. Len(array[h]) : b[h][m] = IF m = n THEN new ELSE array[h][m]
  BY <1>1, <1>2, ExceptSeq DEF ValueSet
<1>4. /\ \A i \in S : KeysApart(array[i])
      /\ \A i, j \in S : i # j => \A k \in Keys(array[i]) : k \notin Keys(array[j])
  BY OnceByChain
<1>5. node \in NodesIn(array[h]) /\ node = array[h][n]
  BY DEF NodesIn
<1> HIDE DEF node, new
<1>6. /\ NodesIn(b[h]) = (NodesIn(array[h]) \ {node}) \cup {new}
      /\ Keys(b[h]) = Keys(array[h]) /\ KeysApart(b[h])
  <2>1. /\ array[h] \in Seq(Node) /\ n \in 1 .. Len(array[h]) /\ KeysApart(array[h])
        /\ new.key = array[h][n].key /\ b[h] \in Seq(Node)
    BY <1>1, <1>2, <1>4, <1>5
  <2>2. /\ NodesIn(b[h]) = (NodesIn(array[h]) \ {array[h][n]}) \cup {new}
        /\ Keys(b[h]) = Keys(array[h]) /\ KeysApart(b[h])
    <3> DEFINE c == array[h]  d == b[h]
    <3>1. /\ c \in Seq(Node) /\ n \in 1 .. Len(c) /\ KeysApart(c)
          /\ new.key = c[n].key /\ d \in Seq(Node) /\ Len(d) = Len(c)
          /\ d[n] = new /\ \A m \in 1 .. Len(c) : m # n => d[m] = c[m]
      BY <1>3, <2>1
    <3> HIDE DEF c, d
    <3>2. NodesIn(d) = (NodesIn(c) \ {c[n]}) \cup {new} /\ Keys(d) = Keys(c) /\ KeysApart(d)
      BY ONLY <3>1, SetChain
    <3> QED BY <3>2 DEF c, d
  <2> QED BY <1>5, <2>2
<1>7. /\ NodesOf(array) = Others(array, h) \cup NodesIn(array[h])
      /\ NodesOf(b) = Others(array, h) \cup NodesIn(b[h])
  BY ONLY SameBut(array, b, h), OneChain
<1>8. \A i \in S : KeysApart(b[i]) /\ Keys(b[i]) = Keys(array[i])
  BY <1>4, <1>6
<1>9. EachKeyOnce(b)
  BY <1>4, <1>8, OnceByChain
<1>10. node \notin Others(array, h)
  <2>1. \A i \in S : i # h => node.key \notin Keys(array[i])
    BY <1>4, <1>5 DEF Keys
  <2> QED BY <2>1 DEF Others, Keys
<1> QED BY <1>6, <1>7, <1>8, <1>9, <1>10 DEF node, new, IsArray, S, Swaps

LEMMA ClearArray ==
  ASSUME NEW array, NEW b, NEW h, IsArray(array), SameBut(array, b, h), EachKeyOnce(array),
         b[h] = <<>>
  PROVE  /\ IsArray(b) /\ EachKeyOnce(b) /\ NodesOf(b) \subseteq NodesOf(array)
         /\ \A i \in DOMAIN array : NodesIn(b[i]) \subseteq NodesIn(array[i])
<1> DEFINE S == DOMAIN array
<1>0. /\ array \in [S -> Seq(Node)] /\ b \in [S -> Seq(Node)] /\ h \in S
      /\ \A i \in S : i # h => b[i] = array[i]
  <2>1. array \in [S -> Seq(Node)] /\ DOMAIN b = S /\ h \in S /\ \A i \in S : i # h => b[i] = array[i]
    BY DEF IsArray, SameBut
  <2>2. b[h] \in Seq(Node)
    BY <2>1
  <2>3. b \in [S -> Seq(Node)]
    BY ONLY <2>1, <2>2, SameBut(array, b, h), SameButChains
  <2> QED BY ONLY <2>1, <2>3
<1> USE <1>0
<1> HIDE DEF S
<1>1. NodesIn(b[h]) = {}
  BY DEF NodesIn
<1>2. NodesOf(b) \subseteq NodesOf(array)
  <2>1. /\ NodesOf(array) = Others(array, h) \cup NodesIn(array[h])
        /\ NodesOf(b) = Others(array, h) \cup NodesIn(b[h])
    BY ONLY SameBut(array, b, h), OneChain
  <2> QED BY <1>1, <2>1
<1>3. \A i \in S : NodesIn(b[i]) \subseteq NodesIn(array[i])
  BY <1>1
<1>4. EachKeyOnce(b)
  <2>1. \A i \in S : Len(b[i]) = 0 \/ b[i] = array[i]
    OBVIOUS
  <2>2. DOMAIN b = S /\ DOMAIN array = S
    OBVIOUS
  <2>3. EachKeyOnce(array)
    OBVIOUS
  <2> QED BY ONLY <2>1, <2>2, <2>3 DEF EachKeyOnce
<1> QED BY <1>2, <1>3, <1>4 DEF IsArray, S

LEMMA EmptyNodes ==
  ASSUME NEW array, \A i \in DOMAIN array : array[i] = <<>>
  PROVE  NodesOf(array) = {}
<1>1. \A i \in DOMAIN array : NodesIn(array[i]) = {}
  BY DEF NodesIn
<1>2. \A x : ~ \E i \in DOMAIN array : x \in NodesIn(array[i])
  BY <1>1
<1>3. \A x : x \in NodesOf(array) <=> \E i \in DOMAIN array : x \in NodesIn(array[i])
  BY DEF NodesOf
<1>4. \A x : x \notin NodesOf(array)
  BY <1>2, <1>3
<1> QED BY <1>4

\* An array of empty chains, and none at all.
LEMMA EmptyArray ==
  ASSUME NEW n \in Nat \ {0}
  PROVE  /\ EmptyChains(n) \in [0 .. n - 1 -> Seq(Node)] /\ EmptyChains(n) # NoChains
         /\ NodesOf(EmptyChains(n)) = {} /\ EachKeyOnce(EmptyChains(n))
<1>1. /\ EmptyChains(n) \in [0 .. n - 1 -> Seq(Node)] /\ 0 \in DOMAIN EmptyChains(n)
      /\ \A i \in DOMAIN EmptyChains(n) : EmptyChains(n)[i] = <<>>
  BY DEF EmptyChains
<1>2. DOMAIN NoChains = {}
  BY DEF NoChains
<1> QED BY <1>1, <1>2 DEF NodesOf, NodesIn, EachKeyOnce

LEMMA NoArray ==
  /\ NoChains \in [0 .. 0 - 1 -> Seq(Node)] /\ DOMAIN NoChains = {}
  /\ NodesOf(NoChains) = {} /\ EachKeyOnce(NoChains)
BY DEF NoChains, NodesOf, EachKeyOnce

-----------------------------------------------------------------------------
(***************************************************************************)
(* What the invariant says of the array, of a search and of what is held.  *)
(***************************************************************************)
LEMMA Shape ==
  ASSUME TableInv
  PROVE  /\ HashtableIsInitialized =>
              /\ nodes \in [0 .. capacity - 1 -> Seq(Node)] /\ DOMAIN nodes = 0 .. capacity - 1
              /\ capacity \in Nat \ {0}
              /\ \A k \in Key : htHash(k) \in 0 .. capacity - 1
         /\ ~HashtableIsInitialized => nodes = NoChains /\ NodesOf(nodes) = {}
         /\ \E S : old \in [S -> Seq(Node)]
         /\ IsFiniteSet(KeysHeld) /\ Cardinality(KeysHeld) \in Nat
<1>1. ASSUME HashtableIsInitialized
      PROVE  /\ nodes \in [0 .. capacity - 1 -> Seq(Node)]
             /\ capacity \in Nat \ {0}
             /\ \A k \in Key : htHash(k) \in 0 .. capacity - 1
  <2>1. nodes \in [0 .. capacity - 1 -> Seq(Node)] /\ capacity \in Nat /\ capacity >= MinimumCapacity
        /\ hash \in [Key -> Nat]
    BY <1>1, TableAssumption DEF TableInv, TableTypeOK, CapacityInv, HashtableIsInitialized
  <2>2. capacity \in Nat \ {0}
    BY <2>1, TableAssumption
  <2>3. ASSUME NEW k \in Key PROVE htHash(k) \in 0 .. capacity - 1
    <3>1. hash[k] \in Nat
      BY <2>1
    <3> QED BY <2>2, <3>1 DEF htHash
  <2> QED BY <2>1, <2>2, <2>3
<1>2. ASSUME ~HashtableIsInitialized PROVE nodes = NoChains /\ NodesOf(nodes) = {}
  BY <1>2, NoArray DEF HashtableIsInitialized
<1>3. \E S : old \in [S -> Seq(Node)]
  BY DEF TableInv, TableTypeOK
<1>4. IsFiniteSet(KeysHeld) /\ Cardinality(KeysHeld) \in Nat
  <2>1. KeysHeld \subseteq entered /\ IsFiniteSet(entered)
    BY DEF TableInv, EnteredInv
  <2> QED BY ONLY <2>1, FS_Subset, FS_CardinalityType
<1> QED BY <1>1, <1>2, <1>3, <1>4

\* No two nodes that are held have the same key.
LEMMA OneNodeOfTwoArrays ==
  ASSUME NEW a, NEW b, EachKeyOnce(a), EachKeyOnce(b),
         \A p \in NodesOf(a), q \in NodesOf(b) : p.key # q.key
  PROVE  \A p, q \in NodesOf(a) \cup NodesOf(b) : p.key = q.key => p = q
<1>1. ASSUME NEW array, EachKeyOnce(array)
      PROVE  \A p, q \in NodesOf(array) : p.key = q.key => p = q
  BY <1>1 DEF EachKeyOnce, NodesOf, NodesIn
<1> QED BY <1>1

\* The chain that a key hashes to holds its node, if the array holds one.
LEMMA Lookup ==
  ASSUME TableInv, HashtableIsInitialized, NEW k \in Key, NEW c, c = nodes[htHash(k)]
  PROVE  /\ c \in Seq(Node) /\ KeysApart(c)
         /\ Has(c, k) <=> k \in ArrayKeys(nodes)
         /\ \A n \in 1 .. Len(c) : FirstWith(c, k, n) => c[n] \in NodesOf(nodes) /\ c[n].key = k
<1>1. /\ nodes \in [0 .. capacity - 1 -> Seq(Node)] /\ DOMAIN nodes = 0 .. capacity - 1
      /\ htHash(k) \in DOMAIN nodes
  BY Shape
<1>2. c \in Seq(Node)
  BY <1>1
<1>3. KeysApart(c)
  BY <1>1, OnceByChain DEF TableInv, NodesInPlace
<1>4. k \in Keys(c) <=> k \in ArrayKeys(nodes)
  <2>1. ASSUME NEW node \in NodesOf(nodes), node.key = k PROVE node \in NodesIn(c)
    BY <2>1 DEF NodesOf, TableInv, NodesInPlace
  <2>2. NodesIn(c) \subseteq NodesOf(nodes)
    BY <1>1 DEF NodesOf
  <2> QED BY <2>1, <2>2 DEF Keys, ArrayKeys
<1>5. /\ \A n \in 1 .. Len(c) : FirstWith(c, k, n) <=> c[n].key = k
      /\ Has(c, k) <=> k \in Keys(c)
  BY ONLY <1>2, <1>3, Search
<1>6. \A n \in 1 .. Len(c) : c[n] \in NodesOf(nodes)
  BY <1>1 DEF NodesOf, NodesIn
<1> QED BY <1>2, <1>3, <1>4, <1>5, <1>6

-----------------------------------------------------------------------------
(***************************************************************************)
(* What each change of the arrays does to what is held.                    *)
(***************************************************************************)
\* A node moves: it is held in the new array instead of the old one.
LEMMA RehashMoves ==
  ASSUME TableInv, htRehash
  PROVE  /\ nodes' \in [0 .. capacity - 1 -> Seq(Node)] /\ nodes' # NoChains
         /\ \A S : old \in [S -> Seq(Node)] => old' \in [S -> Seq(Node)]
         /\ NodesInPlace' /\ Held' = Held
<1> DEFINE node == Head(old[chain])  h == htHash(node.key)
<1>1. PICK S : old \in [S -> Seq(Node)]
  BY Shape
<1>2. /\ HashtableIsInitialized /\ chain \in S /\ old[chain] # <<>>
      /\ nodes' = [nodes EXCEPT ![h] = <<node>> \o @] /\ old' = [old EXCEPT ![chain] = Tail(@)]
      /\ hash' = hash /\ capacity' = capacity
  BY <1>1 DEF htRehash, TableInv, CallInv
<1>3. /\ EachKeyOnce(nodes) /\ EachKeyOnce(old)
      /\ \A p \in NodesOf(nodes), q \in NodesOf(old) : p.key # q.key
      /\ \A i \in DOMAIN nodes : \A p \in NodesIn(nodes[i]) : htHash(p.key) = i
  BY DEF TableInv, NodesInPlace
<1>4. /\ old' \in [S -> Seq(Node)] /\ \A i \in S : i # chain => old'[i] = old[i]
      /\ old'[chain] = Tail(old[chain])
  BY <1>1, <1>2
<1>5. /\ node \in Node /\ NodesOf(old) = NodesOf(old') \cup {node}
      /\ EachKeyOnce(old') /\ node.key \notin ArrayKeys(old')
  <2>1. /\ IsArray(old) /\ SameBut(old, old', chain) /\ old'[chain] = Tail(old[chain])
        /\ old[chain] # <<>> /\ EachKeyOnce(old)
    BY <1>1, <1>2, <1>3, <1>4 DEF IsArray, SameBut
  <2>2. /\ Head(old[chain]) \in Node /\ NodesOf(old) = NodesOf(old') \cup {Head(old[chain])}
        /\ EachKeyOnce(old') /\ Head(old[chain]).key \notin ArrayKeys(old')
    BY ONLY <2>1, TailArray
  <2> QED BY <2>2
<1>6. /\ nodes \in [0 .. capacity - 1 -> Seq(Node)] /\ DOMAIN nodes = 0 .. capacity - 1
      /\ h \in 0 .. capacity - 1
  BY <1>2, <1>5, Shape DEF Node
<1> HIDE DEF node, h
<1>7. /\ nodes' \in [0 .. capacity - 1 -> Seq(Node)] /\ DOMAIN nodes' = 0 .. capacity - 1
      /\ \A i \in 0 .. capacity - 1 : i # h => nodes'[i] = nodes[i]
      /\ nodes'[h] = <<node>> \o nodes[h]
  BY <1>2, <1>5, <1>6
<1>8. /\ NodesIn(nodes'[h]) = NodesIn(nodes[h]) \cup {node}
      /\ NodesOf(nodes') = NodesOf(nodes) \cup {node}
      /\ EachKeyOnce(nodes) /\ node.key \notin ArrayKeys(nodes) => EachKeyOnce(nodes')
  <2>1. node \in Node
    BY <1>5
  <2>2. IsArray(nodes) /\ SameBut(nodes, nodes', h) /\ PushedTo(nodes[h], nodes'[h], node)
    BY <1>6, <1>7 DEF IsArray, SameBut, PushedTo
  <2>3. Adds(NodesIn(nodes[h]), NodesIn(nodes'[h]), node) /\ Adds(NodesOf(nodes), NodesOf(nodes'), node)
    BY ONLY <2>1, <2>2, PushArray
  <2>5. EachKeyOnce(nodes) /\ node.key \notin ArrayKeys(nodes) => EachKeyOnce(nodes')
    BY ONLY <2>1, <2>2, PushArray
  <2> QED BY <2>3, <2>5 DEF Adds
<1>9. EachKeyOnce(nodes')
  BY <1>3, <1>5, <1>8 DEF ArrayKeys
<1>10. \A p \in NodesOf(nodes'), q \in NodesOf(old') : p.key # q.key
  BY <1>3, <1>5, <1>8 DEF ArrayKeys
<1>11. \A i \in DOMAIN nodes' : \A p \in NodesIn(nodes'[i]) : htHash(p.key) = i
  BY <1>3, <1>6, <1>7, <1>8 DEF h
<1>12. NodesInPlace'
  BY <1>2, <1>5, <1>9, <1>10, <1>11 DEF NodesInPlace, htHash
<1>13. Held' = Held
  BY <1>5, <1>8 DEF Held
<1>14. nodes' # NoChains
  BY <1>6, <1>7, NoArray
<1>15. \A T : old \in [T -> Seq(Node)] => old' \in [T -> Seq(Node)]
  BY <1>1, <1>4
<1> QED BY <1>7, <1>12, <1>13, <1>14, <1>15

\* The first node with a key gets another value.
LEMMA SettingAValue ==
  ASSUME TableInv, HashtableIsInitialized, NEW k \in Key, NEW v \in Value,
         NEW n \in 1 .. Len(nodes[htHash(k)]), FirstWith(nodes[htHash(k)], k, n),
         nodes' = [nodes EXCEPT ![htHash(k)][n].value = v], UNCHANGED <<capacity, hash, old>>
  PROVE  /\ nodes' \in [0 .. capacity - 1 -> Seq(Node)] /\ nodes' # NoChains /\ NodesInPlace'
         /\ nodes[htHash(k)][n] \in Held /\ nodes[htHash(k)][n].key = k
         /\ Held' = (Held \ {nodes[htHash(k)][n]}) \cup {[key |-> k, value |-> v]}
         /\ KeysHeld' = KeysHeld
<1> DEFINE h == htHash(k)  node == nodes[h][n]  new == [key |-> k, value |-> v]
<1>1. /\ nodes \in [0 .. capacity - 1 -> Seq(Node)] /\ DOMAIN nodes = 0 .. capacity - 1
      /\ h \in 0 .. capacity - 1
  BY Shape
<1>2. node \in NodesOf(nodes) /\ node.key = k
  BY Lookup
<1>3. /\ EachKeyOnce(nodes) /\ EachKeyOnce(old)
      /\ \A p \in NodesOf(nodes), q \in NodesOf(old) : p.key # q.key
      /\ \A i \in DOMAIN nodes : \A p \in NodesIn(nodes[i]) : htHash(p.key) = i
  BY DEF TableInv, NodesInPlace
<1>4. /\ IsArray(nodes) /\ SameBut(nodes, nodes', h) /\ ValueSet(nodes[h], nodes'[h], n, v)
      /\ n \in 1 .. Len(nodes[h]) /\ v \in Value /\ EachKeyOnce(nodes)
  BY <1>1, <1>3 DEF IsArray, SameBut, ValueSet
<1>5. /\ IsArray(nodes') /\ EachKeyOnce(nodes') /\ \A i \in DOMAIN nodes : Keys(nodes'[i]) = Keys(nodes[i])
      /\ Swaps(NodesOf(nodes), NodesOf(nodes'), nodes[h][n], [key |-> nodes[h][n].key, value |-> v])
  <2> HIDE DEF h
  <2> QED BY ONLY <1>4, SetArray
<1>6. /\ nodes' \in [0 .. capacity - 1 -> Seq(Node)] /\ DOMAIN nodes' = DOMAIN nodes
  BY <1>1, <1>4, <1>5 DEF IsArray, SameBut
<1>7. NodesOf(nodes') = (NodesOf(nodes) \ {node}) \cup {new}
  BY <1>2, <1>5 DEF Swaps
<1> HIDE DEF h, node
<1>8. \A p \in NodesOf(nodes'), q \in NodesOf(old) : p.key # q.key
  BY <1>2, <1>3, <1>7
<1>9. ASSUME NEW i \in DOMAIN nodes', NEW p \in NodesIn(nodes'[i]) PROVE htHash(p.key) = i
  <2>0. p.key \in Keys(nodes'[i])
    BY DEF Keys
  <2>1. p.key \in Keys(nodes[i]) /\ i \in DOMAIN nodes
    BY <1>5, <1>6, <2>0
  <2> QED BY <1>3, <2>1 DEF Keys
<1>10. NodesInPlace'
  BY <1>3, <1>5, <1>8, <1>9 DEF NodesInPlace, htHash
<1>11. Held' = (Held \ {node}) \cup {new} /\ node \in Held
  BY <1>2, <1>3, <1>7 DEF Held
<1>12. KeysHeld' = KeysHeld
  <2>1. new.key = k
    OBVIOUS
  <2> HIDE DEF new
  <2>2. KeysHeld' = {p.key : p \in Held'} /\ KeysHeld = {p.key : p \in Held}
    BY DEF KeysHeld
  <2>3. \A x : (\E p \in Held' : x = p.key) <=> (\E p \in Held : x = p.key)
    BY <1>2, <1>11, <2>1
  <2> QED BY ONLY <2>2, <2>3
<1>13. nodes' # NoChains
  BY <1>1, <1>6, NoArray
<1> QED BY <1>2, <1>6, <1>10, <1>11, <1>12, <1>13 DEF node, h

\* A node is put in front of the chain of a key that no node has.
LEMMA AddingANode ==
  ASSUME TableInv, HashtableIsInitialized, NEW k \in Key, NEW v \in Value,
         ~Has(nodes[htHash(k)], k), old = NoChains,
         nodes' = [nodes EXCEPT ![htHash(k)] = <<[key |-> k, value |-> v]>> \o @],
         UNCHANGED <<capacity, hash, old>>
  PROVE  /\ nodes' \in [0 .. capacity - 1 -> Seq(Node)] /\ nodes' # NoChains /\ NodesInPlace'
         /\ Held' = Held \cup {[key |-> k, value |-> v]} /\ k \notin KeysHeld
<1> DEFINE h == htHash(k)  node == [key |-> k, value |-> v]
<1>1. /\ nodes \in [0 .. capacity - 1 -> Seq(Node)] /\ DOMAIN nodes = 0 .. capacity - 1
      /\ h \in 0 .. capacity - 1
  BY Shape
<1>2. k \notin ArrayKeys(nodes) /\ nodes[h] \in Seq(Node)
  BY Lookup
<1>3. /\ EachKeyOnce(nodes) /\ EachKeyOnce(old) /\ NodesOf(old) = {}
      /\ \A i \in DOMAIN nodes : \A p \in NodesIn(nodes[i]) : htHash(p.key) = i
  BY NoArray DEF TableInv, NodesInPlace
<1>4. node \in Node /\ node.key = k
  BY DEF Node
<1> HIDE DEF node, h
<1>5. nodes' = [nodes EXCEPT ![h] = <<node>> \o @]
  BY DEF node, h
<1>6. IsArray(nodes) /\ SameBut(nodes, nodes', h) /\ PushedTo(nodes[h], nodes'[h], node)
  BY <1>1, <1>5 DEF IsArray, SameBut, PushedTo
<1>7. /\ IsArray(nodes')
      /\ Adds(NodesIn(nodes[h]), NodesIn(nodes'[h]), node) /\ Adds(NodesOf(nodes), NodesOf(nodes'), node)
      /\ EachKeyOnce(nodes) /\ node.key \notin ArrayKeys(nodes) => EachKeyOnce(nodes')
  BY ONLY <1>4, <1>6, PushArray
<1>8. nodes' \in [0 .. capacity - 1 -> Seq(Node)] /\ DOMAIN nodes' = DOMAIN nodes
  BY <1>1, <1>6, <1>7 DEF IsArray, SameBut
<1>9. /\ NodesIn(nodes'[h]) = NodesIn(nodes[h]) \cup {node}
      /\ NodesOf(nodes') = NodesOf(nodes) \cup {node} /\ EachKeyOnce(nodes')
  BY <1>2, <1>3, <1>4, <1>7 DEF Adds
<1>10. \A i \in DOMAIN nodes' : \A p \in NodesIn(nodes'[i]) : htHash(p.key) = i
  BY <1>3, <1>4, <1>6, <1>8, <1>9 DEF SameBut, h
<1>11. NodesInPlace'
  BY <1>3, <1>9, <1>10 DEF NodesInPlace, htHash
<1>12. Held' = Held \cup {node}
  BY <1>9 DEF Held
<1>13. k \notin KeysHeld
  BY <1>2, <1>3 DEF KeysHeld, Held, ArrayKeys
<1>14. nodes' # NoChains
  BY <1>1, <1>8, NoArray
<1> QED BY <1>8, <1>11, <1>12, <1>13, <1>14 DEF node

\* A chain is lost.
LEMMA LosingAChain ==
  ASSUME TableInv, HashtableIsInitialized, NEW k \in Key, old = NoChains,
         nodes' = [nodes EXCEPT ![htHash(k)] = <<>>], UNCHANGED <<capacity, hash, old>>
  PROVE  /\ nodes' \in [0 .. capacity - 1 -> Seq(Node)] /\ nodes' # NoChains /\ NodesInPlace'
         /\ Held' = {node \in Held : htHash(node.key) # htHash(k)}
<1> DEFINE h == htHash(k)
<1>1. /\ nodes \in [0 .. capacity - 1 -> Seq(Node)] /\ DOMAIN nodes = 0 .. capacity - 1
      /\ h \in 0 .. capacity - 1
  BY Shape
<1>2. /\ EachKeyOnce(nodes) /\ EachKeyOnce(old) /\ NodesOf(old) = {}
      /\ \A i \in DOMAIN nodes : \A p \in NodesIn(nodes[i]) : htHash(p.key) = i
  BY NoArray DEF TableInv, NodesInPlace
<1>3. IsArray(nodes) /\ SameBut(nodes, nodes', h) /\ nodes'[h] = <<>> /\ EachKeyOnce(nodes)
  BY <1>1, <1>2 DEF IsArray, SameBut
<1> HIDE DEF h
<1>4. /\ IsArray(nodes') /\ EachKeyOnce(nodes') /\ NodesOf(nodes') \subseteq NodesOf(nodes)
      /\ \A i \in DOMAIN nodes : NodesIn(nodes'[i]) \subseteq NodesIn(nodes[i])
  BY ONLY <1>3, ClearArray
<1>5. nodes' \in [0 .. capacity - 1 -> Seq(Node)] /\ DOMAIN nodes' = DOMAIN nodes
  BY <1>1, <1>3, <1>4 DEF IsArray, SameBut
<1>6. NodesInPlace'
  BY <1>2, <1>4, <1>5 DEF NodesInPlace, htHash
<1>7. Held' = {node \in Held : htHash(node.key) # h}
  <2>1. Held = NodesOf(nodes) /\ Held' = NodesOf(nodes')
    BY <1>2, NoArray DEF Held
  <2>2. NodesIn(nodes'[h]) = {}
    BY <1>3 DEF NodesIn
  <2>3. \A i \in DOMAIN nodes : i # h => NodesIn(nodes'[i]) = NodesIn(nodes[i])
    BY <1>3 DEF SameBut
  <2>4. \A p : p \in NodesOf(nodes') <=> \E i \in DOMAIN nodes : p \in NodesIn(nodes'[i])
    BY <1>5 DEF NodesOf
  <2>5. \A p : p \in NodesOf(nodes) <=> \E i \in DOMAIN nodes : p \in NodesIn(nodes[i])
    BY DEF NodesOf
  <2>6. \A i \in DOMAIN nodes : \A p \in NodesIn(nodes[i]) : htHash(p.key) = i
    BY <1>2
  <2>7. ASSUME NEW p \in NodesOf(nodes') PROVE p \in NodesOf(nodes) /\ htHash(p.key) # h
    <3>1. PICK i \in DOMAIN nodes : p \in NodesIn(nodes'[i])
      BY <2>4
    <3>2. i # h /\ p \in NodesIn(nodes[i])
      BY <2>2, <2>3, <3>1
    <3> QED BY <2>5, <2>6, <3>1, <3>2
  <2>8. ASSUME NEW p \in NodesOf(nodes), htHash(p.key) # h PROVE p \in NodesOf(nodes')
    <3>1. PICK i \in DOMAIN nodes : p \in NodesIn(nodes[i])
      BY <2>5
    <3>2. i # h
      BY <2>6, <2>8, <3>1
    <3> QED BY <2>3, <2>4, <3>1, <3>2
  <2> QED BY <2>1, <2>7, <2>8
<1>8. nodes' # NoChains
  BY <1>1, <1>5, NoArray
<1> QED BY <1>5, <1>6, <1>7, <1>8 DEF h

\* A new array is there, and every node is in the old one.
LEMMA StartingAResize ==
  ASSUME TableInv, HashtableIsInitialized, old = NoChains, NEW m \in Nat \ {0},
         htAllocate(m), old' = nodes, hash' = hash
  PROVE  /\ nodes' \in [0 .. m - 1 -> Seq(Node)] /\ nodes' # NoChains /\ NodesInPlace'
         /\ Held' = Held
<1>1. nodes' = EmptyChains(m)
  BY DEF htAllocate
<1>2. /\ nodes' \in [0 .. m - 1 -> Seq(Node)] /\ nodes' # NoChains
      /\ NodesOf(nodes') = {} /\ EachKeyOnce(nodes')
  BY <1>1, EmptyArray
<1>3. EachKeyOnce(nodes) /\ NodesOf(old) = {}
  BY NoArray DEF TableInv, NodesInPlace
<1>4. \A i \in DOMAIN nodes' : NodesIn(nodes'[i]) = {}
  BY <1>2 DEF NodesOf
<1> QED BY <1>2, <1>3, <1>4 DEF NodesInPlace, Held

-----------------------------------------------------------------------------
(***************************************************************************)
(* Every step keeps the invariant.                                         *)
(***************************************************************************)
LEMMA NoOldArray ==
  ASSUME NEW c \in Nat
  PROVE  \E n \in 0 .. c : NoChains \in [0 .. n - 1 -> Seq(Node)]
<1>1. 0 \in 0 .. c /\ NoChains \in [0 .. 0 - 1 -> Seq(Node)]
  BY NoArray
<1> QED BY ONLY <1>1

LEMMA InitTable == Init => TableInv
<1> SUFFICES ASSUME Init PROVE TableInv
  OBVIOUS
<1>1. /\ nodes = NoChains /\ old = NoChains /\ ~HashtableIsInitialized
      /\ size = 0 /\ capacity = 0 /\ threshold = 0 /\ chain = 0 /\ call = "start" /\ next = "none"
      /\ key = NULL /\ value = NULL /\ entered = {} /\ failed = 0 /\ hash \in Hashes
      /\ answer = <<"init", NULL, 0>>
  BY DEF Init, HashtableIsInitialized
<1>2. Held = {} /\ KeysHeld = {}
  BY <1>1, NoArray DEF Held, KeysHeld
<1>3. IsFiniteSet({}) /\ Cardinality({}) = 0
  BY ONLY FS_EmptySet
<1>4. TableTypeOK
  BY <1>1, NoOldArray, TableAssumption DEF TableTypeOK
<1>5. NodesInPlace
  BY <1>1, NoArray DEF NodesInPlace
<1>6. SizeCounts
  BY <1>1, <1>2, <1>3 DEF SizeCounts
<1>7. CapacityInv /\ CallInv
  BY <1>1, NoArray DEF CapacityInv, CallInv
<1>8. EnteredInv
  BY <1>1, <1>2, <1>3 DEF EnteredInv
<1> QED BY <1>4, <1>5, <1>6, <1>7, <1>8 DEF TableInv

LEMMA InitHashtableStep ==
  ASSUME TableInv, NEW n \in Sizes, InitHashtable(n)
  PROVE  TableInv' /\ Held' = {}
<1> DEFINE m == IF n < MinimumCapacity THEN MinimumCapacity ELSE n
<1>1. /\ call = "start" /\ nodes = NoChains /\ old = NoChains /\ size = 0 /\ entered = {}
      /\ call' = "none" /\ size' = 0 /\ next # "store"
      /\ UNCHANGED <<hash, next, old, chain, key, value, entered>>
  BY DEF InitHashtable, TableInv, CallInv, EnteredInv, HashtableIsInitialized, Returns,
         moveVars, argVars
<1>2. m \in Nat \ {0} /\ m >= MinimumCapacity
  BY TableAssumption
<1>3. TableTypeOK
  BY DEF TableInv
<1> HIDE DEF m
<1>4. CASE htAllocate(m) /\ UNCHANGED failed
  <2>1. /\ nodes' = EmptyChains(m) /\ capacity' = m /\ threshold' = m * 5
        /\ nodes' \in [0 .. m - 1 -> Seq(Node)] /\ nodes' # NoChains
        /\ NodesOf(nodes') = {} /\ EachKeyOnce(nodes')
    BY <1>2, <1>4, EmptyArray DEF htAllocate
  <2>2. Held' = {} /\ KeysHeld' = {}
    BY <1>1, <2>1, NoArray DEF Held, KeysHeld
  <2>3. TableTypeOK'
    <3>1. \E i \in 0 .. capacity' : old' \in [0 .. i - 1 -> Seq(Node)]
      BY <1>1, <1>2, <2>1, NoOldArray
    <3>2. nodes' \in [0 .. capacity' - 1 -> Seq(Node)] /\ capacity' \in Nat /\ threshold' \in Nat
      BY <1>2, <2>1
    <3> QED BY <1>1, <1>3, <1>4, <3>1, <3>2 DEF TableTypeOK
  <2>4. NodesInPlace'
    BY <1>1, <2>1, NoArray DEF NodesInPlace, NodesOf
  <2>5. SizeCounts'
    BY <1>1, <1>2, <2>1, <2>2, FS_EmptySet DEF SizeCounts
  <2>6. CapacityInv' /\ CallInv'
    BY <1>1, <1>2, <2>1, NoArray DEF CapacityInv, CallInv, HashtableIsInitialized
  <2>7. EnteredInv'
    BY <1>1, <2>1, <2>2, FS_EmptySet DEF EnteredInv, HashtableIsInitialized
  <2> QED BY <2>2, <2>3, <2>4, <2>5, <2>6, <2>7 DEF TableInv
<1>5. CASE htAllocateFails
  <2>1. /\ nodes' = NoChains /\ failed' = failed + 1 /\ failed < MaxFailures
        /\ UNCHANGED <<capacity, threshold>>
    BY <1>5 DEF htAllocateFails
  <2>2. Held' = {} /\ KeysHeld' = {}
    BY <1>1, <2>1, NoArray DEF Held, KeysHeld
  <2>3. failed' \in 0 .. MaxFailures /\ failed' # 0
    BY <1>3, <2>1, TableAssumption DEF TableTypeOK
  <2>4. TableTypeOK'
    BY <1>1, <1>3, <2>1, <2>3, NoOldArray DEF TableTypeOK
  <2>5. NodesInPlace'
    BY <1>1, <2>1, NoArray DEF NodesInPlace
  <2>6. SizeCounts' /\ CapacityInv' /\ CallInv'
    BY <1>1, <2>1, <2>2, <2>3, FS_EmptySet, NoArray
       DEF SizeCounts, CapacityInv, CallInv, HashtableIsInitialized
  <2>7. EnteredInv'
    BY <1>1, <2>1, <2>2, <2>3, FS_EmptySet DEF EnteredInv
  <2> QED BY <2>2, <2>4, <2>5, <2>6, <2>7 DEF TableInv
<1> QED BY <1>4, <1>5 DEF InitHashtable, m, htAllocate

\* There is no memory for an array: what the table held is lost.
ArrayIsLost == failed' > failed /\ Held' = {} /\ ~HashtableIsInitialized'

\* The resize of an array: each of its two callers asks for m, more than the nodes
\* there are, and for next.
LEMMA ResizeStep ==
  ASSUME TableInv, call = "none", HashtableIsInitialized, NEW m \in Nat, m >= capacity, htResize(m),
         UNCHANGED <<size, hash>>, next' \in {"none", "store"},
         next' = "store" => size < m /\ key' \in Key /\ value' \in Value,
         key' \in Key \cup {NULL}, value' \in Value \cup {NULL},
         entered' = IF next' = "store" THEN entered \cup {key'} ELSE entered
  PROVE  TableInv' /\ (Held' = Held \/ ArrayIsLost)
<1>1. /\ TableTypeOK /\ old = NoChains /\ capacity >= MinimumCapacity /\ size <= capacity
      /\ KeysHeld \subseteq entered /\ IsFiniteSet(entered)
      /\ failed = 0 => entered \subseteq KeysHeld
  BY DEF TableInv, CallInv, CapacityInv, EnteredInv
<1>2. m \in Nat \ {0} /\ m >= MinimumCapacity /\ capacity \in 0 .. m /\ size <= m /\ size \in Nat
  BY <1>1, TableAssumption DEF TableTypeOK
<1>3. /\ nodes \in [0 .. capacity - 1 -> Seq(Node)]
      /\ IsFiniteSet(KeysHeld) /\ Cardinality(KeysHeld) \in Nat
  BY Shape
<1>4. entered' \subseteq Key /\ IsFiniteSet(entered')
  BY <1>1, FS_AddElement DEF TableTypeOK
<1>5. CASE htAllocate(m) /\ old' = nodes /\ chain' = 0 /\ call' = "rehash"
  <2>1. capacity' = m /\ threshold' = m * 5 /\ failed' = failed
    BY <1>5 DEF htAllocate
  <2>2. /\ nodes' \in [0 .. m - 1 -> Seq(Node)] /\ nodes' # NoChains /\ NodesInPlace'
        /\ Held' = Held
    BY <1>1, <1>2, <1>5, StartingAResize
  <2>3. KeysHeld' = KeysHeld
    BY <2>2 DEF KeysHeld
  <2>4. TableTypeOK'
    <3>1. \E n \in 0 .. capacity' : old' \in [0 .. n - 1 -> Seq(Node)]
      BY <1>2, <1>3, <1>5, <2>1
    <3> QED BY <1>1, <1>2, <1>4, <1>5, <2>1, <2>2, <3>1 DEF TableTypeOK
  <2>5. SizeCounts'
    BY <1>2, <1>5, <2>1, <2>3 DEF TableInv, SizeCounts
  <2>6. CapacityInv'
    BY <1>2, <1>5, <2>1 DEF CapacityInv
  <2>7. CallInv'
    <3>1. \A i \in DOMAIN old' : ~(i < chain')
      BY <1>3, <1>5
    <3> QED BY <1>5, <2>2, <3>1 DEF CallInv, HashtableIsInitialized
  <2>8. EnteredInv'
    BY <1>1, <1>4, <1>5, <2>1, <2>2, <2>3 DEF EnteredInv, HashtableIsInitialized
  <2> QED BY <2>2, <2>4, <2>5, <2>6, <2>7, <2>8 DEF TableInv
<1>6. CASE htAllocateFails /\ call' = "failed" /\ UNCHANGED <<old, chain>>
  <2>1. /\ nodes' = NoChains /\ failed' = failed + 1 /\ failed < MaxFailures
        /\ UNCHANGED <<capacity, threshold>>
    BY <1>6 DEF htAllocateFails
  <2>2. Held' = {} /\ KeysHeld' = {}
    BY <1>1, <1>6, <2>1, NoArray DEF Held, KeysHeld
  <2>3. failed' \in 0 .. MaxFailures /\ failed' > 0 /\ failed' # 0
    BY <1>1, <2>1, TableAssumption DEF TableTypeOK
  <2>4. TableTypeOK'
    BY <1>1, <1>4, <1>6, <2>1, <2>3 DEF TableTypeOK
  <2>5. NodesInPlace'
    BY <1>1, <1>6, <2>1, NoArray DEF NodesInPlace
  <2>6. SizeCounts' /\ CapacityInv'
    BY <1>2, <1>6, <2>1, <2>2, <2>3, FS_EmptySet DEF SizeCounts, CapacityInv, HashtableIsInitialized
  <2>7. CallInv'
    BY <1>1, <1>6, <2>1, NoArray DEF CallInv, HashtableIsInitialized
  <2>8. EnteredInv'
    BY <1>4, <1>6, <2>2, <2>3 DEF EnteredInv
  <2>9. ArrayIsLost
    BY <1>1, <2>1, <2>2 DEF ArrayIsLost, HashtableIsInitialized, TableTypeOK
  <2> QED BY <2>4, <2>5, <2>6, <2>7, <2>8, <2>9 DEF TableInv
<1> QED BY <1>5, <1>6 DEF htResize

LEMMA ReserveStep ==
  ASSUME TableInv, NEW n \in Reserved, reserveCapacityOfHashtable(n)
  PROVE  TableInv' /\ (Held' = Held \/ ArrayIsLost)
<1> DEFINE m == NewCapacity(n \div 5)
<1>1. /\ call = "none" /\ UNCHANGED <<size, hash, key, value, entered>> /\ TableTypeOK
      /\ n \in Nat
  BY TableAssumption DEF reserveCapacityOfHashtable, argVars, TableInv
<1>2. CASE HashtableIsInitialized /\ n > threshold /\ m # 0 /\ htResize(m) /\ next' = "none"
  <2>1. threshold = capacity * 5 /\ capacity \in Nat /\ capacity >= MinimumCapacity
    BY <1>1, <1>2 DEF TableInv, CapacityInv, TableTypeOK
  <2>2. n \div 5 \in Nat /\ n \div 5 >= capacity
    BY <1>1, <1>2, <2>1
  <2>3. m = n \div 5
    BY <2>1, <2>2, TableAssumption DEF NewCapacity
  <2>4. m \in Nat /\ m >= capacity
    BY <2>2, <2>3
  <2> HIDE DEF m
  <2> QED BY <1>1, <1>2, <2>4, ResizeStep DEF TableTypeOK
<1>3. CASE Returns("reserve", NULL, IF HashtableIsInitialized THEN 0 ELSE -1)
           /\ UNCHANGED <<arrayVars, moveVars, failed>>
  <2>1. /\ call' = "none"
        /\ UNCHANGED <<nodes, capacity, threshold, next, old, chain, failed>>
    BY <1>3 DEF Returns, arrayVars, moveVars
  <2>2. Held' = Held /\ KeysHeld' = KeysHeld
    BY <2>1 DEF Held, KeysHeld
  <2> QED BY <1>1, <2>1, <2>2 DEF TableInv, TableTypeOK, NodesInPlace, SizeCounts, CapacityInv, CallInv,
                                 EnteredInv, HashtableIsInitialized, htHash
<1> QED BY <1>1, <1>2, <1>3 DEF reserveCapacityOfHashtable

LEMMA InsertStep ==
  ASSUME TableInv, NEW k \in Key, NEW v \in Value, InsertHashtable(k, v)
  PROVE  TableInv' /\ (Held' = Held \/ ArrayIsLost)
<1> DEFINE m == NewCapacity(size * 2)
<1>1. /\ call = "none" /\ UNCHANGED <<size, hash>> /\ entered' = entered \cup {k} /\ TableTypeOK
      /\ IF HashtableIsInitialized THEN key' = k /\ value' = v ELSE key' = NULL /\ value' = NULL
      /\ next = "none"
  BY DEF InsertHashtable, NoArguments, TableInv, CallInv, TableTypeOK
<1>2. entered' \subseteq Key /\ IsFiniteSet(entered')
  BY <1>1, FS_AddElement DEF TableTypeOK, TableInv, EnteredInv
<1>3. CASE ~HashtableIsInitialized /\ Returns("insert", k, -1) /\ UNCHANGED <<arrayVars, moveVars, failed>>
  <2>1. /\ call' = "none" /\ key' = NULL /\ value' = NULL
        /\ UNCHANGED <<nodes, capacity, threshold, next, old, chain, failed>>
    BY <1>1, <1>3 DEF Returns, arrayVars, moveVars
  <2>2. Held' = Held /\ KeysHeld' = KeysHeld
    BY <2>1 DEF Held, KeysHeld
  <2>3. failed # 0
    BY <1>1, <1>3 DEF TableInv, EnteredInv
  <2>4. EnteredInv'
    BY <1>1, <1>2, <2>1, <2>2, <2>3 DEF EnteredInv, TableInv
  <2> QED BY <1>1, <1>2, <2>1, <2>2, <2>4 DEF TableInv, TableTypeOK, NodesInPlace, SizeCounts, CapacityInv,
                                 CallInv, HashtableIsInitialized, htHash
<1>4. ASSUME HashtableIsInitialized
      PROVE  /\ capacity \in Nat /\ capacity >= MinimumCapacity /\ size <= capacity /\ size \in Nat
             /\ htShouldGrow => m \in Nat /\ m # 0 /\ m > capacity
             /\ ~htShouldGrow => size < capacity
  <2>1. capacity \in Nat /\ capacity >= MinimumCapacity /\ size <= capacity /\ size \in Nat
    BY <1>1, <1>4 DEF TableInv, TableTypeOK, CapacityInv
  <2>2. ASSUME size = capacity PROVE m = size * 2 /\ size * 2 > capacity /\ size * 2 \in Nat
    <3>1. size * 2 >= MinimumCapacity /\ size * 2 > capacity /\ size * 2 \in Nat
      BY <2>1, <2>2, TableAssumption
    <3> QED BY <3>1 DEF NewCapacity
  <2> HIDE DEF m
  <2> QED BY <2>1, <2>2 DEF htShouldGrow
<1>5. CASE /\ HashtableIsInitialized /\ (~htShouldGrow \/ m = 0)
           /\ call' = IF size > capacity THEN "exit" ELSE "store"
           /\ UNCHANGED <<arrayVars, moveVars, failed, answer>>
  <2> HIDE DEF m
  <2>1. /\ call' = "store" /\ key' = k /\ value' = v /\ size < capacity
        /\ UNCHANGED <<nodes, capacity, threshold, next, old, chain, failed>>
    BY <1>1, <1>4, <1>5 DEF arrayVars, moveVars
  <2>2. Held' = Held /\ KeysHeld' = KeysHeld
    BY <2>1 DEF Held, KeysHeld
  <2>3. EnteredInv'
    BY <1>1, <1>2, <1>5, <2>1, <2>2 DEF EnteredInv, TableInv, HashtableIsInitialized
  <2>4. CapacityInv' /\ CallInv'
    BY <1>1, <1>5, <2>1 DEF TableInv, CapacityInv, CallInv, HashtableIsInitialized
  <2> QED BY <1>1, <1>2, <2>1, <2>2, <2>3, <2>4 DEF TableInv, TableTypeOK, NodesInPlace, SizeCounts,
                                                    HashtableIsInitialized, htHash
<1>6. CASE HashtableIsInitialized /\ htShouldGrow /\ m # 0 /\ htResize(m) /\ next' = "store"
  <2> HIDE DEF m
  <2>1. m \in Nat /\ m >= capacity /\ size < m /\ key' = k /\ value' = v
    BY <1>1, <1>4, <1>6
  <2>2. entered' = IF next' = "store" THEN entered \cup {key'} ELSE entered
    BY <1>1, <1>6, <2>1
  <2> QED BY <1>1, <1>6, <2>1, <2>2, ResizeStep
<1> QED BY <1>3, <1>5, <1>6 DEF InsertHashtable

\* What changes neither the array nor what was entered.
LEMMA Unmoved ==
  ASSUME TableInv, UNCHANGED <<nodes, old, size, capacity, threshold, hash, failed, entered>>
  PROVE  /\ NodesInPlace' /\ Held' = Held /\ KeysHeld' = KeysHeld
         /\ Cardinality(KeysHeld') <= size' /\ (failed' = 0 => Cardinality(KeysHeld') = size')
         /\ HashtableIsInitialized' = HashtableIsInitialized
<1>1. Held' = Held /\ KeysHeld' = KeysHeld
  BY DEF Held, KeysHeld
<1> QED BY <1>1 DEF TableInv, NodesInPlace, SizeCounts, HashtableIsInitialized, htHash

LEMMA RehashStep ==
  ASSUME TableInv, htRehash
  PROVE  TableInv' /\ Held' = Held
<1>1. /\ call = "rehash" /\ chain \in DOMAIN old /\ old[chain] # <<>>
      /\ old' = [old EXCEPT ![chain] = Tail(@)] /\ TableTypeOK /\ HashtableIsInitialized
      /\ UNCHANGED <<capacity, threshold, size, hash, call, next, chain, key, value, entered, failed>>
  BY DEF htRehash, argVars, historyVars, TableInv, CallInv
<1>2. /\ nodes' \in [0 .. capacity - 1 -> Seq(Node)] /\ nodes' # NoChains
      /\ \A S : old \in [S -> Seq(Node)] => old' \in [S -> Seq(Node)]
      /\ NodesInPlace' /\ Held' = Held
  BY RehashMoves
<1>3. KeysHeld' = KeysHeld
  BY <1>2 DEF KeysHeld
<1>4. TableTypeOK'
  <2>1. PICK n \in 0 .. capacity : old \in [0 .. n - 1 -> Seq(Node)]
    BY <1>1 DEF TableTypeOK
  <2>2. \E i \in 0 .. capacity' : old' \in [0 .. i - 1 -> Seq(Node)]
    BY <1>1, <1>2, <2>1
  <2> QED BY <1>1, <1>2, <2>2 DEF TableTypeOK
<1>5. SizeCounts' /\ CapacityInv'
  BY <1>1, <1>2, <1>3 DEF TableInv, SizeCounts, CapacityInv, HashtableIsInitialized
<1>6. CallInv'
  <2>1. \A i \in DOMAIN old' : i < chain' => old'[i] = <<>>
    BY <1>1 DEF TableInv, CallInv, TableTypeOK
  <2> QED BY <1>1, <1>2, <2>1 DEF TableInv, CallInv, HashtableIsInitialized
<1>7. EnteredInv'
  BY <1>1, <1>2, <1>3 DEF TableInv, EnteredInv, HashtableIsInitialized
<1> QED BY <1>2, <1>4, <1>5, <1>6, <1>7 DEF TableInv

LEMMA NextChainStep ==
  ASSUME TableInv, RehashNextChain
  PROVE  TableInv' /\ Held' = Held
<1>1. /\ call = "rehash" /\ chain \in DOMAIN old /\ old[chain] = <<>> /\ chain' = chain + 1
      /\ UNCHANGED <<nodes, capacity, threshold, size, hash, call, next, old, key, value, entered, failed>>
  BY DEF RehashNextChain, arrayVars, argVars, historyVars
<1>2. /\ NodesInPlace' /\ Held' = Held /\ KeysHeld' = KeysHeld
      /\ HashtableIsInitialized' = HashtableIsInitialized
  BY <1>1, Unmoved
<1>3. \A i \in DOMAIN old' : i < chain' => old'[i] = <<>>
  <2>1. PICK n \in 0 .. capacity : old \in [0 .. n - 1 -> Seq(Node)]
    BY DEF TableInv, TableTypeOK
  <2>2. SUFFICES ASSUME NEW i \in DOMAIN old, i < chain + 1 PROVE old[i] = <<>>
    BY <1>1
  <2>3. i < chain \/ i = chain
    BY <1>1, <2>1, <2>2
  <2> QED BY <1>1, <2>3 DEF TableInv, CallInv
<1>4. TableTypeOK' /\ CallInv'
  <2>1. TableTypeOK'
    <3>1. (\E n \in 0 .. capacity : old \in [0 .. n - 1 -> Seq(Node)])'
      BY <1>1 DEF TableInv, TableTypeOK
    <3>2. chain' \in Nat
      BY <1>1 DEF TableInv, TableTypeOK
    <3> QED BY <1>1, <3>1, <3>2 DEF TableInv, TableTypeOK
  <2>2. CallInv'
    BY <1>1, <1>3 DEF TableInv, CallInv, HashtableIsInitialized
  <2> QED BY <2>1, <2>2
<1>5. SizeCounts' /\ CapacityInv' /\ EnteredInv'
  BY <1>1, <1>2 DEF TableInv, SizeCounts, CapacityInv, EnteredInv
<1> QED BY <1>2, <1>4, <1>5 DEF TableInv

\* Nothing is left in the old array when the loops have ended.
LEMMA EndStep ==
  ASSUME TableInv, EndResize
  PROVE  TableInv' /\ Held' = Held
<1>1. /\ \/ call = "rehash" /\ chain \notin DOMAIN old
         \/ call = "failed"
      /\ \/ next = "store" /\ call' = "store"
         \/ next = "none" /\ call' = "none"
      /\ old' = NoChains /\ chain' = 0 /\ next' = "none"
      /\ UNCHANGED <<nodes, capacity, threshold, size, hash, key, value, entered, failed>>
  BY DEF EndResize, Returns, arrayVars, argVars, historyVars
<1>2. NodesOf(old) = {} /\ TableTypeOK
  <2>1. PICK n \in 0 .. capacity : old \in [0 .. n - 1 -> Seq(Node)]
    BY DEF TableInv, TableTypeOK
  <2>2. CASE call = "failed"
    BY <2>2, NoArray DEF TableInv, CallInv
  <2>3. CASE call = "rehash" /\ chain \notin DOMAIN old
    <3>1. \A i \in DOMAIN old : i < chain
      BY <2>1, <2>3 DEF TableInv, TableTypeOK
    <3>2. \A i \in DOMAIN old : old[i] = <<>>
      BY <3>1 DEF TableInv, CallInv
    <3> QED BY <3>2, EmptyNodes DEF TableInv
  <2> QED BY <1>1, <2>2, <2>3 DEF TableInv
<1>3. NodesOf(old') = {} /\ EachKeyOnce(old')
  BY <1>1, NoArray
<1>4. Held' = Held /\ KeysHeld' = KeysHeld
  BY <1>1, <1>2, <1>3 DEF Held, KeysHeld
<1>5. TableTypeOK'
  <2>1. \E n \in 0 .. capacity' : old' \in [0 .. n - 1 -> Seq(Node)]
    BY <1>1, <1>2, NoOldArray DEF TableTypeOK
  <2> QED BY <1>1, <1>2, <2>1 DEF TableTypeOK
<1>6. NodesInPlace'
  BY <1>1, <1>3 DEF TableInv, NodesInPlace, htHash
<1>7. SizeCounts' /\ CapacityInv'
  BY <1>1, <1>4 DEF TableInv, SizeCounts, CapacityInv, HashtableIsInitialized
<1>8. CallInv'
  BY <1>1, NoArray DEF TableInv, CallInv, HashtableIsInitialized
<1>9. EnteredInv'
  BY <1>1, <1>4 DEF TableInv, EnteredInv, HashtableIsInitialized
<1> QED BY <1>4, <1>5, <1>6, <1>7, <1>8, <1>9 DEF TableInv

LEMMA UpdateStep ==
  ASSUME TableInv, Update
  PROVE  TableInv'
<1>1. PICK n \in 1 .. Len(nodes[htHash(key)]) :
        FirstWith(nodes[htHash(key)], key, n) /\ nodes' = [nodes EXCEPT ![htHash(key)][n].value = value]
  BY DEF Update
<1>2. /\ call = "store" /\ HashtableIsInitialized /\ key \in Key /\ value \in Value
      /\ call' = "none" /\ key' = NULL /\ value' = NULL /\ old = NoChains /\ next = "none" /\ TableTypeOK
      /\ UNCHANGED <<size, capacity, threshold, hash, next, old, chain, entered, failed>>
  BY DEF Update, Returns, NoArguments, moveVars, historyVars, TableInv, CallInv, TableTypeOK
<1>3. /\ nodes' \in [0 .. capacity - 1 -> Seq(Node)] /\ nodes' # NoChains /\ NodesInPlace'
      /\ nodes[htHash(key)][n] \in Held /\ nodes[htHash(key)][n].key = key /\ KeysHeld' = KeysHeld
  BY <1>1, <1>2, SettingAValue
<1>4. key \in KeysHeld
  BY <1>3 DEF KeysHeld
<1>5. TableTypeOK'
  BY <1>2, <1>3 DEF TableTypeOK
<1>6. SizeCounts' /\ CapacityInv' /\ CallInv'
  BY <1>2, <1>3 DEF TableInv, SizeCounts, CapacityInv, CallInv, HashtableIsInitialized
<1>7. EnteredInv'
  BY <1>2, <1>3, <1>4 DEF TableInv, EnteredInv, HashtableIsInitialized
<1> QED BY <1>3, <1>5, <1>6, <1>7 DEF TableInv

LEMMA PushStep ==
  ASSUME TableInv, Push
  PROVE  TableInv'
<1>1. /\ call = "store" /\ HashtableIsInitialized /\ key \in Key /\ value \in Value
      /\ ~Has(nodes[htHash(key)], key) /\ size < capacity
      /\ call' = "none" /\ key' = NULL /\ value' = NULL /\ old = NoChains /\ next = "none" /\ TableTypeOK
      /\ UNCHANGED <<capacity, threshold, hash, next, old, chain, entered>>
  BY DEF Push, Returns, NoArguments, moveVars, TableInv, CallInv, CapacityInv, TableTypeOK
<1>2. IsFiniteSet(KeysHeld) /\ Cardinality(KeysHeld) \in Nat
  BY Shape
<1>3. /\ KeysHeld \subseteq entered /\ IsFiniteSet(entered) /\ Cardinality(KeysHeld) <= size
      /\ size \in Nat
      /\ failed = 0 => entered \subseteq KeysHeld \cup {key} /\ Cardinality(KeysHeld) = size
  BY <1>1 DEF TableInv, EnteredInv, SizeCounts, TableTypeOK
<1>4. CASE htPushFront /\ size' = size + 1 /\ UNCHANGED failed
  <2>1. /\ nodes' \in [0 .. capacity - 1 -> Seq(Node)] /\ nodes' # NoChains /\ NodesInPlace'
        /\ Held' = Held \cup {[key |-> key, value |-> value]} /\ key \notin KeysHeld
    BY <1>1, <1>4, AddingANode DEF htPushFront
  <2>2. KeysHeld' = KeysHeld \cup {key}
    <3> DEFINE new == [key |-> key, value |-> value]
    <3>1. new.key = key /\ Held' = Held \cup {new}
      BY <2>1
    <3> HIDE DEF new
    <3> QED BY <3>1 DEF KeysHeld
  <2>3. Cardinality(KeysHeld') = Cardinality(KeysHeld) + 1
    BY <1>2, <2>1, <2>2, FS_AddElement
  <2>4. TableTypeOK'
    <3>1. size' \in Nat /\ failed' = failed
      BY <1>3, <1>4
    <3>2. (nodes # NoChains => nodes \in [0 .. capacity - 1 -> Seq(Node)])'
      BY <1>1, <2>1
    <3> QED BY <1>1, <3>1, <3>2 DEF TableTypeOK
  <2>5. SizeCounts' /\ CapacityInv' /\ CallInv'
    <3>1. size' <= capacity' /\ Cardinality(KeysHeld') <= size'
      BY <1>1, <1>2, <1>3, <1>4, <2>3 DEF TableTypeOK
    <3>2. failed' = 0 => Cardinality(KeysHeld') = size'
      BY <1>3, <1>4, <2>3
    <3> QED BY <1>1, <2>1, <3>1, <3>2 DEF TableInv, SizeCounts, CapacityInv, CallInv, HashtableIsInitialized
  <2>6. EnteredInv'
    <3>1. key \in entered
      BY <1>1 DEF TableInv, CallInv
    <3> QED BY <1>1, <1>3, <1>4, <2>1, <2>2, <3>1 DEF EnteredInv, HashtableIsInitialized
  <2> QED BY <2>1, <2>4, <2>5, <2>6 DEF TableInv
<1>5. CASE /\ failed < MaxFailures /\ nodes' = [nodes EXCEPT ![htHash(key)] = <<>>]
           /\ failed' = failed + 1 /\ UNCHANGED size
  <2>1. /\ nodes' \in [0 .. capacity - 1 -> Seq(Node)] /\ nodes' # NoChains /\ NodesInPlace'
        /\ Held' \subseteq Held
    BY <1>1, <1>5, LosingAChain
  <2>2. KeysHeld' \subseteq KeysHeld
    BY <2>1 DEF KeysHeld
  <2>3. Cardinality(KeysHeld') <= size
    BY <1>2, <1>3, <2>2, FS_Subset, FS_CardinalityType
  <2>4. failed' \in 0 .. MaxFailures /\ failed' # 0
    BY <1>1, <1>5, TableAssumption DEF TableTypeOK
  <2>5. TableTypeOK'
    BY <1>1, <1>5, <2>1, <2>4 DEF TableTypeOK
  <2>6. SizeCounts' /\ CapacityInv' /\ CallInv'
    BY <1>1, <1>5, <2>1, <2>3, <2>4 DEF TableInv, SizeCounts, CapacityInv, CallInv, HashtableIsInitialized
  <2>7. EnteredInv'
    BY <1>1, <1>3, <2>2, <2>4 DEF EnteredInv
  <2> QED BY <2>1, <2>5, <2>6, <2>7 DEF TableInv
<1> QED BY <1>4, <1>5 DEF Push

LEMMA CountDownStep ==
  ASSUME TableInv, NEW k \in Key, CountDown(k)
  PROVE  TableInv'
<1> DEFINE c == nodes[htHash(k)]
<1>1. PICK n \in 1 .. Len(c) :
        /\ FirstWith(c, k, n)
        /\ nodes' = IF c[n].value > 1 THEN [nodes EXCEPT ![htHash(k)][n].value = @ - 1] ELSE nodes
  BY DEF CountDown
<1>2. /\ call = "none" /\ HashtableIsInitialized /\ call' = "none"
      /\ old = NoChains /\ next = "none" /\ TableTypeOK
      /\ UNCHANGED <<size, capacity, threshold, hash, next, old, chain, key, value, entered, failed>>
  BY DEF CountDown, Returns, argVars, moveVars, historyVars, TableInv, CallInv, TableTypeOK
<1>3. c \in Seq(Node)
  BY <1>2, Lookup
<1>4. c[n].value \in Value
  <2>1. c[n] \in Node
    BY <1>3
  <2> QED BY <2>1 DEF Node
<1>5. /\ nodes' \in [0 .. capacity - 1 -> Seq(Node)] /\ nodes' # NoChains /\ NodesInPlace'
      /\ KeysHeld' = KeysHeld
  <2>1. CASE c[n].value > 1
    <3>1. c[n].value - 1 \in Value
      BY <1>4, <2>1, TableAssumption
    <3>2. nodes' = [nodes EXCEPT ![htHash(k)][n].value = c[n].value - 1]
      BY <1>1, <2>1
    <3> QED BY <1>1, <1>2, <3>1, <3>2, SettingAValue
  <2>2. CASE ~(c[n].value > 1)
    <3>1. nodes' = nodes
      BY <1>1, <2>2
    <3>2. nodes \in [0 .. capacity - 1 -> Seq(Node)] /\ nodes # NoChains
      BY <1>2, Shape DEF HashtableIsInitialized
    <3> QED BY <1>2, <3>1, <3>2, Unmoved
  <2> QED BY <2>1, <2>2
<1>6. TableTypeOK'
  BY <1>2, <1>5 DEF TableTypeOK
<1>7. SizeCounts' /\ CapacityInv' /\ CallInv'
  BY <1>2, <1>5 DEF TableInv, SizeCounts, CapacityInv, CallInv, HashtableIsInitialized
<1>8. EnteredInv'
  BY <1>2, <1>5 DEF TableInv, EnteredInv, HashtableIsInitialized
<1> QED BY <1>5, <1>6, <1>7, <1>8 DEF TableInv

\* Without a failure no null pointer is read: nodes is not NULL, and the chain of a
\* key that was entered holds its node.
LEMMA NullIsNotRead ==
  ASSUME TableInv, StoreInNull \/ ReadNull
  PROVE  failed # 0
<1> SUFFICES ASSUME failed = 0 PROVE FALSE
  OBVIOUS
<1>1. /\ HashtableIsInitialized /\ call = "none" /\ old = NoChains /\ next = "none"
  BY DEF StoreInNull, ReadNull, TableInv, EnteredInv, CallInv, TableTypeOK
<1>2. PICK k \in entered : ~Has(nodes[htHash(k)], k)
  BY <1>1 DEF StoreInNull, ReadNull
<1>3. k \in KeysHeld /\ k \in Key
  BY <1>1, <1>2 DEF TableInv, EnteredInv, TableTypeOK
<1>4. k \in ArrayKeys(nodes)
  BY <1>1, <1>3, NoArray DEF KeysHeld, Held, ArrayKeys
<1> QED BY <1>1, <1>2, <1>3, <1>4, Lookup

\* The other steps change only where the call is and what it answers.
LEMMA OtherStep ==
  ASSUME TableInv, call \in {"none", "store"}, call' \in {"none", "undefined", "destroyed"},
         call = "store" => call' = "undefined", call' = "undefined" => failed # 0,
         UNCHANGED <<arrayVars, size, hash, moveVars, argVars, historyVars>>
  PROVE  TableInv' /\ Held' = Held
<1>1. UNCHANGED <<nodes, capacity, threshold, size, hash, next, old, chain, key, value, entered, failed>>
  BY DEF arrayVars, moveVars, argVars, historyVars
<1>2. Held' = Held /\ KeysHeld' = KeysHeld
  BY <1>1 DEF Held, KeysHeld
<1>3. TableTypeOK' /\ NodesInPlace'
  BY <1>1 DEF TableInv, TableTypeOK, NodesInPlace, htHash
<1>4. SizeCounts' /\ CapacityInv'
  BY <1>1, <1>2 DEF TableInv, SizeCounts, CapacityInv, HashtableIsInitialized
<1>5. CallInv' /\ EnteredInv'
  BY <1>1, <1>2 DEF TableInv, CallInv, EnteredInv, HashtableIsInitialized
<1> QED BY <1>2, <1>3, <1>4, <1>5 DEF TableInv

LEMMA NextTable == TableInv /\ [Next]_vars => TableInv'
<1> SUFFICES ASSUME TableInv, [Next]_vars PROVE TableInv'
  OBVIOUS
<1>1. CASE \E n \in Sizes : InitHashtable(n)
  BY <1>1, InitHashtableStep
<1>2. CASE \E n \in Reserved : reserveCapacityOfHashtable(n)
  BY <1>2, ReserveStep
<1>3. ASSUME NEW k \in Key, \E v \in Value : InsertHashtable(k, v) PROVE TableInv'
  BY <1>3, InsertStep
<1>4. ASSUME NEW k \in Key, ContainsInHashtable(k) \/ FindFromHashtable(k) PROVE TableInv'
  <2>1. /\ call = "none" /\ call' = "none"
        /\ UNCHANGED <<arrayVars, size, hash, moveVars, argVars, historyVars>>
    BY <1>4 DEF ContainsInHashtable, FindFromHashtable, Returns
  <2> QED BY <2>1, OtherStep
<1>5. ASSUME NEW k \in Key, CountDown(k) PROVE TableInv'
  BY <1>5, CountDownStep
<1>6. CASE htRehash
  BY <1>6, RehashStep
<1>7. CASE RehashNextChain
  BY <1>7, NextChainStep
<1>8. CASE EndResize
  BY <1>8, EndStep
<1>9. CASE Update
  BY <1>9, UpdateStep
<1>10. CASE Push
  BY <1>10, PushStep
<1>11. CASE StoreInNull \/ ReadNull
  <2>1. /\ call \in {"none", "store"} /\ call' = "undefined"
        /\ UNCHANGED <<arrayVars, size, hash, moveVars, argVars, historyVars>>
    BY <1>11 DEF StoreInNull, ReadNull
  <2> QED BY <1>11, <2>1, NullIsNotRead, OtherStep
<1>12. CASE CleanAndDestroyHashtable
  <2>1. /\ call = "none" /\ call' = "destroyed"
        /\ UNCHANGED <<arrayVars, size, hash, moveVars, argVars, historyVars>>
    BY <1>12 DEF CleanAndDestroyHashtable
  <2> QED BY <2>1, OtherStep
<1>13. CASE UNCHANGED vars
  <2>1. UNCHANGED <<nodes, capacity, threshold, size, hash, call, next, old, chain, key, value, answer,
                    entered, failed>>
    BY <1>13 DEF vars, arrayVars, moveVars, argVars, historyVars
  <2>2. Held' = Held /\ KeysHeld' = KeysHeld
    BY <2>1 DEF Held, KeysHeld
  <2> QED BY <2>1, <2>2 DEF TableInv, TableTypeOK, NodesInPlace, SizeCounts, CapacityInv, CallInv,
                            EnteredInv, HashtableIsInitialized, htHash
<1> QED BY <1>1, <1>2, <1>3, <1>4, <1>5, <1>6, <1>7, <1>8, <1>9, <1>10, <1>11, <1>12, <1>13
        DEF Next, CallStep

\* The invariant of the table holds, whatever was called and whatever failed.
THEOREM TableInvariant == Spec => []TableInv
BY InitTable, NextTable, PTL DEF Spec

\* A node is where a search for its key looks, no key has two, and no node is in
\* both arrays of a resize (htHash, htRehash).
THEOREM NodesStayInPlace == Spec => []NodesInPlace
<1>1. TableInv => NodesInPlace
  BY DEF TableInv
<1> QED BY <1>1, TableInvariant, PTL

\* size bounds the nodes that there are, is bounded by the capacity, and without a
\* failure no null pointer is read (htShouldGrow, InsertHashtable).
THEOREM SizeCountsTheNodes == Spec => []SizeCounts
<1>1. TableInv => SizeCounts
  BY DEF TableInv
<1> QED BY <1>1, TableInvariant, PTL

-----------------------------------------------------------------------------
(***************************************************************************)
(* The table implements Table.  A set of nodes that has each key once      *)
(* stands for a function.                                                  *)
(***************************************************************************)
KeysOf(H) == {node.key : node \in H}
OneEach(H) == \A p, q \in H : p.key = q.key => p = q
EntriesOf(H) == [k \in KeysOf(H) |-> (CHOOSE node \in H : node.key = k).value]

LEMMA HeldEntries ==
  ASSUME TableInv
  PROVE  EntriesHeld = EntriesOf(Held) /\ KeysHeld = KeysOf(Held) /\ OneEach(Held)
BY OneNodeOfTwoArrays DEF TableInv, NodesInPlace, Held, EntriesHeld, EntriesOf, KeysHeld, KeysOf, OneEach

LEMMA EntryOf ==
  ASSUME NEW H, OneEach(H)
  PROVE  /\ DOMAIN EntriesOf(H) = KeysOf(H)
         /\ \A node \in H : node.key \in KeysOf(H) /\ EntriesOf(H)[node.key] = node.value
<1>1. ASSUME NEW node \in H PROVE node.key \in KeysOf(H) /\ EntriesOf(H)[node.key] = node.value
  <2>1. node.key \in KeysOf(H)
    BY DEF KeysOf
  <2>2. (CHOOSE p \in H : p.key = node.key) = node
    BY DEF OneEach
  <2> QED BY <2>1, <2>2 DEF EntriesOf
<1> QED BY <1>1 DEF EntriesOf

\* Set G of nodes is set H with this node for its key.
IsPut(H, G, node) == \A p : p \in G <=> (p \in H /\ p.key # node.key) \/ p = node

\* Function f with value v for k.
Put(f, k, v) == [j \in DOMAIN f \cup {k} |-> IF j = k THEN v ELSE f[j]]

\* One node is added or gets another value.
LEMMA EntriesPut ==
  ASSUME NEW H, NEW G, OneEach(H), OneEach(G), NEW k, NEW v, NEW new, new.key = k, new.value = v,
         IsPut(H, G, new)
  PROVE  EntriesOf(G) = Put(EntriesOf(H), k, v)
<1>1. KeysOf(G) = KeysOf(H) \cup {k}
  <2>1. \A x : x \in KeysOf(G) <=> \E p \in G : x = p.key
    BY DEF KeysOf
  <2>2. \A x : x \in KeysOf(H) <=> \E p \in H : x = p.key
    BY DEF KeysOf
  <2>3. \A x : x \in KeysOf(G) <=> x \in KeysOf(H) \/ x = k
    BY <2>1, <2>2 DEF IsPut
  <2> QED BY <2>3
<1>2. ASSUME NEW j \in KeysOf(G)
      PROVE  EntriesOf(G)[j] = IF j = k THEN v ELSE EntriesOf(H)[j]
  <2>1. PICK p \in G : p.key = j
    BY DEF KeysOf
  <2>2. EntriesOf(G)[j] = p.value
    BY <2>1, EntryOf
  <2>3. CASE j = k
    <3>1. new \in G /\ p = new
      BY <2>1, <2>3 DEF OneEach, IsPut
    <3> QED BY <2>2, <2>3, <3>1
  <2>4. CASE j # k
    <3>1. p \in H
      BY <2>1, <2>4 DEF IsPut
    <3>2. EntriesOf(H)[j] = p.value
      BY <2>1, <3>1, EntryOf
    <3> QED BY <2>2, <2>4, <3>2
  <2> QED BY <2>3, <2>4
<1>3. DOMAIN EntriesOf(H) = KeysOf(H)
  BY EntryOf
<1>4. EntriesOf(G) = [j \in KeysOf(G) |-> EntriesOf(G)[j]]
  BY DEF EntriesOf
<1> QED BY <1>1, <1>2, <1>3, <1>4 DEF Put

\* The nodes with the keys C are lost.
LEMMA EntriesLost ==
  ASSUME NEW H, NEW G, OneEach(H), NEW C, G = {node \in H : node.key \notin C}
  PROVE  EntriesOf(G) = [j \in KeysOf(H) \ C |-> EntriesOf(H)[j]]
<1>1. KeysOf(G) = KeysOf(H) \ C
  BY DEF KeysOf
<1>2. ASSUME NEW j \in KeysOf(G) PROVE EntriesOf(G)[j] = EntriesOf(H)[j]
  <2>1. PICK p \in G : p.key = j
    BY DEF KeysOf
  <2>2. OneEach(G) /\ p \in H
    BY DEF OneEach
  <2>3. EntriesOf(G)[j] = p.value /\ EntriesOf(H)[j] = p.value
    BY <2>1, <2>2, EntryOf
  <2> QED BY <2>3
<1>3. EntriesOf(G) = [j \in KeysOf(G) |-> EntriesOf(G)[j]]
  BY DEF EntriesOf
<1> QED BY <1>1, <1>2, <1>3

\* Between calls a search answers as the function does.
LEMMA SearchAnswers ==
  ASSUME TableInv, HashtableIsInitialized, old = NoChains, NEW k \in Key, NEW c, c = nodes[htHash(k)]
  PROVE  /\ Has(c, k) <=> k \in DOMAIN EntriesHeld
         /\ \A n \in 1 .. Len(c) : FirstWith(c, k, n) =>
              k \in DOMAIN EntriesHeld /\ EntriesHeld[k] = c[n].value
<1>1. EntriesHeld = EntriesOf(Held) /\ DOMAIN EntriesHeld = KeysOf(Held) /\ OneEach(Held)
  BY HeldEntries, EntryOf
<1>2. Held = NodesOf(nodes)
  BY NoArray DEF Held
<1>3. KeysOf(Held) = ArrayKeys(nodes)
  BY <1>2 DEF KeysOf, ArrayKeys
<1>4. /\ Has(c, k) <=> k \in ArrayKeys(nodes)
      /\ \A n \in 1 .. Len(c) : FirstWith(c, k, n) => c[n] \in NodesOf(nodes) /\ c[n].key = k
  BY Lookup
<1>5. \A node \in Held : node.key \in KeysOf(Held) /\ EntriesOf(Held)[node.key] = node.value
  BY <1>1, EntryOf
<1> QED BY <1>1, <1>2, <1>3, <1>4, <1>5

LEMMA PutHeld ==
  ASSUME TableInv, TableInv', NEW k, NEW v, NEW new, new.key = k, new.value = v, IsPut(Held, Held', new)
  PROVE  EntriesHeld' = Put(EntriesHeld, k, v)
<1>1. EntriesHeld = EntriesOf(Held) /\ OneEach(Held)
  BY HeldEntries
<1>2. EntriesHeld' = EntriesOf(Held') /\ OneEach(Held')
  <2>1. EntriesHeld' = EntriesOf(Held')
    BY DEF EntriesHeld, EntriesOf, KeysHeld, KeysOf
  <2>2. OneEach(Held')
    BY OneNodeOfTwoArrays DEF TableInv, NodesInPlace, Held, OneEach
  <2> QED BY <2>1, <2>2
<1>3. EntriesOf(Held') = Put(EntriesOf(Held), k, v)
  BY ONLY <1>1, <1>2, new.key = k, new.value = v, IsPut(Held, Held', new), EntriesPut
<1> QED BY <1>1, <1>2, <1>3

LEMMA EntriesKept ==
  ASSUME Held' = Held
  PROVE  EntriesHeld' = EntriesHeld
BY DEF EntriesHeld, KeysHeld

LEMMA InitImplements ==
  ASSUME Init
  PROVE  Abstract!Init
<1>1. Held = {} /\ KeysHeld = {} /\ answer = <<"init", NULL, 0>>
  BY NoArray DEF Init, Held, KeysHeld
<1>2. EntriesHeld = [k \in {} |-> NULL]
  BY <1>1 DEF EntriesHeld
<1> QED BY <1>1, <1>2 DEF Abstract!Init

LEMMA UpdateImplements ==
  ASSUME TableInv, TableInv', Update
  PROVE  Abstract!Insert(key, value)
<1>1. PICK n \in 1 .. Len(nodes[htHash(key)]) :
        FirstWith(nodes[htHash(key)], key, n) /\ nodes' = [nodes EXCEPT ![htHash(key)][n].value = value]
  BY DEF Update
<1>2. /\ call = "store" /\ HashtableIsInitialized /\ key \in Key /\ value \in Value /\ old = NoChains
      /\ answer' = <<"insert", key, 1>> /\ UNCHANGED <<capacity, hash, old>>
  BY DEF Update, Returns, moveVars, TableInv, CallInv, TableTypeOK, EnteredInv
<1> DEFINE node == nodes[htHash(key)][n]  new == [key |-> key, value |-> value]
<1>3. node \in Held /\ node.key = key /\ Held' = (Held \ {node}) \cup {new}
  BY <1>1, <1>2, SettingAValue
<1>4. new.key = key /\ new.value = value
  OBVIOUS
<1>5. key \in DOMAIN EntriesHeld
  BY <1>1, <1>2, SearchAnswers
<1> HIDE DEF node, new
<1>6. IsPut(Held, Held', new)
  BY <1>3, <1>4, HeldEntries DEF IsPut, OneEach
<1>7. EntriesHeld' = Put(EntriesHeld, key, value)
  BY <1>4, <1>6, PutHeld
<1> QED BY <1>2, <1>5, <1>7 DEF Abstract!Insert, Abstract!Entered, Abstract!Entry, Put

LEMMA PushImplements ==
  ASSUME TableInv, TableInv', Push, ~(failed' > failed)
  PROVE  Abstract!Insert(key, value)
<1>1. /\ call = "store" /\ HashtableIsInitialized /\ key \in Key /\ value \in Value /\ old = NoChains
      /\ answer' = <<"insert", key, 0>> /\ UNCHANGED <<capacity, hash, old>>
      /\ ~Has(nodes[htHash(key)], key) /\ htPushFront
  BY DEF Push, Returns, moveVars, TableInv, CallInv, TableTypeOK, EnteredInv
<1> DEFINE new == [key |-> key, value |-> value]
<1>2. Held' = Held \cup {new} /\ key \notin KeysHeld
  BY <1>1, AddingANode DEF htPushFront
<1>3. new.key = key /\ new.value = value
  OBVIOUS
<1>4. key \notin DOMAIN EntriesHeld
  BY <1>1, SearchAnswers
<1> HIDE DEF new
<1>5. IsPut(Held, Held', new)
  BY <1>2, <1>3 DEF IsPut, KeysHeld
<1>6. EntriesHeld' = Put(EntriesHeld, key, value)
  BY <1>3, <1>5, PutHeld
<1> QED BY <1>1, <1>4, <1>6 DEF Abstract!Insert, Abstract!Entered, Abstract!Entry, Put

LEMMA PushLoses ==
  ASSUME TableInv, Push, failed' > failed
  PROVE  LosesChain
<1> DEFINE C == {k \in Key : htHash(k) = htHash(key)}
<1>1. /\ call = "store" /\ HashtableIsInitialized /\ key \in Key /\ old = NoChains
      /\ UNCHANGED <<capacity, hash, old>> /\ ~Has(nodes[htHash(key)], key) /\ TableTypeOK
  BY DEF Push, moveVars, TableInv, CallInv, TableTypeOK, EnteredInv
<1>2. nodes' = [nodes EXCEPT ![htHash(key)] = <<>>] /\ answer' = <<"insert", key, -1>>
  <2>1. failed' # failed
    BY <1>1 DEF TableTypeOK
  <2> QED BY <2>1 DEF Push, Returns
<1>3. nodes' # NoChains /\ Held' = {node \in Held : htHash(node.key) # htHash(key)}
  BY <1>1, <1>2, LosingAChain
<1>4. \A node \in Held : node.key \in Key
  BY <1>1 DEF TableInv, EnteredInv, KeysHeld, TableTypeOK
<1>5. Held' = {node \in Held : node.key \notin C}
  BY <1>3, <1>4
<1>6. EntriesHeld = EntriesOf(Held) /\ OneEach(Held) /\ DOMAIN EntriesHeld = KeysOf(Held)
  BY HeldEntries, EntryOf
<1>7. EntriesHeld' = EntriesOf(Held')
  BY DEF EntriesHeld, EntriesOf, KeysHeld, KeysOf
<1> HIDE DEF C
<1>8. EntriesHeld' = [j \in DOMAIN EntriesHeld \ C |-> EntriesHeld[j]]
  BY <1>5, <1>6, <1>7, EntriesLost
<1>9. key \notin DOMAIN EntriesHeld
  BY <1>1, SearchAnswers
<1>10. Abstract!LoseSome(key, C)
  BY <1>2, <1>8, <1>9 DEF Abstract!LoseSome, Abstract!Entered
<1> QED BY <1>3, <1>10 DEF LosesChain, HashtableIsInitialized, C

LEMMA CountDownImplements ==
  ASSUME TableInv, TableInv', NEW k \in Key, CountDown(k)
  PROVE  Abstract!CountDown(k)
<1> DEFINE c == nodes[htHash(k)]
<1>1. PICK n \in 1 .. Len(c) :
        /\ FirstWith(c, k, n) /\ answer' = <<"find", k, c[n].value>>
        /\ nodes' = IF c[n].value > 1 THEN [nodes EXCEPT ![htHash(k)][n].value = @ - 1] ELSE nodes
  BY DEF CountDown, Returns
<1>2. HashtableIsInitialized /\ old = NoChains /\ UNCHANGED <<capacity, hash, old>>
  BY DEF CountDown, moveVars, TableInv, CallInv
<1>3. k \in DOMAIN EntriesHeld /\ EntriesHeld[k] = c[n].value
  BY <1>1, <1>2, SearchAnswers
<1>4. CASE c[n].value > 1
  <2> DEFINE v == c[n].value - 1  new == [key |-> k, value |-> v]
  <2>1. v \in Value
    <3>1. c \in Seq(Node)
      BY <1>2, Lookup
    <3>2. c[n] \in Node
      BY <3>1
    <3>3. c[n].value \in Value
      BY <3>2 DEF Node
    <3> QED BY <1>4, <3>3, TableAssumption
  <2>2. nodes' = [nodes EXCEPT ![htHash(k)][n].value = v]
    BY <1>1, <1>4
  <2>3. new.key = k /\ new.value = v
    OBVIOUS
  <2>4. c[n] \in Held /\ c[n].key = k /\ Held' = (Held \ {c[n]}) \cup {new}
    <3> HIDE DEF v
    <3> QED BY <1>1, <1>2, <2>1, <2>2, SettingAValue
  <2> HIDE DEF new, c
  <2>5. IsPut(Held, Held', new)
    BY <2>3, <2>4, HeldEntries DEF IsPut, OneEach
  <2>6. EntriesHeld' = Put(EntriesHeld, k, v)
    BY <2>3, <2>5, PutHeld
  <2> QED BY <1>1, <1>3, <1>4, <2>6 DEF Abstract!CountDown, Abstract!Entered, Abstract!Entry, Put
<1>5. CASE ~(c[n].value > 1)
  <2>1. nodes' = nodes
    BY <1>1, <1>5
  <2>2. EntriesHeld' = EntriesHeld
    BY <1>2, <2>1, EntriesKept DEF Held
  <2> HIDE DEF c
  <2> QED BY <1>1, <1>3, <1>5, <2>2 DEF Abstract!CountDown, Abstract!Entered
<1> QED BY <1>4, <1>5

\* A call that finds no array was preceded by a failure, and holds nothing.
LEMMA NoArrayAfterFailure ==
  ASSUME TableInv, call # "start", old = NoChains, ~HashtableIsInitialized, UNCHANGED failed
  PROVE  failed' > 0 /\ Held = {} /\ DOMAIN EntriesHeld = {}
<1>1. failed' > 0
  BY TableAssumption DEF TableInv, EnteredInv, TableTypeOK
<1>2. Held = {}
  BY NoArray DEF Held, HashtableIsInitialized
<1> QED BY <1>1, <1>2 DEF EntriesHeld, KeysHeld

LEMMA Stutters ==
  ASSUME Held' = Held, answer' = answer
  PROVE  UNCHANGED Abstract!tableVars
BY EntriesKept DEF Abstract!tableVars

\* What is answered without an array.
LEMMA IsRefused ==
  ASSUME TableInv, call # "start", old = NoChains, ~HashtableIsInitialized,
         UNCHANGED <<nodes, old, failed>>, NEW operation, NEW k,
         answer' = <<operation, k, -1>>,
         \/ operation = "reserve" /\ k = NULL
         \/ operation \in {"insert", "contains"} /\ k \in Key
  PROVE  Refuses
<1>1. failed' > 0 /\ DOMAIN EntriesHeld = {}
  BY NoArrayAfterFailure
<1>2. EntriesHeld' = EntriesHeld
  BY EntriesKept DEF Held
<1>3. Abstract!Refuse
  BY <1>1, <1>2 DEF Abstract!Refuse, Abstract!Entered
<1> QED BY <1>1, <1>3 DEF Refuses, HashtableIsInitialized

LEMMA IsLostWithArray ==
  ASSUME ArrayIsLost, UNCHANGED answer
  PROVE  LosesArray
<1>1. EntriesHeld' = [k \in {} |-> NULL]
  BY DEF ArrayIsLost, EntriesHeld, KeysHeld
<1> QED BY <1>1 DEF ArrayIsLost, LosesArray, Abstract!LoseAll

LEMMA NextImplements ==
  ASSUME TableInv, TableInv', [Next]_vars
  PROVE  [Abstract!Next \/ LosesChain \/ LosesArray \/ Refuses]_(Abstract!tableVars)
<1> DEFINE AbstractNext == Abstract!Next \/ LosesChain \/ LosesArray \/ Refuses
<1>1. ASSUME NEW n \in Sizes, InitHashtable(n) PROVE [AbstractNext]_(Abstract!tableVars)
  <2>1. /\ Held = {} /\ Held' = {} /\ DOMAIN EntriesHeld = {} /\ EntriesHeld' = EntriesHeld
        /\ answer = <<"init", NULL, 0>>
    <3>1. Held = {} /\ answer = <<"init", NULL, 0>>
      BY <1>1, NoArray DEF InitHashtable, TableInv, CallInv, HashtableIsInitialized, Held
    <3>2. Held' = {}
      BY <1>1, InitHashtableStep
    <3> QED BY <3>1, <3>2, EntriesKept DEF EntriesHeld, KeysHeld
  <2>2. CASE answer' = <<"init", NULL, 0>>
    BY <2>1, <2>2, Stutters
  <2>3. CASE htAllocateFails /\ answer' = <<"init", NULL, -1>>
    <3>1. failed' > 0 /\ nodes' = NoChains
      BY <2>3 DEF htAllocateFails, TableInv, TableTypeOK
    <3>2. Abstract!Refuse
      BY <2>1, <2>3 DEF Abstract!Refuse, Abstract!Entered
    <3> QED BY <3>1, <3>2 DEF Refuses, HashtableIsInitialized
  <2> QED BY <1>1, <2>2, <2>3 DEF InitHashtable, Returns
<1>2. ASSUME NEW n \in Reserved, reserveCapacityOfHashtable(n) PROVE [AbstractNext]_(Abstract!tableVars)
  <2>1. Held' = Held \/ ArrayIsLost
    BY <1>2, ReserveStep
  <2>2. CASE UNCHANGED answer
    BY <2>1, <2>2, Stutters, IsLostWithArray
  <2>3. CASE /\ Returns("reserve", NULL, IF HashtableIsInitialized THEN 0 ELSE -1)
             /\ UNCHANGED <<arrayVars, moveVars, failed>>
    <3>1. call = "none" /\ old = NoChains /\ UNCHANGED <<nodes, old, failed>>
      BY <1>2, <2>3 DEF reserveCapacityOfHashtable, arrayVars, moveVars, TableInv, CallInv
    <3>2. CASE HashtableIsInitialized
      <4>1. answer' = <<"reserve", NULL, 0>> /\ EntriesHeld' = EntriesHeld
        BY <2>3, <3>1, <3>2, EntriesKept DEF Returns, Held
      <4> QED BY <4>1 DEF Abstract!Reserve, Abstract!Next
    <3>3. CASE ~HashtableIsInitialized
      <4>1. answer' = <<"reserve", NULL, -1>>
        BY <2>3, <3>3 DEF Returns
      <4> QED BY <3>1, <3>3, <4>1, IsRefused
    <3> QED BY <3>2, <3>3
  <2> QED BY <1>2, <2>2, <2>3 DEF reserveCapacityOfHashtable
<1>3. ASSUME NEW k \in Key, NEW v \in Value, InsertHashtable(k, v) PROVE [AbstractNext]_(Abstract!tableVars)
  <2>1. Held' = Held \/ ArrayIsLost
    BY <1>3, InsertStep
  <2>2. CASE UNCHANGED answer
    BY <2>1, <2>2, Stutters, IsLostWithArray
  <2>3. CASE ~HashtableIsInitialized /\ Returns("insert", k, -1) /\ UNCHANGED <<arrayVars, moveVars, failed>>
    <3>1. /\ call = "none" /\ old = NoChains /\ UNCHANGED <<nodes, old, failed>>
          /\ answer' = <<"insert", k, -1>>
      BY <1>3, <2>3 DEF InsertHashtable, Returns, arrayVars, moveVars, TableInv, CallInv
    <3> QED BY <2>3, <3>1, IsRefused
  <2> QED BY <1>3, <2>2, <2>3 DEF InsertHashtable
<1>4. ASSUME NEW k \in Key, ContainsInHashtable(k) PROVE Abstract!Contains(k) \/ Refuses
  <2>1. /\ call = "none" /\ old = NoChains /\ UNCHANGED failed /\ UNCHANGED <<nodes, old>>
    BY <1>4 DEF ContainsInHashtable, historyVars, arrayVars, moveVars, TableInv, CallInv
  <2>2. CASE ~HashtableIsInitialized
    <3>1. answer' = <<"contains", k, -1>>
      BY <1>4, <2>2 DEF ContainsInHashtable, Returns
    <3> QED BY <2>1, <2>2, <3>1, IsRefused
  <2>3. CASE HashtableIsInitialized
    <3>1. EntriesHeld' = EntriesHeld
      BY <2>1, EntriesKept DEF Held
    <3>2. answer' = <<"contains", k, IF Has(nodes[htHash(k)], k) THEN 1 ELSE 0>>
      BY <1>4, <2>3 DEF ContainsInHashtable, Returns
    <3>3. Has(nodes[htHash(k)], k) <=> k \in DOMAIN EntriesHeld
      BY <2>1, <2>3, SearchAnswers
    <3> QED BY <3>1, <3>2, <3>3 DEF Abstract!Contains, Abstract!Entered
  <2> QED BY <2>2, <2>3
<1>5. ASSUME NEW k \in Key, FindFromHashtable(k) PROVE Abstract!Find(k)
  <2>1. /\ old = NoChains /\ HashtableIsInitialized /\ UNCHANGED <<nodes, old>>
    BY <1>5 DEF FindFromHashtable, arrayVars, moveVars, TableInv, CallInv
  <2>2. EntriesHeld' = EntriesHeld
    BY <2>1, EntriesKept DEF Held
  <2>3. answer' = <<"find", k, IF k \in DOMAIN EntriesHeld THEN EntriesHeld[k] ELSE NULL>>
    <3>1. CASE \E n \in 1 .. Len(nodes[htHash(k)]) :
                 FirstWith(nodes[htHash(k)], k, n) /\ answer' = <<"find", k, nodes[htHash(k)][n].value>>
      BY <2>1, <3>1, SearchAnswers
    <3>2. CASE ~Has(nodes[htHash(k)], k) /\ answer' = <<"find", k, NULL>>
      BY <2>1, <3>2, SearchAnswers
    <3> QED BY <1>5, <3>1, <3>2 DEF FindFromHashtable, Returns
  <2> QED BY <2>2, <2>3 DEF Abstract!Find, Abstract!Read, Abstract!Entered
<1>6. ASSUME NEW k \in Key, CountDown(k) PROVE Abstract!CountDown(k)
  BY <1>6, CountDownImplements
<1>7. CASE htRehash
  BY <1>7, RehashStep, Stutters DEF htRehash
<1>8. CASE RehashNextChain
  BY <1>8, NextChainStep, Stutters DEF RehashNextChain
<1>9. CASE EndResize
  <2>1. Held' = Held /\ EntriesHeld' = EntriesHeld
    BY <1>9, EndStep, EntriesKept
  <2>2. CASE call = "failed"
    <3>1. /\ old = NoChains /\ ~HashtableIsInitialized /\ UNCHANGED <<nodes, old, failed>>
          /\ UNCHANGED answer \/ answer' = <<"reserve", NULL, -1>>
      BY <1>9, <2>2 DEF EndResize, Returns, arrayVars, historyVars, TableInv, CallInv
    <3> QED BY <2>1, <2>2, <3>1, Stutters, IsRefused
  <2>3. CASE call # "failed"
    <3>1. UNCHANGED answer \/ answer' = <<"reserve", NULL, 0>>
      BY <1>9, <2>3 DEF EndResize, Returns
    <3> QED BY <2>1, <3>1, Stutters DEF Abstract!Reserve, Abstract!Next
  <2> QED BY <2>2, <2>3
<1>10. CASE Update
  <2>1. key \in Key /\ value \in Value
    BY <1>10 DEF Update, TableInv, CallInv, TableTypeOK
  <2> QED BY <1>10, <2>1, UpdateImplements DEF Abstract!Next
<1>11. CASE Push
  <2>1. key \in Key /\ value \in Value
    BY <1>11 DEF Push, TableInv, CallInv, TableTypeOK
  <2> QED BY <1>11, <2>1, PushImplements, PushLoses DEF Abstract!Next
<1>12. CASE StoreInNull \/ ReadNull \/ CleanAndDestroyHashtable
  <2>1. UNCHANGED <<nodes, old, answer>>
    BY <1>12 DEF StoreInNull, ReadNull, CleanAndDestroyHashtable, arrayVars, moveVars
  <2> QED BY <2>1, Stutters DEF Held
<1>13. CASE UNCHANGED vars
  <2>1. UNCHANGED <<nodes, old, answer>>
    BY <1>13 DEF vars, arrayVars, moveVars
  <2> QED BY <2>1, Stutters DEF Held
<1>14. \A k \in Key : Abstract!Contains(k) \/ Abstract!Find(k) \/ Abstract!CountDown(k) => Abstract!Next
  BY DEF Abstract!Next
<1> QED BY <1>1, <1>2, <1>3, <1>4, <1>5, <1>6, <1>7, <1>8, <1>9, <1>10, <1>11, <1>12, <1>13, <1>14
        DEF Next, CallStep

\* Every call of myHashtable.c answers as a function from keys to values does, and
\* a resize in the middle of one changes nothing; when malloc refuses memory, no
\* more is lost than the chain of the node or the array, and the call that was
\* refused does not answer as if it had succeeded.
THEOREM TableIsImplemented == Spec => ImplementsTable
<1>1. Init => Abstract!Init
  BY InitImplements
<1>2. TableInv /\ TableInv' /\ [Next]_vars =>
        [Abstract!Next \/ LosesChain \/ LosesArray \/ Refuses]_(Abstract!tableVars)
  BY NextImplements
<1> QED BY <1>1, <1>2, TableInvariant, PTL DEF Spec, ImplementsTable
=============================================================================
