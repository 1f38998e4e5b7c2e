----------------------------- MODULE LMapProofs -----------------------------
(* What the operations of LMap do to a map in which every node is in the    *)
(* bucket of its key and no key has two nodes (MapOK): they preserve that,  *)
(* and seen through Search they are the operations of a dictionary.         *)
EXTENDS LMap, SequenceTheorems, DataInduction

-----------------------------------------------------------------------------
(* Hashing *)

(* The defining equation of a & b, up to n. *)
AndUpTo(g, n) ==
  /\ g \in [0 .. n -> [Nat -> Nat]]
  /\ \A b \in 0 .. n, a \in Nat :
       g[b][a] = IF b = 0 THEN 0 ELSE 2 * g[b \div 2][a \div 2] + (a % 2) * (b % 2)

LEMMA HalfLess ==
  ASSUME NEW n \in Nat
  PROVE  n \div 2 \in 0 .. n /\ n \div 2 \in Nat /\ (n # 0 => n \div 2 \in 0 .. n - 1)
OBVIOUS

LEMMA AndStep ==
  ASSUME NEW a \in Nat, NEW b \in Nat, NEW x \in Nat
  PROVE  /\ 2 * x + (a % 2) * (b % 2) \in Nat
         /\ x <= b \div 2 => 2 * x + (a % 2) * (b % 2) <= b
OBVIOUS

LEMMA AndUpToExists == \A n \in Nat : \E g : AndUpTo(g, n)
<1> DEFINE T == {n \in Nat : \E g : AndUpTo(g, n)}
<1>1. 0 \in T
  <2>1. AndUpTo([b \in 0 .. 0 |-> [a \in Nat |-> 0]], 0)
    BY DEF AndUpTo
  <2> QED BY <2>1
<1>2. ASSUME NEW n \in Nat, n \in T PROVE n + 1 \in T
  <2>1. PICK g : AndUpTo(g, n)
    BY <1>2
  <2>2. (n + 1) \div 2 \in 0 .. n
    OBVIOUS
  <2> DEFINE row == [a \in Nat |-> 2 * g[(n + 1) \div 2][a \div 2] + (a % 2) * ((n + 1) % 2)]
             h == [b \in 0 .. n + 1 |-> IF b = n + 1 THEN row ELSE g[b]]
  <2>3. row \in [Nat -> Nat]
    <3>1. ASSUME NEW a \in Nat PROVE row[a] \in Nat
      <4>1. g[(n + 1) \div 2][a \div 2] \in Nat
        BY <2>1, <2>2, HalfLess DEF AndUpTo
      <4> QED BY <4>1, AndStep
    <3> HIDE DEF row
    <3>2. row = [a \in Nat |-> row[a]]
      BY DEF row
    <3> QED BY <3>1, <3>2
  <2>4. h \in [0 .. n + 1 -> [Nat -> Nat]]
    <3>1. ASSUME NEW b \in 0 .. n + 1 PROVE h[b] \in [Nat -> Nat]
      <4>1. b # n + 1 => b \in 0 .. n
        OBVIOUS
      <4> HIDE DEF row
      <4> QED BY <2>1, <2>3, <4>1 DEF AndUpTo
    <3> HIDE DEF row
    <3> QED BY <3>1
  <2>5. ASSUME NEW b \in 0 .. n + 1, NEW a \in Nat
        PROVE  h[b][a] = IF b = 0 THEN 0
                         ELSE 2 * h[b \div 2][a \div 2] + (a % 2) * (b % 2)
    <3>1. CASE b = n + 1
      <4>1. h[b][a] = 2 * g[b \div 2][a \div 2] + (a % 2) * (b % 2)
        BY <3>1
      <4>2. h[b \div 2] = g[b \div 2]
        BY <3>1, <2>2
      <4>3. b # 0
        BY <3>1
      <4> HIDE DEF h
      <4>4. h[b][a] = 2 * h[b \div 2][a \div 2] + (a % 2) * (b % 2)
        BY <4>1, <4>2, Zenon
      <4> QED BY <4>3, <4>4, Zenon
    <3>2. CASE b # n + 1
      <4>1. b \in 0 .. n /\ b \div 2 \in 0 .. n
        BY <3>2, HalfLess
      <4>2. h[b] = g[b] /\ h[b \div 2] = g[b \div 2]
        <5> DEFINE half == b \div 2
        <5>1. half \in 0 .. n + 1 /\ half # n + 1
          BY <4>1
        <5> HIDE DEF half
        <5>2. h[b] = g[b] /\ h[half] = g[half]
          BY <3>2, <5>1, Zenon
        <5> QED BY <5>2 DEF half
      <4> HIDE DEF h
      <4> QED BY <4>1, <4>2, <2>1 DEF AndUpTo
    <3> QED BY <3>1, <3>2
  <2>6. AndUpTo(h, n + 1)
    <3> HIDE DEF h
    <3> QED BY <2>4, <2>5 DEF AndUpTo
  <2> HIDE DEF h
  <2> QED BY <2>6
<1> HIDE DEF T
<1>3. \A n \in Nat : n \in T
  BY <1>1, <1>2, SetInduction
<1> QED
  BY <1>3 DEF T

LEMMA AndUpToUnique ==
  ASSUME NEW n \in Nat, NEW k \in Nat, NEW g, NEW h, AndUpTo(g, n), AndUpTo(h, k)
  PROVE  \A b \in Nat : b <= n /\ b <= k => \A a \in Nat : g[b][a] = h[b][a]
<1> DEFINE T == {i \in Nat : \A b \in 0 .. i : b <= n /\ b <= k =>
                               \A a \in Nat : g[b][a] = h[b][a]}
<1>1. 0 \in T
  BY DEF AndUpTo
<1>2. ASSUME NEW i \in Nat, i \in T PROVE i + 1 \in T
  <2>1. ASSUME NEW a \in Nat, i + 1 <= n, i + 1 <= k
        PROVE  g[i + 1][a] = h[i + 1][a]
    <3>1. (i + 1) \div 2 \in 0 .. i /\ a \div 2 \in Nat
      BY HalfLess
    <3>2. g[(i + 1) \div 2][a \div 2] = h[(i + 1) \div 2][a \div 2]
      BY <1>2, <2>1, <3>1
    <3>3. i + 1 \in 0 .. n /\ i + 1 \in 0 .. k /\ i + 1 # 0
      BY <2>1
    <3>4. g[i + 1][a] = 2 * g[(i + 1) \div 2][a \div 2] + (a % 2) * ((i + 1) % 2)
      BY <3>3 DEF AndUpTo
    <3>5. h[i + 1][a] = 2 * h[(i + 1) \div 2][a \div 2] + (a % 2) * ((i + 1) % 2)
      BY <3>3 DEF AndUpTo
    <3> QED BY <3>2, <3>4, <3>5
  <2> QED BY <1>2, <2>1
<1> HIDE DEF T
<1>3. \A i \in Nat : i \in T
  BY <1>1, <1>2, SetInduction
<1> QED
  BY <1>3 DEF T

LEMMA BitAndDef ==
  ASSUME NEW b \in Nat, NEW a \in Nat
  PROVE  BitAnd[b][a] =
           IF b = 0 THEN 0 ELSE 2 * BitAnd[b \div 2][a \div 2] + (a % 2) * (b % 2)
<1> DEFINE g(n) == CHOOSE h : AndUpTo(h, n)
           f == [n \in Nat |-> g(n)[n]]
           row(n) == [x \in Nat |->
             IF n = 0 THEN 0 ELSE 2 * f[n \div 2][x \div 2] + (x % 2) * (n % 2)]
<1>1. \A n \in Nat : AndUpTo(g(n), n)
  BY AndUpToExists
<1>2. ASSUME NEW n \in Nat PROVE f[n] = row(n)
  <2> HIDE DEF g
  <2>1. f[n] = g(n)[n] /\ f[n \div 2] = g(n \div 2)[n \div 2] /\ n \in 0 .. n
    BY HalfLess
  <2>2. g(n)[n] \in [Nat -> Nat]
    BY <1>1, <2>1 DEF AndUpTo
  <2>3. ASSUME NEW x \in Nat PROVE f[n][x] = row(n)[x]
    <3>1. x \div 2 \in Nat /\ n \div 2 \in Nat /\ n \div 2 <= n
      BY HalfLess
    <3>2. AndUpTo(g(n), n) /\ AndUpTo(g(n \div 2), n \div 2)
      BY <1>1, <3>1
    <3>3. g(n)[n \div 2][x \div 2] = g(n \div 2)[n \div 2][x \div 2]
      BY <3>1, <3>2, AndUpToUnique
    <3>4. g(n)[n][x] = IF n = 0 THEN 0 ELSE 2 * g(n)[n \div 2][x \div 2] + (x % 2) * (n % 2)
      BY <3>2, <2>1 DEF AndUpTo
    <3> HIDE DEF f
    <3> QED BY <2>1, <3>3, <3>4
  <2> HIDE DEF f
  <2> QED BY <2>1, <2>2, <2>3
<1>3. f = [n \in Nat |-> row(n)]
  <2>1. f = [n \in Nat |-> f[n]]
    OBVIOUS
  <2> HIDE DEF f
  <2> QED BY <1>2, <2>1
<1> HIDE DEF f
<1>4. BitAnd = [n \in Nat |-> [x \in Nat |->
        IF n = 0 THEN 0 ELSE 2 * BitAnd[n \div 2][x \div 2] + (x % 2) * (n % 2)]]
  BY <1>3 DEF BitAnd
<1>5. BitAnd[b] = [x \in Nat |->
        IF b = 0 THEN 0 ELSE 2 * BitAnd[b \div 2][x \div 2] + (x % 2) * (b % 2)]
  BY <1>4
<1> QED
  BY <1>5

(* a & b is a number and no larger than b. *)
LEMMA BitAndRange == \A b \in Nat : \A a \in Nat : BitAnd[b][a] \in 0 .. b
<1> DEFINE T == {n \in Nat : \A b \in 0 .. n : \A a \in Nat : BitAnd[b][a] \in 0 .. b}
<1>1. 0 \in T
  BY BitAndDef
<1>2. ASSUME NEW n \in Nat, n \in T PROVE n + 1 \in T
  <2>1. ASSUME NEW a \in Nat PROVE BitAnd[n + 1][a] \in 0 .. n + 1
    <3> DEFINE b == n + 1
    <3>0. b \in Nat /\ b # 0
      OBVIOUS
    <3> HIDE DEF b
    <3>4. BitAnd[b][a] = 2 * BitAnd[b \div 2][a \div 2] + (a % 2) * (b % 2)
      BY <3>0, BitAndDef
    <3> USE DEF b
    <3>1. BitAnd[n + 1][a] = 2 * BitAnd[(n + 1) \div 2][a \div 2] + (a % 2) * ((n + 1) % 2)
      BY <3>4
    <3>2. (n + 1) \div 2 \in 0 .. n /\ a \div 2 \in Nat
      BY HalfLess
    <3>3. BitAnd[(n + 1) \div 2][a \div 2] \in 0 .. (n + 1) \div 2
      BY <1>2, <3>2
    <3> QED BY <3>1, <3>2, <3>3, AndStep
  <2> QED BY <1>2, <2>1
<1> HIDE DEF T
<1>3. \A n \in Nat : n \in T
  BY <1>1, <1>2, SetInduction
<1>4. ASSUME NEW b \in Nat PROVE \A a \in Nat : BitAnd[b][a] \in 0 .. b
  <2>1. b \in T /\ b \in 0 .. b
    BY <1>3
  <2> QED BY <2>1 DEF T
<1> QED
  BY <1>4

(* A key hashes into the buckets. *)
LEMMA HashRange ==
  ASSUME NEW key, IsKey(key), NEW size \in Nat \ {0}
  PROVE  hash(key, size) \in 0 .. size - 1
<1>1. CASE key \in [type : {"STRING"}, k : DOMAIN StrHash]
  <2>1. StrHash[key.k] \in Nat /\ size - 1 \in Nat
    BY <1>1, HashAssumption
  <2> QED BY <1>1, <2>1, BitAndRange DEF hash, hash_str
<1>2. CASE key \in [type : {"NUMBER"}, k : 0 .. 2^SizeBits - 1]
  <2>1. key.k \in Nat /\ key.type = "NUMBER"
    BY <1>2
  <2> QED BY <2>1 DEF hash, hash_num
<1> QED
  BY <1>1, <1>2 DEF IsKey

-----------------------------------------------------------------------------
(* Nodes *)

LEMMA NodeShape ==
  ASSUME NEW K, KeysFit(K), NEW W, NEW n \in NodeSet(K, W)
  PROVE  \E key \in K :
           /\ n = [key_type |-> key.type, k |-> new_node(key, NilValue).k, v |-> n.v]
           /\ n.v \in W
           /\ NodeKey(n) = key
<1>1. PICK key \in K :
        n \in [key_type : {key.type}, k : {new_node(key, NilValue).k}, v : W]
  BY DEF NodeSet
<1>2. n.key_type = key.type /\ n.k = new_node(key, NilValue).k /\ n.v \in W
  BY <1>1
<1>3. n = [key_type |-> key.type, k |-> new_node(key, NilValue).k, v |-> n.v]
  BY <1>1
<1>4. new_node(key, NilValue).key_type = key.type
  BY DEF new_node
<1>5. NodeKey(n) = NodeKey(new_node(key, NilValue))
  <2> HIDE DEF new_node
  <2> QED BY <1>2, <1>4 DEF NodeKey
<1>6. NodeKey(n) = key
  BY <1>5 DEF KeysFit
<1> QED
  BY <1>2, <1>3, <1>6

LEMMA KeyOfNode ==
  ASSUME NEW K, KeysFit(K), NEW W, NEW n \in NodeSet(K, W)
  PROVE  NodeKey(n) \in K /\ n.v \in W
BY NodeShape

(* The walk of a chain compares as the keys of its nodes do. *)
LEMMA InHash ==
  ASSUME NEW K, KeysFit(K), NEW W, NEW n \in NodeSet(K, W), NEW key \in K
  PROVE  is_in_hash(key, n) <=> NodeKey(n) = key
<1>1. NodeKey(n) \in K /\ IsKey(key)
  BY KeyOfNode DEF KeysFit
<1>2. key = [type |-> key.type, k |-> key.k]
  BY <1>1 DEF IsKey
<1>3. NodeKey(n) = [type |-> n.key_type, k |-> NodeKey(n).k]
  BY DEF NodeKey
<1>4. NodeKey(n).k = IF n.key_type = "STRING" THEN n.k ELSE ToSize(n.k)
  BY DEF NodeKey
<1>5. NodeKey(n) = key <=> n.key_type = key.type /\ NodeKey(n).k = key.k
  BY <1>2, <1>3
<1> QED
  BY <1>4, <1>5 DEF is_in_hash

LEMMA NewNode ==
  ASSUME NEW K, KeysFit(K), NEW W, NEW key \in K, NEW w \in W
  PROVE  /\ new_node(key, w) \in NodeSet(K, W)
         /\ NodeKey(new_node(key, w)) = key
         /\ new_node(key, w).v = w
<1>1. new_node(key, w) \in [key_type : {key.type}, k : {new_node(key, NilValue).k}, v : W]
  BY DEF new_node
<1>2. new_node(key, w) \in NodeSet(K, W)
  BY <1>1 DEF NodeSet
<1>3. NodeKey(new_node(key, w)) = NodeKey(new_node(key, NilValue))
  BY DEF NodeKey, new_node
<1>4. new_node(key, w).v = w
  BY DEF new_node
<1> QED
  BY <1>2, <1>3, <1>4 DEF KeysFit

LEMMA SetValue ==
  ASSUME NEW K, KeysFit(K), NEW W, NEW n \in NodeSet(K, W), NEW X, NEW w \in X
  PROVE  /\ [n EXCEPT !.v = w] \in NodeSet(K, X)
         /\ NodeKey([n EXCEPT !.v = w]) = NodeKey(n)
         /\ [n EXCEPT !.v = w].v = w
<1>1. PICK key \in K :
        n \in [key_type : {key.type}, k : {new_node(key, NilValue).k}, v : W]
  BY DEF NodeSet
<1> HIDE DEF new_node
<1>2. [n EXCEPT !.v = w] \in [key_type : {key.type}, k : {new_node(key, NilValue).k}, v : X]
  BY <1>1
<1>3. [n EXCEPT !.v = w].v = w /\ [n EXCEPT !.v = w].k = n.k
      /\ [n EXCEPT !.v = w].key_type = n.key_type
  BY <1>1
<1> QED
  BY <1>2, <1>3 DEF NodeSet, NodeKey

-----------------------------------------------------------------------------
(* Looking a key up *)

(* The chain of a key, and of any bucket. *)
LEMMA Chains ==
  ASSUME NEW K, KeysFit(K), NEW W, NEW m, MapOK(m, K, W)
  PROVE  /\ m.size \in Nat \ {0}
         /\ \A h \in 0 .. m.size - 1 : m.data[h] \in Seq(NodeSet(K, W))
         /\ \A key \in K : hash(key, m.size) \in 0 .. m.size - 1
         /\ \A key \in K : Chain(m, key) = m.data[hash(key, m.size)]
         /\ \A key \in K : Chain(m, key) \in Seq(NodeSet(K, W))
<1>1. m.size \in Nat \ {0} /\ m.data \in [0 .. m.size - 1 -> Seq(NodeSet(K, W))]
  BY DEF MapOK
<1>2. \A key \in K : hash(key, m.size) \in 0 .. m.size - 1
  BY <1>1, HashRange DEF KeysFit
<1> QED
  BY <1>1, <1>2 DEF Chain

LEMMA SearchFinds ==
  ASSUME NEW K, KeysFit(K), NEW W, NEW m, MapOK(m, K, W),
         NEW h \in 0 .. m.size - 1, NEW i \in DOMAIN m.data[h]
  PROVE  /\ NodeKey(m.data[h][i]) \in K
         /\ hash(NodeKey(m.data[h][i]), m.size) = h
         /\ Position(m, NodeKey(m.data[h][i])) = i
         /\ i # 0
         /\ Search(m, NodeKey(m.data[h][i])) = m.data[h][i].v
         /\ m.data[h][i].v \in W
<1> DEFINE chain == m.data[h]
           key == NodeKey(chain[i])
           found == {j \in DOMAIN chain : is_in_hash(key, chain[j])}
<1>1. chain \in Seq(NodeSet(K, W)) /\ i \in 1 .. Len(chain)
  BY Chains
<1>2. \A j \in DOMAIN chain : chain[j] \in NodeSet(K, W)
  BY <1>1
<1>3. key \in K /\ chain[i].v \in W
  BY <1>2, KeyOfNode
<1>4. hash(key, m.size) = h
  BY DEF MapOK
<1>5. Chain(m, key) = chain
  <2> HIDE DEF key
  <2> QED BY <1>3, <1>4, Chains
<1>6. found = {i}
  <2>1. \A j \in DOMAIN chain : is_in_hash(key, chain[j]) <=> NodeKey(chain[j]) = key
    BY <1>2, <1>3, InHash
  <2>2. \A j \in DOMAIN chain : NodeKey(chain[j]) = key => j = i
    BY DEF MapOK
  <2> QED BY <2>1, <2>2
<1>7. Position(m, key) = i /\ i # 0
  <2>1. Position(m, key) = IF found = {} THEN 0
                           ELSE CHOOSE k \in found : \A j \in found : k <= j
    BY <1>5 DEF Position
  <2>2. i \in Int /\ i # 0
    BY <1>1
  <2> HIDE DEF found
  <2> QED BY <1>6, <2>1, <2>2
<1>8. Search(m, key) = chain[i].v
  BY <1>5, <1>7 DEF Search
<1> QED
  BY <1>3, <1>4, <1>7, <1>8

LEMMA SearchMisses ==
  ASSUME NEW K, KeysFit(K), NEW W, NEW m, MapOK(m, K, W), NEW key \in K,
         \A i \in DOMAIN Chain(m, key) : NodeKey(Chain(m, key)[i]) # key
  PROVE  Position(m, key) = 0 /\ Search(m, key) = NilValue
<1> DEFINE chain == Chain(m, key)
<1>1. \A j \in DOMAIN chain : chain[j] \in NodeSet(K, W)
  BY Chains
<1>2. \A j \in DOMAIN chain : ~is_in_hash(key, chain[j])
  BY <1>1, InHash
<1>3. Position(m, key) = 0
  BY <1>2 DEF Position
<1> QED
  BY <1>3 DEF Search

(* The node of a key, if it has one, is at its position in its chain. *)
LEMMA PositionIs ==
  ASSUME NEW K, KeysFit(K), NEW W, NEW m, MapOK(m, K, W), NEW key \in K
  PROVE  \/ /\ Position(m, key) \in DOMAIN Chain(m, key)
            /\ Position(m, key) # 0
            /\ NodeKey(Chain(m, key)[Position(m, key)]) = key
            /\ Search(m, key) = Chain(m, key)[Position(m, key)].v
            /\ Search(m, key) \in W
         \/ /\ Position(m, key) = 0
            /\ Search(m, key) = NilValue
            /\ \A i \in DOMAIN Chain(m, key) : NodeKey(Chain(m, key)[i]) # key
<1>1. hash(key, m.size) \in 0 .. m.size - 1 /\ Chain(m, key) = m.data[hash(key, m.size)]
  BY Chains
<1>2. ASSUME NEW i \in DOMAIN Chain(m, key), NodeKey(Chain(m, key)[i]) = key
      PROVE  Position(m, key) = i /\ i # 0 /\ Search(m, key) = Chain(m, key)[i].v
             /\ Search(m, key) \in W
  <2> DEFINE h == hash(key, m.size)
  <2>1. i \in DOMAIN m.data[h] /\ NodeKey(m.data[h][i]) = key
    BY <1>1, <1>2
  <2> HIDE DEF h
  <2> QED BY <1>1, <2>1, SearchFinds DEF h
<1>3. CASE \E i \in DOMAIN Chain(m, key) : NodeKey(Chain(m, key)[i]) = key
  BY <1>2, <1>3
<1>4. CASE \A i \in DOMAIN Chain(m, key) : NodeKey(Chain(m, key)[i]) # key
  BY <1>4, SearchMisses
<1> QED
  BY <1>3, <1>4

LEMMA SearchIs ==
  ASSUME NEW K, KeysFit(K), NEW W, NEW m, MapOK(m, K, W), NEW key \in K,
         NEW i \in DOMAIN m.data[hash(key, m.size)],
         NodeKey(m.data[hash(key, m.size)][i]) = key
  PROVE  Search(m, key) = m.data[hash(key, m.size)][i].v
BY SearchFinds, Chains

-----------------------------------------------------------------------------
(* A new map *)

LEMMA NewMapOK ==
  ASSUME NEW K, KeysFit(K), NEW W, NEW size \in Nat \ {0}
  PROVE  /\ MapOK(NewMap(size), K, W)
         /\ NewMap(size).size = size
         /\ \A key \in K : Search(NewMap(size), key) = NilValue
<1> DEFINE m == NewMap(size)
<1>1. m = [size |-> size, index |-> 0, data |-> [h \in 0 .. size - 1 |-> <<>>]]
  BY DEF NewMap
<1> HIDE DEF m
<1>2. m.size = size /\ m.index = 0 /\ m.data = [h \in 0 .. size - 1 |-> <<>>]
  BY <1>1
<1>3. m.data \in [0 .. m.size - 1 -> Seq(NodeSet(K, W))]
  BY <1>2
<1>4. \A h \in 0 .. m.size - 1 : DOMAIN m.data[h] = {}
  BY <1>2
<1>5. m \in [size : Nat \ {0}, index : Nat, data : [0 .. m.size - 1 -> Seq(NodeSet(K, W))]]
  BY <1>1, <1>2, <1>3
<1>6. MapOK(m, K, W)
  BY <1>4, <1>5 DEF MapOK
<1>7. ASSUME NEW key \in K PROVE Search(m, key) = NilValue
  <2>1. DOMAIN Chain(m, key) = {}
    BY <1>4, <1>6, Chains
  <2> QED BY <1>6, <2>1, SearchMisses
<1> QED
  BY <1>2, <1>6, <1>7 DEF m

-----------------------------------------------------------------------------
(* Changing one chain *)

(* r is m with another chain in bucket h. *)
ChainSet(r, m, h, c) ==
  /\ r.size = m.size
  /\ r.index \in Nat
  /\ r = [size |-> r.size, index |-> r.index, data |-> r.data]
  /\ r.data = [m.data EXCEPT ![h] = c]

(* A chain as MapOK wants it in bucket h. *)
ChainFor(c, h, size, K, W) ==
  /\ c \in Seq(NodeSet(K, W))
  /\ \A i \in 1 .. Len(c) : hash(NodeKey(c[i]), size) = h
  /\ \A i, j \in 1 .. Len(c) : NodeKey(c[i]) = NodeKey(c[j]) => i = j

LEMMA ChainSetOK ==
  ASSUME NEW K, KeysFit(K), NEW W, NEW m, MapOK(m, K, W),
         NEW h \in 0 .. m.size - 1, NEW c, ChainFor(c, h, m.size, K, W),
         NEW r, ChainSet(r, m, h, c)
  PROVE  /\ MapOK(r, K, W)
         /\ r.data[h] = c
         /\ \A key \in K : hash(key, m.size) # h => Search(r, key) = Search(m, key)
<1>0. /\ c \in Seq(NodeSet(K, W))
      /\ \A i \in 1 .. Len(c) : hash(NodeKey(c[i]), m.size) = h
      /\ \A i, j \in 1 .. Len(c) : NodeKey(c[i]) = NodeKey(c[j]) => i = j
  BY DEF ChainFor
<1>1. /\ m.size \in Nat \ {0}
      /\ m.data \in [0 .. m.size - 1 -> Seq(NodeSet(K, W))]
  BY DEF MapOK
<1>2. /\ r.size = m.size /\ r.index \in Nat
      /\ r = [size |-> r.size, index |-> r.index, data |-> r.data]
      /\ r.data = [m.data EXCEPT ![h] = c]
  BY DEF ChainSet
<1>3. r.data[h] = c /\ \A g \in 0 .. m.size - 1 : g # h => r.data[g] = m.data[g]
  BY <1>1, <1>2
<1>4. r.data \in [0 .. r.size - 1 -> Seq(NodeSet(K, W))]
  BY <1>0, <1>1, <1>2
<1>5. r \in [size : Nat \ {0}, index : Nat, data : [0 .. r.size - 1 -> Seq(NodeSet(K, W))]]
  BY <1>1, <1>2, <1>4
<1>6. ASSUME NEW g \in 0 .. r.size - 1, NEW i \in DOMAIN r.data[g], NEW j \in DOMAIN r.data[g]
      PROVE  /\ hash(NodeKey(r.data[g][i]), r.size) = g
             /\ NodeKey(r.data[g][i]) = NodeKey(r.data[g][j]) => i = j
  <2>1. CASE g = h
    <3>1. DOMAIN r.data[g] = 1 .. Len(c)
      BY <2>1, <1>0, <1>3
    <3> QED BY <2>1, <3>1, <1>0, <1>2, <1>3
  <2>2. CASE g # h
    <3>1. r.data[g] = m.data[g] /\ g \in 0 .. m.size - 1 /\ r.size = m.size
      BY <2>2, <1>2, <1>3
    <3> QED BY <3>1 DEF MapOK
  <2> QED BY <2>1, <2>2
<1>7. MapOK(r, K, W)
  BY <1>5, <1>6 DEF MapOK
<1>8. ASSUME NEW key \in K, hash(key, m.size) # h PROVE Search(r, key) = Search(m, key)
  <2>1. Chain(r, key) = Chain(m, key)
    BY <1>2, <1>3, <1>8, Chains DEF Chain
  <2> QED BY <2>1 DEF Search, Position
<1> QED
  BY <1>3, <1>7, <1>8

(* Node i of bucket h takes another value. *)
NodeWritten(r, m, h, i, w) ==
  ChainSet(r, m, h, [m.data[h] EXCEPT ![i] = [m.data[h][i] EXCEPT !.v = w]])

LEMMA WriteNode ==
  ASSUME NEW K, KeysFit(K), NEW W, NEW m, MapOK(m, K, W),
         NEW h \in 0 .. m.size - 1, NEW i \in DOMAIN m.data[h], NEW w \in W,
         NEW r, NodeWritten(r, m, h, i, w)
  PROVE  /\ MapOK(r, K, W)
         /\ Search(r, NodeKey(m.data[h][i])) = w
         /\ \A key \in K : key # NodeKey(m.data[h][i]) => Search(r, key) = Search(m, key)
<1> DEFINE chain == m.data[h]
           n == [chain[i] EXCEPT !.v = w]
           c == [chain EXCEPT ![i] = n]
<1>1. chain \in Seq(NodeSet(K, W)) /\ i \in 1 .. Len(chain)
  BY Chains
<1>2. chain[i] \in NodeSet(K, W)
  BY <1>1
<1>3. n \in NodeSet(K, W) /\ NodeKey(n) = NodeKey(chain[i]) /\ n.v = w
  <2> HIDE DEF chain
  <2> QED BY <1>2, SetValue
<1>4. /\ \A g, j \in DOMAIN chain : NodeKey(chain[g]) = NodeKey(chain[j]) => g = j
      /\ \A j \in DOMAIN chain : hash(NodeKey(chain[j]), m.size) = h
  BY DEF MapOK
<1>5. ChainSet(r, m, h, c)
  BY DEF NodeWritten
<1> HIDE DEF n
<1>6. c \in Seq(NodeSet(K, W)) /\ Len(c) = Len(chain)
  <2> HIDE DEF chain
  <2> QED BY <1>1, <1>3
<1>7. c[i] = n /\ \A j \in 1 .. Len(chain) : j # i => c[j] = chain[j]
  <2> HIDE DEF chain
  <2> QED BY <1>1
<1> HIDE DEF c, chain
<1>8. DOMAIN chain = 1 .. Len(chain)
  BY <1>1
<1>9. \A j \in 1 .. Len(c) : NodeKey(c[j]) = NodeKey(chain[j])
  BY <1>3, <1>6, <1>7
<1>10. /\ MapOK(r, K, W)
       /\ r.data[h] = c
       /\ \A key \in K : hash(key, m.size) # h => Search(r, key) = Search(m, key)
  <2>1. \A j \in 1 .. Len(c) : hash(NodeKey(c[j]), m.size) = h
    BY <1>4, <1>6, <1>8, <1>9
  <2>2. \A g, j \in 1 .. Len(c) : NodeKey(c[g]) = NodeKey(c[j]) => g = j
    BY <1>4, <1>6, <1>8, <1>9
  <2>3. ChainFor(c, h, m.size, K, W)
    BY <2>1, <2>2, <1>6 DEF ChainFor
  <2> QED BY <2>3, <1>5, ChainSetOK
<1>11. r.size = m.size
  BY <1>5 DEF ChainSet
<1>12. Search(r, NodeKey(chain[i])) = w
  <2>1. i \in DOMAIN r.data[h] /\ NodeKey(r.data[h][i]) = NodeKey(chain[i])
    BY <1>1, <1>3, <1>6, <1>7, <1>10
  <2> QED BY <2>1, <1>3, <1>7, <1>10, <1>11, SearchFinds
<1>13. ASSUME NEW key \in K, key # NodeKey(chain[i]) PROVE Search(r, key) = Search(m, key)
  <2>1. CASE hash(key, m.size) # h
    BY <2>1, <1>10
  <2>2. CASE hash(key, m.size) = h
    <3>1. Chain(m, key) = chain /\ Chain(r, key) = c
      BY <2>2, <1>10, <1>11 DEF Chain, chain
    <3>2. CASE \E j \in 1 .. Len(chain) : NodeKey(chain[j]) = key
      <4>1. PICK j \in 1 .. Len(chain) : NodeKey(chain[j]) = key
        BY <3>2
      <4>2. j # i
        BY <4>1, <1>13
      <4>3. j \in DOMAIN m.data[h] /\ NodeKey(m.data[h][j]) = key /\ h \in 0 .. m.size - 1
        BY <4>1, <1>8 DEF chain
      <4>4. Search(m, key) = m.data[h][j].v
        BY <4>3, SearchFinds
      <4>5. j \in DOMAIN r.data[h] /\ r.data[h][j] = chain[j] /\ h \in 0 .. r.size - 1
        BY <4>1, <4>2, <1>6, <1>7, <1>10, <1>11
      <4>6. Search(r, key) = r.data[h][j].v
        BY <4>1, <4>5, <1>10, SearchFinds
      <4> QED BY <4>4, <4>5, <4>6 DEF chain
    <3>3. CASE \A j \in 1 .. Len(chain) : NodeKey(chain[j]) # key
      <4>1. Search(m, key) = NilValue
        BY <3>1, <3>3, <1>8, SearchMisses
      <4>2. \A j \in DOMAIN c : NodeKey(c[j]) # key
        BY <3>3, <1>6, <1>9
      <4>3. Search(r, key) = NilValue
        BY <3>1, <4>2, <1>10, SearchMisses
      <4> QED BY <4>1, <4>3
    <3> QED BY <3>2, <3>3
  <2> QED BY <2>1, <2>2
<1> QED
  BY <1>10, <1>12, <1>13 DEF chain

(* A node with a new key joins the chain of its key, at either end. *)
NodeAdded(r, m, n) ==
  \E c \in {Append(Chain(m, NodeKey(n)), n), <<n>> \o Chain(m, NodeKey(n))} :
    ChainSet(r, m, hash(NodeKey(n), m.size), c)

LEMMA AddNode ==
  ASSUME NEW K, KeysFit(K), NEW W, NEW m, MapOK(m, K, W),
         NEW n \in NodeSet(K, W), Position(m, NodeKey(n)) = 0, NEW r, NodeAdded(r, m, n)
  PROVE  /\ MapOK(r, K, W)
         /\ Search(r, NodeKey(n)) = n.v
         /\ \A key \in K : key # NodeKey(n) => Search(r, key) = Search(m, key)
<1>0. PICK c \in {Append(Chain(m, NodeKey(n)), n), <<n>> \o Chain(m, NodeKey(n))} :
        ChainSet(r, m, hash(NodeKey(n), m.size), c)
  BY DEF NodeAdded
<1> DEFINE new == NodeKey(n)
           chain == Chain(m, new)
           h == hash(new, m.size)
           l == Len(chain)
           at == IF c = Append(chain, n) THEN l + 1 ELSE 1
           off == IF c = Append(chain, n) THEN 0 ELSE 1
<1>1. new \in K
  BY KeyOfNode
<1>2. h \in 0 .. m.size - 1 /\ chain \in Seq(NodeSet(K, W)) /\ chain = m.data[h]
  BY <1>1, Chains
<1>3. \A j \in DOMAIN chain : NodeKey(chain[j]) # new
  BY <1>1, PositionIs
<1> HIDE DEF chain, h
<1>4. l \in Nat /\ DOMAIN chain = 1 .. l
  BY <1>2
<1>5. /\ c \in Seq(NodeSet(K, W))
      /\ Len(c) = l + 1
      /\ c[at] = n
      /\ \A j \in 1 .. l : c[j + off] = chain[j]
  <2>1. CASE c = Append(chain, n)
    BY <2>1, <1>2, <1>4
  <2>2. CASE c # Append(chain, n)
    <3>1. c = <<n>> \o chain
      BY <2>2, <1>0 DEF chain
    <3>2. <<n>> \in Seq(NodeSet(K, W)) /\ Len(<<n>>) = 1 /\ <<n>>[1] = n
      OBVIOUS
    <3>3. c \in Seq(NodeSet(K, W)) /\ Len(c) = l + 1
      BY <3>1, <3>2, <1>2, <1>4
    <3>4. c[1] = n
      BY <3>1, <3>2, <1>2, <1>4
    <3>5. \A j \in 1 .. l : c[j + 1] = chain[j]
      BY <3>1, <3>2, <1>2, <1>4
    <3> QED BY <2>2, <3>3, <3>4, <3>5
  <2> QED BY <2>1, <2>2
<1>6. at \in 1 .. l + 1 /\ \A j \in 1 .. l : j + off \in 1 .. l + 1
  BY <1>4
<1>7. \A j \in 1 .. l + 1 : j # at => j - off \in 1 .. l /\ c[j] = chain[j - off]
  <2>1. ASSUME NEW j \in 1 .. l + 1, j # at PROVE j - off \in 1 .. l /\ (j - off) + off = j
    BY <2>1, <1>4
  <2> QED BY <2>1, <1>5
<1>8. off \in Int
  OBVIOUS
<1> HIDE DEF at, off, l
<1>9. /\ \A i, j \in DOMAIN chain : NodeKey(chain[i]) = NodeKey(chain[j]) => i = j
      /\ \A j \in DOMAIN chain : hash(NodeKey(chain[j]), m.size) = h
  BY <1>2 DEF MapOK
<1>10. \A j \in 1 .. Len(c) : hash(NodeKey(c[j]), m.size) = h
  BY <1>4, <1>5, <1>7, <1>9 DEF h
<1>11. ASSUME NEW i \in 1 .. Len(c), NEW j \in 1 .. Len(c), NodeKey(c[i]) = NodeKey(c[j])
       PROVE  i = j
  <2>1. CASE i = at \/ j = at
    BY <2>1, <1>3, <1>4, <1>5, <1>7, <1>11
  <2>2. CASE i # at /\ j # at
    <3>1. i - off = j - off
      BY <2>2, <1>4, <1>5, <1>7, <1>9, <1>11
    <3> QED BY <3>1, <1>8
  <2> QED BY <2>1, <2>2
<1>12. /\ MapOK(r, K, W)
       /\ r.data[h] = c
       /\ \A key \in K : hash(key, m.size) # h => Search(r, key) = Search(m, key)
  <2>1. ChainSet(r, m, h, c)
    BY <1>0 DEF h
  <2>2. ChainFor(c, h, m.size, K, W)
    BY <1>5, <1>10, <1>11 DEF ChainFor
  <2>3. h \in 0 .. m.size - 1
    BY <1>2
  <2> HIDE DEF new
  <2> QED BY <2>1, <2>2, <2>3, ChainSetOK
<1>13. r.size = m.size
  BY <1>0 DEF ChainSet
<1>14. DOMAIN r.data[h] = 1 .. l + 1
  BY <1>5, <1>12
<1>15. Search(r, new) = n.v
  <2>1. at \in DOMAIN r.data[h] /\ NodeKey(r.data[h][at]) = new
    BY <1>5, <1>6, <1>12, <1>14
  <2> QED BY <2>1, <1>2, <1>5, <1>12, <1>13, SearchFinds, SMTT(30)
<1>16. ASSUME NEW key \in K, key # new PROVE Search(r, key) = Search(m, key)
  <2>1. CASE hash(key, m.size) # h
    BY <2>1, <1>12
  <2>2. CASE hash(key, m.size) = h
    <3>1. Chain(m, key) = chain /\ Chain(r, key) = c
      BY <2>2, <1>2, <1>12, <1>13 DEF Chain
    <3>2. CASE \E j \in 1 .. l : NodeKey(chain[j]) = key
      <4>1. PICK j \in 1 .. l : NodeKey(chain[j]) = key
        BY <3>2
      <4>2. Search(m, key) = chain[j].v
        BY <4>1, <1>2, <1>4, SearchFinds
      <4>3. j + off \in DOMAIN r.data[h] /\ r.data[h][j + off] = chain[j]
        BY <1>5, <1>6, <1>12, <1>14
      <4>4. h \in 0 .. r.size - 1
        BY <1>2, <1>13
      <4>5. Search(r, key) = r.data[h][j + off].v
        BY <4>1, <4>3, <4>4, <1>12, SearchFinds
      <4> QED BY <4>2, <4>3, <4>5
    <3>3. CASE \A j \in 1 .. l : NodeKey(chain[j]) # key
      <4>1. Search(m, key) = NilValue
        BY <3>1, <3>3, <1>4, SearchMisses
      <4>2. \A j \in DOMAIN c : NodeKey(c[j]) # key
        BY <3>3, <1>5, <1>7, <1>16
      <4>3. Search(r, key) = NilValue
        BY <3>1, <4>2, <1>12, SearchMisses
      <4> QED BY <4>1, <4>3
    <3> QED BY <3>2, <3>3
  <2> QED BY <2>1, <2>2
<1> QED
  BY <1>12, <1>15, <1>16

-----------------------------------------------------------------------------
(* The operations, seen through Search *)

(* What a key that held w holds when val has been stored there. *)
Written(w, val) ==
  IF w = NilValue THEN [ref |-> 1, type |-> val.type, v |-> val.v]
                  ELSE [ref |-> w.ref, type |-> w.type, v |-> val.v]

LEMMA MapRecord ==
  ASSUME NEW K, NEW W, NEW m, MapOK(m, K, W)
  PROVE  /\ m = [size |-> m.size, index |-> m.index, data |-> m.data]
         /\ m.index \in Nat
         /\ m.size \in Nat \ {0}
         /\ m.data \in [0 .. m.size - 1 -> Seq(NodeSet(K, W))]
BY DEF MapOK

(* _insert_value stores under its key and disturbs no other. *)
LEMMA InsertValueOK ==
  ASSUME NEW K, KeysFit(K), NEW W, NilValue \notin W,
         NEW m, MapOK(m, K, W), NEW key \in K, NEW val,
         val = [ref |-> val.ref, type |-> val.type, v |-> val.v],
         \A w \in W : w = [ref |-> w.ref, type |-> w.type, v |-> w.v],
         \A w \in W \cup {NilValue} : Written(w, val) \in W
  PROVE  /\ MapOK(InsertValue(m, key, val), K, W)
         /\ InsertValue(m, key, val).size = m.size
         /\ Search(InsertValue(m, key, val), key) = Written(Search(m, key), val)
         /\ \A other \in K : other # key =>
              Search(InsertValue(m, key, val), other) = Search(m, other)
<1> DEFINE r == InsertValue(m, key, val)
           h == hash(key, m.size)
           i == Position(m, key)
           chain == m.data[h]
<1>1. /\ m = [size |-> m.size, index |-> m.index, data |-> m.data]
      /\ m.index \in Nat
      /\ m.size \in Nat \ {0}
      /\ m.data \in [0 .. m.size - 1 -> Seq(NodeSet(K, W))]
      /\ h \in 0 .. m.size - 1
      /\ Chain(m, key) = chain
      /\ chain \in Seq(NodeSet(K, W))
  <2>1. h \in 0 .. m.size - 1 /\ Chain(m, key) = chain
    BY Chains
  <2> HIDE DEF h
  <2> QED BY <2>1, MapRecord
<1>2. CASE i # 0
  <2>1. /\ i \in DOMAIN chain
        /\ NodeKey(chain[i]) = key
        /\ Search(m, key) = chain[i].v
        /\ chain[i].v \in W
    <3> HIDE DEF h, i
    <3>1. \/ /\ i \in DOMAIN Chain(m, key)
             /\ NodeKey(Chain(m, key)[i]) = key
             /\ Search(m, key) = Chain(m, key)[i].v
             /\ Search(m, key) \in W
          \/ i = 0
      BY PositionIs DEF i
    <3> QED BY <3>1, <1>1, <1>2
  <2> DEFINE w == [chain[i].v EXCEPT !.v = val.v]
             c == [chain EXCEPT ![i] = [chain[i] EXCEPT !.v = w]]
  <2>2. r = [m EXCEPT !.data = [m.data EXCEPT ![h] = c]]
    BY <1>2, Zenon DEF InsertValue
  <2>3. w = [ref |-> chain[i].v.ref, type |-> chain[i].v.type, v |-> val.v]
    BY <2>1
  <2>4. w \in W
    <3>1. chain[i].v # NilValue
      BY <2>1
    <3>2. w = Written(chain[i].v, val)
      BY <2>3, <3>1 DEF Written
    <3> HIDE DEF w
    <3> QED BY <2>1, <3>2
  <2>5. ChainSet(r, m, h, c)
    <3> HIDE DEF c, h
    <3> QED BY <1>1, <2>2 DEF ChainSet
  <2>6. /\ MapOK(r, K, W)
        /\ Search(r, NodeKey(chain[i])) = w
        /\ \A other \in K : other # NodeKey(chain[i]) => Search(r, other) = Search(m, other)
    <3>1. NodeWritten(r, m, h, i, w)
      BY <2>5 DEF NodeWritten
    <3>2. h \in 0 .. m.size - 1 /\ i \in DOMAIN m.data[h]
      BY <1>1, <2>1
    <3> HIDE DEF r, h, i, w
    <3> QED BY <2>4, <3>1, <3>2, WriteNode
  <2>7. w = Written(Search(m, key), val)
    BY <2>1, <2>3 DEF Written
  <2>8. r.size = m.size
    BY <2>5 DEF ChainSet
  <2> HIDE DEF r
  <2>9. /\ MapOK(r, K, W) /\ r.size = m.size
        /\ Search(r, key) = Written(Search(m, key), val)
        /\ \A other \in K : other # key => Search(r, other) = Search(m, other)
    BY <2>1, <2>6, <2>7, <2>8
  <2> QED BY <2>9 DEF r
<1>3. CASE i = 0
  <2> DEFINE w == [val EXCEPT !.ref = 1]
             n == new_node(key, w)
             c == Append(chain, n)
  <2>1. w = [ref |-> 1, type |-> val.type, v |-> val.v]
    OBVIOUS
  <2>2. w \in W
    <3>1. w = Written(NilValue, val)
      BY <2>1 DEF Written
    <3> HIDE DEF w
    <3> QED BY <3>1
  <2>3. r = [[m EXCEPT !.data = [m.data EXCEPT ![h] = c]] EXCEPT !.index = m.index + 1]
    BY <1>1, <1>3 DEF InsertValue
  <2>4. ChainSet(r, m, h, c)
    <3> DEFINE q == [m EXCEPT !.data = [m.data EXCEPT ![h] = c]]
    <3> HIDE DEF c, h, r
    <3>1. q = [size |-> m.size, index |-> m.index, data |-> [m.data EXCEPT ![h] = c]]
      BY <1>1
    <3>2. r = [q EXCEPT !.index = m.index + 1]
      BY <2>3
    <3> HIDE DEF q
    <3>3. r = [size |-> m.size, index |-> m.index + 1, data |-> [m.data EXCEPT ![h] = c]]
      BY <3>1, <3>2
    <3>4. m.index + 1 \in Nat
      BY <1>1
    <3> QED BY <3>3, <3>4 DEF ChainSet
  <2>5. n \in NodeSet(K, W) /\ NodeKey(n) = key /\ n.v = w
    BY <2>2, NewNode
  <2>6. Search(m, key) = NilValue
    BY <1>3, PositionIs
  <2>7. /\ MapOK(r, K, W)
        /\ Search(r, NodeKey(n)) = n.v
        /\ \A other \in K : other # NodeKey(n) => Search(r, other) = Search(m, other)
    <3>1. Position(m, NodeKey(n)) = 0
      BY <1>3, <2>5
    <3>2. c = Append(Chain(m, NodeKey(n)), n) /\ ChainSet(r, m, hash(NodeKey(n), m.size), c)
      BY <1>1, <2>4, <2>5
    <3> HIDE DEF r, h, i, n, c
    <3>3. NodeAdded(r, m, n)
      BY <3>2 DEF NodeAdded
    <3> QED BY <2>5, <3>1, <3>3, AddNode
  <2>8. w = Written(Search(m, key), val)
    BY <2>1, <2>6 DEF Written
  <2>9. r.size = m.size
    BY <2>4 DEF ChainSet
  <2> HIDE DEF r, n
  <2>10. /\ MapOK(r, K, W) /\ r.size = m.size
         /\ Search(r, key) = Written(Search(m, key), val)
         /\ \A other \in K : other # key => Search(r, other) = Search(m, other)
    BY <2>5, <2>7, <2>8, <2>9
  <2> QED BY <2>10 DEF r
<1> QED
  BY <1>2, <1>3

(* A node is linked in front of the chain of its key. *)
LEMMA LinkFirstOK ==
  ASSUME NEW K, KeysFit(K), NEW W, NEW m, MapOK(m, K, W),
         NEW n \in NodeSet(K, W), Search(m, NodeKey(n)) = NilValue, NilValue \notin W
  PROVE  /\ MapOK(LinkFirst(m, n), K, W)
         /\ LinkFirst(m, n).size = m.size
         /\ Search(LinkFirst(m, n), NodeKey(n)) = n.v
         /\ \A key \in K : key # NodeKey(n) =>
              Search(LinkFirst(m, n), key) = Search(m, key)
<1> DEFINE key == NodeKey(n)
           x == new_node(key, n.v)
           h == hash(key, m.size)
           r == LinkFirst(m, n)
           c == <<x>> \o m.data[h]
<1>1. key \in K /\ n.v \in W
  BY KeyOfNode
<1>2. x \in NodeSet(K, W) /\ NodeKey(x) = key /\ x.v = n.v
  <2> HIDE DEF key
  <2> QED BY <1>1, NewNode
<1>3. /\ m = [size |-> m.size, index |-> m.index, data |-> m.data]
      /\ m.index \in Nat
      /\ m.size \in Nat \ {0}
      /\ m.data \in [0 .. m.size - 1 -> Seq(NodeSet(K, W))]
      /\ h \in 0 .. m.size - 1
      /\ Chain(m, key) = m.data[h]
  <2> HIDE DEF key
  <2> QED BY <1>1, MapRecord, Chains
<1>4. r = [m EXCEPT !.data = [m.data EXCEPT ![h] = c]]
  BY Zenon DEF LinkFirst
<1>5. Position(m, key) = 0
  <2> HIDE DEF key
  <2> QED BY <1>1, PositionIs DEF key
<1> HIDE DEF h, x, key
<1>6. ChainSet(r, m, h, c)
  <2> HIDE DEF c
  <2> QED BY <1>3, <1>4 DEF ChainSet
<1>7. Position(m, NodeKey(x)) = 0 /\ NodeAdded(r, m, x)
  <2>1. c = <<x>> \o Chain(m, NodeKey(x)) /\ ChainSet(r, m, hash(NodeKey(x), m.size), c)
    BY <1>2, <1>3, <1>6 DEF h
  <2> HIDE DEF c, r
  <2> QED BY <2>1, <1>2, <1>5 DEF NodeAdded
<1>8. r.size = m.size
  BY <1>6 DEF ChainSet
<1> HIDE DEF r, c
<1>9. /\ MapOK(r, K, W)
      /\ Search(r, NodeKey(x)) = x.v
      /\ \A other \in K : other # NodeKey(x) => Search(r, other) = Search(m, other)
  BY <1>2, <1>7, AddNode
<1> QED
  BY <1>2, <1>8, <1>9 DEF r, key

(* The bucket loops visit the node of every key that has one, once. *)
NodesAgree(m, K, W) ==
  /\ Nodes(m) \in Seq(NodeSet(K, W))
  /\ \A i \in 1 .. Len(Nodes(m)) :
       /\ NodeKey(Nodes(m)[i]) \in K
       /\ Nodes(m)[i].v \in W
       /\ Search(m, NodeKey(Nodes(m)[i])) = Nodes(m)[i].v
  /\ \A i, j \in 1 .. Len(Nodes(m)) : NodeKey(Nodes(m)[i]) = NodeKey(Nodes(m)[j]) => i = j
  /\ \A key \in K : \/ Search(m, key) = NilValue
                     \/ \E i \in 1 .. Len(Nodes(m)) : NodeKey(Nodes(m)[i]) = key

LEMMA NodesOK ==
  ASSUME NEW K, KeysFit(K), NEW W, NEW m, MapOK(m, K, W)
  PROVE  NodesAgree(m, K, W)
<1> DEFINE seqs == [i \in 1 .. m.size |-> m.data[i - 1]]
           flat == Nodes(m)
           N == NodeSet(K, W)
<1>1. m.size \in Nat \ {0} /\ \A h \in 0 .. m.size - 1 : m.data[h] \in Seq(N)
  BY Chains
<1>2. seqs \in Seq(Seq(N)) /\ Len(seqs) = m.size
  <2>1. \A i \in 1 .. m.size : i - 1 \in 0 .. m.size - 1
    BY <1>1
  <2>2. \A i \in 1 .. m.size : m.data[i - 1] \in Seq(N)
    BY <1>1, <2>1
  <2> HIDE DEF N
  <2> QED BY <1>1, <2>2
<1>3. \A h \in 0 .. m.size - 1 : h + 1 \in 1 .. m.size /\ seqs[h + 1] = m.data[h]
  BY <1>1
<1>4. flat = FlattenSeq(seqs)
  BY DEF Nodes
<1> HIDE DEF seqs, flat, N
<1>5. flat \in Seq(N)
  BY <1>2, <1>4, FlattenPlacing
<1>6. PICK pl : IsPlacing(pl, flat, seqs, m.size)
  BY <1>2, <1>4, FlattenPlacing
<1> DEFINE bucket(p) == pl[p][1] - 1
           place(p) == pl[p][2]
<1>7. ASSUME NEW p \in 1 .. Len(flat)
      PROVE  /\ bucket(p) \in 0 .. m.size - 1
             /\ place(p) \in DOMAIN m.data[bucket(p)]
             /\ pl[p] = <<bucket(p) + 1, place(p)>>
             /\ flat[p] = m.data[bucket(p)][place(p)]
  <2> DEFINE a == pl[p]
  <2>1. a \in PlacesUpTo(seqs, m.size) /\ flat[p] = seqs[a[1]][a[2]]
    BY <1>6 DEF IsPlacing
  <2>2. a[1] \in 1 .. m.size /\ a[2] \in 1 .. Len(seqs[a[1]]) /\ a = <<a[1], a[2]>>
    BY <2>1 DEF PlacesUpTo
  <2> HIDE DEF a
  <2>3. a[1] - 1 \in 0 .. m.size - 1 /\ (a[1] - 1) + 1 = a[1]
    BY <1>1, <2>2
  <2>4. seqs[a[1]] = m.data[a[1] - 1]
    BY <1>3, <2>3
  <2>5. a[2] \in DOMAIN m.data[a[1] - 1]
    BY <1>1, <2>2, <2>3, <2>4
  <2> QED BY <2>1, <2>2, <2>3, <2>4, <2>5 DEF a
<1> HIDE DEF bucket, place
<1>8. ASSUME NEW p \in 1 .. Len(flat)
      PROVE  /\ NodeKey(flat[p]) \in K
             /\ flat[p].v \in W
             /\ Search(m, NodeKey(flat[p])) = flat[p].v
             /\ hash(NodeKey(flat[p]), m.size) = bucket(p)
  <2>1. bucket(p) \in 0 .. m.size - 1 /\ place(p) \in DOMAIN m.data[bucket(p)]
    BY <1>7
  <2>2. flat[p] = m.data[bucket(p)][place(p)]
    BY <1>7
  <2> QED BY <2>1, <2>2, SearchFinds
<1>9. ASSUME NEW p \in 1 .. Len(flat), NEW q \in 1 .. Len(flat),
             NodeKey(flat[p]) = NodeKey(flat[q])
      PROVE  p = q
  <2>1. bucket(p) = bucket(q)
    BY <1>8, <1>9
  <2>2. place(p) = place(q)
    <3> DEFINE c == m.data[bucket(p)]
    <3>1. bucket(p) \in 0 .. m.size - 1 /\ place(p) \in DOMAIN c /\ place(q) \in DOMAIN c
      BY <2>1, <1>7
    <3>2. NodeKey(c[place(p)]) = NodeKey(c[place(q)])
      BY <2>1, <1>7, <1>9
    <3> QED BY <3>1, <3>2, Zenon DEF MapOK
  <2>3. pl[p] = pl[q]
    BY <2>1, <2>2, <1>7
  <2> QED BY <2>3, <1>6 DEF IsPlacing
<1>10. ASSUME NEW key \in K, Search(m, key) # NilValue
       PROVE  \E p \in 1 .. Len(flat) : NodeKey(flat[p]) = key
  <2> DEFINE h == hash(key, m.size)
             i == Position(m, key)
  <2>1. h \in 0 .. m.size - 1 /\ Chain(m, key) = m.data[h]
    BY Chains
  <2>2. i \in DOMAIN m.data[h] /\ NodeKey(m.data[h][i]) = key
    BY <2>1, <1>10, PositionIs
  <2> HIDE DEF h, i
  <2> DEFINE a == <<h + 1, i>>
  <2>3. h + 1 \in 1 .. m.size /\ seqs[h + 1] = m.data[h] /\ m.data[h] \in Seq(N)
    BY <2>1, <1>1, <1>3
  <2>4. i \in 1 .. Len(m.data[h]) /\ i \in Nat
    BY <2>2, <2>3
  <2>5. a \in PlacesUpTo(seqs, m.size)
    BY <2>3, <2>4 DEF PlacesUpTo
  <2>6. PICK p \in 1 .. Len(flat) : pl[p] = a
    <3> HIDE DEF a
    <3> QED BY <2>5, <1>6 DEF IsPlacing
  <2>7. flat[p] = seqs[pl[p][1]][pl[p][2]]
    BY <1>6 DEF IsPlacing
  <2>8. pl[p][1] = h + 1 /\ pl[p][2] = i
    BY <2>6
  <2>9. flat[p] = m.data[h][i]
    BY <2>3, <2>7, <2>8
  <2> QED BY <2>2, <2>9
<1>11. /\ flat \in Seq(N)
       /\ \A p \in 1 .. Len(flat) :
            /\ NodeKey(flat[p]) \in K
            /\ flat[p].v \in W
            /\ Search(m, NodeKey(flat[p])) = flat[p].v
       /\ \A p, q \in 1 .. Len(flat) : NodeKey(flat[p]) = NodeKey(flat[q]) => p = q
       /\ \A key \in K : \/ Search(m, key) = NilValue
                          \/ \E p \in 1 .. Len(flat) : NodeKey(flat[p]) = key
  BY <1>5, <1>8, <1>9, <1>10
<1> QED
  BY <1>11 DEF NodesAgree, flat, N

-----------------------------------------------------------------------------
(* _copy_map *)

(* Linking nodes leaves the shape of a map, whatever their keys are. *)
LEMMA LinkFirstShape ==
  ASSUME NEW K, KeysFit(K), NEW W, NEW size \in Nat \ {0}, NEW index,
         NEW m \in [size : {size}, index : {index}, data : [0 .. size - 1 -> Seq(NodeSet(K, W))]],
         NEW n \in NodeSet(K, W)
  PROVE  LinkFirst(m, n) \in
           [size : {size}, index : {index}, data : [0 .. size - 1 -> Seq(NodeSet(K, W))]]
<1> DEFINE key == NodeKey(n)
           x == new_node(key, n.v)
           h == hash(key, m.size)
           N == NodeSet(K, W)
           c == <<x>> \o m.data[h]
<1>1. key \in K /\ n.v \in W
  BY KeyOfNode
<1>2. x \in N
  <2> HIDE DEF key
  <2> QED BY <1>1, NewNode
<1>3. m.size = size /\ m.index = index /\ m.data \in [0 .. size - 1 -> Seq(N)]
      /\ m = [size |-> size, index |-> index, data |-> m.data]
  OBVIOUS
<1>4. h \in 0 .. size - 1
  <2> HIDE DEF key
  <2>1. IsKey(key)
    BY <1>1 DEF KeysFit
  <2> QED BY <1>3, <2>1, HashRange
<1>5. LinkFirst(m, n) = [m EXCEPT !.data = [m.data EXCEPT ![h] = c]]
  BY Zenon DEF LinkFirst
<1> HIDE DEF h, x, key, N
<1>6. c \in Seq(N)
  <2>1. m.data[h] \in Seq(N) /\ <<x>> \in Seq(N)
    BY <1>2, <1>3, <1>4
  <2> QED BY <2>1
<1> HIDE DEF c
<1>7. [m.data EXCEPT ![h] = c] \in [0 .. size - 1 -> Seq(N)]
  BY <1>3, <1>4, <1>6
<1>8. LinkFirst(m, n) \in [size : {size}, index : {index}, data : [0 .. size - 1 -> Seq(N)]]
  BY <1>3, <1>5, <1>7
<1> QED
  BY <1>8 DEF N

LEMMA LinkedDef ==
  ASSUME NEW K, KeysFit(K), NEW W, NEW m, MapOK(m, K, W), NEW nodes \in Seq(NodeSet(K, W))
  PROVE  /\ Linked(m, nodes)[0] = m
         /\ \A i \in 1 .. Len(nodes) :
              Linked(m, nodes)[i] = LinkFirst(Linked(m, nodes)[i - 1], nodes[i])
<1> DEFINE l == Len(nodes)
           N == NodeSet(K, W)
           S == [size : {m.size}, index : {m.index}, data : [0 .. m.size - 1 -> Seq(N)]]
           step == [a \in S \X (1 .. l) |-> LinkFirst(a[1], nodes[a[2]])]
           Eqn(f) == f = [i \in 0 .. l |-> IF i = 0 THEN m ELSE LinkFirst(f[i - 1], nodes[i])]
<1>1. m \in S /\ m.size \in Nat \ {0}
  BY MapRecord
<1>2. l \in Nat /\ \A i \in 1 .. l : nodes[i] \in N
  <2> HIDE DEF N
  <2>1. nodes \in Seq(N)
    BY DEF N
  <2> QED BY <2>1
<1>3. \A x \in S, i \in 1 .. l : LinkFirst(x, nodes[i]) \in S
  <2> SUFFICES ASSUME NEW x \in S, NEW i \in 1 .. l PROVE LinkFirst(x, nodes[i]) \in S
    OBVIOUS
  <2> DEFINE n == nodes[i]
  <2>1. n \in NodeSet(K, W)
    BY <1>2
  <2> HIDE DEF n
  <2>2. LinkFirst(x, n) \in S
    BY <1>1, <2>1, LinkFirstShape
  <2> QED BY <2>2 DEF n
<1> HIDE DEF S, N, l
<1>4. step \in [S \X (1 .. l) -> S]
  BY <1>3
<1>5. PICK g : Iterates(g, l, S, m, step)
  <2> HIDE DEF step
  <2> QED BY <1>1, <1>2, <1>4, FiniteRecursion
<1>6. ASSUME NEW i \in 1 .. l PROVE g[i] = LinkFirst(g[i - 1], nodes[i])
  <2>1. i - 1 \in 0 .. l
    BY <1>2
  <2>2. <<g[i - 1], i>> \in S \X (1 .. l)
    BY <1>5, <2>1 DEF Iterates
  <2>3. step[<<g[i - 1], i>>] = LinkFirst(g[i - 1], nodes[i])
    BY <2>2
  <2> HIDE DEF step
  <2> QED BY <1>5, <2>3 DEF Iterates
<1>7. Eqn(g)
  <2>1. g = [i \in 0 .. l |-> g[i]] /\ g[0] = m
    BY <1>5 DEF Iterates
  <2>2. \A i \in 0 .. l : g[i] = IF i = 0 THEN m ELSE LinkFirst(g[i - 1], nodes[i])
    <3>1. \A i \in 0 .. l : i = 0 \/ i \in 1 .. l
      BY <1>2
    <3> QED BY <2>1, <3>1, <1>6
  <2> QED BY <2>1, <2>2
<1>8. Eqn(Linked(m, nodes))
  <2>1. Linked(m, nodes) = CHOOSE f : Eqn(f)
    BY DEF Linked, l
  <2> HIDE DEF Eqn
  <2> QED BY <1>7, <2>1
<1> DEFINE L == Linked(m, nodes)
<1> HIDE DEF L
<1>9. L = [i \in 0 .. l |-> IF i = 0 THEN m ELSE LinkFirst(L[i - 1], nodes[i])]
  BY <1>8 DEF L
<1>10. L[0] = m /\ \A i \in 1 .. l : L[i] = LinkFirst(L[i - 1], nodes[i])
  <2>1. 0 \in 0 .. l /\ \A i \in 1 .. l : i \in 0 .. l /\ i # 0
    BY <1>2
  <2> QED BY <1>9, <2>1
<1> QED
  BY <1>10 DEF L, l

(* x is m with the values of the first i nodes. *)
LinkedAgrees(x, m, nodes, i, K, W) ==
  /\ MapOK(x, K, W)
  /\ x.size = m.size
  /\ \A j \in 1 .. i : Search(x, NodeKey(nodes[j])) = nodes[j].v
  /\ \A key \in K : (\A j \in 1 .. i : NodeKey(nodes[j]) # key) => Search(x, key) = NilValue

(* _copy_map finds in the copy what is in the map. *)
LEMMA CopyMapOK ==
  ASSUME NEW K, KeysFit(K), NEW W, NilValue \notin W, NEW cm, MapOK(cm, K, W),
         NEW size \in Nat \ {0}
  PROVE  /\ MapOK(CopyMap(NewMap(size), cm), K, W)
         /\ CopyMap(NewMap(size), cm).size = size
         /\ \A key \in K : Search(CopyMap(NewMap(size), cm), key) = Search(cm, key)
<1> DEFINE m == NewMap(size)
           nodes == Nodes(cm)
           l == Len(nodes)
           L == Linked(m, nodes)
           T == {i \in 0 .. l : LinkedAgrees(L[i], m, nodes, i, K, W)}
<1>1. MapOK(m, K, W) /\ m.size = size /\ \A key \in K : Search(m, key) = NilValue
  BY NewMapOK
<1>2. NodesAgree(cm, K, W)
  BY NodesOK
<1>3. /\ nodes \in Seq(NodeSet(K, W))
      /\ \A i \in 1 .. l : /\ NodeKey(nodes[i]) \in K
                           /\ nodes[i].v \in W
                           /\ Search(cm, NodeKey(nodes[i])) = nodes[i].v
      /\ \A i, j \in 1 .. l : NodeKey(nodes[i]) = NodeKey(nodes[j]) => i = j
      /\ \A key \in K : \/ Search(cm, key) = NilValue
                         \/ \E i \in 1 .. l : NodeKey(nodes[i]) = key
  BY <1>2 DEF NodesAgree
<1> HIDE DEF m, nodes
<1>4. l \in Nat /\ \A i \in 1 .. l : nodes[i] \in NodeSet(K, W)
  BY <1>3
<1>5. L[0] = m /\ \A i \in 1 .. l : L[i] = LinkFirst(L[i - 1], nodes[i])
  BY <1>1, <1>3, LinkedDef
<1> HIDE DEF L, l
<1>6. 0 \in T
  <2>1. LinkedAgrees(m, m, nodes, 0, K, W)
    BY <1>1 DEF LinkedAgrees
  <2> QED BY <1>4, <1>5, <2>1
<1>7. ASSUME NEW i \in 1 .. l, i - 1 \in T PROVE i \in T
  <2> DEFINE x == L[i - 1]
             n == nodes[i]
             r == LinkFirst(x, n)
  <2>1. /\ MapOK(x, K, W)
        /\ x.size = m.size
        /\ \A j \in 1 .. i - 1 : Search(x, NodeKey(nodes[j])) = nodes[j].v
        /\ \A key \in K : (\A j \in 1 .. i - 1 : NodeKey(nodes[j]) # key)
                           => Search(x, key) = NilValue
    BY <1>7 DEF LinkedAgrees
  <2>2. n \in NodeSet(K, W) /\ NodeKey(n) \in K
    BY <1>3, <1>4
  <2>3. \A j \in 1 .. i - 1 : j \in 1 .. l /\ j # i
    BY <1>4
  <2>4. \A j \in 1 .. i - 1 : NodeKey(nodes[j]) # NodeKey(n)
    BY <1>3, <2>3
  <2> HIDE DEF x, n
  <2>5. Search(x, NodeKey(n)) = NilValue
    BY <2>1, <2>2, <2>4
  <2>6. /\ MapOK(r, K, W)
        /\ r.size = x.size
        /\ Search(r, NodeKey(n)) = n.v
        /\ \A key \in K : key # NodeKey(n) => Search(r, key) = Search(x, key)
    BY <2>1, <2>2, <2>5, LinkFirstOK
  <2> HIDE DEF r
  <2>7. ASSUME NEW j \in 1 .. i PROVE Search(r, NodeKey(nodes[j])) = nodes[j].v
    <3>1. CASE j = i
      BY <3>1, <2>6 DEF n
    <3>2. CASE j # i
      <4>1. j \in 1 .. i - 1
        BY <3>2
      <4>2. NodeKey(nodes[j]) \in K /\ NodeKey(nodes[j]) # NodeKey(n)
        BY <4>1, <2>3, <2>4, <1>3
      <4> QED BY <4>1, <4>2, <2>1, <2>6
    <3> QED BY <3>1, <3>2
  <2>8. ASSUME NEW key \in K, \A j \in 1 .. i : NodeKey(nodes[j]) # key
        PROVE  Search(r, key) = NilValue
    <3>1. i \in 1 .. i /\ \A j \in 1 .. i - 1 : j \in 1 .. i
      BY <1>4
    <3>2. key # NodeKey(n) /\ \A j \in 1 .. i - 1 : NodeKey(nodes[j]) # key
      BY <2>8, <3>1 DEF n
    <3> QED BY <3>2, <2>1, <2>6
  <2>9. LinkedAgrees(r, m, nodes, i, K, W)
    BY <2>1, <2>6, <2>7, <2>8 DEF LinkedAgrees
  <2>10. L[i] = r /\ i \in 0 .. l
    BY <1>4, <1>5 DEF r, x, n
  <2> QED BY <2>9, <2>10
<1> HIDE DEF T
<1>8. l \in T
  <2>1. l \in 0 .. l
    BY <1>4
  <2> QED BY <2>1, <1>4, <1>6, <1>7, UpToInduction
<1>9. LinkedAgrees(L[l], m, nodes, l, K, W)
  BY <1>8 DEF T
<1>10. CopyMap(m, cm) = L[l]
  BY DEF CopyMap, L, l, nodes
<1> DEFINE x == L[l]
<1> HIDE DEF x
<1>11. /\ MapOK(x, K, W)
       /\ x.size = m.size
       /\ \A j \in 1 .. l : Search(x, NodeKey(nodes[j])) = nodes[j].v
       /\ \A key \in K : (\A j \in 1 .. l : NodeKey(nodes[j]) # key) => Search(x, key) = NilValue
  BY <1>9 DEF LinkedAgrees, x
<1>12. ASSUME NEW key \in K PROVE Search(x, key) = Search(cm, key)
  <2>1. CASE \E i \in 1 .. l : NodeKey(nodes[i]) = key
    BY <2>1, <1>3, <1>11 DEF l
  <2>2. CASE \A i \in 1 .. l : NodeKey(nodes[i]) # key
    BY <2>2, <1>3, <1>11 DEF l
  <2> QED BY <2>1, <2>2
<1> QED
  BY <1>1, <1>10, <1>11, <1>12 DEF x, m

(* The value left behind in the copied map. *)
Counted(w) == [w EXCEPT !.ref = @ + 1]

LEMMA CopiedFromOK ==
  ASSUME NEW K, KeysFit(K), NEW W, NilValue \notin W, NEW m, MapOK(m, K, W),
         NEW X, \A w \in W : Counted(w) \in X
  PROVE  /\ MapOK(CopiedFrom(m), K, X)
         /\ CopiedFrom(m).size = m.size
         /\ \A key \in K :
              Search(CopiedFrom(m), key) =
                IF Search(m, key) = NilValue THEN NilValue ELSE Counted(Search(m, key))
<1> DEFINE r == CopiedFrom(m)
           raised(n) == [n EXCEPT !.v = Counted(n.v)]
           row(h) == [i \in DOMAIN m.data[h] |-> raised(m.data[h][i])]
           N == NodeSet(K, W)
           M == NodeSet(K, X)
<1>1. /\ m = [size |-> m.size, index |-> m.index, data |-> m.data]
      /\ m.index \in Nat
      /\ m.size \in Nat \ {0}
      /\ m.data \in [0 .. m.size - 1 -> Seq(N)]
  BY MapRecord
<1>2. r = [m EXCEPT !.data = [h \in DOMAIN m.data |-> row(h)]]
  BY Zenon DEF CopiedFrom, Counted
<1>3. ASSUME NEW n \in N
      PROVE  raised(n) \in M /\ NodeKey(raised(n)) = NodeKey(n) /\ raised(n).v = Counted(n.v)
  <2>1. n.v \in W
    BY KeyOfNode
  <2>2. Counted(n.v) \in X
    BY <2>1
  <2> QED BY <2>2, SetValue
<1> HIDE DEF raised, N, M
<1>4. ASSUME NEW h \in 0 .. m.size - 1
      PROVE  /\ row(h) \in Seq(M)
             /\ DOMAIN row(h) = DOMAIN m.data[h]
             /\ \A i \in DOMAIN m.data[h] : row(h)[i] = raised(m.data[h][i])
             /\ \A i \in DOMAIN m.data[h] : m.data[h][i] \in N
  <2> DEFINE chain == m.data[h]
  <2>1. chain \in Seq(N)
    BY <1>1
  <2> HIDE DEF chain
  <2>2. chain \in [1 .. Len(chain) -> N] /\ Len(chain) \in Nat /\ DOMAIN chain = 1 .. Len(chain)
    BY <2>1
  <2>3. [i \in DOMAIN chain |-> raised(chain[i])] \in [1 .. Len(chain) -> M]
    BY <2>2, <1>3
  <2>4. [i \in DOMAIN chain |-> raised(chain[i])] \in Seq(M)
    BY <2>2, <2>3
  <2> QED BY <2>2, <2>4 DEF chain
<1> HIDE DEF row
<1>5. /\ r = [size |-> m.size, index |-> m.index, data |-> r.data]
      /\ r.data = [h \in 0 .. m.size - 1 |-> row(h)]
      /\ r.size = m.size
  <2>1. DOMAIN m.data = 0 .. m.size - 1
    BY <1>1
  <2> DEFINE d == [h \in DOMAIN m.data |-> row(h)]
  <2>2. r = [m EXCEPT !.data = d]
    BY <1>2
  <2> HIDE DEF d, r
  <2>3. r = [size |-> m.size, index |-> m.index, data |-> d]
    BY <1>1, <2>2
  <2>4. r.data = d /\ r.size = m.size
    BY <2>3
  <2> QED BY <2>1, <2>3, <2>4 DEF d
<1> HIDE DEF r
<1>6. r.data \in [0 .. r.size - 1 -> Seq(M)]
  BY <1>4, <1>5
<1>7. r \in [size : Nat \ {0}, index : Nat, data : [0 .. r.size - 1 -> Seq(M)]]
  BY <1>1, <1>5, <1>6
<1>8. ASSUME NEW h \in 0 .. m.size - 1, NEW i \in DOMAIN r.data[h]
      PROVE  /\ i \in DOMAIN m.data[h]
             /\ r.data[h][i] = raised(m.data[h][i])
             /\ NodeKey(r.data[h][i]) = NodeKey(m.data[h][i])
             /\ r.data[h][i].v = Counted(m.data[h][i].v)
  <2>1. r.data[h] = row(h)
    BY <1>5
  <2>2. i \in DOMAIN m.data[h] /\ m.data[h][i] \in N
    BY <1>4, <2>1
  <2>3. r.data[h][i] = raised(m.data[h][i])
    BY <1>4, <2>1, <2>2
  <2> QED BY <2>2, <2>3, <1>3
<1>9. ASSUME NEW h \in 0 .. r.size - 1, NEW i \in DOMAIN r.data[h], NEW j \in DOMAIN r.data[h]
      PROVE  /\ hash(NodeKey(r.data[h][i]), r.size) = h
             /\ NodeKey(r.data[h][i]) = NodeKey(r.data[h][j]) => i = j
  <2>1. h \in 0 .. m.size - 1
    BY <1>5
  <2>2. /\ i \in DOMAIN m.data[h] /\ j \in DOMAIN m.data[h]
        /\ NodeKey(r.data[h][i]) = NodeKey(m.data[h][i])
        /\ NodeKey(r.data[h][j]) = NodeKey(m.data[h][j])
    BY <2>1, <1>8
  <2>3. /\ hash(NodeKey(m.data[h][i]), m.size) = h
        /\ NodeKey(m.data[h][i]) = NodeKey(m.data[h][j]) => i = j
    BY <2>1, <2>2 DEF MapOK
  <2> QED BY <2>2, <2>3, <1>5
<1>10. MapOK(r, K, X)
  BY <1>7, <1>9 DEF MapOK, M
<1>11. ASSUME NEW key \in K
       PROVE  Search(r, key) =
                IF Search(m, key) = NilValue THEN NilValue ELSE Counted(Search(m, key))
  <2> DEFINE h == hash(key, m.size)
  <2>1. h \in 0 .. m.size - 1 /\ Chain(m, key) = m.data[h] /\ Chain(r, key) = r.data[h]
    BY <1>5, Chains DEF Chain
  <2> HIDE DEF h
  <2>2. DOMAIN r.data[h] = DOMAIN m.data[h]
    BY <2>1, <1>4, <1>5
  <2>3. CASE \E i \in DOMAIN m.data[h] : NodeKey(m.data[h][i]) = key
    <3>1. PICK i \in DOMAIN m.data[h] : NodeKey(m.data[h][i]) = key
      BY <2>3
    <3>2. Search(m, key) = m.data[h][i].v /\ m.data[h][i].v \in W
      BY <2>1, <3>1, SearchFinds
    <3>3. i \in DOMAIN r.data[h] /\ h \in 0 .. r.size - 1
      BY <2>1, <2>2, <1>5
    <3>4. NodeKey(r.data[h][i]) = key /\ r.data[h][i].v = Counted(m.data[h][i].v)
      BY <3>1, <3>3, <2>1, <1>8
    <3>5. Search(r, key) = r.data[h][i].v
      BY <3>3, <3>4, <1>10, SearchFinds
    <3>6. Search(m, key) # NilValue
      BY <3>2
    <3> QED BY <3>2, <3>4, <3>5, <3>6
  <2>4. CASE \A i \in DOMAIN m.data[h] : NodeKey(m.data[h][i]) # key
    <3>1. Search(m, key) = NilValue
      BY <2>1, <2>4, SearchMisses
    <3>2. \A i \in DOMAIN Chain(r, key) : NodeKey(Chain(r, key)[i]) # key
      BY <2>1, <2>2, <2>4, <1>8
    <3>3. Search(r, key) = NilValue
      BY <3>2, <1>10, SearchMisses
    <3> QED BY <3>1, <3>3
  <2> QED BY <2>3, <2>4
<1> QED
  BY <1>5, <1>10, <1>11 DEF r

(* The values a destructor clears are those its keys find with a count of 1. *)
LEMMA ClearedByIs ==
  ASSUME NEW K, KeysFit(K), NEW W, NilValue \notin W, NEW m, MapOK(m, K, W)
  PROVE  \A w : w \in ClearedBy(m) <=>
               w \in W /\ w.ref = 1 /\ \E key \in K : Search(m, key) = w
<1>1. /\ Nodes(m) \in Seq(NodeSet(K, W))
      /\ \A i \in 1 .. Len(Nodes(m)) :
           /\ NodeKey(Nodes(m)[i]) \in K
           /\ Nodes(m)[i].v \in W
           /\ Search(m, NodeKey(Nodes(m)[i])) = Nodes(m)[i].v
      /\ \A key \in K : \/ Search(m, key) = NilValue
                         \/ \E i \in 1 .. Len(Nodes(m)) : NodeKey(Nodes(m)[i]) = key
  BY NodesOK DEF NodesAgree
<1> DEFINE nodes == Nodes(m)
<1>2. DOMAIN nodes = 1 .. Len(nodes)
  BY <1>1
<1>3. ToSet(nodes) = {nodes[i] : i \in DOMAIN nodes}
  BY DEF ToSet
<1>4. ClearedBy(m) = {n.v : n \in {x \in ToSet(nodes) : x.v.ref = 1}}
  BY DEF ClearedBy
<1> HIDE DEF nodes
<1>5. \A w : w \in ClearedBy(m) <=> \E i \in 1 .. Len(nodes) : w = nodes[i].v /\ w.ref = 1
  BY <1>2, <1>3, <1>4
<1>6. ASSUME NEW i \in 1 .. Len(nodes)
      PROVE  nodes[i].v \in W /\ \E key \in K : Search(m, key) = nodes[i].v
  BY <1>1 DEF nodes
<1>7. ASSUME NEW key \in K, Search(m, key) \in W
      PROVE  \E i \in 1 .. Len(nodes) : Search(m, key) = nodes[i].v
  <2>1. Search(m, key) # NilValue
    BY <1>7
  <2> QED BY <2>1, <1>1 DEF nodes
<1> QED
  BY <1>5, <1>6, <1>7

-----------------------------------------------------------------------------
(* A walk that goes on while the map changes *)

(* r has the chains of m, or longer ones: every node is where it was. *)
Grown(r, m) ==
  /\ r.size = m.size
  /\ \A h \in 0 .. m.size - 1 :
       /\ Len(m.data[h]) <= Len(r.data[h])
       /\ \A i \in 1 .. Len(m.data[h]) : NodeKey(r.data[h][i]) = NodeKey(m.data[h][i])

LEMMA ChainSetGrows ==
  ASSUME NEW K, KeysFit(K), NEW W, NEW m, MapOK(m, K, W), NEW h \in 0 .. m.size - 1,
         NEW c, Len(m.data[h]) <= Len(c),
         \A i \in 1 .. Len(m.data[h]) : NodeKey(c[i]) = NodeKey(m.data[h][i]),
         NEW r, ChainSet(r, m, h, c)
  PROVE  Grown(r, m)
<1>1. /\ m.data \in [0 .. m.size - 1 -> Seq(NodeSet(K, W))]
      /\ r.size = m.size
      /\ r.data = [m.data EXCEPT ![h] = c]
  BY MapRecord DEF ChainSet
<1>2. \A g \in 0 .. m.size - 1 : Len(m.data[g]) \in Nat
  BY <1>1
<1>3. ASSUME NEW g \in 0 .. m.size - 1
      PROVE  /\ Len(m.data[g]) <= Len(r.data[g])
             /\ \A i \in 1 .. Len(m.data[g]) : NodeKey(r.data[g][i]) = NodeKey(m.data[g][i])
  <2>1. CASE g = h
    <3>1. r.data[g] = c
      BY <1>1, <2>1
    <3> QED BY <2>1, <3>1
  <2>2. CASE g # h
    <3>1. r.data[g] = m.data[g]
      BY <1>1, <2>2
    <3> QED BY <3>1, <1>2
  <2> QED BY <2>1, <2>2
<1> QED
  BY <1>1, <1>3 DEF Grown

(* _insert_value leaves every node where it is. *)
LEMMA InsertValueGrows ==
  ASSUME NEW K, KeysFit(K), NEW W, NEW m, MapOK(m, K, W), NEW key \in K, NEW val
  PROVE  Grown(InsertValue(m, key, val), m)
<1> DEFINE r == InsertValue(m, key, val)
           h == hash(key, m.size)
           i == Position(m, key)
           chain == m.data[h]
<1>1. /\ m = [size |-> m.size, index |-> m.index, data |-> m.data]
      /\ m.index \in Nat
      /\ h \in 0 .. m.size - 1
      /\ Chain(m, key) = chain
      /\ chain \in Seq(NodeSet(K, W))
  <2>1. h \in 0 .. m.size - 1 /\ Chain(m, key) = chain /\ Chain(m, key) \in Seq(NodeSet(K, W))
    BY Chains
  <2> HIDE DEF h
  <2> QED BY <2>1, MapRecord
<1>2. CASE i # 0
  <2>1. i \in 1 .. Len(chain) /\ chain[i] \in NodeSet(K, W)
    <3> HIDE DEF h, i
    <3>1. i \in DOMAIN Chain(m, key)
      BY <1>2, PositionIs DEF i
    <3> QED BY <3>1, <1>1
  <2> DEFINE n == [chain[i] EXCEPT !.v = [chain[i].v EXCEPT !.v = val.v]]
             c == [chain EXCEPT ![i] = n]
  <2>2. r = [m EXCEPT !.data = [m.data EXCEPT ![h] = c]]
    BY <1>2, Zenon DEF InsertValue
  <2>3. NodeKey(n) = NodeKey(chain[i])
    <3> DEFINE w == [chain[i].v EXCEPT !.v = val.v]
               node == chain[i]
    <3>1. n = [node EXCEPT !.v = w] /\ node \in NodeSet(K, W)
      BY <2>1, Zenon
    <3> HIDE DEF n, w, node
    <3>2. w \in {w}
      OBVIOUS
    <3>3. NodeKey([node EXCEPT !.v = w]) = NodeKey(node)
      BY <3>1, <3>2, SetValue
    <3> QED BY <3>1, <3>3, Zenon DEF node
  <2> HIDE DEF n
  <2>4. Len(c) = Len(chain) /\ \A j \in 1 .. Len(chain) : NodeKey(c[j]) = NodeKey(chain[j])
    <3> HIDE DEF chain, i
    <3>1. \A j \in 1 .. Len(chain) : c[j] = IF j = i THEN n ELSE chain[j]
      BY <1>1, <2>1
    <3>2. Len(c) = Len(chain)
      BY <1>1, <2>1
    <3> HIDE DEF c
    <3> QED BY <2>3, <3>1, <3>2
  <2>5. ChainSet(r, m, h, c)
    <3> HIDE DEF c, h
    <3> QED BY <1>1, <2>2 DEF ChainSet
  <2>6. Len(chain) \in Nat
    BY <1>1
  <2> HIDE DEF r, h, c
  <2> QED BY <1>1, <2>4, <2>5, <2>6, ChainSetGrows DEF r
<1>3. CASE i = 0
  <2> DEFINE n == new_node(key, [val EXCEPT !.ref = 1])
             c == Append(chain, n)
  <2>1. r = [[m EXCEPT !.data = [m.data EXCEPT ![h] = c]] EXCEPT !.index = m.index + 1]
    BY <1>1, <1>3 DEF InsertValue
  <2>2. ChainSet(r, m, h, c)
    <3> DEFINE q == [m EXCEPT !.data = [m.data EXCEPT ![h] = c]]
    <3> HIDE DEF c, h, r
    <3>1. q = [size |-> m.size, index |-> m.index, data |-> [m.data EXCEPT ![h] = c]]
      BY <1>1
    <3>2. r = [q EXCEPT !.index = m.index + 1]
      BY <2>1
    <3> HIDE DEF q
    <3>3. r = [size |-> m.size, index |-> m.index + 1, data |-> [m.data EXCEPT ![h] = c]]
      BY <3>1, <3>2
    <3>4. m.index + 1 \in Nat
      BY <1>1
    <3> QED BY <3>3, <3>4 DEF ChainSet
  <2>3. /\ Len(chain) <= Len(c)
        /\ \A j \in 1 .. Len(chain) : NodeKey(c[j]) = NodeKey(chain[j])
    <3> HIDE DEF chain, n
    <3>1. Len(chain) \in Nat /\ Len(c) = Len(chain) + 1 /\ \A j \in 1 .. Len(chain) : c[j] = chain[j]
      BY <1>1
    <3> HIDE DEF c
    <3> QED BY <3>1
  <2> HIDE DEF r, h, c
  <2> QED BY <1>1, <2>2, <2>3, ChainSetGrows DEF r
<1> QED
  BY <1>2, <1>3

(* Copying a map only counts the values it leaves behind. *)
LEMMA CopiedFromGrows ==
  ASSUME NEW K, KeysFit(K), NEW W, NEW m, MapOK(m, K, W)
  PROVE  Grown(CopiedFrom(m), m)
<1> DEFINE raised(n) == [n EXCEPT !.v = Counted(n.v)]
           row(h) == [i \in DOMAIN m.data[h] |-> raised(m.data[h][i])]
           d == [h \in DOMAIN m.data |-> row(h)]
<1>1. /\ m = [size |-> m.size, index |-> m.index, data |-> m.data]
      /\ m.data \in [0 .. m.size - 1 -> Seq(NodeSet(K, W))]
  BY MapRecord
<1>2. CopiedFrom(m) = [m EXCEPT !.data = d]
  BY Zenon DEF CopiedFrom, Counted
<1>3. CopiedFrom(m).size = m.size /\ CopiedFrom(m).data = d
  <2> HIDE DEF d
  <2> QED BY <1>1, <1>2
<1>4. ASSUME NEW h \in 0 .. m.size - 1
      PROVE  /\ Len(m.data[h]) \in Nat
             /\ Len(d[h]) = Len(m.data[h])
             /\ \A i \in 1 .. Len(m.data[h]) : NodeKey(d[h][i]) = NodeKey(m.data[h][i])
  <2> DEFINE chain == m.data[h]
  <2>1. chain \in Seq(NodeSet(K, W)) /\ d[h] = row(h)
    BY <1>1
  <2>2. Len(chain) \in Nat /\ DOMAIN chain = 1 .. Len(chain)
        /\ \A i \in 1 .. Len(chain) : chain[i] \in NodeSet(K, W)
    BY <2>1
  <2>3. Len(row(h)) = Len(chain)
    BY <2>2
  <2>4. ASSUME NEW i \in 1 .. Len(chain) PROVE NodeKey(row(h)[i]) = NodeKey(chain[i])
    <3> DEFINE w == Counted(chain[i].v)
    <3>1. row(h)[i] = [chain[i] EXCEPT !.v = w]
      BY <2>2
    <3> HIDE DEF w, row, chain
    <3>2. chain[i] \in NodeSet(K, W) /\ w \in {w}
      BY <2>2
    <3>3. NodeKey([chain[i] EXCEPT !.v = w]) = NodeKey(chain[i])
      BY <3>2, SetValue
    <3> QED BY <3>1, <3>3
  <2> QED BY <2>1, <2>2, <2>3, <2>4
<1> HIDE DEF d
<1> QED
  BY <1>3, <1>4 DEF Grown

(* A map of values of W is one of any values that include them. *)
LEMMA MoreValues ==
  ASSUME NEW K, NEW W, NEW X, W \subseteq X, NEW m, MapOK(m, K, W)
  PROVE  MapOK(m, K, X)
<1>1. NodeSet(K, W) \subseteq NodeSet(K, X)
  BY DEF NodeSet
<1>2. Seq(NodeSet(K, W)) \subseteq Seq(NodeSet(K, X))
  BY <1>1
<1>3. /\ m = [size |-> m.size, index |-> m.index, data |-> m.data]
      /\ m.index \in Nat
      /\ m.size \in Nat \ {0}
      /\ m.data \in [0 .. m.size - 1 -> Seq(NodeSet(K, W))]
  BY MapRecord
<1>4. m.data \in [0 .. m.size - 1 -> Seq(NodeSet(K, X))]
  BY <1>2, <1>3
<1> QED
  BY <1>3, <1>4 DEF MapOK
=============================================================================
