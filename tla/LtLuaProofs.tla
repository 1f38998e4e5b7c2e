---------------------------- MODULE LtLuaProofs ----------------------------
(* The binding: for every set of tables, keys and values, every hash and    *)
(* every nesting, a script without misuse reads back what it stored, holds  *)
(* no table that has been freed, and does not bring the process down.       *)
EXTENDS LtLua, LMapProofs

(* The keys of maps, the types of the union, what a script stores in it,    *)
(* and the values of nodes.                                                 *)
MapKeys == {get_key(key) : key \in {k \in ScriptKeys : KeyOK(k)}}

Types == {"NUMBER", "BOOLEAN", "STRING", "UD"}

ScriptValues ==
  {arg[2] : arg \in SetArgs} \cup {LUd(a) : a \in Tables}
    \cup UNION {{e[2] : e \in ToSet(lt)} : lt \in LuaTables}

Storable ==
  {v \in ScriptValues : /\ v.t \in DOMAIN LTypes
                        /\ v.t = "lightuserdata" => v = LUd(v.x) /\ v.x \in Tables}

MapValues == [ref : {1}, type : Types, v : Storable]

Held(v) == [ref |-> 1, type |-> LTypes[v.t], v |-> v]

LEMMA MapKeysFit == KeysFit(MapKeys)
BY KeyAssumption DEF MapKeys

(* A number key survives the conversions to int and to size_t.              *)
LEMMA IntKeeps ==
  ASSUME NEW n \in 0 .. 2^(IntBits - 1) - 1
  PROVE  ToInt(n) = n /\ ToSize(n) = n
<1> DEFINE P == 2^(IntBits - 1)
           W == 2^IntBits
           N == 2^SizeBits
<1>1. P \in Nat \ {0} /\ W = 2 * P /\ N \in Int /\ W <= N
  BY PowerAssumption
<1>2. ToInt(n) = IF n % W >= P THEN (n % W) - W ELSE n % W
  BY DEF ToInt
<1>3. ToSize(n) = n % N
  BY DEF ToSize
<1>4. n \in 0 .. P - 1
  OBVIOUS
<1> HIDE DEF P, W, N
<1>5. n % W = n /\ n % N = n /\ ~(n >= P)
  BY <1>1, <1>4
<1> QED
  BY <1>2, <1>3, <1>5

(* The successor of the greatest int is negative.                           *)
LEMMA IntWraps == ToInt(2^(IntBits - 1)) <= 0
<1> DEFINE P == 2^(IntBits - 1)
           W == 2^IntBits
<1>1. P \in Nat \ {0} /\ W = 2 * P
  BY PowerAssumption
<1>2. ToInt(P) = IF P % W >= P THEN (P % W) - W ELSE P % W
  BY DEF ToInt
<1> HIDE DEF P, W
<1>3. P % W = P
  BY <1>1
<1>4. ToInt(P) <= 0
  BY <1>1, <1>2, <1>3
<1> QED
  BY <1>4 DEF P

LEMMA ToIntInt ==
  ASSUME NEW n \in Int
  PROVE  ToInt(n) \in Int
<1> DEFINE P == 2^(IntBits - 1)
           W == 2^IntBits
<1>1. P \in Nat \ {0} /\ W = 2 * P
  BY PowerAssumption
<1>2. ToInt(n) = IF n % W >= P THEN (n % W) - W ELSE n % W
  BY DEF ToInt
<1> HIDE DEF P, W
<1> QED
  BY <1>1, <1>2

LEMMA ToSizeRange ==
  ASSUME NEW n \in Int
  PROVE  ToSize(n) \in 0 .. 2^SizeBits - 1
<1> DEFINE N == 2^SizeBits
<1>1. N \in Nat \ {0}
  <2> DEFINE P == 2^(IntBits - 1)
             W == 2^IntBits
  <2>1. P \in Nat \ {0} /\ W = 2 * P /\ N \in Int /\ W <= N
    BY PowerAssumption
  <2> HIDE DEF P, W, N
  <2> QED BY <2>1
<1>2. ToSize(n) = n % N
  BY DEF ToSize
<1> HIDE DEF N
<1>3. ToSize(n) \in 0 .. N - 1
  BY <1>1, <1>2
<1> QED
  BY <1>3 DEF N

LEMMA TypeFacts ==
  ASSUME NEW v, v.t \in DOMAIN LTypes
  PROVE  /\ LTypes[v.t] \in Types
         /\ LTypes[v.t] = "UD" <=> v.t = "lightuserdata"
         /\ LTypes[v.t] = "STRING" <=> v.t = "string"
         /\ v.t \in {"number", "boolean", "string", "lightuserdata"}
BY DEF LTypes, Types

LEMMA ValueFacts ==
  /\ NilValue \notin MapValues
  /\ NilValue.type = "NIL"
  /\ \A w \in MapValues : /\ w = [ref |-> w.ref, type |-> w.type, v |-> w.v]
                          /\ w.ref = 1
                          /\ w.type \in Types
                          /\ w.type # "NIL"
                          /\ w.v \in Storable
BY DEF NilValue, MapValues, Types

LEMMA HeldFacts ==
  ASSUME NEW v \in Storable
  PROVE  /\ Held(v) \in MapValues
         /\ Held(v).type = LTypes[v.t]
         /\ Held(v).v = v
         /\ Held(v).ref = 1
         /\ Intact(Held(v))
<1>1. v.t \in DOMAIN LTypes
  BY DEF Storable
<1>2. LTypes[v.t] \in Types
  BY <1>1, TypeFacts
<1> QED
  BY <1>2 DEF Held, MapValues, Intact

LEMMA UdStorable == \A a \in Tables : LUd(a) \in Storable
BY Zenon DEF Storable, ScriptValues, LUd, LTypes

(* A node of the right type holds a value as a new node would. *)
LEMMA IntactIsHeld ==
  ASSUME NEW w \in MapValues, Intact(w)
  PROVE  w = Held(w.v)
<1>1. w = [ref |-> w.ref, type |-> w.type, v |-> w.v] /\ w.ref = 1
  BY ValueFacts
<1>2. w.type = LTypes[w.v.t]
  BY DEF Intact
<1> QED
  BY <1>1, <1>2 DEF Held

(* What a key finds. *)
LEMMA Found ==
  ASSUME NEW m, MapOK(m, MapKeys, MapValues), NEW key \in MapKeys
  PROVE  \/ Search(m, key) = NilValue /\ Search(m, key).type = "NIL"
         \/ Search(m, key) \in MapValues /\ Search(m, key).type # "NIL"
              /\ Search(m, key) # NilValue
BY PositionIs, MapKeysFit, ValueFacts

-----------------------------------------------------------------------------
(* Storing *)

LEMMA InsertOK ==
  ASSUME NEW m, MapOK(m, MapKeys, MapValues), NEW key \in MapKeys, NEW v \in Storable,
         NEW put, put = InsertValue(m, key, [ref |-> 0, type |-> LTypes[v.t], v |-> v])
  PROVE  /\ MapOK(put, MapKeys, MapValues)
         /\ put.size \in Nat \ {0}
         /\ Search(m, key) = NilValue => Search(put, key) = Held(v)
         /\ Search(m, key) # NilValue /\ Search(m, key).type = LTypes[v.t] =>
              Search(put, key) = Held(v)
         /\ \A other \in MapKeys : other # key => Search(put, other) = Search(m, other)
<1> DEFINE val == [ref |-> 0, type |-> LTypes[v.t], v |-> v]
<1>1. /\ val = [ref |-> val.ref, type |-> val.type, v |-> val.v]
      /\ val.type = LTypes[v.t] /\ val.v = v
  OBVIOUS
<1>2. LTypes[v.t] \in Types
  BY TypeFacts DEF Storable
<1>3. put = InsertValue(m, key, val)
  OBVIOUS
<1> HIDE DEF val
<1>4. ASSUME NEW w \in MapValues \cup {NilValue} PROVE Written(w, val) \in MapValues
  <2>1. CASE w = NilValue
    <3>1. Written(w, val) = [ref |-> 1, type |-> LTypes[v.t], v |-> v]
      BY <1>1, <2>1 DEF Written
    <3> QED BY <3>1, <1>2 DEF MapValues
  <2>2. CASE w # NilValue
    <3>1. w.ref = 1 /\ w.type \in Types
      BY <2>2, ValueFacts
    <3>2. Written(w, val) = [ref |-> w.ref, type |-> w.type, v |-> v]
      BY <1>1, <2>2 DEF Written
    <3> QED BY <3>1, <3>2 DEF MapValues
  <2> QED BY <2>1, <2>2
<1>5. \A w \in MapValues : w = [ref |-> w.ref, type |-> w.type, v |-> w.v]
  BY ValueFacts
<1>6. /\ MapOK(put, MapKeys, MapValues)
      /\ Search(put, key) = Written(Search(m, key), val)
      /\ \A other \in MapKeys : other # key => Search(put, other) = Search(m, other)
  <2> DEFINE r == InsertValue(m, key, val)
  <2>1. val = [ref |-> val.ref, type |-> val.type, v |-> val.v] /\ NilValue \notin MapValues
    BY <1>1, ValueFacts
  <2>2. /\ MapOK(r, MapKeys, MapValues)
        /\ Search(r, key) = Written(Search(m, key), val)
        /\ \A other \in MapKeys : other # key => Search(r, other) = Search(m, other)
    BY ONLY <2>1, <1>4, <1>5, InsertValueOK, MapKeysFit, MapOK(m, MapKeys, MapValues), key \in MapKeys
  <2>3. put = r
    BY <1>3
  <2> HIDE DEF r
  <2> QED BY ONLY <2>2, <2>3
<1>7. put.size \in Nat \ {0}
  BY <1>6, MapRecord
<1>8. Search(m, key) = NilValue => Search(put, key) = Held(v)
  BY <1>1, <1>6 DEF Written, Held
<1>9. Search(m, key) # NilValue /\ Search(m, key).type = LTypes[v.t] => Search(put, key) = Held(v)
  <2>1. Search(m, key) # NilValue => Search(m, key).ref = 1
    BY Found, ValueFacts
  <2> QED BY <1>1, <1>6, <2>1 DEF Written, Held
<1> QED
  BY <1>6, <1>7, <1>8, <1>9

(* The map a setter leaves is in order whatever it found; without a         *)
(* conflict of types it holds the value, and all others as before.          *)
LEMMA SetterOK ==
  ASSUME NEW m, MapOK(m, MapKeys, MapValues), NEW key \in MapKeys, NEW v \in Storable
  PROVE  /\ MapOK(Setter(m, key, v).map, MapKeys, MapValues)
         /\ \/ Search(m, key) = NilValue
            \/ Search(m, key).type = LTypes[v.t] /\ Intact(Search(m, key))
            => /\ Setter(m, key, v).ok
               /\ Setter(m, key, v).ret = 0
               /\ Search(Setter(m, key, v).map, key) = Held(v)
               /\ \A other \in MapKeys : other # key =>
                    Search(Setter(m, key, v).map, other) = Search(m, other)
<1> DEFINE put == InsertValue(m, key, [ref |-> 0, type |-> LTypes[v.t], v |-> v])
           ins == insert_table(m, key, v)
           old == Search(m, key)
           S == Setter(m, key, v)
           Kept(r) ==
             /\ MapOK(r, MapKeys, MapValues)
             /\ old = NilValue \/ old.type = LTypes[v.t] => Search(r, key) = Held(v)
             /\ \A other \in MapKeys : other # key => Search(r, other) = Search(m, other)
<1>1. Kept(put) /\ put.size \in Nat \ {0}
  BY InsertOK
<1>2. Kept(ins)
  <2> DEFINE big == CopyMap(NewMap(put.size * 2), put)
  <2>1. put.size * 2 \in Nat \ {0}
    BY <1>1
  <2>2. MapOK(big, MapKeys, MapValues) /\ \A k \in MapKeys : Search(big, k) = Search(put, k)
    <3> HIDE DEF put
    <3> QED BY <1>1, <2>1, CopyMapOK, MapKeysFit, ValueFacts
  <2>3. ins = IF Grows(m, key) THEN big ELSE put
    BY DEF insert_table
  <2> HIDE DEF ins, big, put
  <2> QED BY <1>1, <2>2, <2>3
<1>3. LTypes["string"] = "STRING" /\ NilValue.type = "NIL" /\ LTypes[v.t] # "NIL"
  <2>1. LTypes[v.t] \in Types
    BY TypeFacts DEF Storable
  <2> QED BY <2>1 DEF LTypes, Types, NilValue
<1>4. CASE v.t = "string" /\ old.type = "STRING"
  <2>1. S = [map |-> put, ret |-> 0, ok |-> Intact(old)]
    BY <1>4 DEF Setter
  <2>2. old # NilValue /\ LTypes[v.t] = "STRING"
    BY <1>3, <1>4
  <2>3. S.map = put /\ S.ret = 0 /\ S.ok = Intact(old)
    BY <2>1
  <2> HIDE DEF put
  <2> QED BY <1>1, <1>4, <2>2, <2>3
<1>5. CASE v.t = "string" /\ old.type \notin {"NIL", "STRING"}
  <2>1. S = [map |-> m, ret |-> 1, ok |-> TRUE]
    BY <1>5 DEF Setter
  <2>2. old # NilValue /\ old.type # LTypes[v.t]
    BY <1>3, <1>5
  <2>3. S.map = m
    BY <2>1
  <2> QED BY <2>2, <2>3
<1>6. CASE v.t # "string" \/ old.type = "NIL"
  <2>1. S = [map |-> ins, ret |-> IF old.type \in {"NIL", LTypes[v.t]} THEN 0 ELSE 1, ok |-> TRUE]
    BY <1>6, <1>3 DEF Setter
  <2>2. S.map = ins /\ S.ok /\ (old.type \in {"NIL", LTypes[v.t]} => S.ret = 0)
    BY <2>1
  <2> HIDE DEF ins
  <2> QED BY <1>2, <1>3, <2>2
<1> QED
  BY <1>4, <1>5, <1>6
-----------------------------------------------------------------------------
(* Heaps *)

(* The places of a heap, whatever the script did. *)
TableOK(r) ==
  \/ r = NoTable
  \/ /\ r = [live |-> TRUE, ref |-> r.ref, map |-> r.map]
     /\ r.ref \in Int
     /\ MapOK(r.map, MapKeys, MapValues)

HeapOK(h) == h = [a \in Tables |-> h[a]] /\ \A a \in Tables : TableOK(h[a])

(* Table p holds table x under key k. *)
Holds(h, p, k, x) == h[p].live /\ Search(h[p].map, k) = Held(LUd(x))

LEMMA TableFacts ==
  ASSUME NEW h, HeapOK(h), NEW a \in Tables
  PROVE  /\ h[a].live \in BOOLEAN
         /\ ~h[a].live => h[a] = NoTable
         /\ h[a].live => /\ h[a] = [live |-> TRUE, ref |-> h[a].ref, map |-> h[a].map]
                         /\ MapOK(h[a].map, MapKeys, MapValues)
         /\ h[a].ref \in Int
         /\ ~NoTable.live /\ NoTable.ref = 0
         /\ ~h[a].live => h[a].map = NewMap(0)
<1> DEFINE r == h[a]
<1>1. /\ NoTable.live = FALSE
      /\ NoTable.ref = 0
      /\ NoTable.map = NewMap(0)
  BY DEF NoTable
<1>2. TableOK(r)
  BY DEF HeapOK
<1> HIDE DEF r
<1>3. CASE r = NoTable
  <2>1. r.live = FALSE /\ r.ref = 0 /\ r.map = NewMap(0)
    BY <1>1, <1>3
  <2>2. r.live \in BOOLEAN /\ ~r.live
    BY ONLY <2>1, Zenon
  <2>3. r.ref \in Int
    BY <2>1
  <2>4. ~NoTable.live
    BY ONLY <1>1, Zenon
  <2> QED BY <1>1, <1>3, <2>1, <2>2, <2>3, <2>4 DEF r
<1>4. CASE r # NoTable
  <2>1. /\ r = [live |-> TRUE, ref |-> r.ref, map |-> r.map]
        /\ r.ref \in Int
        /\ MapOK(r.map, MapKeys, MapValues)
    BY <1>2, <1>4 DEF TableOK
  <2>2. r.live = TRUE
    BY <2>1
  <2> QED BY <1>1, <2>1, <2>2 DEF r
<1> QED
  BY <1>3, <1>4

LEMMA LiveNodes ==
  ASSUME NEW h, HeapOK(h), NEW a \in Tables, h[a].live
  PROVE  NodesAgree(h[a].map, MapKeys, MapValues)
<1> DEFINE m == h[a].map
<1>1. MapOK(m, MapKeys, MapValues)
  BY TableFacts
<1> HIDE DEF m
<1> QED BY <1>1, NodesOK, MapKeysFit DEF m

LEMMA LUdFacts ==
  /\ \A x : LUd(x).t = "lightuserdata" /\ LUd(x).x = x
  /\ \A x, y : Held(LUd(x)) = Held(LUd(y)) => x = y
  /\ \A x : /\ Held(LUd(x)).type = "UD"
            /\ Held(LUd(x)).v = LUd(x)
            /\ Held(LUd(x)) # NilValue
            /\ Intact(Held(LUd(x)))
BY DEF LUd, Held, LTypes, NilValue, Intact

(* A value that is a sub-table. *)
LEMMA SubTable ==
  ASSUME NEW w \in MapValues, w.type = "UD", w.v.t = "lightuserdata"
  PROVE  w.v.x \in Tables /\ w = Held(LUd(w.v.x))
<1>1. w.v \in Storable
  BY ValueFacts
<1>2. w.v = LUd(w.v.x) /\ w.v.x \in Tables
  BY <1>1 DEF Storable
<1>3. Intact(w)
  BY DEF Intact, LTypes
<1> QED
  BY <1>2, <1>3, IntactIsHeld

LEMMA EmptyNodes == Nodes(NewMap(0)) = <<>>
<1> DEFINE seqs == [i \in 1 .. 0 |-> NewMap(0).data[i - 1]]
<1>1. Nodes(NewMap(0)) = FlattenSeq(seqs)
  BY DEF Nodes, NewMap
<1>2. seqs \in Seq(Seq({}))
  OBVIOUS
<1>3. FlattenSeq(seqs) \in Seq({})
  <2> HIDE DEF seqs
  <2> QED BY <1>2, FlattenPlacing
<1>4. \A s \in Seq({}) : s = <<>>
  OBVIOUS
<1> QED
  BY <1>1, <1>3, <1>4

(* The tables a table stores are those its keys find. *)
LEMMA StoredIs ==
  ASSUME NEW h, HeapOK(h), NEW p \in Tables
  PROVE  /\ \A x : x \in Stored(h, p) <=> \E k \in MapKeys : Holds(h, p, k, x)
         /\ \A x \in Stored(h, p) : x \in Tables
         /\ ~h[p].live => Stored(h, p) = {}
<1>1. CASE ~h[p].live
  <2>1. h[p].map = NewMap(0)
    BY <1>1, TableFacts
  <2>2. Nodes(h[p].map) = <<>>
    BY <2>1, EmptyNodes
  <2>3. ToSet(Nodes(h[p].map)) = {}
    BY <2>2 DEF ToSet
  <2>4. Stored(h, p) = {}
    BY <2>3 DEF Stored
  <2> QED BY <1>1, <2>4 DEF Holds
<1>2. CASE h[p].live
  <2> DEFINE m == h[p].map
             nodes == Nodes(m)
             S == Stored(h, p)
  <2>1. MapOK(m, MapKeys, MapValues)
    BY <1>2, TableFacts
  <2>2. NodesAgree(m, MapKeys, MapValues)
    <3> HIDE DEF m
    <3> QED BY <2>1, NodesOK, MapKeysFit
  <2>3. nodes \in Seq(NodeSet(MapKeys, MapValues))
    BY <2>2 DEF NodesAgree
  <2>4. DOMAIN nodes = 1 .. Len(nodes)
    <3> HIDE DEF nodes
    <3> QED BY <2>3
  <2>5. S = {n.v.v.x : n \in {n \in {nodes[i] : i \in DOMAIN nodes} :
                                n.v.type = "UD" /\ n.v.v.t = "lightuserdata"}}
    BY DEF Stored, ToSet
  <2>6. \A x : x \in S <=> \E i \in 1 .. Len(nodes) :
                             /\ nodes[i].v.type = "UD" /\ nodes[i].v.v.t = "lightuserdata"
                             /\ x = nodes[i].v.v.x
    <3> HIDE DEF S, nodes
    <3> QED BY <2>4, <2>5
  <2>7. ASSUME NEW x \in S PROVE x \in Tables /\ \E k \in MapKeys : Holds(h, p, k, x)
    <3>1. PICK i \in 1 .. Len(nodes) : /\ nodes[i].v.type = "UD" /\ nodes[i].v.v.t = "lightuserdata"
                                       /\ x = nodes[i].v.v.x
      BY <2>6, <2>7
    <3>2. /\ NodeKey(nodes[i]) \in MapKeys
          /\ nodes[i].v \in MapValues
          /\ Search(m, NodeKey(nodes[i])) = nodes[i].v
      BY <2>2, <3>1 DEF NodesAgree
    <3>3. x \in Tables /\ nodes[i].v = Held(LUd(x))
      BY <3>1, <3>2, SubTable
    <3> QED BY <1>2, <3>2, <3>3 DEF Holds
  <2>8. ASSUME NEW x, NEW k \in MapKeys, Holds(h, p, k, x) PROVE x \in S
    <3>1. Search(m, k) = Held(LUd(x))
      BY <2>8 DEF Holds
    <3>2. Search(m, k) # NilValue
      BY <3>1, LUdFacts
    <3>3. PICK i \in 1 .. Len(nodes) : NodeKey(nodes[i]) = k
      BY <2>2, <3>2 DEF NodesAgree
    <3>4. nodes[i].v = Held(LUd(x))
      BY <2>2, <3>1, <3>3 DEF NodesAgree
    <3> QED BY <2>6, <3>4, LUdFacts
  <2> HIDE DEF S
  <2>9. S = Stored(h, p)
    BY DEF S
  <2> QED BY <1>2, <2>7, <2>8, <2>9
<1> QED
  BY <1>1, <1>2, TableFacts


(* What a script without misuse builds: every value has the type of its     *)
(* node; a table is stored in one place at most, is alive there and does    *)
(* not lead back to itself.                                                 *)
Sound(h) ==
  \A p \in Tables, k \in MapKeys :
    h[p].live => Search(h[p].map, k) = NilValue \/ Intact(Search(h[p].map, k))

OneOwner(h) ==
  \A p, q, x \in Tables, k, l \in MapKeys :
    Holds(h, p, k, x) /\ Holds(h, q, l, x) => p = q /\ k = l

NoneDangles(h) == \A p \in Tables : \A x \in Stored(h, p) : h[x].live

Acyclic(h) ==
  \A C \in SUBSET Tables : (\A p \in C : \E x \in C : x \in Stored(h, p)) => C = {}

Tree(h) == Sound(h) /\ OneOwner(h) /\ NoneDangles(h) /\ Acyclic(h)

ClosedIn(h, C) == \A p \in C : Stored(h, p) \subseteq C

LEMMA EmptyTree ==
  ASSUME NEW h, h = [a \in Tables |-> NoTable]
  PROVE  HeapOK(h) /\ Tree(h) /\ \A a \in Tables : ~h[a].live /\ h[a].ref = 0
<1>1. \A a \in Tables : h[a] = NoTable /\ ~h[a].live /\ h[a].ref = 0
  <2>1. ~NoTable.live
    BY DEF NoTable
  <2>2. NoTable.ref = 0
    BY DEF NoTable
  <2> QED BY <2>1, <2>2
<1>2. HeapOK(h)
  BY <1>1 DEF HeapOK, TableOK
<1>3. \A p \in Tables : Stored(h, p) = {}
  BY <1>1, <1>2, StoredIs
<1> QED
  BY <1>1, <1>2, <1>3 DEF Tree, Sound, OneOwner, NoneDangles, Acyclic, Holds

(* The map of a table is replaced. *)
MapPut(h2, h, p, m) == h2 = [h EXCEPT ![p].map = m]

LEMMA MapSet ==
  ASSUME NEW h, HeapOK(h), NEW p \in Tables, h[p].live, NEW m, MapOK(m, MapKeys, MapValues),
         NEW h2, MapPut(h2, h, p, m)
  PROVE  /\ HeapOK(h2)
         /\ h2[p].map = m
         /\ \A q \in Tables : /\ h2[q].live = h[q].live
                              /\ h2[q].ref = h[q].ref
                              /\ q # p => h2[q] = h[q]
<1>1. h = [a \in Tables |-> h[a]] /\ \A a \in Tables : TableOK(h[a])
  BY DEF HeapOK
<1>2. h[p] = [live |-> TRUE, ref |-> h[p].ref, map |-> h[p].map] /\ h[p].ref \in Int
  BY TableFacts
<1>3. h2 = [h EXCEPT ![p] = [h[p] EXCEPT !.map = m]]
  BY DEF MapPut
<1> DEFINE old == h[p]
           r == [old EXCEPT !.map = m]
<1>4. r = [live |-> TRUE, ref |-> old.ref, map |-> m]
  <2>1. old = [live |-> TRUE, ref |-> old.ref, map |-> old.map]
    BY <1>2
  <2>2. \A l, f, g : [[live |-> l, ref |-> f, map |-> g] EXCEPT !.map = m]
                      = [live |-> l, ref |-> f, map |-> m]
    OBVIOUS
  <2> HIDE DEF old
  <2>3. r = [[live |-> TRUE, ref |-> old.ref, map |-> old.map] EXCEPT !.map = m]
    BY <2>1
  <2> QED BY <2>2, <2>3
<1>5. r.live = TRUE /\ r.ref = h[p].ref /\ r.map = m
  BY <1>4
<1>6. TableOK(r)
  BY <1>2, <1>4, <1>5 DEF TableOK
<1> HIDE DEF r
<1>7. h2 = [a \in Tables |-> IF a = p THEN r ELSE h[a]]
  BY <1>1, <1>3 DEF r
<1>8. HeapOK(h2)
  BY <1>1, <1>6, <1>7 DEF HeapOK
<1>9. h[p].live = TRUE
  BY <1>2
<1> QED
  BY <1>5, <1>7, <1>8, <1>9

(* A key that held no table is given a value; if that is a table, it is     *)
(* alive, stored nowhere, and the one that gets it is not below it.         *)
LEMMA StoreTree ==
  ASSUME NEW h, HeapOK(h), Tree(h), NEW p \in Tables, h[p].live,
         NEW m, MapOK(m, MapKeys, MapValues), NEW k \in MapKeys, NEW v \in Storable,
         Search(m, k) = Held(v),
         \A other \in MapKeys : other # k => Search(m, other) = Search(h[p].map, other),
         Search(h[p].map, k).type # "UD",
         v.t = "lightuserdata" =>
           /\ h[v.x].live
           /\ \A q \in Tables : v.x \notin Stored(h, q)
           /\ \E R \in SUBSET Tables : v.x \in R /\ p \notin R /\ ClosedIn(h, R),
         NEW h2, MapPut(h2, h, p, m)
  PROVE  /\ Tree(h2)
         /\ \A q \in Tables : \A x \in Stored(h2, q) :
              \/ x \in Stored(h, q)
              \/ q = p /\ v.t = "lightuserdata" /\ x = v.x
<1>1. /\ HeapOK(h2)
      /\ h2[p].map = m
      /\ \A q \in Tables : /\ h2[q].live = h[q].live
                           /\ q # p => h2[q] = h[q]
  BY MapSet
<1>2. Sound(h2)
  <2> SUFFICES ASSUME NEW q \in Tables, NEW l \in MapKeys, h2[q].live
               PROVE  Search(h2[q].map, l) = NilValue \/ Intact(Search(h2[q].map, l))
    BY DEF Sound
  <2>1. CASE q = p /\ l = k
    BY <1>1, <2>1, HeldFacts
  <2>2. CASE q = p /\ l # k
    BY <1>1, <2>2 DEF Tree, Sound
  <2>3. CASE q # p
    BY <1>1, <2>3 DEF Tree, Sound
  <2> QED BY <2>1, <2>2, <2>3
<1>3. ASSUME NEW q \in Tables, NEW l \in MapKeys, NEW x, Holds(h2, q, l, x)
      PROVE  \/ Holds(h, q, l, x)
             \/ q = p /\ l = k /\ v.t = "lightuserdata" /\ x = v.x
  <2>1. CASE q = p /\ l = k
    <3>1. Held(v) = Held(LUd(x))
      BY <1>1, <1>3, <2>1 DEF Holds
    <3>2. v = LUd(x)
      BY <3>1 DEF Held
    <3> QED BY <2>1, <3>2, LUdFacts
  <2>2. CASE q = p /\ l # k
    BY <1>1, <1>3, <2>2 DEF Holds
  <2>3. CASE q # p
    BY <1>1, <1>3, <2>3 DEF Holds
  <2> QED BY <2>1, <2>2, <2>3
<1>4. ASSUME NEW q \in Tables, NEW x \in Stored(h2, q)
      PROVE  \/ x \in Stored(h, q)
             \/ q = p /\ v.t = "lightuserdata" /\ x = v.x
  <2>1. PICK l \in MapKeys : Holds(h2, q, l, x)
    BY <1>1, <1>4, StoredIs
  <2> QED BY <1>3, <2>1, StoredIs
<1>5. OneOwner(h2)
  <2> SUFFICES ASSUME NEW q \in Tables, NEW r \in Tables, NEW x \in Tables,
                      NEW l \in MapKeys, NEW n \in MapKeys,
                      Holds(h2, q, l, x), Holds(h2, r, n, x)
               PROVE  q = r /\ l = n
    BY DEF OneOwner
  <2>1. \/ Holds(h, q, l, x)
        \/ q = p /\ l = k /\ v.t = "lightuserdata" /\ x = v.x
    BY <1>3
  <2>2. \/ Holds(h, r, n, x)
        \/ r = p /\ n = k /\ v.t = "lightuserdata" /\ x = v.x
    BY <1>3
  <2>3. Holds(h, q, l, x) => x \in Stored(h, q)
    BY StoredIs
  <2>4. Holds(h, r, n, x) => x \in Stored(h, r)
    BY StoredIs
  <2>5. Holds(h, q, l, x) /\ Holds(h, r, n, x) => q = r /\ l = n
    BY DEF Tree, OneOwner
  <2> QED BY <2>1, <2>2, <2>3, <2>4, <2>5
<1>6. NoneDangles(h2)
  <2> SUFFICES ASSUME NEW q \in Tables, NEW x \in Stored(h2, q) PROVE h2[x].live
    BY DEF NoneDangles
  <2>1. x \in Tables
    BY <1>1, StoredIs
  <2>2. h[x].live
    BY <1>4 DEF Tree, NoneDangles
  <2> QED BY <1>1, <2>1, <2>2
<1>7. Acyclic(h2)
  <2> SUFFICES ASSUME NEW C \in SUBSET Tables, \A q \in C : \E x \in C : x \in Stored(h2, q)
               PROVE  C = {}
    BY DEF Acyclic
  <2>1. CASE v.t = "lightuserdata"
    <3>1. PICK R \in SUBSET Tables : v.x \in R /\ p \notin R /\ ClosedIn(h, R)
      BY <2>1
    <3>2. \A q \in C \cap R : \E x \in C \cap R : x \in Stored(h, q)
      BY <1>4, <3>1 DEF ClosedIn
    <3>3. C \cap R = {}
      BY <3>2 DEF Tree, Acyclic
    <3>4. \A q \in C : \E x \in C : x \in Stored(h, q)
      BY <1>4, <3>1, <3>3
    <3> QED BY <3>4 DEF Tree, Acyclic
  <2>2. CASE v.t # "lightuserdata"
    <3>1. \A q \in C : \E x \in C : x \in Stored(h, q)
      BY <1>4, <2>2
    <3> QED BY <3>1 DEF Tree, Acyclic
  <2> QED BY <2>1, <2>2
<1> QED
  BY <1>2, <1>4, <1>5, <1>6, <1>7 DEF Tree

(* A table is created at a free address. *)
NewPut(h2, h, a) == h2 = [h EXCEPT ![a] = NewTable]

LEMMA CreateTree ==
  ASSUME NEW h, HeapOK(h), NEW a \in Tables, ~h[a].live,
         NEW h2, NewPut(h2, h, a)
  PROVE  /\ HeapOK(h2)
         /\ h2[a].live /\ h2[a].ref = 1
         /\ MapOK(h2[a].map, MapKeys, MapValues)
         /\ \A k \in MapKeys : Search(h2[a].map, k) = NilValue
         /\ \A q \in Tables : q # a => h2[q] = h[q]
         /\ \A q \in Tables : Stored(h2, q) = Stored(h, q)
         /\ Stored(h, a) = {}
         /\ Tree(h) => Tree(h2) /\ \A q \in Tables : a \notin Stored(h2, q)
<1> DEFINE m == NewMap(INIT_SIZE)
<1>1. MapOK(m, MapKeys, MapValues) /\ \A k \in MapKeys : Search(m, k) = NilValue
  BY NewMapOK, MapKeysFit, SizeAssumption
<1> HIDE DEF m
<1>2. NewTable = [live |-> TRUE, ref |-> 1, map |-> m]
  BY DEF NewTable, m
<1>3. NewTable.live = TRUE /\ NewTable.ref = 1 /\ NewTable.map = m
  BY <1>2
<1>4. TableOK(NewTable)
  BY <1>1, <1>2, <1>3 DEF TableOK
<1>5. h2 = [q \in Tables |-> IF q = a THEN NewTable ELSE h[q]]
  BY DEF HeapOK, NewPut
<1>6. HeapOK(h2)
  BY <1>4, <1>5 DEF HeapOK
<1>7. h2[a] = NewTable /\ \A q \in Tables : q # a => h2[q] = h[q]
  BY <1>5
<1>8. \A q \in Tables, l \in MapKeys : \A x : Holds(h2, q, l, x) <=> Holds(h, q, l, x)
  <2> SUFFICES ASSUME NEW q \in Tables, NEW l \in MapKeys, NEW x
               PROVE  Holds(h2, q, l, x) <=> Holds(h, q, l, x)
    OBVIOUS
  <2>1. CASE q = a
    BY <1>1, <1>3, <1>7, <2>1, LUdFacts DEF Holds
  <2>2. CASE q # a
    BY <1>7, <2>2 DEF Holds
  <2> QED BY <2>1, <2>2
<1>9. ASSUME NEW q \in Tables PROVE Stored(h2, q) = Stored(h, q)
  <2>1. \A x : x \in Stored(h2, q) <=> \E l \in MapKeys : Holds(h2, q, l, x)
    BY <1>6, StoredIs
  <2>2. \A x : x \in Stored(h, q) <=> \E l \in MapKeys : Holds(h, q, l, x)
    BY StoredIs
  <2>3. \A x : x \in Stored(h2, q) <=> x \in Stored(h, q)
    BY <1>8, <2>1, <2>2
  <2> QED BY <2>3
<1>10. Stored(h, a) = {}
  BY StoredIs
<1>11. ASSUME Tree(h) PROVE Tree(h2) /\ \A q \in Tables : a \notin Stored(h2, q)
  <2>1. Sound(h2)
    <3> SUFFICES ASSUME NEW q \in Tables, NEW l \in MapKeys, h2[q].live
                 PROVE  Search(h2[q].map, l) = NilValue \/ Intact(Search(h2[q].map, l))
      BY DEF Sound
    <3>1. CASE q = a
      BY <1>1, <1>3, <1>7, <3>1
    <3>2. CASE q # a
      BY <1>7, <1>11, <3>2 DEF Tree, Sound
    <3> QED BY <3>1, <3>2
  <2>2. OneOwner(h2)
    BY <1>8, <1>11 DEF Tree, OneOwner
  <2>3. \A q \in Tables : a \notin Stored(h2, q)
    BY <1>9, <1>11 DEF Tree, NoneDangles
  <2>4. NoneDangles(h2)
    <3> SUFFICES ASSUME NEW q \in Tables, NEW x \in Stored(h2, q) PROVE h2[x].live
      BY DEF NoneDangles
    <3>1. x \in Tables /\ x # a /\ h[x].live
      BY <1>9, <1>11, <2>3, StoredIs DEF Tree, NoneDangles
    <3> QED BY <1>7, <3>1
  <2>5. Acyclic(h2)
    BY <1>9, <1>11 DEF Tree, Acyclic
  <2> QED BY <2>1, <2>2, <2>3, <2>4, <2>5 DEF Tree
<1> QED
  BY <1>1, <1>3, <1>6, <1>7, <1>9, <1>10, <1>11

-----------------------------------------------------------------------------
(* Deleting *)

RefPut(h2, h, p, n) == h2 = [h EXCEPT ![p].ref = n]

LEMMA RefSet ==
  ASSUME NEW h, HeapOK(h), NEW p \in Tables, h[p].live, NEW n \in Int,
         NEW h2, RefPut(h2, h, p, n)
  PROVE  /\ HeapOK(h2)
         /\ h2[p].ref = n
         /\ \A q \in Tables : /\ h2[q].live = h[q].live
                              /\ h2[q].map = h[q].map
                              /\ q # p => h2[q] = h[q]
<1>1. h = [a \in Tables |-> h[a]] /\ \A a \in Tables : TableOK(h[a])
  BY DEF HeapOK
<1>2. /\ h[p] = [live |-> TRUE, ref |-> h[p].ref, map |-> h[p].map]
      /\ MapOK(h[p].map, MapKeys, MapValues)
  BY TableFacts
<1>3. h2 = [h EXCEPT ![p] = [h[p] EXCEPT !.ref = n]]
  BY DEF RefPut
<1> DEFINE old == h[p]
           r == [old EXCEPT !.ref = n]
<1>4. r = [live |-> TRUE, ref |-> n, map |-> old.map]
  <2>1. old = [live |-> TRUE, ref |-> old.ref, map |-> old.map]
    BY <1>2
  <2>2. \A l, f, g : [[live |-> l, ref |-> f, map |-> g] EXCEPT !.ref = n]
                      = [live |-> l, ref |-> n, map |-> g]
    OBVIOUS
  <2> HIDE DEF old
  <2>3. r = [[live |-> TRUE, ref |-> old.ref, map |-> old.map] EXCEPT !.ref = n]
    BY <2>1
  <2> QED BY <2>2, <2>3
<1>5. r.live = TRUE /\ r.ref = n /\ r.map = h[p].map
  BY <1>4
<1>6. TableOK(r)
  BY <1>2, <1>4, <1>5 DEF TableOK
<1> HIDE DEF r
<1>8. h2 = [a \in Tables |-> IF a = p THEN r ELSE h[a]]
  BY <1>1, <1>3 DEF r
<1>9. HeapOK(h2)
  BY <1>1, <1>6, <1>8 DEF HeapOK
<1>10. h[p].live = TRUE
  BY <1>2
<1> QED
  BY <1>5, <1>8, <1>9, <1>10

LEMMA Freed ==
  ASSUME NEW h, HeapOK(h), NEW p \in Tables
  PROVE  /\ HeapOK([h EXCEPT ![p] = NoTable])
         /\ [h EXCEPT ![p] = NoTable][p] = NoTable
         /\ \A q \in Tables : q # p => [h EXCEPT ![p] = NoTable][q] = h[q]
<1>1. h = [a \in Tables |-> h[a]] /\ \A a \in Tables : TableOK(h[a])
  BY DEF HeapOK
<1> DEFINE h2 == [h EXCEPT ![p] = NoTable]
<1>2. h2 = [a \in Tables |-> IF a = p THEN NoTable ELSE h[a]]
  BY <1>1
<1> HIDE DEF h2
<1>3. HeapOK(h2)
  BY <1>1, <1>2 DEF HeapOK, TableOK
<1> QED
  BY <1>2, <1>3 DEF h2

DelFrame == [t : Tables, i : Nat \ {0}]

(* The heap in the middle of a delete. *)
DelHeap(h) ==
  /\ h = [tab |-> h.tab, ok |-> h.ok, calls |-> h.calls]
  /\ HeapOK(h.tab)
  /\ h.ok \in BOOLEAN
  /\ h.calls \in Seq(DelFrame)

(* Table b is being destroyed. *)
Dying(h, b) == \E j \in 1 .. Len(h.calls) : h.calls[j].t = b

LEMMA FrontFacts ==
  ASSUME NEW S, NEW c \in Seq(S), c # <<>>
  PROVE  /\ Len(c) \in Nat \ {0}
         /\ Front(c) \in Seq(S)
         /\ Len(Front(c)) = Len(c) - 1
         /\ \A j \in 1 .. Len(c) - 1 : Front(c)[j] = c[j]
         /\ Last(c) = c[Len(c)]
<1>1. Len(c) \in Nat \ {0}
  OBVIOUS
<1>2. Front(c) = SubSeq(c, 1, Len(c) - 1)
  BY DEF Front
<1>3. \A j \in 1 .. Len(c) - 1 : c[j] \in S
  OBVIOUS
<1>4. SubSeq(c, 1, Len(c) - 1) = [j \in 1 .. Len(c) - 1 |-> c[j]]
  BY <1>1
<1>5. [j \in 1 .. Len(c) - 1 |-> c[j]] \in Seq(S)
  BY <1>1, <1>3
<1>6. Len([j \in 1 .. Len(c) - 1 |-> c[j]]) = Len(c) - 1
  BY <1>1
<1> QED
  BY <1>1, <1>2, <1>4, <1>5, <1>6 DEF Last

LEMMA DelFacts ==
  ASSUME NEW h, DelHeap(h)
  PROVE  /\ Len(h.calls) \in Nat
         /\ \A j \in 1 .. Len(h.calls) :
              /\ h.calls[j].t \in Tables
              /\ h.calls[j].i \in Nat \ {0}
              /\ h.calls[j] = [t |-> h.calls[j].t, i |-> h.calls[j].i]
         /\ h.calls # <<>> => Len(h.calls) \in 1 .. Len(h.calls)
<1> DEFINE c == h.calls
<1>1. c \in Seq(DelFrame)
  BY DEF DelHeap
<1> HIDE DEF c
<1>2. Len(c) \in Nat /\ \A j \in 1 .. Len(c) : c[j] \in DelFrame
  BY <1>1
<1>3. c # <<>> => Len(c) \in 1 .. Len(c)
  BY <1>1
<1>4. \A f \in DelFrame : f.t \in Tables /\ f.i \in Nat \ {0} /\ f = [t |-> f.t, i |-> f.i]
  BY DEF DelFrame
<1> QED
  BY <1>2, <1>3, <1>4 DEF c

(* ~table starts. *)
LEMMA DestroyIs ==
  ASSUME NEW h, DelHeap(h), NEW a \in Tables, h.tab[a].live, NEW d, d = Destroy(h, a)
  PROVE  /\ DelHeap(d)
         /\ d.ok = h.ok
         /\ Len(d.calls) = Len(h.calls) + 1
         /\ \A j \in 1 .. Len(h.calls) : d.calls[j] = h.calls[j]
         /\ d.calls[Len(h.calls) + 1].t = a /\ d.calls[Len(h.calls) + 1].i = 1
         /\ RefPut(d.tab, h.tab, a, 0)
<1> DEFINE t2 == [h.tab EXCEPT ![a].ref = 0]
           c2 == Append(h.calls, [t |-> a, i |-> 1])
<1>1. h = [tab |-> h.tab, ok |-> h.ok, calls |-> h.calls] /\ HeapOK(h.tab) /\ h.ok \in BOOLEAN
  BY DEF DelHeap
<1>2. d = [h EXCEPT !.tab = t2, !.calls = c2]
  BY DEF Destroy
<1>3. RefPut(t2, h.tab, a, 0)
  BY DEF RefPut
<1>4. HeapOK(t2)
  <2> DEFINE old == h.tab
  <2>1. HeapOK(old) /\ old[a].live /\ RefPut(t2, old, a, 0) /\ 0 \in Int
    BY <1>1, <1>3
  <2> HIDE DEF t2, old
  <2> QED BY <2>1, RefSet
<1>5. h.calls \in Seq(DelFrame)
  BY DEF DelHeap
<1>6. /\ c2 \in Seq(DelFrame)
      /\ Len(c2) = Len(h.calls) + 1
      /\ \A j \in 1 .. Len(h.calls) : c2[j] = h.calls[j]
      /\ c2[Len(h.calls) + 1] = [t |-> a, i |-> 1]
  <2> DEFINE c == h.calls
             f == [t |-> a, i |-> 1]
  <2>1. c \in Seq(DelFrame) /\ f \in DelFrame
    BY <1>5 DEF DelFrame
  <2> HIDE DEF c, f
  <2>2. /\ Append(c, f) \in Seq(DelFrame)
        /\ Len(Append(c, f)) = Len(c) + 1
        /\ \A j \in 1 .. Len(c) : Append(c, f)[j] = c[j]
        /\ Append(c, f)[Len(c) + 1] = f
    BY <2>1
  <2> QED BY <2>2 DEF c, f
<1> HIDE DEF t2, c2
<1>7. d = [tab |-> t2, ok |-> h.ok, calls |-> c2]
  BY <1>1, <1>2
<1>8. d.tab = t2 /\ d.ok = h.ok /\ d.calls = c2
  BY <1>7
<1>9. DelHeap(d)
  BY <1>1, <1>4, <1>6, <1>7, <1>8 DEF DelHeap
<1> QED
  BY <1>3, <1>6, <1>8, <1>9

(* The loop of the innermost ~lmap takes the next node ... *)
LEMMA AdvanceIs ==
  ASSUME NEW h, DelHeap(h), h.calls # <<>>, NEW d, d = [h EXCEPT !.calls = Advance(@)]
  PROVE  /\ DelHeap(d)
         /\ d.ok = h.ok /\ d.tab = h.tab
         /\ Len(d.calls) = Len(h.calls)
         /\ \A j \in 1 .. Len(h.calls) :
              /\ d.calls[j].t = h.calls[j].t
              /\ d.calls[j].i = IF j = Len(h.calls) THEN h.calls[j].i + 1 ELSE h.calls[j].i
<1> DEFINE c == h.calls
           n == Len(c)
           f == [t |-> c[n].t, i |-> c[n].i + 1]
           c2 == [c EXCEPT ![n] = f]
<1>1. h = [tab |-> h.tab, ok |-> h.ok, calls |-> c] /\ HeapOK(h.tab) /\ h.ok \in BOOLEAN
  BY DEF DelHeap
<1>2. /\ c \in Seq(DelFrame) /\ n \in 1 .. n /\ n \in Nat
      /\ c[n].t \in Tables /\ c[n].i \in Nat \ {0} /\ c[n] = [t |-> c[n].t, i |-> c[n].i]
  BY DelFacts DEF DelHeap
<1>3. f \in DelFrame
  BY <1>2 DEF DelFrame
<1>4. Advance(c) = c2
  <2>1. Advance(c) = [c EXCEPT ![n] = [c[n] EXCEPT !.i = c[n].i + 1]]
    BY DEF Advance
  <2>2. \A x, y, z : [[t |-> x, i |-> y] EXCEPT !.i = z] = [t |-> x, i |-> z]
    OBVIOUS
  <2>3. [c[n] EXCEPT !.i = c[n].i + 1] = f
    <3> DEFINE g == c[n]
    <3>1. g = [t |-> g.t, i |-> g.i]
      BY <1>2
    <3> HIDE DEF g
    <3>2. [g EXCEPT !.i = g.i + 1] = [t |-> g.t, i |-> g.i + 1]
      BY <2>2, <3>1
    <3> QED BY <3>2 DEF g
  <2> QED BY <2>1, <2>3
<1> HIDE DEF f
<1>5. /\ c2 \in Seq(DelFrame)
      /\ Len(c2) = n
      /\ \A j \in 1 .. n : c2[j] = IF j = n THEN f ELSE c[j]
  <2> HIDE DEF c
  <2> QED BY <1>2, <1>3
<1>6. d = [h EXCEPT !.calls = c2]
  BY <1>4
<1> HIDE DEF c2
<1>7. d = [tab |-> h.tab, ok |-> h.ok, calls |-> c2]
  BY <1>1, <1>6
<1>8. d.tab = h.tab /\ d.ok = h.ok /\ d.calls = c2
  BY <1>7
<1>9. DelHeap(d)
  BY <1>1, <1>5, <1>7, <1>8 DEF DelHeap
<1>10. f.t = c[n].t /\ f.i = c[n].i + 1
  BY DEF f
<1> QED
  BY <1>5, <1>8, <1>9, <1>10

(* ... and after the last the table is gone. *)
Ended(d, h) == d = [h EXCEPT !.tab[Last(h.calls).t] = NoTable, !.calls = Front(@)]

LEMMA EndIs ==
  ASSUME NEW h, DelHeap(h), h.calls # <<>>, NEW d, Ended(d, h)
  PROVE  /\ DelHeap(d)
         /\ d.ok = h.ok
         /\ Len(d.calls) = Len(h.calls) - 1
         /\ \A j \in 1 .. Len(h.calls) - 1 : d.calls[j] = h.calls[j]
         /\ d.tab[h.calls[Len(h.calls)].t] = NoTable
         /\ \A q \in Tables : q # h.calls[Len(h.calls)].t => d.tab[q] = h.tab[q]
<1> DEFINE c == h.calls
           n == Len(c)
           p == c[n].t
           t2 == [h.tab EXCEPT ![p] = NoTable]
           c2 == Front(c)
<1>1. h = [tab |-> h.tab, ok |-> h.ok, calls |-> c] /\ HeapOK(h.tab) /\ h.ok \in BOOLEAN
  BY DEF DelHeap
<1>2. c \in Seq(DelFrame) /\ n \in 1 .. n /\ n \in Nat /\ p \in Tables
  BY DelFacts DEF DelHeap
<1>3. Last(c).t = p
  BY DEF Last
<1>4. d = [h EXCEPT !.tab = t2, !.calls = c2]
  BY <1>3 DEF Ended
<1>5. HeapOK(t2) /\ t2[p] = NoTable /\ \A q \in Tables : q # p => t2[q] = h.tab[q]
  BY <1>1, <1>2, Freed, ZenonT(40)
<1>6. /\ c2 \in Seq(DelFrame)
      /\ Len(c2) = n - 1
      /\ \A j \in 1 .. n - 1 : c2[j] = c[j]
  <2> HIDE DEF c
  <2> QED BY <1>2, FrontFacts
<1> HIDE DEF t2, c2
<1>7. d = [tab |-> t2, ok |-> h.ok, calls |-> c2]
  BY <1>1, <1>4
<1>8. d.tab = t2 /\ d.ok = h.ok /\ d.calls = c2
  BY ONLY <1>7
<1>9. DelHeap(d)
  BY <1>1, <1>5, <1>6, <1>7, <1>8 DEF DelHeap
<1> QED
  BY <1>5, <1>6, <1>8, <1>9

LEMMA DeleteRunDef ==
  ASSUME NEW h, NEW a
  PROVE  /\ DeleteRun(h, a)[0] = Destroy(h, a)
         /\ \A n \in 1 .. MaxSteps : DeleteRun(h, a)[n] = DeleteStep(DeleteRun(h, a)[n - 1])
<1> DEFINE Eqn(f, k) == f = [n \in 0 .. k |-> IF n = 0 THEN Destroy(h, a) ELSE DeleteStep(f[n - 1])]
           T == {k \in 0 .. MaxSteps : \E f : Eqn(f, k)}
<1>1. MaxSteps \in Nat
  BY SizeAssumption
<1>2. 0 \in T
  <2>1. Eqn([n \in 0 .. 0 |-> Destroy(h, a)], 0)
    OBVIOUS
  <2> HIDE DEF Eqn
  <2> QED BY <1>1, <2>1
<1>3. ASSUME NEW k \in 1 .. MaxSteps, k - 1 \in T PROVE k \in T
  <2>1. PICK f : Eqn(f, k - 1)
    BY <1>3
  <2> DEFINE last == DeleteStep(f[k - 1])
             g == [n \in 0 .. k |-> IF n = k THEN last ELSE f[n]]
  <2>2. \A n \in 0 .. k - 1 : f[n] = IF n = 0 THEN Destroy(h, a) ELSE DeleteStep(f[n - 1])
    BY <2>1
  <2>3. \A n \in 0 .. k : g[n] = IF n = 0 THEN Destroy(h, a) ELSE DeleteStep(g[n - 1])
    <3> SUFFICES ASSUME NEW n \in 0 .. k
                 PROVE  g[n] = IF n = 0 THEN Destroy(h, a) ELSE DeleteStep(g[n - 1])
      OBVIOUS
    <3>1. CASE n = 0
      <4>1. 0 \in 0 .. k - 1 /\ 0 # k /\ 0 \in 0 .. k
        OBVIOUS
      <4>2. g[0] = f[0]
        BY <4>1
      <4>3. f[0] = Destroy(h, a)
        BY <2>2, <4>1
      <4> HIDE DEF g
      <4> QED BY <3>1, <4>2, <4>3
    <3>2. CASE n = k
      <4>1. g[n - 1] = f[k - 1] /\ n # 0
        BY <3>2
      <4>2. g[n] = last
        BY <3>2
      <4> HIDE DEF g
      <4> QED BY <4>1, <4>2
    <3>3. CASE n # 0 /\ n # k
      <4>1. n \in 0 .. k - 1 /\ n - 1 \in 0 .. k /\ n - 1 # k
        BY <3>3
      <4>2. g[n] = f[n] /\ g[n - 1] = f[n - 1]
        BY <3>3, <4>1
      <4>3. f[n] = DeleteStep(f[n - 1])
        BY <2>2, <3>3, <4>1
      <4> HIDE DEF g
      <4> QED BY <3>3, <4>2, <4>3
    <3> QED BY <3>1, <3>2, <3>3
  <2>4. g = [n \in 0 .. k |-> g[n]]
    OBVIOUS
  <2> HIDE DEF g
  <2>5. Eqn(g, k)
    BY <2>3, <2>4
  <2> HIDE DEF Eqn
  <2> QED BY <2>5
<1> HIDE DEF T
<1>4. \A k \in 0 .. MaxSteps : k \in T
  BY <1>1, <1>2, <1>3, UpToInduction
<1>5. PICK f : Eqn(f, MaxSteps)
  BY <1>1, <1>4 DEF T
<1> DEFINE run == DeleteRun(h, a)
<1>6. Eqn(run, MaxSteps)
  <2>1. run = CHOOSE x : Eqn(x, MaxSteps)
    BY DEF DeleteRun
  <2> HIDE DEF Eqn, run
  <2> QED BY <1>5, <2>1
<1> HIDE DEF run
<1>7. \A n \in 0 .. MaxSteps : run[n] = IF n = 0 THEN Destroy(h, a) ELSE DeleteStep(run[n - 1])
  BY <1>6
<1>8. 0 \in 0 .. MaxSteps /\ \A n \in 1 .. MaxSteps : n \in 0 .. MaxSteps /\ n # 0
  BY <1>1
<1>9. run[0] = Destroy(h, a) /\ \A n \in 1 .. MaxSteps : run[n] = DeleteStep(run[n - 1])
  BY <1>7, <1>8
<1> QED
  BY <1>9 DEF run

(* The innermost ~lmap is that of table p and has reached node i. *)
InLoop(h, p, i) ==
  /\ DelHeap(h) /\ h.calls # <<>> /\ h.ok
  /\ p = h.calls[Len(h.calls)].t /\ i = h.calls[Len(h.calls)].i
  /\ h.tab[p].live

(* What a turn of its loop can do. *)
Turn(h, p, i, d) ==
  LET nodes == Nodes(h.tab[p].map)
      next == [h EXCEPT !.calls = Advance(@)]
  IN  \/ /\ i > Len(nodes)
         /\ Ended(d, h)
      \/ /\ i \in 1 .. Len(nodes)
         /\ \/ d.ok = FALSE /\ ~Intact(nodes[i].v)
            \/ d = next /\ nodes[i].v.type # "UD"
            \/ \E x \in Tables : nodes[i].v = Held(LUd(x)) /\ d = release(next, x)

LEMMA DeleteStepIs ==
  ASSUME NEW h, NEW p \in Tables, NEW i \in Nat \ {0}, InLoop(h, p, i)
  PROVE  Turn(h, p, i, DeleteStep(h))
<1>0. PICK d, nodes, next : /\ d = DeleteStep(h)
                            /\ nodes = Nodes(h.tab[p].map)
                            /\ next = [h EXCEPT !.calls = Advance(@)]
  OBVIOUS
<1> SUFFICES \/ /\ i > Len(nodes)
                /\ Ended(d, h)
             \/ /\ i \in 1 .. Len(nodes)
                /\ \/ d.ok = FALSE /\ ~Intact(nodes[i].v)
                   \/ d = next /\ nodes[i].v.type # "UD"
                   \/ \E x \in Tables : nodes[i].v = Held(LUd(x)) /\ d = release(next, x)
  BY <1>0, Zenon DEF Turn
<1>a. /\ DelHeap(h) /\ h.calls # <<>> /\ h.ok
      /\ p = h.calls[Len(h.calls)].t /\ i = h.calls[Len(h.calls)].i
      /\ h.tab[p].live
  BY DEF InLoop
<1>1. Last(h.calls) = h.calls[Len(h.calls)]
  BY DEF Last
<1>2. d = IF i > Len(nodes) THEN [h EXCEPT !.tab[Last(h.calls).t] = NoTable, !.calls = Front(@)]
          ELSE IF nodes[i].v.ref = 1 THEN clear_value(next, nodes[i].v)
          ELSE next
  BY <1>0, <1>a, <1>1, Zenon DEF DeleteStep
<1>3. CASE i > Len(nodes)
  BY <1>2, <1>3 DEF Ended
<1>4. CASE ~(i > Len(nodes))
  <2> DEFINE w == nodes[i].v
  <2>1. NodesAgree(h.tab[p].map, MapKeys, MapValues)
    <3> DEFINE tb == h.tab
               m == tb[p].map
    <3>1. HeapOK(tb) /\ tb[p].live
      BY <1>a DEF DelHeap
    <3> HIDE DEF tb
    <3>2. MapOK(m, MapKeys, MapValues)
      BY ONLY <3>1, TableFacts, p \in Tables
    <3> HIDE DEF m
    <3>3. NodesAgree(m, MapKeys, MapValues)
      BY <3>2, NodesOK, MapKeysFit
    <3> QED BY <3>3 DEF m, tb
  <2>a. NodesAgree(h.tab[p].map, MapKeys, MapValues) /\ nodes = Nodes(h.tab[p].map)
    BY <1>0, <2>1
  <2>2. Len(nodes) \in Nat
    <3>1. nodes \in Seq(NodeSet(MapKeys, MapValues))
      BY <2>a DEF NodesAgree
    <3> QED BY ONLY <3>1
  <2>3. i \in 1 .. Len(nodes)
    BY <1>4, <2>2
  <2>4. w \in MapValues
    BY <2>a, <2>3 DEF NodesAgree
  <2>5. w.ref = 1
    BY <2>4, ValueFacts
  <2>6. d = clear_value(next, w)
    BY <1>2, <1>4, <2>5
  <2>7. next.ok = h.ok /\ [next EXCEPT !.ok = FALSE].ok = FALSE
    <3>1. DelHeap(next)
      BY <1>0, <1>a, AdvanceIs
    <3>2. next = [tab |-> next.tab, ok |-> next.ok, calls |-> next.calls]
      BY <3>1 DEF DelHeap
    <3>3. next.ok = h.ok
      BY <1>0, <1>a, AdvanceIs
    <3> QED BY ONLY <3>2, <3>3
  <2> HIDE DEF w
  <2>8. CASE w.type \in {"STRING", "UD"} /\ ~Intact(w)
    <3>1. d = [next EXCEPT !.ok = FALSE]
      BY <2>6, <2>8 DEF clear_value
    <3> QED BY <2>3, <2>7, <2>8, <3>1 DEF w
  <2>9. CASE w.type = "UD" /\ Intact(w)
    <3>1. d = release(next, w.v.x)
      BY <2>6, <2>9 DEF clear_value
    <3>2. w.v.t = "lightuserdata"
      <4>1. w.v \in Storable
        BY <2>4, ValueFacts
      <4> QED BY <2>9, <4>1, TypeFacts DEF Intact, Storable
    <3>3. w.v.x \in Tables /\ w = Held(LUd(w.v.x))
      BY <2>4, <2>9, <3>2, SubTable
    <3> QED BY <2>3, <3>1, <3>3 DEF w
  <2>10. CASE w.type # "UD" /\ ~(w.type \in {"STRING", "UD"} /\ ~Intact(w))
    <3>1. d = next
      BY <2>6, <2>10 DEF clear_value
    <3> QED BY <2>3, <2>10, <3>1 DEF w
  <2> QED BY <2>8, <2>9, <2>10
<1> QED
  BY <1>3, <1>4

LEMMA ReleaseIs ==
  ASSUME NEW h, DelHeap(h), NEW x \in Tables, NEW d, d = release(h, x)
  PROVE  \/ ~h.tab[x].live /\ d.ok = FALSE
         \/ /\ h.tab[x].live /\ h.tab[x].ref # 1
            /\ DelHeap(d)
            /\ d.ok = h.ok /\ d.calls = h.calls
            /\ RefPut(d.tab, h.tab, x, h.tab[x].ref - 1)
         \/ h.tab[x].live /\ h.tab[x].ref = 1 /\ d = Destroy(h, x)
<1>1. /\ h = [tab |-> h.tab, ok |-> h.ok, calls |-> h.calls] /\ HeapOK(h.tab) /\ h.ok \in BOOLEAN
      /\ h.calls \in Seq(DelFrame)
  BY DEF DelHeap
<1>2. h.tab[x].ref \in Int
  <2> DEFINE tb == h.tab
  <2> HIDE DEF tb
  <2>1. tb[x].ref \in Int
    BY <1>1, TableFacts DEF tb
  <2> QED BY <2>1 DEF tb
<1>3. CASE ~h.tab[x].live
  <2>1. d = [h EXCEPT !.ok = FALSE]
    BY <1>3 DEF release
  <2>2. d.ok = FALSE
    BY ONLY <1>1, <2>1
  <2> QED BY <1>3, <2>2
<1>4. CASE h.tab[x].live /\ h.tab[x].ref = 1
  <2>1. ~(h.tab[x].ref - 1 # 0)
    BY ONLY <1>4
  <2>2. d = Destroy(h, x)
    BY <1>4, <2>1 DEF release
  <2> QED BY ONLY <1>4, <2>2
<1>5. CASE h.tab[x].live /\ h.tab[x].ref # 1
  <2> DEFINE n == h.tab[x].ref - 1
             t2 == [h.tab EXCEPT ![x].ref = n]
  <2>1. n # 0 /\ n \in Int
    BY ONLY <1>2, <1>5
  <2>2. d = [h EXCEPT !.tab = t2]
    BY <1>5, <2>1 DEF release
  <2>3. RefPut(t2, h.tab, x, n)
    BY DEF RefPut
  <2> HIDE DEF n, t2
  <2>4. HeapOK(t2)
    <3> DEFINE tb == h.tab
    <3>1. HeapOK(tb) /\ tb[x].live /\ RefPut(t2, tb, x, n)
      BY <1>1, <1>5, <2>3
    <3> HIDE DEF tb
    <3> QED BY <2>1, <3>1, RefSet
  <2>5. d = [tab |-> t2, ok |-> h.ok, calls |-> h.calls]
    BY ONLY <1>1, <2>2
  <2>6. d.tab = t2 /\ d.ok = h.ok /\ d.calls = h.calls
    BY ONLY <2>5
  <2>7. DelHeap(d)
    BY ONLY <1>1, <2>4, <2>5, <2>6 DEF DelHeap
  <2> QED BY <1>5, <2>3, <2>6, <2>7 DEF n
<1> QED
  BY <1>3, <1>4, <1>5

(* Every table is counted once, but for those that are being destroyed.     *)
Counts(h) ==
  /\ \A j, l \in 1 .. Len(h.calls) : h.calls[j].t = h.calls[l].t => j = l
  /\ \A b \in Tables :
       /\ Dying(h, b) => h.tab[b].live /\ h.tab[b].ref <= 0
       /\ ~Dying(h, b) => h.tab[b].ref = IF h.tab[b].live THEN 1 ELSE 0

DelTyped(h) == h.ok = FALSE \/ (DelHeap(h) /\ Counts(h))

LEMMA EndDying ==
  ASSUME NEW h, DelHeap(h), Counts(h), h.calls # <<>>, NEW d, Ended(d, h),
         NEW p, p = h.calls[Len(h.calls)].t
  PROVE  \A b : Dying(d, b) <=> Dying(h, b) /\ b # p
<1> DEFINE l == Len(h.calls)
<1>1. /\ Len(d.calls) = l - 1
      /\ \A j \in 1 .. l - 1 : d.calls[j] = h.calls[j]
  BY EndIs
<1>2. l \in Nat /\ l \in 1 .. l /\ h.calls[l].t = p
  BY DelFacts
<1>3. \A j, k \in 1 .. l : h.calls[j].t = h.calls[k].t => j = k
  BY DEF Counts
<1> HIDE DEF l
<1> SUFFICES ASSUME NEW b PROVE Dying(d, b) <=> Dying(h, b) /\ b # p
  OBVIOUS
<1>4. \A j \in 1 .. l : j = l \/ j \in 1 .. l - 1
  BY <1>2
<1>5. \A j \in 1 .. l - 1 : j \in 1 .. l /\ j # l
  BY <1>2
<1>6. \A j \in 1 .. l - 1 : h.calls[j].t # p
  BY <1>2, <1>3, <1>5
<1>7. Dying(d, b) <=> \E j \in 1 .. l - 1 : h.calls[j].t = b
  BY <1>1 DEF Dying
<1>8. Dying(h, b) <=> \E j \in 1 .. l : h.calls[j].t = b
  BY DEF Dying, l
<1> QED
  BY <1>2, <1>4, <1>5, <1>6, <1>7, <1>8

LEMMA DestroyDying ==
  ASSUME NEW h, DelHeap(h), NEW a \in Tables, h.tab[a].live
  PROVE  \A b : Dying(Destroy(h, a), b) <=> Dying(h, b) \/ b = a
<1> DEFINE d == Destroy(h, a)
           l == Len(h.calls)
<1>1. /\ Len(d.calls) = l + 1
      /\ \A j \in 1 .. l : d.calls[j] = h.calls[j]
      /\ d.calls[l + 1].t = a
  BY DestroyIs
<1>2. l \in Nat
  BY DelFacts
<1> HIDE DEF d, l
<1> SUFFICES ASSUME NEW b PROVE Dying(d, b) <=> Dying(h, b) \/ b = a
  BY DEF d
<1>3. \A i \in 1 .. l + 1 : i = l + 1 \/ i \in 1 .. l
  BY <1>2
<1>4. l + 1 \in 1 .. l + 1 /\ \A i \in 1 .. l : i \in 1 .. l + 1
  BY <1>2
<1> QED
  BY <1>1, <1>3, <1>4 DEF Dying, l

LEMMA DestroyCounts ==
  ASSUME NEW h, DelHeap(h), Counts(h), NEW a \in Tables, h.tab[a].live, h.tab[a].ref = 1
  PROVE  DelTyped(Destroy(h, a))
<1> DEFINE d == Destroy(h, a)
           l == Len(h.calls)
           tb == h.tab
           t2 == d.tab
<1>1. /\ DelHeap(d) /\ Len(d.calls) = l + 1
      /\ \A j \in 1 .. l : d.calls[j] = h.calls[j]
      /\ d.calls[l + 1].t = a
      /\ RefPut(t2, tb, a, 0)
  BY DestroyIs
<1>2. l \in Nat
  BY DelFacts
<1> HIDE DEF d, l
<1>3. ~Dying(h, a)
  BY DEF Counts
<1>4. ASSUME NEW j \in 1 .. l + 1, NEW k \in 1 .. l + 1, d.calls[j].t = d.calls[k].t PROVE j = k
  <2>1. \A i \in 1 .. l : h.calls[i].t # a
    BY <1>3 DEF Dying, l
  <2>2. \A i \in 1 .. l + 1 : i = l + 1 \/ i \in 1 .. l
    BY <1>2
  <2>3. \A i, n \in 1 .. l : h.calls[i].t = h.calls[n].t => i = n
    BY DEF Counts, l
  <2> QED BY <1>1, <1>4, <2>1, <2>2, <2>3
<1>5. \A b : Dying(d, b) <=> Dying(h, b) \/ b = a
  BY DestroyDying DEF d
<1>6. HeapOK(tb) /\ 0 \in Int
  BY DEF DelHeap
<1>7. /\ t2[a].live /\ t2[a].ref = 0
      /\ \A q \in Tables : q # a => t2[q] = tb[q]
  <2> HIDE DEF tb, t2
  <2>1. tb[a].live
    BY DEF tb
  <2>2. /\ t2[a].ref = 0
        /\ \A q \in Tables : t2[q].live = tb[q].live /\ (q # a => t2[q] = tb[q])
    BY ONLY <1>1, <1>6, <2>1, RefSet
  <2>3. t2[a].live = tb[a].live
    BY <2>2
  <2>4. t2[a].live
    BY ONLY <2>1, <2>3
  <2> QED BY <2>2, <2>4
<1>8. ASSUME NEW b \in Tables
      PROVE  /\ Dying(d, b) => d.tab[b].live /\ d.tab[b].ref <= 0
             /\ ~Dying(d, b) => d.tab[b].ref = IF d.tab[b].live THEN 1 ELSE 0
  <2>1. CASE b = a
    BY <1>5, <1>7, <2>1
  <2>2. CASE b # a
    BY <1>5, <1>7, <2>2 DEF Counts
  <2> QED BY <2>1, <2>2
<1> QED
  BY <1>1, <1>4, <1>8 DEF DelTyped, Counts, d

LEMMA DeleteStepTyped ==
  ASSUME NEW h, DelTyped(h)
  PROVE  DelTyped(DeleteStep(h))
<1> DEFINE d == DeleteStep(h)
           l == Len(h.calls)
           p == h.calls[l].t
           i == h.calls[l].i
           nodes == Nodes(h.tab[p].map)
           next == [h EXCEPT !.calls = Advance(@)]
<1>1. CASE h.calls = <<>> \/ ~h.ok
  BY <1>1 DEF DeleteStep
<1>2. CASE h.calls # <<>> /\ h.ok
  <2>1. DelHeap(h) /\ Counts(h)
    BY <1>2 DEF DelTyped
  <2>2. l \in Nat /\ l \in 1 .. l /\ p \in Tables /\ i \in Nat \ {0}
    BY <1>2, <2>1, DelFacts
  <2>3. h.tab[p].live
    BY <2>1, <2>2 DEF Counts, Dying
  <2>4. \/ Ended(d, h)
        \/ d.ok = FALSE
        \/ d = next
        \/ \E x \in Tables : d = release(next, x)
    <3>1. InLoop(h, p, i)
      BY <1>2, <2>1, <2>3 DEF InLoop
    <3> HIDE DEF p, i
    <3>2. Turn(h, p, i, DeleteStep(h))
      BY <2>2, <3>1, DeleteStepIs
    <3> QED BY <3>2, Zenon DEF Turn
  <2>5. /\ DelHeap(next) /\ next.ok = h.ok /\ next.tab = h.tab
        /\ Len(next.calls) = l
        /\ \A j \in 1 .. l : next.calls[j].t = h.calls[j].t
    BY <1>2, <2>1, AdvanceIs, ZenonT(40)
  <2> HIDE DEF d, next
  <2>6. Counts(next)
    <3>1. \A b : Dying(next, b) <=> Dying(h, b)
      BY ONLY <2>5 DEF Dying
    <3> QED BY ONLY <2>1, <2>5, <3>1 DEF Counts
  <2>7. CASE d.ok = FALSE
    BY <2>7 DEF DelTyped, d
  <2>8. CASE d = next
    BY <2>5, <2>6, <2>8 DEF DelTyped, d
  <2>9. CASE Ended(d, h)
    <3>1. /\ DelHeap(d)
          /\ Len(d.calls) = l - 1
          /\ \A j \in 1 .. l - 1 : d.calls[j] = h.calls[j]
          /\ d.tab[p] = NoTable
          /\ \A q \in Tables : q # p => d.tab[q] = h.tab[q]
      <4>1. h.calls # <<>>
        BY <1>2
      <4>2. /\ DelHeap(d)
            /\ Len(d.calls) = Len(h.calls) - 1
            /\ \A j \in 1 .. Len(h.calls) - 1 : d.calls[j] = h.calls[j]
            /\ d.tab[h.calls[Len(h.calls)].t] = NoTable
            /\ \A q \in Tables : q # h.calls[Len(h.calls)].t => d.tab[q] = h.tab[q]
        BY ONLY <2>1, <2>9, <4>1, EndIs
      <4> QED BY <4>2
    <3>2. ~NoTable.live /\ NoTable.ref = 0
      <4>1. HeapOK(h.tab)
        BY <2>1 DEF DelHeap
      <4> QED BY ONLY <4>1, <2>2, TableFacts
    <3> HIDE DEF l
    <3>3. \A b : Dying(d, b) <=> Dying(h, b) /\ b # p
      <4> HIDE DEF p
      <4>1. p = h.calls[Len(h.calls)].t
        BY DEF p, l
      <4> QED BY <1>2, <2>1, <2>9, <4>1, EndDying
    <3>4. \A j, k \in 1 .. l - 1 : d.calls[j].t = d.calls[k].t => j = k
      <4>1. \A j \in 1 .. l - 1 : j \in 1 .. l
        BY <2>2
      <4> QED BY <2>1, <3>1, <4>1 DEF Counts, l
    <3>5. ASSUME NEW b \in Tables
          PROVE  /\ Dying(d, b) => d.tab[b].live /\ d.tab[b].ref <= 0
                 /\ ~Dying(d, b) => d.tab[b].ref = IF d.tab[b].live THEN 1 ELSE 0
      <4> HIDE DEF p
      <4>1. CASE b = p
        BY <3>1, <3>2, <3>3, <4>1
      <4>2. CASE b # p
        BY <2>1, <3>1, <3>3, <4>2 DEF Counts
      <4> QED BY <4>1, <4>2
    <3> QED BY <3>1, <3>4, <3>5 DEF DelTyped, Counts, d
  <2>10. CASE \E x \in Tables : d = release(next, x)
    <3>1. PICK x \in Tables : d = release(next, x)
      BY <2>10
    <3>2. \/ d.ok = FALSE
          \/ /\ next.tab[x].live /\ next.tab[x].ref # 1
             /\ DelHeap(d)
             /\ d.ok = next.ok /\ d.calls = next.calls
             /\ RefPut(d.tab, next.tab, x, next.tab[x].ref - 1)
          \/ next.tab[x].live /\ next.tab[x].ref = 1 /\ d = Destroy(next, x)
      BY <2>5, <3>1, ReleaseIs
    <3>3. CASE next.tab[x].live /\ next.tab[x].ref = 1 /\ d = Destroy(next, x)
      BY <2>5, <2>6, <3>3, DestroyCounts DEF d
    <3>4. CASE /\ next.tab[x].live /\ next.tab[x].ref # 1
               /\ DelHeap(d)
               /\ d.ok = next.ok /\ d.calls = next.calls
               /\ RefPut(d.tab, next.tab, x, next.tab[x].ref - 1)
      <4> DEFINE tb == next.tab
                 t2 == d.tab
                 less == tb[x].ref - 1
      <4>1. HeapOK(tb) /\ tb[x].live /\ RefPut(t2, tb, x, less) /\ tb[x].ref # 1
        BY <2>5, <3>4 DEF DelHeap
      <4>2. /\ Dying(next, x)
            /\ tb[x].ref <= 0
        BY <2>6, <4>1 DEF Counts
      <4>3. tb[x].ref \in Int
        <5> HIDE DEF tb, less
        <5> QED BY <4>1, TableFacts
      <4>4. less \in Int /\ less <= 0
        BY <4>2, <4>3
      <4>5. /\ t2[x].ref = less /\ t2[x].live = tb[x].live
            /\ \A q \in Tables : q # x => t2[q] = tb[q]
        <5> HIDE DEF tb, t2, less
        <5>1. /\ t2[x].ref = less
              /\ \A q \in Tables : t2[q].live = tb[q].live /\ (q # x => t2[q] = tb[q])
          BY ONLY <3>1, <4>1, <4>4, RefSet
        <5> QED BY <3>1, <5>1
      <4>6. \A b : Dying(d, b) <=> Dying(next, b)
        BY <3>4 DEF Dying
      <4> HIDE DEF less
      <4>7. ASSUME NEW b \in Tables
            PROVE  /\ Dying(d, b) => d.tab[b].live /\ d.tab[b].ref <= 0
                   /\ ~Dying(d, b) => d.tab[b].ref = IF d.tab[b].live THEN 1 ELSE 0
        <5>1. CASE b = x
          BY <4>1, <4>2, <4>4, <4>5, <4>6, <5>1
        <5>2. CASE b # x
          BY <2>6, <4>5, <4>6, <5>2 DEF Counts
        <5> QED BY <5>1, <5>2
      <4>8. \A j, k \in 1 .. Len(d.calls) : d.calls[j].t = d.calls[k].t => j = k
        BY <2>6, <3>4 DEF Counts
      <4> QED BY <3>4, <4>7, <4>8 DEF DelTyped, Counts, d
    <3> QED BY <2>7, <3>2, <3>3, <3>4
  <2> QED BY <2>4, <2>7, <2>8, <2>9, <2>10
<1> QED
  BY <1>1, <1>2 DEF DelTyped

(* Node i of table p is the table x. *)
HoldsAt(g, p, i, x) ==
  /\ g[p].live
  /\ i \in 1 .. Len(Nodes(g[p].map))
  /\ Nodes(g[p].map)[i].v = Held(LUd(x))

LEMMA HoldsAtFacts ==
  ASSUME NEW g, HeapOK(g), NEW p \in Tables
  PROVE  /\ \A i, x : HoldsAt(g, p, i, x) => x \in Stored(g, p)
         /\ \A x \in Stored(g, p) : \E i : HoldsAt(g, p, i, x)
         /\ \A i, x : HoldsAt(g, p, i, x) => \E k \in MapKeys :
              Holds(g, p, k, x) /\ NodeKey(Nodes(g[p].map)[i]) = k
         /\ \A i, j, x, y : /\ HoldsAt(g, p, i, x) /\ HoldsAt(g, p, j, y)
                            /\ NodeKey(Nodes(g[p].map)[i]) = NodeKey(Nodes(g[p].map)[j])
                            => i = j
<1>1. CASE ~g[p].live
  BY <1>1, StoredIs DEF HoldsAt
<1>2. CASE g[p].live
  <2> DEFINE m == g[p].map
             nodes == Nodes(m)
  <2>1. MapOK(m, MapKeys, MapValues)
    BY <1>2, TableFacts
  <2>2. NodesAgree(m, MapKeys, MapValues)
    <3> HIDE DEF m
    <3> QED BY <2>1, NodesOK, MapKeysFit
  <2>3. /\ \A i \in 1 .. Len(nodes) :
             /\ NodeKey(nodes[i]) \in MapKeys
             /\ Search(m, NodeKey(nodes[i])) = nodes[i].v
        /\ \A i, j \in 1 .. Len(nodes) : NodeKey(nodes[i]) = NodeKey(nodes[j]) => i = j
        /\ \A key \in MapKeys : \/ Search(m, key) = NilValue
                                \/ \E i \in 1 .. Len(nodes) : NodeKey(nodes[i]) = key
    BY <2>2 DEF NodesAgree
  <2>4. \A i, x : HoldsAt(g, p, i, x) <=> i \in 1 .. Len(nodes) /\ nodes[i].v = Held(LUd(x))
    BY <1>2 DEF HoldsAt
  <2>5. \A k, x : Holds(g, p, k, x) <=> Search(m, k) = Held(LUd(x))
    BY <1>2 DEF Holds
  <2> HIDE DEF nodes, m
  <2>6. ASSUME NEW i, NEW x, HoldsAt(g, p, i, x)
        PROVE  x \in Stored(g, p) /\ \E k \in MapKeys : Holds(g, p, k, x) /\ NodeKey(nodes[i]) = k
    <3>1. Holds(g, p, NodeKey(nodes[i]), x) /\ NodeKey(nodes[i]) \in MapKeys
      BY <2>3, <2>4, <2>5, <2>6
    <3> QED BY <3>1, StoredIs
  <2>7. ASSUME NEW x \in Stored(g, p) PROVE \E i : HoldsAt(g, p, i, x)
    <3>1. PICK k \in MapKeys : Holds(g, p, k, x)
      BY <2>7, StoredIs
    <3>2. Search(m, k) # NilValue
      BY <2>5, <3>1, LUdFacts
    <3>3. PICK i \in 1 .. Len(nodes) : NodeKey(nodes[i]) = k
      BY <2>3, <3>2
    <3>4. nodes[i].v = Held(LUd(x))
      BY <2>3, <2>5, <3>1, <3>3
    <3> QED BY <2>4, <3>4
  <2>8. \A i, j, x, y : /\ HoldsAt(g, p, i, x) /\ HoldsAt(g, p, j, y)
                        /\ NodeKey(nodes[i]) = NodeKey(nodes[j])
                        => i = j
    BY <2>3, <2>4
  <2> QED BY <2>6, <2>7, <2>8 DEF nodes, m
<1> QED
  BY <1>1, <1>2

LEMMA HoldsAtOnce ==
  ASSUME NEW g, HeapOK(g), OneOwner(g), NEW p \in Tables, NEW q \in Tables, NEW x,
         NEW i, NEW j, HoldsAt(g, p, i, x), HoldsAt(g, q, j, x)
  PROVE  p = q /\ i = j
<1>1. PICK k \in MapKeys : Holds(g, p, k, x) /\ NodeKey(Nodes(g[p].map)[i]) = k
  BY HoldsAtFacts
<1>2. PICK l \in MapKeys : Holds(g, q, l, x) /\ NodeKey(Nodes(g[q].map)[j]) = l
  BY HoldsAtFacts
<1>3. x \in Tables
  BY HoldsAtFacts, StoredIs
<1>4. p = q /\ k = l
  BY <1>1, <1>2, <1>3 DEF OneOwner
<1>5. i = j
  <2>1. HoldsAt(g, p, j, x) /\ NodeKey(Nodes(g[p].map)[i]) = NodeKey(Nodes(g[p].map)[j])
    BY <1>1, <1>2, <1>4
  <2> QED BY <2>1, HoldsAtFacts
<1> QED
  BY <1>4, <1>5

(* The tables of heap g that the delete has come to, and the nodes it is    *)
(* past.                                                                    *)
Visited(h, g, b) == g[b].live /\ (h.tab[b].live => Dying(h, b))

Passed(h, p, i) ==
  h.tab[p].live => \E j \in 1 .. Len(h.calls) : h.calls[j].t = p /\ i < h.calls[j].i

(* The delete of table a is under way in heap g: what it has not come to is *)
(* as it was, and it has come to table a and the tables in the nodes it is  *)
(* past, and to no other.                                                   *)
DelTree(h, g, a) ==
  /\ Visited(h, g, a)
  /\ \A x \in Tables : Visited(h, g, x) =>
       \/ x = a
       \/ \E p \in Tables, i \in Nat : Visited(h, g, p) /\ HoldsAt(g, p, i, x) /\ Passed(h, p, i)
  /\ \A p, x \in Tables, i \in Nat :
       Visited(h, g, p) /\ HoldsAt(g, p, i, x) /\ Passed(h, p, i) => Visited(h, g, x)
  /\ \A C \in SUBSET Tables : a \in C /\ ClosedIn(g, C) =>
       \A x \in Tables : Visited(h, g, x) => x \in C

DelInv(h, g, a) ==
  /\ DelHeap(h) /\ h.ok /\ Counts(h)
  /\ \A b \in Tables : h.tab[b].live => g[b].live /\ h.tab[b].map = g[b].map
  /\ DelTree(h, g, a)

(* What is given when a script without misuse deletes table a. *)
Deletable(g, a) ==
  /\ HeapOK(g) /\ Tree(g)
  /\ \A b \in Tables : g[b].ref = IF g[b].live THEN 1 ELSE 0
  /\ g[a].live
  /\ \A b \in Tables : a \notin Stored(g, b)

LEMMA DelTreeSame ==
  ASSUME NEW g, NEW a \in Tables, NEW h, DelTree(h, g, a), NEW d,
         \A b \in Tables : Visited(d, g, b) <=> Visited(h, g, b),
         \A p, x \in Tables, i \in Nat :
           HoldsAt(g, p, i, x) => (Passed(d, p, i) <=> Passed(h, p, i))
  PROVE  DelTree(d, g, a)
<1>1. Visited(d, g, a)
  BY DEF DelTree
<1>2. ASSUME NEW x \in Tables, Visited(d, g, x)
      PROVE  \/ x = a
             \/ \E p \in Tables, i \in Nat : Visited(d, g, p) /\ HoldsAt(g, p, i, x) /\ Passed(d, p, i)
  <2>1. \/ x = a
        \/ \E p \in Tables, i \in Nat : Visited(h, g, p) /\ HoldsAt(g, p, i, x) /\ Passed(h, p, i)
    BY <1>2 DEF DelTree
  <2> QED BY <2>1
<1>3. \A p, x \in Tables, i \in Nat :
        Visited(d, g, p) /\ HoldsAt(g, p, i, x) /\ Passed(d, p, i) => Visited(d, g, x)
  BY DEF DelTree
<1>4. \A C \in SUBSET Tables : a \in C /\ ClosedIn(g, C) =>
        \A x \in Tables : Visited(d, g, x) => x \in C
  BY DEF DelTree
<1> QED
  BY <1>1, <1>2, <1>3, <1>4 DEF DelTree

LEMMA DelTreeMore ==
  ASSUME NEW g, HeapOK(g), OneOwner(g), NEW a \in Tables, NEW h, DelTree(h, g, a), NEW d,
         NEW p \in Tables, NEW i \in Nat, NEW x \in Tables, HoldsAt(g, p, i, x),
         Visited(h, g, p), ~Visited(h, g, x),
         \A b \in Tables : Visited(d, g, b) <=> Visited(h, g, b) \/ b = x,
         \A q, y \in Tables, n \in Nat :
           HoldsAt(g, q, n, y) =>
             (Visited(d, g, q) /\ Passed(d, q, n) <=>
                \/ Visited(h, g, q) /\ Passed(h, q, n)
                \/ q = p /\ n = i)
  PROVE  DelTree(d, g, a)
<1>1. Visited(d, g, a)
  BY DEF DelTree
<1>2. ASSUME NEW z \in Tables, Visited(d, g, z)
      PROVE  \/ z = a
             \/ \E q \in Tables, n \in Nat : Visited(d, g, q) /\ HoldsAt(g, q, n, z) /\ Passed(d, q, n)
  <2>1. CASE z = x
    BY <2>1
  <2>2. CASE z # x
    <3>1. \/ z = a
          \/ \E q \in Tables, n \in Nat : Visited(h, g, q) /\ HoldsAt(g, q, n, z) /\ Passed(h, q, n)
      BY <1>2, <2>2 DEF DelTree
    <3> QED BY <3>1
  <2> QED BY <2>1, <2>2
<1>3. ASSUME NEW q \in Tables, NEW y \in Tables, NEW n \in Nat,
             Visited(d, g, q), HoldsAt(g, q, n, y), Passed(d, q, n)
      PROVE  Visited(d, g, y)
  <2>1. \/ Visited(h, g, q) /\ Passed(h, q, n)
        \/ q = p /\ n = i
    BY <1>3
  <2>2. CASE Visited(h, g, q) /\ Passed(h, q, n)
    BY <1>3, <2>2 DEF DelTree
  <2>3. CASE q = p /\ n = i
    <3>1. Held(LUd(y)) = Held(LUd(x))
      BY <1>3, <2>3 DEF HoldsAt
    <3> QED BY <3>1, LUdFacts
  <2> QED BY <2>1, <2>2, <2>3
<1>4. ASSUME NEW C \in SUBSET Tables, a \in C, ClosedIn(g, C), NEW z \in Tables, Visited(d, g, z)
      PROVE  z \in C
  <2>1. p \in C
    BY <1>4 DEF DelTree
  <2>2. x \in C
    BY <1>4, <2>1, HoldsAtFacts DEF ClosedIn
  <2>3. Visited(h, g, z) => z \in C
    BY <1>4 DEF DelTree
  <2> QED BY <1>4, <2>2, <2>3
<1> QED
  BY <1>1, <1>2, <1>3, <1>4 DEF DelTree

LEMMA AdvancePassed ==
  ASSUME NEW h, DelHeap(h), Counts(h), h.calls # <<>>,
         NEW d, d = [h EXCEPT !.calls = Advance(@)],
         NEW p, NEW i, p = h.calls[Len(h.calls)].t, i = h.calls[Len(h.calls)].i
  PROVE  /\ \A b : Dying(d, b) <=> Dying(h, b)
         /\ \A q \in Tables, n \in Nat : Passed(d, q, n) <=> Passed(h, q, n) \/ (q = p /\ n = i)
<1> DEFINE l == Len(h.calls)
<1>1. /\ d.tab = h.tab /\ Len(d.calls) = l
      /\ \A j \in 1 .. l :
           /\ d.calls[j].t = h.calls[j].t
           /\ d.calls[j].i = IF j = l THEN h.calls[j].i + 1 ELSE h.calls[j].i
  BY AdvanceIs, ZenonT(40)
<1>2. l \in Nat /\ l \in 1 .. l /\ h.calls[l].t = p /\ h.calls[l].i = i /\ i \in Nat \ {0} /\ p \in Tables
  BY DelFacts
<1>3. \A j \in 1 .. l : h.calls[j].t = p => j = l
  BY <1>2 DEF Counts
<1>4. \A b : Dying(h, b) <=> \E j \in 1 .. l : h.calls[j].t = b
  BY DEF Dying
<1> HIDE DEF l
<1>5. \A q, n : Passed(h, q, n) <=>
        (h.tab[q].live => \E j \in 1 .. l : h.calls[j].t = q /\ n < h.calls[j].i)
  <2>1. l = Len(h.calls)
    BY DEF l
  <2> QED BY ONLY <2>1 DEF Passed
<1>6. \A b : Dying(d, b) <=> Dying(h, b)
  <2>1. \A b : Dying(d, b) <=> \E j \in 1 .. l : d.calls[j].t = b
    BY ONLY <1>1 DEF Dying
  <2> QED BY ONLY <1>1, <1>4, <2>1
<1>7. h.tab[p].live
  BY <1>2, <1>4 DEF Counts
<1>8. ASSUME NEW q \in Tables, NEW n \in Nat
      PROVE  Passed(d, q, n) <=> Passed(h, q, n) \/ (q = p /\ n = i)
  <2>1. Passed(d, q, n) <=>
          (h.tab[q].live => \E j \in 1 .. l : d.calls[j].t = q /\ n < d.calls[j].i)
    BY ONLY <1>1 DEF Passed
  <2>2. CASE q = p
    <3>1. Passed(h, q, n) <=> n < i
      BY ONLY <1>2, <1>3, <1>5, <1>7, <2>2
    <3>2. d.calls[l].i = i + 1 /\ d.calls[l].t = p
      BY ONLY <1>1, <1>2
    <3>3. \A j \in 1 .. l : d.calls[j].t = p => j = l
      BY ONLY <1>1, <1>3
    <3>4. Passed(d, q, n) <=> n < i + 1
      BY ONLY <1>2, <1>7, <2>1, <2>2, <3>2, <3>3
    <3> QED BY ONLY <1>2, <2>2, <3>1, <3>4, n \in Nat
  <2>3. CASE q # p
    <3>1. \A j \in 1 .. l : h.calls[j].t = q => j # l
      BY ONLY <1>2, <2>3
    <3>2. \A j \in 1 .. l : /\ d.calls[j].t = q <=> h.calls[j].t = q
                            /\ h.calls[j].t = q => d.calls[j].i = h.calls[j].i
      BY ONLY <1>1, <3>1
    <3> QED BY ONLY <1>5, <2>1, <2>3, <3>2
  <2> QED BY <2>2, <2>3
<1> QED
  BY <1>6, <1>8

LEMMA DeleteStepTree ==
  ASSUME NEW g, NEW a \in Tables, Deletable(g, a), NEW h, DelInv(h, g, a)
  PROVE  DelInv(DeleteStep(h), g, a)
<1> DEFINE d == DeleteStep(h)
           l == Len(h.calls)
           p == h.calls[l].t
           i == h.calls[l].i
           nodes == Nodes(g[p].map)
           next == [h EXCEPT !.calls = Advance(@)]
<1>1. CASE h.calls = <<>>
  BY <1>1 DEF DeleteStep
<1>2. CASE h.calls # <<>>
  <2>1. DelHeap(h) /\ h.ok /\ Counts(h) /\ DelTree(h, g, a)
    BY DEF DelInv
  <2>2. l \in Nat /\ l \in 1 .. l /\ p \in Tables /\ i \in Nat \ {0} /\ i \in Nat
    BY <1>2, <2>1, DelFacts
  <2>3. h.tab[p].live /\ Dying(h, p)
    BY <2>1, <2>2 DEF Counts, Dying
  <2>4. g[p].live /\ h.tab[p].map = g[p].map
    BY <2>2, <2>3 DEF DelInv
  <2>5. Visited(h, g, p)
    BY <2>3, <2>4 DEF Visited
  <2>6. NodesAgree(g[p].map, MapKeys, MapValues)
    <3> HIDE DEF p
    <3> QED BY <2>2, <2>4, LiveNodes DEF Deletable
  <2>7. \/ i > Len(nodes) /\ Ended(d, h)
        \/ /\ i \in 1 .. Len(nodes)
           /\ \/ d.ok = FALSE /\ ~Intact(nodes[i].v)
              \/ d = next /\ nodes[i].v.type # "UD"
              \/ \E x \in Tables : nodes[i].v = Held(LUd(x)) /\ d = release(next, x)
    <3>1. InLoop(h, p, i)
      BY <1>2, <2>1, <2>3 DEF InLoop
    <3> HIDE DEF p, i
    <3>2. Turn(h, p, i, DeleteStep(h))
      BY <2>2, <3>1, DeleteStepIs
    <3> QED BY <2>4, <3>2, Zenon DEF Turn
  <2>8. /\ DelHeap(next) /\ next.ok = h.ok /\ next.tab = h.tab
        /\ Len(next.calls) = l
    BY <1>2, <2>1, AdvanceIs
  <2>9. DelTyped(d)
    BY <2>1, DeleteStepTyped DEF DelTyped
  <2>10. /\ \A b : Dying(next, b) <=> Dying(h, b)
         /\ \A q \in Tables, n \in Nat :
              Passed(next, q, n) <=> Passed(h, q, n) \/ (q = p /\ n = i)
    BY <1>2, <2>1, AdvancePassed
  <2> HIDE DEF d, next
  <2>11. CASE i > Len(nodes) /\ Ended(d, h)
    <3>1. /\ d.ok = h.ok
          /\ Len(d.calls) = l - 1
          /\ \A j \in 1 .. l - 1 : d.calls[j] = h.calls[j]
          /\ d.tab[p] = NoTable
          /\ \A q \in Tables : q # p => d.tab[q] = h.tab[q]
      BY ONLY <1>2, <2>1, <2>11, EndIs, ZenonT(40)
    <3>2. ~NoTable.live
      BY ONLY <2>2, TableFacts, Deletable(g, a) DEF Deletable
    <3>3. \A b : Dying(d, b) <=> Dying(h, b) /\ b # p
      BY <1>2, <2>1, <2>11, EndDying
    <3>4. DelHeap(d) /\ Counts(d) /\ d.ok
      BY <2>1, <2>9, <3>1 DEF DelTyped
    <3> HIDE DEF p, i, l
    <3>5. \A b \in Tables : d.tab[b].live => g[b].live /\ d.tab[b].map = g[b].map
      BY <3>1, <3>2 DEF DelInv
    <3>6. ASSUME NEW b \in Tables PROVE Visited(d, g, b) <=> Visited(h, g, b)
      <4>1. CASE b = p
        BY <2>4, <2>5, <3>1, <3>2, <4>1 DEF Visited
      <4>2. CASE b # p
        BY <3>1, <3>3, <4>2 DEF Visited
      <4> QED BY <4>1, <4>2
    <3>7. ASSUME NEW q \in Tables, NEW x \in Tables, NEW n \in Nat, HoldsAt(g, q, n, x)
          PROVE  Passed(d, q, n) <=> Passed(h, q, n)
      <4>1. CASE q = p
        <5>1. Passed(d, q, n)
          BY <3>1, <3>2, <4>1 DEF Passed
        <5>2. n < i
          <6>1. n \in 1 .. Len(nodes)
            BY <3>7, <4>1 DEF HoldsAt
          <6>2. Len(nodes) \in Nat
            <7>1. nodes \in Seq(NodeSet(MapKeys, MapValues))
              BY <2>6 DEF NodesAgree
            <7> QED BY ONLY <7>1
          <6> HIDE DEF nodes
          <6> QED BY <2>2, <2>11, <6>1, <6>2
        <5>3. Passed(h, q, n)
          <6>1. h.calls[l].t = q /\ n < h.calls[l].i /\ l \in 1 .. Len(h.calls)
            BY <2>2, <4>1, <5>2 DEF p, i, l
          <6> QED BY ONLY <6>1 DEF Passed
        <5> QED BY <5>1, <5>3
      <4>2. CASE q # p
        <5>1. \A j \in 1 .. l : h.calls[j].t = q => j \in 1 .. l - 1
          <6>1. \A j \in 1 .. l : j = l \/ j \in 1 .. l - 1
            BY <2>2
          <6> QED BY <4>2, <6>1 DEF p
        <5>2. \A j \in 1 .. l - 1 : j \in 1 .. l
          BY <2>2
        <5>3. Passed(h, q, n) <=>
                (h.tab[q].live => \E j \in 1 .. l : h.calls[j].t = q /\ n < h.calls[j].i)
          BY DEF Passed, l
        <5> QED BY <3>1, <4>2, <5>1, <5>2, <5>3 DEF Passed
      <4> QED BY <4>1, <4>2
    <3>8. DelTree(d, g, a)
      BY <2>1, <3>6, <3>7, DelTreeSame
    <3> QED BY <3>4, <3>5, <3>8 DEF DelInv, d
  <2>12. CASE d = next /\ i \in 1 .. Len(nodes) /\ nodes[i].v.type # "UD"
    <3>1. DelHeap(d) /\ Counts(d) /\ d.ok /\ d.tab = h.tab
      BY <2>1, <2>8, <2>9, <2>12 DEF DelTyped
    <3>2. \A b \in Tables : d.tab[b].live => g[b].live /\ d.tab[b].map = g[b].map
      BY <3>1 DEF DelInv
    <3>3. \A b \in Tables : Visited(d, g, b) <=> Visited(h, g, b)
      BY <2>8, <2>10, <2>12, SMTT(30) DEF Visited
    <3>4. \A x : ~HoldsAt(g, p, i, x)
      BY <2>12, LUdFacts DEF HoldsAt
    <3> HIDE DEF p, i
    <3>5. \A q, x \in Tables, n \in Nat :
            HoldsAt(g, q, n, x) => (Passed(d, q, n) <=> Passed(h, q, n))
      BY <2>10, <2>12, <3>4
    <3>6. DelTree(d, g, a)
      BY <2>1, <3>3, <3>5, DelTreeSame
    <3> QED BY <3>1, <3>2, <3>6, SMTT(30) DEF DelInv, d
  <2>13. CASE i \in 1 .. Len(nodes) /\ \E x \in Tables : nodes[i].v = Held(LUd(x)) /\ d = release(next, x)
    <3>1. PICK x \in Tables : nodes[i].v = Held(LUd(x)) /\ d = release(next, x)
      BY <2>13
    <3>2. HoldsAt(g, p, i, x)
      BY <2>4, <2>13, <3>1 DEF HoldsAt
    <3>3. x \in Stored(g, p)
      BY <2>2, <3>2, HoldsAtFacts DEF Deletable
    <3>4. g[x].live /\ x # a
      BY <2>2, <3>3 DEF Deletable, Tree, NoneDangles
    <3>5. ~Passed(h, p, i)
      <4>1. \A j \in 1 .. Len(h.calls) : h.calls[j].t = p => h.calls[j].i = i
        BY <2>1, <2>2 DEF Counts
      <4> HIDE DEF p, i
      <4> QED BY <2>2, <2>3, <4>1 DEF Passed
    <3> HIDE DEF p, i
    <3>6. ~Visited(h, g, x)
      <4> SUFFICES ASSUME Visited(h, g, x) PROVE FALSE
        OBVIOUS
      <4>1. PICK q \in Tables, n \in Nat : Visited(h, g, q) /\ HoldsAt(g, q, n, x) /\ Passed(h, q, n)
        BY <2>1, <3>4 DEF DelTree
      <4>2. q = p /\ n = i
        BY <2>2, <3>2, <4>1, HoldsAtOnce DEF Deletable, Tree
      <4> QED BY <3>5, <4>1, <4>2
    <3>7. h.tab[x].live /\ ~Dying(h, x)
      BY <3>4, <3>6 DEF Visited
    <3>8. h.tab[x].ref = 1
      BY <2>1, <3>7 DEF Counts
    <3>9. d = Destroy(next, x)
      BY <2>8, <3>1, <3>7, <3>8, ReleaseIs
    <3> DEFINE tb == next.tab
               t2 == d.tab
    <3>10. /\ DelHeap(d) /\ d.ok = next.ok
           /\ Len(d.calls) = l + 1
           /\ \A j \in 1 .. l : d.calls[j] = next.calls[j]
           /\ d.calls[l + 1].t = x /\ d.calls[l + 1].i = 1
           /\ RefPut(t2, tb, x, 0)
      BY <2>8, <3>7, <3>9, DestroyIs
    <3>11. \A b : Dying(d, b) <=> Dying(h, b) \/ b = x
      BY <2>8, <2>10, <3>7, <3>9, DestroyDying
    <3>12. DelHeap(d) /\ Counts(d) /\ d.ok
      BY <2>1, <2>8, <2>9, <3>10 DEF DelTyped
    <3>13. \A b \in Tables : t2[b].live = tb[b].live /\ t2[b].map = tb[b].map
      <4>1. HeapOK(tb) /\ tb[x].live /\ 0 \in Int
        BY <2>8, <3>7 DEF DelHeap
      <4> HIDE DEF t2, tb
      <4> QED BY ONLY <3>1, <3>10, <4>1, RefSet
    <3>14. \A b \in Tables : d.tab[b].live = h.tab[b].live /\ d.tab[b].map = h.tab[b].map
      BY ONLY <2>8, <3>13
    <3>15. \A b \in Tables : d.tab[b].live => g[b].live /\ d.tab[b].map = g[b].map
      BY <3>14 DEF DelInv
    <3>16. \A b \in Tables : Visited(d, g, b) <=> Visited(h, g, b) \/ b = x
      BY ONLY <3>4, <3>11, <3>14 DEF Visited
    <3> HIDE DEF l
    <3>17. ASSUME NEW q \in Tables, NEW y \in Tables, NEW n \in Nat, HoldsAt(g, q, n, y)
           PROVE  Visited(d, g, q) /\ Passed(d, q, n) <=>
                    \/ Visited(h, g, q) /\ Passed(h, q, n)
                    \/ q = p /\ n = i
      <4>1. \A j \in 1 .. l + 1 : j = l + 1 \/ j \in 1 .. l
        BY <2>2
      <4>2. \A j \in 1 .. l : j \in 1 .. l + 1
        BY <2>2
      <4>3. Passed(d, q, n) <=>
              (h.tab[q].live => \E j \in 1 .. l + 1 : d.calls[j].t = q /\ n < d.calls[j].i)
        BY <3>10, <3>14 DEF Passed
      <4>4. Passed(next, q, n) <=>
              (h.tab[q].live => \E j \in 1 .. l : next.calls[j].t = q /\ n < next.calls[j].i)
        BY <2>8 DEF Passed
      <4>5. CASE q = x
        <5>1. q # p
          BY <2>5, <3>6, <4>5
        <5>2. ~Passed(d, q, n)
          <6>1. n \in 1 .. Len(Nodes(g[q].map))
            BY <3>17 DEF HoldsAt
          <6>2. \A j \in 1 .. l : next.calls[j].t # x
            BY <2>8, <2>10, <3>7 DEF Dying
          <6>3. ~(n < 1)
            BY ONLY <6>1
          <6> QED BY <3>7, <3>10, <4>1, <4>3, <4>5, <6>2, <6>3
        <5> QED BY <3>6, <4>5, <5>1, <5>2
      <4>6. CASE q # x
        <5>1. Passed(d, q, n) <=> Passed(next, q, n)
          BY <3>10, <4>1, <4>2, <4>3, <4>4, <4>6
        <5>2. Passed(next, q, n) <=> Passed(h, q, n) \/ (q = p /\ n = i)
          BY <2>10
        <5>3. Visited(d, g, q) <=> Visited(h, g, q)
          BY <3>16, <4>6
        <5> QED BY <2>5, <5>1, <5>2, <5>3
      <4> QED BY <4>5, <4>6
    <3>18. DelTree(d, g, a)
      <4>1. HeapOK(g) /\ OneOwner(g)
        BY SMTT(30) DEF Deletable, Tree
      <4> QED BY <2>1, <2>2, <2>5, <3>2, <3>6, <3>16, <3>17, <4>1, DelTreeMore
    <3> QED BY <3>12, <3>15, <3>18 DEF DelInv, d
  <2>14. CASE i \in 1 .. Len(nodes) /\ d.ok = FALSE /\ ~Intact(nodes[i].v)
    <3>1. /\ NodeKey(nodes[i]) \in MapKeys
          /\ nodes[i].v \in MapValues
          /\ Search(g[p].map, NodeKey(nodes[i])) = nodes[i].v
      BY <2>6, <2>14, Zenon DEF NodesAgree
    <3>2. nodes[i].v # NilValue
      BY <3>1, ValueFacts
    <3> QED BY <2>2, <2>4, <2>14, <3>1, <3>2, SMTT(30) DEF Deletable, Tree, Sound
  <2> QED BY <2>7, <2>11, <2>12, <2>13, <2>14, Zenon
<1> QED
  BY <1>1, <1>2

(* A delete starts, with or without misuse. *)
CountedOnce(g) == \A b \in Tables : g[b].ref = IF g[b].live THEN 1 ELSE 0

LEMMA DestroyStart ==
  ASSUME NEW g, HeapOK(g), CountedOnce(g), NEW h, h = [tab |-> g, ok |-> TRUE, calls |-> <<>>]
  PROVE  /\ h.tab = g /\ h.ok /\ h.calls = <<>>
         /\ DelHeap(h) /\ Counts(h)
         /\ \A b : ~Dying(h, b)
<1>1. h.tab = g /\ h.ok = TRUE /\ h.calls = <<>>
  OBVIOUS
<1>2. Len(<<>>) = 0 /\ <<>> \in Seq(DelFrame)
  OBVIOUS
<1>3. DelHeap(h)
  BY <1>1, <1>2 DEF DelHeap
<1>4. \A j \in 1 .. Len(h.calls) : FALSE
  BY <1>1, <1>2
<1>5. \A b : ~Dying(h, b)
  BY <1>4 DEF Dying
<1> QED
  BY <1>1, <1>3, <1>4, <1>5 DEF Counts, CountedOnce

LEMMA DeleteRunTyped ==
  ASSUME HeapOK(tab), CountedOnce(tab), NEW a \in Tables, tab[a].live
  PROVE  DelTyped(DeleteTable(a))
<1> DEFINE h == [tab |-> tab, ok |-> TRUE, calls |-> <<>>]
           run == DeleteRun(h, a)
           T == {n \in 0 .. MaxSteps : DelTyped(run[n])}
<1>1. MaxSteps \in Nat
  BY SizeAssumption
<1>2. DelTyped(Destroy(h, a))
  <2> HIDE DEF h
  <2>1. h = [tab |-> tab, ok |-> TRUE, calls |-> <<>>]
    BY DEF h
  <2>2. h.tab = tab /\ DelHeap(h) /\ Counts(h)
    BY <2>1, DestroyStart
  <2>3. h.tab[a].live /\ h.tab[a].ref = 1
    BY <2>2 DEF CountedOnce
  <2> QED BY <2>2, <2>3, DestroyCounts
<1> HIDE DEF h
<1>3. run[0] = Destroy(h, a) /\ \A n \in 1 .. MaxSteps : run[n] = DeleteStep(run[n - 1])
  BY DeleteRunDef
<1> HIDE DEF run
<1>4. 0 \in T
  BY <1>1, <1>2, <1>3
<1>5. ASSUME NEW n \in 1 .. MaxSteps, n - 1 \in T PROVE n \in T
  BY <1>3, <1>5, DeleteStepTyped
<1> HIDE DEF T
<1>6. \A n \in 0 .. MaxSteps : n \in T
  BY <1>1, <1>4, <1>5, UpToInduction
<1>7. DelTyped(run[MaxSteps])
  BY <1>1, <1>6 DEF T
<1> QED
  BY <1>7 DEF DeleteTable, run, h

(* Without misuse the delete has come to its table alone when it starts. *)
LEMMA DestroyTree ==
  ASSUME NEW g, NEW a \in Tables, Deletable(g, a),
         NEW h, h = [tab |-> g, ok |-> TRUE, calls |-> <<>>]
  PROVE  DelInv(Destroy(h, a), g, a)
<1> DEFINE d == Destroy(h, a)
           t2 == d.tab
<1>1. /\ HeapOK(g) /\ CountedOnce(g) /\ Tree(g) /\ g[a].live
      /\ \A b \in Tables : a \notin Stored(g, b)
  BY DEF Deletable, CountedOnce
<1>2. h.tab = g /\ h.ok /\ h.calls = <<>> /\ DelHeap(h) /\ Counts(h) /\ \A b : ~Dying(h, b)
  BY <1>1, DestroyStart
<1>3. Len(h.calls) = 0
  BY ONLY <1>2
<1>4. g[a].ref = 1
  BY <1>1 DEF CountedOnce
<1>a. h.tab[a].live /\ h.tab[a].ref = 1
  BY ONLY <1>1, <1>2, <1>4
<1>5. /\ DelHeap(d) /\ d.ok = h.ok
      /\ Len(d.calls) = Len(h.calls) + 1
      /\ d.calls[Len(h.calls) + 1].t = a /\ d.calls[Len(h.calls) + 1].i = 1
      /\ RefPut(d.tab, h.tab, a, 0)
  <2> HIDE DEF d
  <2>1. d = Destroy(h, a)
    BY DEF d
  <2>2. DelHeap(h) /\ h.tab[a].live
    BY <1>2, <1>a
  <2> QED BY ONLY <2>1, <2>2, DestroyIs
<1>6. DelTyped(d)
  BY ONLY <1>2, <1>a, DestroyCounts
<1>7. \A b : Dying(d, b) <=> b = a
  BY ONLY <1>2, <1>a, DestroyDying
<1> HIDE DEF d
<1>8. Len(d.calls) = 1 /\ d.calls[1].t = a /\ d.calls[1].i = 1
  BY ONLY <1>3, <1>5
<1>9. \A b \in Tables : t2[b].live = g[b].live /\ t2[b].map = g[b].map
  <2> HIDE DEF t2
  <2>1. RefPut(t2, g, a, 0) /\ 0 \in Int
    BY <1>2, <1>5 DEF t2
  <2> QED BY ONLY <1>1, <2>1, a \in Tables, RefSet
<1>10. DelHeap(d) /\ Counts(d) /\ d.ok
  BY <1>2, <1>5, <1>6 DEF DelTyped
<1>11. \A b \in Tables : Visited(d, g, b) <=> b = a
  BY ONLY <1>1, <1>7, <1>9 DEF Visited
<1>12. ASSUME NEW x \in Tables, NEW i \in Nat, HoldsAt(g, a, i, x) PROVE ~Passed(d, a, i)
  <2>1. i \in 1 .. Len(Nodes(g[a].map))
    BY <1>12 DEF HoldsAt
  <2>2. ~(i < 1)
    BY ONLY <2>1
  <2>3. d.tab[a].live
    BY <1>1, <1>9
  <2>4. \A j \in 1 .. Len(d.calls) : j = 1
    BY ONLY <1>8
  <2> QED BY <1>8, <2>2, <2>3, <2>4 DEF Passed
<1>13. DelTree(d, g, a)
  BY <1>11, <1>12 DEF DelTree
<1>14. \A b \in Tables : d.tab[b].live => g[b].live /\ d.tab[b].map = g[b].map
  BY ONLY <1>9
<1> QED
  BY <1>10, <1>13, <1>14 DEF DelInv, d

(* What is left when the last destructor is done. *)
GoneFrom(g, h) == {b \in Tables : g[b].live /\ ~h.tab[b].live}

LEMMA DeleteDone ==
  ASSUME NEW g, NEW a \in Tables, Deletable(g, a), NEW h, DelInv(h, g, a), h.calls = <<>>
  PROVE  /\ \A b \in Tables : h.tab[b] = IF b \in GoneFrom(g, h) THEN NoTable ELSE g[b]
         /\ a \in GoneFrom(g, h)
         /\ \A x \in GoneFrom(g, h) : x = a \/ \E p \in GoneFrom(g, h) : x \in Stored(g, p)
         /\ ClosedIn(g, GoneFrom(g, h))
         /\ \A C \in SUBSET Tables : a \in C /\ ClosedIn(g, C) => GoneFrom(g, h) \subseteq C
<1> DEFINE Gone == GoneFrom(g, h)
           tb == h.tab
<1>1. HeapOK(g) /\ Tree(g) /\ (\A b \in Tables : g[b].ref = IF g[b].live THEN 1 ELSE 0)
  BY DEF Deletable
<1>2. HeapOK(tb) /\ Counts(h) /\ DelTree(h, g, a)
  BY DEF DelInv, DelHeap
<1>3. \A j \in 1 .. Len(h.calls) : FALSE
  <2>1. Len(<<>>) = 0
    OBVIOUS
  <2> QED BY <2>1
<1>4. \A b : ~Dying(h, b)
  BY ONLY <1>3 DEF Dying
<1>5. \A b \in Tables : Visited(h, g, b) <=> b \in Gone
  BY ONLY <1>4 DEF Visited, GoneFrom
<1>6. \A b \in Tables : tb[b].live => g[b].live /\ tb[b].map = g[b].map
  BY DEF DelInv
<1>7. \A b \in Tables : tb[b].ref = IF tb[b].live THEN 1 ELSE 0
  BY <1>2, <1>4 DEF Counts
<1>8. ASSUME NEW b \in Tables PROVE tb[b] = IF b \in Gone THEN NoTable ELSE g[b]
  <2> HIDE DEF tb
  <2>1. CASE ~tb[b].live
    <3>1. tb[b] = NoTable
      BY ONLY <1>2, <1>8, <2>1, TableFacts
    <3>2. ~g[b].live => g[b] = NoTable
      <4>1. HeapOK(g)
        BY <1>1
      <4> QED BY ONLY <4>1, <1>8, TableFacts
    <3>3. b \in Gone <=> g[b].live
      BY <2>1 DEF tb, GoneFrom
    <3> QED BY ONLY <3>1, <3>2, <3>3
  <2>2. CASE tb[b].live
    <3>1. g[b].live /\ tb[b].map = g[b].map /\ tb[b].ref = 1 /\ g[b].ref = 1
      BY <1>1, <1>6, <1>7, <2>2
    <3>2. tb[b] = [live |-> TRUE, ref |-> tb[b].ref, map |-> tb[b].map]
      BY ONLY <1>2, <1>8, <2>2, TableFacts
    <3>3. g[b] = [live |-> TRUE, ref |-> g[b].ref, map |-> g[b].map]
      BY ONLY <1>1, <1>8, <3>1, TableFacts
    <3>4. tb[b] = g[b]
      BY ONLY <3>1, <3>2, <3>3, Zenon
    <3>5. b \notin Gone
      BY <2>2 DEF tb, GoneFrom
    <3> QED BY <3>4, <3>5
  <2> QED BY <2>1, <2>2
<1> HIDE DEF Gone
<1>9. a \in Gone
  BY <1>2, <1>5 DEF DelTree
<1>10. ASSUME NEW x \in Gone PROVE x = a \/ \E p \in Gone : x \in Stored(g, p)
  <2>1. x \in Tables
    BY <1>10 DEF Gone, GoneFrom
  <2>2. \/ x = a
        \/ \E p \in Tables, i \in Nat : Visited(h, g, p) /\ HoldsAt(g, p, i, x) /\ Passed(h, p, i)
    BY <1>2, <1>5, <1>10, <2>1 DEF DelTree
  <2> QED BY <1>1, <1>5, <2>2, HoldsAtFacts
<1>11. ASSUME NEW p \in Gone, NEW x \in Stored(g, p) PROVE x \in Gone
  <2>1. p \in Tables /\ x \in Tables /\ ~h.tab[p].live
    BY <1>1, <1>11, StoredIs DEF Gone, GoneFrom
  <2>2. PICK i : HoldsAt(g, p, i, x)
    BY <1>1, <1>11, <2>1, HoldsAtFacts
  <2>3. i \in Nat
    BY <2>2 DEF HoldsAt
  <2>4. Passed(h, p, i)
    BY ONLY <2>1 DEF Passed
  <2> QED BY <1>2, <1>5, <1>11, <2>1, <2>2, <2>3, <2>4 DEF DelTree
<1>12. ASSUME NEW C \in SUBSET Tables, a \in C, ClosedIn(g, C) PROVE Gone \subseteq C
  <2>1. \A x \in Gone : x \in Tables
    BY DEF Gone, GoneFrom
  <2> QED BY <1>2, <1>5, <1>12, <2>1 DEF DelTree
<1>13. Gone \in SUBSET Tables
  BY DEF Gone, GoneFrom
<1>14. ClosedIn(g, Gone)
  BY <1>11, <1>13 DEF ClosedIn
<1> QED
  BY <1>8, <1>9, <1>10, <1>12, <1>14 DEF Gone, tb

(* Without misuse nothing crashes, and the tables that are gone are those   *)
(* that can be reached from the one deleted.                                *)
LEMMA DeleteRunTree ==
  ASSUME NEW a \in Tables, Deletable(tab, a), NEW h, h = DeleteTable(a)
  PROVE  /\ h.ok /\ HeapOK(h.tab)
         /\ h.calls = <<>> =>
              /\ \A b \in Tables : h.tab[b] = IF b \in Reach({a}) THEN NoTable ELSE tab[b]
              /\ a \in Reach({a})
              /\ \A x \in Reach({a}) : x = a \/ \E p \in Reach({a}) : x \in Stored(tab, p)
              /\ Live(tab) \ Live(h.tab) = Reach({a})
<1> DEFINE h0 == [tab |-> tab, ok |-> TRUE, calls |-> <<>>]
           run == DeleteRun(h0, a)
           T == {n \in 0 .. MaxSteps : DelInv(run[n], tab, a)}
<1>1. MaxSteps \in Nat
  BY SizeAssumption
<1>2. DelInv(Destroy(h0, a), tab, a)
  <2> HIDE DEF h0
  <2>1. h0 = [tab |-> tab, ok |-> TRUE, calls |-> <<>>]
    BY DEF h0
  <2> QED BY <2>1, DestroyTree
<1> HIDE DEF h0
<1>3. run[0] = Destroy(h0, a) /\ \A n \in 1 .. MaxSteps : run[n] = DeleteStep(run[n - 1])
  BY DeleteRunDef
<1> HIDE DEF run
<1>4. 0 \in T
  BY <1>1, <1>2, <1>3
<1>5. ASSUME NEW n \in 1 .. MaxSteps, n - 1 \in T PROVE n \in T
  BY <1>3, <1>5, DeleteStepTree
<1> HIDE DEF T
<1>6. \A n \in 0 .. MaxSteps : n \in T
  BY <1>1, <1>4, <1>5, UpToInduction
<1>7. DelInv(run[MaxSteps], tab, a)
  BY <1>1, <1>6 DEF T
<1>8. h = run[MaxSteps]
  BY DEF DeleteTable, run, h0
<1>9. DelInv(h, tab, a)
  BY <1>7, <1>8
<1>10. h.ok /\ HeapOK(h.tab)
  BY <1>9 DEF DelInv, DelHeap
<1>11. ASSUME h.calls = <<>>
       PROVE  /\ \A b \in Tables : h.tab[b] = IF b \in Reach({a}) THEN NoTable ELSE tab[b]
              /\ a \in Reach({a})
              /\ \A x \in Reach({a}) : x = a \/ \E p \in Reach({a}) : x \in Stored(tab, p)
              /\ Live(tab) \ Live(h.tab) = Reach({a})
  <2> DEFINE Gone == GoneFrom(tab, h)
  <2>1. /\ \A b \in Tables : h.tab[b] = IF b \in Gone THEN NoTable ELSE tab[b]
        /\ a \in Gone
        /\ \A x \in Gone : x = a \/ \E p \in Gone : x \in Stored(tab, p)
        /\ ClosedIn(tab, Gone)
        /\ \A C \in SUBSET Tables : a \in C /\ ClosedIn(tab, C) => Gone \subseteq C
    BY <1>9, <1>11, DeleteDone
  <2>2. Live(tab) \ Live(h.tab) = Gone /\ Gone \in SUBSET Tables
    BY DEF Live, GoneFrom
  <2> HIDE DEF Gone
  <2>3. \A C : Closed(C) <=> ClosedIn(tab, C)
    BY DEF Closed, ClosedIn
  <2>4. Reach({a}) = {x \in Tables : \A C \in SUBSET Tables : {a} \subseteq C /\ Closed(C) => x \in C}
    BY DEF Reach
  <2>5. Reach({a}) = Gone
    BY <2>1, <2>2, <2>3, <2>4, ZenonT(40)
  <2> QED BY <2>1, <2>2, <2>5
<1> QED
  BY <1>10, <1>11

(* What is left is in order. *)
LEMMA DeletedTree ==
  ASSUME NEW g, HeapOK(g), Tree(g), NEW a \in Tables, \A b \in Tables : a \notin Stored(g, b),
         NEW Gone \in SUBSET Tables,
         \A x \in Gone : x = a \/ \E p \in Gone : x \in Stored(g, p),
         NEW h, HeapOK(h), \A b \in Tables : h[b] = IF b \in Gone THEN NoTable ELSE g[b]
  PROVE  Tree(h)
<1>1. ~NoTable.live
  BY TableFacts
<1>2. \A b \in Tables : b \in Gone => ~h[b].live
  BY <1>1
<1>3. \A b \in Tables : b \notin Gone => h[b] = g[b]
  OBVIOUS
<1>4. \A p \in Tables, k \in MapKeys : \A x : Holds(h, p, k, x) => Holds(g, p, k, x) /\ p \notin Gone
  BY <1>2, <1>3 DEF Holds
<1>5. ASSUME NEW p \in Tables, NEW x \in Stored(h, p)
      PROVE  x \in Stored(g, p) /\ p \notin Gone /\ x \in Tables
  <2>1. PICK k \in MapKeys : Holds(h, p, k, x)
    BY <1>5, StoredIs
  <2>2. Holds(g, p, k, x) /\ p \notin Gone
    BY <1>4, <2>1
  <2> QED BY <2>2, StoredIs
<1>6. Sound(h)
  BY <1>2, <1>3 DEF Tree, Sound
<1>7. OneOwner(h)
  BY <1>4 DEF Tree, OneOwner
<1>8. NoneDangles(h)
  <2> SUFFICES ASSUME NEW p \in Tables, NEW x \in Stored(h, p) PROVE h[x].live
    BY DEF NoneDangles
  <2>1. x \in Stored(g, p) /\ p \notin Gone /\ x \in Tables
    BY <1>5
  <2>2. g[x].live
    BY <2>1 DEF Tree, NoneDangles
  <2>3. x \notin Gone
    <3> SUFFICES ASSUME x \in Gone PROVE FALSE
      OBVIOUS
    <3>1. PICK q \in Gone : x \in Stored(g, q)
      BY <2>1
    <3>2. q \in Tables
      OBVIOUS
    <3>3. PICK k \in MapKeys : Holds(g, p, k, x)
      BY <2>1, StoredIs
    <3>4. PICK l \in MapKeys : Holds(g, q, l, x)
      BY <3>1, <3>2, StoredIs
    <3>5. p = q
      BY <2>1, <3>2, <3>3, <3>4 DEF Tree, OneOwner
    <3> QED BY <2>1, <3>5
  <2> QED BY <1>3, <2>1, <2>2, <2>3
<1>9. Acyclic(h)
  BY <1>5 DEF Tree, Acyclic
<1> QED
  BY <1>6, <1>7, <1>8, <1>9 DEF Tree

-----------------------------------------------------------------------------
(* Serialising *)

LEMMA KeysOfIs ==
  ASSUME NEW m, MapOK(m, MapKeys, MapValues)
  PROVE  /\ KeysOf(m) \in Seq(MapKeys)
         /\ Len(KeysOf(m)) \in Nat
         /\ DOMAIN KeysOf(m) = 1 .. Len(KeysOf(m))
         /\ \A i \in 1 .. Len(KeysOf(m)) :
              i \in 1 .. Len(Nodes(m)) /\ KeysOf(m)[i] = NodeKey(Nodes(m)[i])
         /\ ~Full(m) => Len(KeysOf(m)) = Len(Nodes(m))
<1> DEFINE all == Nodes(m)
           cap == m.size * MAX_HASH_DEPTH
           count == IF Len(all) < cap - 1 THEN Len(all) ELSE cap - 1
           keys == [i \in 1 .. count |-> NodeKey(all[i])]
<1>1. NodesAgree(m, MapKeys, MapValues)
  BY NodesOK, MapKeysFit
<1>2. Len(all) \in Nat
  <2>1. all \in Seq(NodeSet(MapKeys, MapValues))
    BY <1>1 DEF NodesAgree
  <2> QED BY ONLY <2>1
<1>3. cap \in Nat \ {0}
  <2>1. m.size \in Nat \ {0} /\ MAX_HASH_DEPTH \in Nat \ {0}
    BY MapRecord, SizeAssumption
  <2> QED BY ONLY <2>1
<1>4. \A i \in 1 .. Len(all) : NodeKey(all[i]) \in MapKeys
  BY <1>1 DEF NodesAgree
<1>5. KeysOf(m) = keys
  BY DEF KeysOf, FirstKeys, Capacity
<1>f. Full(m) <=> Len(all) >= cap
  BY DEF Full, Capacity
<1> HIDE DEF all, cap
<1>6. count \in Nat /\ (~Full(m) => count = Len(all))
  BY <1>2, <1>3, <1>f
<1>7. \A i \in 1 .. count : i \in 1 .. Len(all)
  BY <1>2, <1>3
<1> HIDE DEF count
<1>8. keys \in Seq(MapKeys) /\ Len(keys) = count /\ \A i \in 1 .. count : keys[i] = NodeKey(all[i])
  BY <1>4, <1>6, <1>7
<1>9. DOMAIN keys = 1 .. count
  OBVIOUS
<1> HIDE DEF keys
<1> QED
  BY <1>5, <1>6, <1>7, <1>8, <1>9 DEF all, cap

LEMMA FramePush ==
  ASSUME NEW c \in Seq(DelFrame), NEW x \in Tables
  PROVE  /\ Append(c, [t |-> x, i |-> 1]) \in Seq(DelFrame)
         /\ Len(Append(c, [t |-> x, i |-> 1])) = Len(c) + 1
         /\ \A j \in 1 .. Len(c) : Append(c, [t |-> x, i |-> 1])[j] = c[j]
         /\ Append(c, [t |-> x, i |-> 1])[Len(c) + 1].t = x
         /\ Append(c, [t |-> x, i |-> 1])[Len(c) + 1].i = 1
<1> DEFINE f == [t |-> x, i |-> 1]
<1>1. f \in DelFrame /\ f.t = x /\ f.i = 1
  BY DEF DelFrame
<1> HIDE DEF f
<1>2. /\ Append(c, f) \in Seq(DelFrame)
      /\ Len(Append(c, f)) = Len(c) + 1
      /\ \A j \in 1 .. Len(c) : Append(c, f)[j] = c[j]
      /\ Append(c, f)[Len(c) + 1] = f
  BY <1>1
<1> QED
  BY <1>1, <1>2 DEF f

LEMMA FrameNext ==
  ASSUME NEW c \in Seq(DelFrame), c # <<>>
  PROVE  /\ Advance(c) \in Seq(DelFrame)
         /\ Len(Advance(c)) = Len(c)
         /\ \A j \in 1 .. Len(c) :
              /\ Advance(c)[j].t = c[j].t
              /\ Advance(c)[j].i = IF j = Len(c) THEN c[j].i + 1 ELSE c[j].i
<1> DEFINE n == Len(c)
           f == [t |-> c[n].t, i |-> c[n].i + 1]
<1>1. /\ n \in 1 .. n /\ n \in Nat /\ c[n] \in DelFrame
  OBVIOUS
<1>2. c[n].t \in Tables /\ c[n].i \in Nat \ {0} /\ c[n] = [t |-> c[n].t, i |-> c[n].i]
  BY <1>1 DEF DelFrame
<1>3. f \in DelFrame /\ f.t = c[n].t /\ f.i = c[n].i + 1
  BY <1>2 DEF DelFrame
<1>4. Advance(c) = [c EXCEPT ![n] = f]
  <2>1. Advance(c) = [c EXCEPT ![n] = [c[n] EXCEPT !.i = c[n].i + 1]]
    BY DEF Advance
  <2>2. \A x, y, z : [[t |-> x, i |-> y] EXCEPT !.i = z] = [t |-> x, i |-> z]
    OBVIOUS
  <2>3. [c[n] EXCEPT !.i = c[n].i + 1] = f
    <3> DEFINE g == c[n]
    <3>1. g = [t |-> g.t, i |-> g.i]
      BY <1>2
    <3> HIDE DEF g
    <3>2. [g EXCEPT !.i = g.i + 1] = [t |-> g.t, i |-> g.i + 1]
      BY <2>2, <3>1
    <3> QED BY <3>2 DEF g
  <2> QED BY <2>1, <2>3
<1> HIDE DEF f
<1>5. /\ [c EXCEPT ![n] = f] \in Seq(DelFrame)
      /\ Len([c EXCEPT ![n] = f]) = n
      /\ \A j \in 1 .. n : [c EXCEPT ![n] = f][j] = IF j = n THEN f ELSE c[j]
  BY <1>1, <1>3
<1> QED
  BY <1>3, <1>4, <1>5, Zenon

-----------------------------------------------------------------------------
(* Keys *)

(* A key that is stored as it is. *)
Whole(key) == key \in ScriptKeys /\ KeyOK(key) /\ ~(key.t = "number" /\ key.frac)

LEMMA WholeKey ==
  ASSUME NEW key, Whole(key)
  PROVE  /\ get_key(key) \in MapKeys
         /\ PushKey(get_key(key)) = key
         /\ key.t \in {"number", "string"}
         /\ key.t = "string" => get_key(key) = [type |-> "STRING", k |-> key.x]
         /\ key.t = "number" => /\ get_key(key) = [type |-> "NUMBER", k |-> key.x]
                                /\ key = LNum(key.x)
                                /\ key.x \in 0 .. 2^(IntBits - 1) - 1
<1>1. key \in ScriptKeys /\ KeyOK(key) /\ key.t \in {"number", "string"}
  BY DEF Whole, KeyOK
<1>2. get_key(key) \in MapKeys
  BY <1>1 DEF MapKeys
<1>3. CASE key.t = "string"
  <2>1. key = [t |-> "string", x |-> key.x]
    BY <1>1, <1>3, KeyAssumption
  <2>2. get_key(key) = [type |-> "STRING", k |-> key.x]
    BY <1>3 DEF get_key
  <2>3. PushKey(get_key(key)) = [t |-> "string", x |-> key.x]
    BY <2>2 DEF PushKey
  <2> QED BY ONLY <1>1, <1>2, <1>3, <2>1, <2>2, <2>3
<1>4. CASE key.t = "number"
  <2>1. key.x \in 0 .. 2^(IntBits - 1) - 1 /\ key.frac \in BOOLEAN /\ (~key.frac => key = LNum(key.x))
    BY <1>1, <1>4, KeyAssumption
  <2>2. key = LNum(key.x)
    BY <1>4, <2>1 DEF Whole
  <2>3. ToSize(key.x) = key.x
    BY <2>1, IntKeeps
  <2>4. get_key(key) = [type |-> "NUMBER", k |-> key.x]
    BY <1>4, <2>3 DEF get_key, tointeger
  <2>5. PushKey(get_key(key)) = LNum(key.x)
    BY <2>4 DEF PushKey
  <2> QED BY ONLY <1>1, <1>2, <1>4, <2>1, <2>2, <2>4, <2>5
<1> QED
  BY <1>1, <1>3, <1>4

LEMMA SameKey ==
  ASSUME NEW x, NEW y, Whole(x), Whole(y), get_key(x) = get_key(y)
  PROVE  x = y
BY WholeKey

-----------------------------------------------------------------------------
(* Converting *)

(* The place of a key in a Lua table, 0 before the first. *)
Place(lt, key) == IF key = LNil THEN 0 ELSE CHOOSE i \in 1 .. Len(lt) : lt[i][1] = key

(* The Lua table on the stack, and a key lua_next can be called with. *)
OnStack(lt) == [t |-> "table", x |-> lt]

KeyOf(lt, key) == key = LNil \/ \E i \in 1 .. Len(lt) : key = lt[i][1]

StackValues ==
  {LNil} \cup {OnStack(lt) : lt \in LuaTables}
    \cup UNION {{e[1] : e \in ToSet(lt)} \cup {e[2] : e \in ToSet(lt)} : lt \in LuaTables}

LEMMA EntryFacts ==
  ASSUME NEW lt \in LuaTables
  PROVE  /\ Len(lt) \in Nat
         /\ \A i \in 1 .. Len(lt) :
              /\ lt[i] = <<lt[i][1], lt[i][2]>>
              /\ lt[i][1] \in ScriptKeys /\ lt[i][1] # LNil
              /\ lt[i][1] \in StackValues /\ lt[i][2] \in StackValues
              /\ KeyOK(lt[i][1]) => get_key(lt[i][1]) \in MapKeys
              /\ lt[i][2].t # "lightuserdata"
              /\ lt[i][2].t \in DOMAIN LTypes => lt[i][2] \in Storable
              /\ lt[i][2].t = "table" => /\ lt[i][2] = [t |-> "table", x |-> lt[i][2].x]
                                         /\ lt[i][2].x \in LuaTables
         /\ \A i, j \in 1 .. Len(lt) : lt[i][1] = lt[j][1] => i = j
         /\ ToSet(lt) = {lt[i] : i \in 1 .. Len(lt)}
<1>1. lt \in Seq(ToSet(lt))
  BY LuaTablesAssumption
<1> DEFINE S == ToSet(lt)
<1>2. Len(lt) \in Nat /\ DOMAIN lt = 1 .. Len(lt) /\ \A i \in 1 .. Len(lt) : lt[i] \in S
  <2> HIDE DEF S
  <2>1. lt \in Seq(S)
    BY <1>1 DEF S
  <2> QED BY ONLY <2>1
<1>3. S = {lt[i] : i \in 1 .. Len(lt)}
  BY <1>2 DEF ToSet
<1> HIDE DEF S
<1>4. \A e \in S : /\ e = <<e[1], e[2]>>
                   /\ e[2].t # "lightuserdata"
                   /\ e[2].t = "table" => e[2] = [t |-> "table", x |-> e[2].x] /\ e[2].x \in LuaTables
  BY LuaTablesAssumption, Zenon DEF S
<1>5. \A i, j \in 1 .. Len(lt) : lt[i][1] = lt[j][1] => i = j
  BY <1>2, LuaTablesAssumption
<1>6. ASSUME NEW e \in S PROVE e[1] \in ScriptKeys /\ e[1] \in StackValues /\ e[2] \in StackValues
  BY DEF ScriptKeys, StackValues, S
<1>7. \A e \in S : e[1] # LNil
  BY <1>6, KeyAssumption DEF LNil
<1>8. ASSUME NEW e \in S, KeyOK(e[1]) PROVE get_key(e[1]) \in MapKeys
  BY <1>6, <1>8 DEF MapKeys
<1>9. ASSUME NEW e \in S, e[2].t \in DOMAIN LTypes PROVE e[2] \in Storable
  <2>1. e[2] \in ScriptValues
    BY DEF ScriptValues, S
  <2>2. e[2].t # "lightuserdata"
    BY <1>4
  <2> QED BY <1>9, <2>1, <2>2 DEF Storable
<1> QED
  BY <1>2, <1>3, <1>4, <1>5, <1>6, <1>7, <1>8, <1>9 DEF S

LEMMA PlaceIs ==
  ASSUME NEW lt \in LuaTables
  PROVE  /\ Place(lt, LNil) = 0
         /\ \A i \in 1 .. Len(lt) : Place(lt, lt[i][1]) = i
<1> USE EntryFacts
<1>1. Place(lt, LNil) = 0
  BY DEF Place
<1>2. ASSUME NEW i \in 1 .. Len(lt) PROVE Place(lt, lt[i][1]) = i
  <2> DEFINE key == lt[i][1]
  <2>1. key # LNil
    OBVIOUS
  <2>2. Place(lt, key) = CHOOSE n \in 1 .. Len(lt) : lt[n][1] = key
    BY <2>1 DEF Place
  <2>3. \A n \in 1 .. Len(lt) : lt[n][1] = key <=> n = i
    OBVIOUS
  <2> HIDE DEF key
  <2>4. Place(lt, key) = i
    BY ONLY <2>2, <2>3, i \in 1 .. Len(lt), Zenon
  <2> QED BY <2>4 DEF key
<1> QED
  BY <1>1, <1>2

(* The first n of a stack, and what is pushed. *)
LEMMA StackFacts ==
  ASSUME NEW S, NEW st \in Seq(S), NEW n \in 0 .. Len(st)
  PROVE  /\ SubSeq(st, 1, n) \in Seq(S)
         /\ Len(SubSeq(st, 1, n)) = n
         /\ \A i \in 1 .. n : SubSeq(st, 1, n)[i] = st[i]
<1>1. SubSeq(st, 1, n) = [i \in 1 .. n |-> st[i]]
  OBVIOUS
<1>2. \A i \in 1 .. n : st[i] \in S
  OBVIOUS
<1> DEFINE f == [i \in 1 .. n |-> st[i]]
<1>3. f \in Seq(S) /\ Len(f) = n /\ \A i \in 1 .. n : f[i] = st[i]
  BY <1>2
<1> QED
  BY <1>1, <1>3

(* lua_next goes from the place of the key to the next. *)
LEMMA NextIs ==
  ASSUME NEW st \in Seq(StackValues), Len(st) >= 2, NEW lt \in LuaTables,
         st[Len(st) - 1] = OnStack(lt),
         KeyOf(lt, st[Len(st)]),
         NEW i, i = Place(lt, st[Len(st)]) + 1
  PROVE  /\ i \in 1 .. Len(lt) + 1
         /\ lua_next(st, -2).more <=> i # Len(lt) + 1
         /\ i = Len(lt) + 1 => lua_next(st, -2).st = SubSeq(st, 1, Len(st) - 1)
         /\ i # Len(lt) + 1 => lua_next(st, -2).st = SubSeq(st, 1, Len(st) - 1) \o lt[i]
<1> DEFINE n == Len(st)
           ent == index2adr(st, -2).x
           key == index2adr(st, -1)
           at == IF key = LNil THEN 1 ELSE SelectInSeq(ent, LAMBDA e : e[1] = key) + 1
<1>1. key = st[n] /\ ent = lt
  <2>1. index2adr(st, -2) = st[n - 1] /\ index2adr(st, -1) = st[n]
    BY DEF index2adr
  <2> QED BY <2>1 DEF OnStack
<1>2. lua_pop(st, 1) = SubSeq(st, 1, Len(st) - 1)
  BY DEF lua_pop
<1>3. Len(lt) \in Nat
  BY EntryFacts
<1>4. lua_next(st, -2) = IF at > Len(ent) THEN [more |-> FALSE, st |-> lua_pop(st, 1)]
                         ELSE [more |-> TRUE, st |-> lua_pop(st, 1) \o ent[at]]
  BY DEF lua_next
<1>5. at = i /\ i \in 1 .. Len(lt) + 1
  <2>1. CASE key = LNil
    <3>1. Place(lt, st[n]) = 0
      BY <1>1, <2>1, PlaceIs
    <3> QED BY <1>3, <2>1, <3>1
  <2>2. CASE key # LNil
    <3>1. PICK m \in 1 .. Len(lt) : key = lt[m][1]
      BY <1>1, <2>2 DEF KeyOf
    <3>2. Place(lt, st[n]) = m
      BY <1>1, <3>1, PlaceIs
    <3> DEFINE I == {j \in 1 .. Len(ent) : ent[j][1] = key}
    <3>3. SelectInSeq(ent, LAMBDA e : e[1] = key) = IF I # {} THEN Min(I) ELSE 0
      BY DEF SelectInSeq
    <3>4. at = (IF I # {} THEN Min(I) ELSE 0) + 1
      BY <2>2, <3>3
    <3> HIDE DEF ent, key, at
    <3>5. I = {m}
      BY <1>1, <3>1, EntryFacts
    <3>6. Min({m}) = m
      BY DEF Min
    <3>7. at = m + 1
      BY <3>4, <3>5, <3>6
    <3> QED BY <1>3, <3>2, <3>7
  <2> QED BY <2>1, <2>2
<1> HIDE DEF at, ent, key
<1> DEFINE nx == lua_next(st, -2)
           P == SubSeq(st, 1, Len(st) - 1)
<1>6. nx = IF i > Len(lt) THEN [more |-> FALSE, st |-> P] ELSE [more |-> TRUE, st |-> P \o lt[i]]
  BY ONLY <1>1, <1>2, <1>4, <1>5
<1> HIDE DEF nx, P
<1>7. i = Len(lt) + 1 => nx.more = FALSE /\ nx.st = P
  BY ONLY <1>3, <1>6
<1>8. i # Len(lt) + 1 => nx.more = TRUE /\ nx.st = P \o lt[i]
  BY ONLY <1>3, <1>5, <1>6
<1> QED
  BY <1>5, <1>7, <1>8 DEF nx, P

LEMMA PushIs ==
  ASSUME NEW S, NEW st \in Seq(S), NEW n \in Nat, n >= 2, Len(st) = n
  PROVE  /\ lua_pushvalue(st, -2) \in Seq(S)
         /\ Len(lua_pushvalue(st, -2)) = n + 1
         /\ \A q \in 1 .. n : lua_pushvalue(st, -2)[q] = st[q]
         /\ lua_pushvalue(st, -2)[n + 1] = st[n - 1]
<1>1. index2adr(st, -2) = st[n - 1]
  BY DEF index2adr
<1> DEFINE x == st[n - 1]
<1>2. lua_pushvalue(st, -2) = Append(st, x)
  BY <1>1 DEF lua_pushvalue
<1>3. x \in S
  OBVIOUS
<1> HIDE DEF x
<1>4. /\ Append(st, x) \in Seq(S)
      /\ Len(Append(st, x)) = n + 1
      /\ \A q \in 1 .. n : Append(st, x)[q] = st[q]
      /\ Append(st, x)[n + 1] = x
  BY <1>3
<1> QED
  BY <1>2, <1>4 DEF x

LEMMA PopIs ==
  ASSUME NEW S, NEW st \in Seq(S), NEW n \in 0 .. Len(st)
  PROVE  /\ lua_pop(st, n) \in Seq(S)
         /\ Len(lua_pop(st, n)) = Len(st) - n
         /\ \A q \in 1 .. Len(st) - n : lua_pop(st, n)[q] = st[q]
<1>1. Len(st) \in Nat /\ Len(st) - n \in 0 .. Len(st)
  OBVIOUS
<1>2. lua_pop(st, n) = SubSeq(st, 1, Len(st) - n)
  BY DEF lua_pop
<1> QED
  BY <1>1, <1>2, StackFacts

(* The stack of a turn: the next key and its value, then the key again. *)
EntryStack(st, n, lt, i, st2) ==
  /\ st2 \in Seq(StackValues)
  /\ Len(st2) = n + 2
  /\ \A q \in 1 .. n - 1 : st2[q] = st[q]
  /\ st2[n] = lt[i][1] /\ st2[n + 1] = lt[i][2] /\ st2[n + 2] = lt[i][1]

LEMMA TurnStack ==
  ASSUME NEW st \in Seq(StackValues), NEW n \in Nat, n >= 2, Len(st) = n,
         NEW lt \in LuaTables, st[n - 1] = OnStack(lt),
         KeyOf(lt, st[n]),
         NEW i \in 1 .. Len(lt), i = Place(lt, st[n]) + 1,
         NEW st2, st2 = lua_pushvalue(lua_next(st, -2).st, -2)
  PROVE  EntryStack(st, n, lt, i, st2)
<1> DEFINE P == SubSeq(st, 1, n - 1)
           e == lt[i]
           st1 == lua_next(st, -2).st
<1>1. P \in Seq(StackValues) /\ Len(P) = n - 1 /\ \A q \in 1 .. n - 1 : P[q] = st[q]
  BY StackFacts
<1>2. e = <<e[1], e[2]>> /\ e[1] \in StackValues /\ e[2] \in StackValues /\ Len(lt) \in Nat
  BY EntryFacts
<1>3. i # Len(lt) + 1
  BY <1>2
<1>4. st1 = P \o e
  <2>0. i = Place(lt, st[Len(st)]) + 1 /\ Len(st) >= 2 /\ st[Len(st) - 1] = OnStack(lt)
    OBVIOUS
  <2>1. lua_next(st, -2).st = SubSeq(st, 1, n - 1) \o lt[i]
    BY <1>3, <2>0, NextIs
  <2> QED BY ONLY <2>1
<1> HIDE DEF P, e, st1
<1>5. /\ st1 \in Seq(StackValues) /\ Len(st1) = n + 1
      /\ \A q \in 1 .. n - 1 : st1[q] = P[q]
      /\ st1[n] = e[1] /\ st1[n + 1] = e[2]
  <2> DEFINE x == e[1]
             y == e[2]
  <2>1. st1 = P \o <<x, y>> /\ x \in StackValues /\ y \in StackValues
    BY <1>2, <1>4
  <2> HIDE DEF x, y
  <2>2. <<x, y>> \in Seq(StackValues) /\ Len(<<x, y>>) = 2 /\ <<x, y>>[1] = x /\ <<x, y>>[2] = y
    BY <2>1
  <2> DEFINE xy == <<x, y>>
  <2>a. xy \in Seq(StackValues) /\ Len(xy) = 2
    BY <2>2
  <2> HIDE DEF xy
  <2> HIDE DEF P
  <2>b. P \in Seq(StackValues)
    BY <1>1
  <2>3. /\ P \o xy \in Seq(StackValues) /\ Len(P \o xy) = Len(P) + Len(xy)
        /\ \A q \in 1 .. Len(P) : (P \o xy)[q] = P[q]
        /\ \A q \in 1 .. Len(xy) : (P \o xy)[Len(P) + q] = xy[q]
    <3>1. /\ P \o xy \in Seq(StackValues) /\ Len(P \o xy) = Len(P) + Len(xy)
      BY ONLY <2>b, <2>a, ConcatProperties
    <3>2. \A q \in 1 .. Len(P) : (P \o xy)[q] = P[q]
      BY ONLY <2>b, <2>a
    <3>3. \A q \in 1 .. Len(xy) : (P \o xy)[Len(P) + q] = xy[q]
      <4>1. xy \in Seq(StackValues)
        BY <2>a
      <4> QED BY ONLY <2>b, <4>1
    <3> QED BY ONLY <3>1, <3>2, <3>3
  <2>c. Len(P) + 1 = n /\ Len(P) + 2 = n + 1 /\ 1 \in 1 .. Len(xy) /\ 2 \in 1 .. Len(xy)
    BY ONLY <1>1, <2>a, n \in Nat
  <2>d. (P \o xy)[n] = xy[1] /\ (P \o xy)[n + 1] = xy[2]
    BY ONLY <2>3, <2>c
  <2>4. xy[1] = x /\ xy[2] = y /\ st1 = P \o xy
    BY <2>1, <2>2 DEF xy
  <2>5. st1[n] = x /\ st1[n + 1] = y
    BY ONLY <2>4, <2>d
  <2>6. st1 \in Seq(StackValues) /\ Len(st1) = n + 1 /\ \A q \in 1 .. n - 1 : st1[q] = P[q]
    BY ONLY <1>1, <2>3, <2>4, <2>a
  <2> QED BY ONLY <2>5, <2>6 DEF x, y
<1>6. /\ st2 \in Seq(StackValues)
      /\ Len(st2) = n + 2
      /\ \A q \in 1 .. n + 1 : st2[q] = st1[q]
      /\ st2[n + 2] = st1[n]
  <2>1. n + 1 \in Nat /\ n + 1 >= 2 /\ (n + 1) + 1 = n + 2 /\ (n + 1) - 1 = n
    OBVIOUS
  <2>2. st2 = lua_pushvalue(st1, -2)
    BY DEF st1
  <2> DEFINE k == n + 1
  <2>3. st1 \in Seq(StackValues) /\ k \in Nat /\ k >= 2 /\ Len(st1) = k
    BY <1>5, <2>1
  <2>4. k + 1 = n + 2 /\ k - 1 = n
    BY <2>1
  <2> HIDE DEF st1, k
  <2>5. /\ lua_pushvalue(st1, -2) \in Seq(StackValues)
        /\ Len(lua_pushvalue(st1, -2)) = k + 1
        /\ \A q \in 1 .. k : lua_pushvalue(st1, -2)[q] = st1[q]
        /\ lua_pushvalue(st1, -2)[k + 1] = st1[k - 1]
    BY ONLY <2>3, PushIs
  <2>6. /\ st2 \in Seq(StackValues)
        /\ Len(st2) = k + 1
        /\ \A q \in 1 .. k : st2[q] = st1[q]
        /\ st2[k + 1] = st1[k - 1]
    BY ONLY <2>2, <2>5, Zenon
  <2>7. 1 .. k = 1 .. n + 1
    BY DEF k
  <2> QED BY ONLY <2>4, <2>6, <2>7
<1>7. n - 1 \in Nat /\ n \in 1 .. n /\ n \in 1 .. n + 1 /\ n + 1 \in 1 .. n + 1
      /\ \A q \in 1 .. n - 1 : q \in 1 .. n + 1
  OBVIOUS
<1>8. st2[n] = e[1] /\ st2[n + 1] = e[2] /\ st2[n + 2] = e[1]
  <2>1. st2[n] = st1[n] /\ st2[n + 1] = st1[n + 1]
    BY ONLY <1>6, <1>7
  <2> QED BY ONLY <1>5, <1>6, <2>1
<1>9. \A q \in 1 .. n - 1 : st2[q] = st[q]
  BY ONLY <1>1, <1>5, <1>6, <1>7
<1> QED
  BY ONLY <1>6, <1>8, <1>9 DEF EntryStack, e

-----------------------------------------------------------------------------
(* The Lua table that call j of do_convert goes through, and the key it has *)
(* reached, nil before the first.                                           *)
Source(L, j) == L.src[L.calls[j]].lt

KeyAt(L, j) == L.st[4 * j - 2]

(* The number of the entry the innermost call comes to. *)
Turns(L) == Place(Source(L, Len(L.calls)), KeyAt(L, Len(L.calls))) + 1

Running(L) == L.calls # <<>> /\ ~L.err /\ L.full = {}

(* The stack: for each call the Lua table and the key, then the value and   *)
(* the key again while that value is converted.                             *)
ConvStack(L) ==
  /\ L.st \in Seq(StackValues)
  /\ Len(L.st) = 4 * Len(L.calls) - 2
  /\ \A j \in 1 .. Len(L.calls) :
       /\ L.st[4 * j - 3] = OnStack(Source(L, j))
       /\ KeyOf(Source(L, j), KeyAt(L, j))
  /\ \A j \in 1 .. Len(L.calls) : j # Len(L.calls) =>
       L.st[4 * j] = KeyAt(L, j) /\ KeyAt(L, j) # LNil /\ KeyOK(KeyAt(L, j))

OnTables(f) == f = [a \in Tables |-> f[a]]

ConvRecord(L) ==
  L = [st |-> L.st, tab |-> L.tab, calls |-> L.calls, err |-> L.err, full |-> L.full, src |-> L.src]

(* The conversion of any Lua table, in an error or out of room too.         *)
ConvTyped(L) ==
  /\ ConvRecord(L)
  /\ HeapOK(L.tab) /\ CountedOnce(L.tab)
  /\ OnTables(L.src)
  /\ \A a \in Tables : /\ L.src[a].new \in BOOLEAN
                       /\ L.src[a].new => L.src[a].lt \in LuaTables /\ L.tab[a].live
  /\ L.calls \in Seq(Tables)
  /\ \A i, j \in 1 .. Len(L.calls) : L.calls[i] = L.calls[j] => i = j
  /\ \A j \in 1 .. Len(L.calls) : L.src[L.calls[j]].new
  /\ Running(L) => ConvStack(L)

(* What a turn finds. *)
LEMMA TopFacts ==
  ASSUME NEW L, ConvTyped(L), Running(L), NEW d, d = Len(L.calls)
  PROVE  /\ d \in Nat \ {0} /\ d \in 1 .. d
         /\ L.calls[d] \in Tables /\ L.tab[L.calls[d]].live /\ Last(L.calls) = L.calls[d]
         /\ \A j \in 1 .. d : /\ L.calls[j] \in Tables
                              /\ Source(L, j) \in LuaTables
                              /\ L.tab[L.calls[j]].live
         /\ L.st \in Seq(StackValues) /\ Len(L.st) = 4 * d - 2
         /\ L.st[4 * d - 3] = OnStack(Source(L, d))
         /\ KeyOf(Source(L, d), KeyAt(L, d))
         /\ Turns(L) \in 1 .. Len(Source(L, d)) + 1
         /\ Turns(L) = Place(Source(L, d), L.st[4 * d - 2]) + 1
<1> DEFINE c == L.calls
           st == L.st
           n == Len(st)
           lt == Source(L, d)
<1>1. c \in Seq(Tables) /\ c # <<>> /\ ConvStack(L)
  BY DEF ConvTyped, Running
<1>2. d \in Nat \ {0} /\ d \in 1 .. d /\ \A j \in 1 .. d : c[j] \in Tables
  <2> HIDE DEF c
  <2>1. d = Len(c)
    BY DEF c
  <2> QED BY ONLY <1>1, <2>1
<1>3. \A j \in 1 .. d : L.src[c[j]].new
  BY DEF ConvTyped
<1>4. \A j \in 1 .. d : Source(L, j) \in LuaTables /\ L.tab[c[j]].live
  BY <1>2, <1>3 DEF ConvTyped, Source
<1>5. /\ st \in Seq(StackValues) /\ n = 4 * d - 2
      /\ st[4 * d - 3] = OnStack(lt)
      /\ KeyOf(lt, KeyAt(L, d))
  BY <1>1, <1>2 DEF ConvStack
<1>6. n >= 2 /\ 4 * d - 3 = n - 1 /\ n \in Nat
  BY <1>2, <1>5
<1>7. KeyAt(L, d) = st[n] /\ Turns(L) = Place(lt, st[n]) + 1
  BY <1>5 DEF KeyAt, Turns
<1>8. lt \in LuaTables
  BY <1>2, <1>4
<1>9. Last(c) = c[d]
  BY DEF Last
<1>10. Turns(L) \in 1 .. Len(lt) + 1
  <2>1. st[n - 1] = OnStack(lt)
    BY <1>5, <1>6
  <2>2. KeyOf(lt, st[n])
    BY <1>5, <1>7
  <2> HIDE DEF st, lt
  <2> QED BY ONLY <1>5, <1>6, <1>7, <1>8, <2>1, <2>2, NextIs
<1> QED
  BY <1>2, <1>4, <1>5, <1>6, <1>7, <1>8, <1>9, <1>10

LEMMA NextFacts ==
  ASSUME NEW L, ConvTyped(L), Running(L), NEW d, d = Len(L.calls)
  PROVE  /\ lua_next(L.st, -2).more <=> Turns(L) # Len(Source(L, d)) + 1
         /\ Turns(L) = Len(Source(L, d)) + 1 =>
              lua_next(L.st, -2).st = SubSeq(L.st, 1, 4 * d - 3)
<1> DEFINE st == L.st
           n == Len(st)
           lt == Source(L, d)
           i == Turns(L)
<1>1. /\ d \in Nat \ {0} /\ lt \in LuaTables
      /\ st \in Seq(StackValues) /\ n = 4 * d - 2
      /\ st[4 * d - 3] = OnStack(lt)
      /\ KeyOf(lt, KeyAt(L, d))
      /\ i = Place(lt, st[4 * d - 2]) + 1
  BY TopFacts
<1>2. n >= 2 /\ 4 * d - 3 = n - 1 /\ n \in Nat
  BY ONLY <1>1
<1>3. KeyAt(L, d) = st[n]
  BY <1>1 DEF KeyAt
<1>4. st[n - 1] = OnStack(lt) /\ i = Place(lt, st[n]) + 1
  BY <1>1, <1>2
<1>5. KeyOf(lt, st[n])
  BY <1>1, <1>3
<1> HIDE DEF st, lt, i
<1>6. /\ lua_next(st, -2).more <=> i # Len(lt) + 1
      /\ i = Len(lt) + 1 => lua_next(st, -2).st = SubSeq(st, 1, n - 1)
  BY ONLY <1>1, <1>2, <1>4, <1>5, NextIs
<1> QED
  BY <1>2, <1>6 DEF st, lt, i

(* An error ends it. *)
LEMMA ConvStops ==
  ASSUME NEW L, ConvTyped(L), NEW R, ConvRecord(R),
         R.tab = L.tab, R.calls = L.calls, R.src = L.src, R.err \/ R.full # {}
  PROVE  ConvTyped(R)
BY DEF ConvTyped, Running

LEMMA PutTyped ==
  ASSUME NEW L, ConvTyped(L), NEW p \in Tables, L.tab[p].live,
         NEW m, MapOK(m, MapKeys, MapValues),
         NEW R, ConvRecord(R), MapPut(R.tab, L.tab, p, m), R.src = L.src,
         R.calls \in Seq(Tables),
         \A i, j \in 1 .. Len(R.calls) : R.calls[i] = R.calls[j] => i = j,
         \A j \in 1 .. Len(R.calls) : R.src[R.calls[j]].new,
         Running(R) => ConvStack(R)
  PROVE  ConvTyped(R)
<1> DEFINE tb == L.tab
           t2 == R.tab
<1>1. HeapOK(tb) /\ CountedOnce(tb) /\ tb[p].live /\ MapPut(t2, tb, p, m)
  BY DEF ConvTyped
<1> HIDE DEF tb, t2
<1>2. HeapOK(t2) /\ \A q \in Tables : t2[q].live = tb[q].live /\ t2[q].ref = tb[q].ref
  BY ONLY <1>1, p \in Tables, MapOK(m, MapKeys, MapValues), MapSet
<1>3. CountedOnce(t2)
  BY <1>1, <1>2 DEF CountedOnce
<1>4. /\ OnTables(L.src)
      /\ \A a \in Tables : /\ L.src[a].new \in BOOLEAN
                           /\ L.src[a].new => L.src[a].lt \in LuaTables /\ tb[a].live
  BY DEF ConvTyped, tb
<1>5. \A a \in Tables : R.src[a].new => t2[a].live
  BY ONLY <1>2, <1>4, R.src = L.src
<1> QED
  BY <1>2, <1>3, <1>4, <1>5 DEF ConvTyped, t2

(* The stack of the calls up to one of them, whose key is another. *)
LEMMA StackKept ==
  ASSUME NEW L, ConvStack(L), NEW R, Len(L.calls) \in Nat, NEW n \in 1 .. Len(L.calls),
         Len(R.calls) = n, \A j \in 1 .. n : R.calls[j] = L.calls[j],
         R.src = L.src,
         R.st \in Seq(StackValues), Len(R.st) = 4 * n - 2,
         \A q \in 1 .. 4 * n - 3 : R.st[q] = L.st[q],
         KeyOf(Source(R, n), KeyAt(R, n))
  PROVE  ConvStack(R) /\ \A j \in 1 .. n : j # n => KeyAt(R, j) = KeyAt(L, j)
<1>1. \A j \in 1 .. n : j \in 1 .. Len(L.calls) /\ Source(R, j) = Source(L, j)
  BY DEF Source
<1>2. \A j \in 1 .. n : 4 * j - 3 \in 1 .. 4 * n - 3
  OBVIOUS
<1>3. \A j \in 1 .. n : j # n =>
        4 * j - 2 \in 1 .. 4 * n - 3 /\ 4 * j \in 1 .. 4 * n - 3 /\ j # Len(L.calls)
  OBVIOUS
<1>4. \A j \in 1 .. n : j # n => KeyAt(R, j) = KeyAt(L, j) /\ R.st[4 * j] = L.st[4 * j]
  BY <1>3 DEF KeyAt
<1>5. ASSUME NEW j \in 1 .. n
      PROVE  /\ R.st[4 * j - 3] = OnStack(Source(R, j))
             /\ KeyOf(Source(R, j), KeyAt(R, j))
  <2>1. /\ L.st[4 * j - 3] = OnStack(Source(L, j))
        /\ KeyOf(Source(L, j), KeyAt(L, j))
    BY <1>1 DEF ConvStack
  <2>2. R.st[4 * j - 3] = L.st[4 * j - 3]
    BY <1>2
  <2>3. CASE j = n
    BY <1>1, <2>1, <2>2, <2>3
  <2>4. CASE j # n
    BY <1>1, <1>4, <2>1, <2>2, <2>4
  <2> QED BY <2>3, <2>4
<1>6. ASSUME NEW j \in 1 .. n, j # n
      PROVE  R.st[4 * j] = KeyAt(R, j) /\ KeyAt(R, j) # LNil /\ KeyOK(KeyAt(R, j))
  <2>1. L.st[4 * j] = KeyAt(L, j) /\ KeyAt(L, j) # LNil /\ KeyOK(KeyAt(L, j))
    BY <1>1, <1>3, <1>6 DEF ConvStack
  <2> QED BY <1>4, <1>6, <2>1
<1> QED
  BY <1>4, <1>5, <1>6 DEF ConvStack

(* A value that is no table is stored. *)
Entered(L, R) ==
  LET d == Len(L.calls)
      p == L.calls[d]
      e == Source(L, d)[Turns(L)]
  IN  /\ Turns(L) \in 1 .. Len(Source(L, d))
      /\ KeyOK(e[1]) /\ e[2].t \in DOMAIN LTypes
      /\ MapPut(R.tab, L.tab, p, Setter(L.tab[p].map, get_key(e[1]), e[2]).map)
      /\ R.calls = L.calls /\ R.src = L.src
      /\ \A j \in 1 .. d : KeyAt(R, j) = IF j = d THEN e[1] ELSE KeyAt(L, j)

PutAt(R, L, p, S, st) == R = [L EXCEPT !.tab[p].map = S.map, !.err = S.ret # 0, !.st = st]

LEMMA EnteredOK ==
  ASSUME NEW L, ConvTyped(L), Running(L), NEW d, d = Len(L.calls), NEW e, e = Source(L, d)[Turns(L)],
         Turns(L) \in 1 .. Len(Source(L, d)), KeyOK(e[1]), e[2].t \in DOMAIN LTypes,
         NEW st2, st2 = lua_pushvalue(lua_next(L.st, -2).st, -2),
         NEW p, p = L.calls[d], NEW S, S = Setter(L.tab[p].map, get_key(e[1]), e[2]),
         NEW R, PutAt(R, L, p, S, lua_pop(st2, 2))
  PROVE  ConvTyped(R) /\ Entered(L, R)
<1> DEFINE st == L.st
           lt == Source(L, d)
           st3 == lua_pop(st2, 2)
           t2 == [L.tab EXCEPT ![p].map = S.map]
           err == S.ret # 0
           m == L.tab[p].map
<1>1. /\ d \in Nat \ {0} /\ d \in 1 .. d /\ p \in Tables /\ L.tab[p].live /\ lt \in LuaTables
      /\ st \in Seq(StackValues) /\ Len(st) = 4 * d - 2
      /\ st[4 * d - 3] = OnStack(lt)
      /\ KeyOf(lt, KeyAt(L, d))
      /\ Turns(L) = Place(lt, st[4 * d - 2]) + 1
  BY ONLY ConvTyped(L), Running(L), d = Len(L.calls), p = L.calls[d], TopFacts
<1>2. /\ st2 \in Seq(StackValues) /\ Len(st2) = 4 * d
      /\ \A q \in 1 .. 4 * d - 3 : st2[q] = st[q]
      /\ st2[4 * d - 2] = e[1]
  <2> DEFINE n == 4 * d - 2
             i == Turns(L)
  <2>1. n \in Nat /\ n >= 2 /\ Len(st) = n /\ n - 1 = 4 * d - 3 /\ n + 2 = 4 * d
    BY ONLY <1>1
  <2>2. st[n - 1] = OnStack(lt) /\ KeyOf(lt, st[n])
    BY <1>1, <2>1, Zenon DEF KeyAt
  <2>3. i \in 1 .. Len(lt) /\ i = Place(lt, st[n]) + 1 /\ e = lt[i]
    BY <1>1, Zenon
  <2>4. st2 = lua_pushvalue(lua_next(st, -2).st, -2)
    OBVIOUS
  <2> HIDE DEF n, i, st, lt
  <2>h. /\ st \in Seq(StackValues) /\ n \in Nat /\ n >= 2 /\ Len(st) = n
        /\ lt \in LuaTables /\ st[n - 1] = OnStack(lt) /\ KeyOf(lt, st[n])
        /\ i \in 1 .. Len(lt) /\ i = Place(lt, st[n]) + 1
    BY ONLY <1>1, <2>1, <2>2, <2>3
  <2>a. EntryStack(st, n, lt, i, st2)
    BY ONLY <2>h, <2>4, TurnStack
  <2>5. /\ st2 \in Seq(StackValues) /\ Len(st2) = n + 2
        /\ \A q \in 1 .. n - 1 : st2[q] = st[q]
        /\ st2[n] = e[1]
    BY ONLY <2>a, <2>3 DEF EntryStack
  <2> QED BY ONLY <2>1, <2>5 DEF n
<1>3. /\ st3 \in Seq(StackValues) /\ Len(st3) = 4 * d - 2
      /\ \A q \in 1 .. 4 * d - 3 : st3[q] = st[q]
      /\ st3[4 * d - 2] = e[1]
  <2>1. 2 \in 0 .. Len(st2) /\ Len(st2) - 2 = 4 * d - 2
    BY ONLY <1>1, <1>2
  <2>2. /\ st3 \in Seq(StackValues) /\ Len(st3) = 4 * d - 2
        /\ \A q \in 1 .. 4 * d - 2 : st3[q] = st2[q]
    BY ONLY <1>2, <2>1, PopIs, ZenonT(40)
  <2>3. 4 * d - 2 \in 1 .. 4 * d - 2 /\ \A q \in 1 .. 4 * d - 3 : q \in 1 .. 4 * d - 2
    BY ONLY <1>1
  <2> HIDE DEF st3
  <2> QED BY ONLY <1>2, <2>2, <2>3
<1>4. MapOK(S.map, MapKeys, MapValues)
  <2>1. get_key(e[1]) \in MapKeys /\ e[2] \in Storable
    BY <1>1, EntryFacts, Zenon
  <2>2. MapOK(m, MapKeys, MapValues)
    <3> DEFINE tb == L.tab
    <3>1. HeapOK(tb) /\ tb[p].live
      BY <1>1, Zenon DEF ConvTyped
    <3> HIDE DEF tb
    <3> QED BY <1>1, <3>1, TableFacts, Zenon DEF tb
  <2> HIDE DEF m
  <2>3. S = Setter(m, get_key(e[1]), e[2])
    BY DEF m
  <2> QED BY ONLY <2>1, <2>2, <2>3, SetterOK
<1>5. ConvRecord(L)
  BY DEF ConvTyped
<1>6. R = [L EXCEPT !.tab = t2, !.err = err, !.st = st3]
  BY DEF PutAt
<1>7. MapPut(t2, L.tab, p, S.map)
  BY DEF MapPut
<1> HIDE DEF t2, err, st3
<1>8. R = [st |-> st3, tab |-> t2, calls |-> L.calls, err |-> err, full |-> L.full, src |-> L.src]
  BY ONLY <1>5, <1>6 DEF ConvRecord
<1>9. /\ R.st = st3 /\ R.tab = t2 /\ R.calls = L.calls /\ R.err = err /\ R.full = L.full
      /\ R.src = L.src
  BY ONLY <1>8
<1>10. ConvRecord(R)
  BY ONLY <1>8, <1>9 DEF ConvRecord
<1>11. KeyAt(R, d) = e[1] /\ Source(R, d) = lt
  BY <1>3, <1>9, Zenon DEF KeyAt, Source
<1>12. ConvStack(L)
  BY DEF ConvTyped
<1>13. ConvStack(R) /\ \A j \in 1 .. d : j # d => KeyAt(R, j) = KeyAt(L, j)
  <2>1. Len(L.calls) \in Nat /\ d \in 1 .. Len(L.calls) /\ Len(R.calls) = d
        /\ \A j \in 1 .. d : R.calls[j] = L.calls[j]
    BY <1>1, <1>9, Zenon
  <2>2. R.st \in Seq(StackValues) /\ Len(R.st) = 4 * d - 2 /\ \A q \in 1 .. 4 * d - 3 : R.st[q] = L.st[q]
    BY <1>3, <1>9
  <2>3. KeyOf(Source(R, d), KeyAt(R, d))
    BY <1>11 DEF KeyOf
  <2>4. R.src = L.src
    BY <1>9
  <2> QED BY ONLY <1>12, <2>1, <2>2, <2>3, <2>4, StackKept
<1>14. ConvTyped(R)
  <2>1. /\ L.calls \in Seq(Tables)
        /\ \A i, j \in 1 .. Len(L.calls) : L.calls[i] = L.calls[j] => i = j
        /\ \A j \in 1 .. Len(L.calls) : L.src[L.calls[j]].new
    BY DEF ConvTyped
  <2>2. /\ R.calls \in Seq(Tables)
        /\ \A i, j \in 1 .. Len(R.calls) : R.calls[i] = R.calls[j] => i = j
        /\ \A j \in 1 .. Len(R.calls) : R.src[R.calls[j]].new
    BY ONLY <1>9, <2>1, SMTT(30)
  <2>3. MapPut(R.tab, L.tab, p, S.map) /\ R.src = L.src
    BY <1>7, <1>9, SMTT(30)
  <2> QED BY ONLY ConvTyped(L), <1>1, <1>4, <1>10, <1>13, <2>2, <2>3, PutTyped
<1>15. Entered(L, R)
  <2>1. \A j \in 1 .. d : KeyAt(R, j) = IF j = d THEN e[1] ELSE KeyAt(L, j)
    BY <1>11, <1>13, SMTT(30)
  <2>2. MapPut(R.tab, L.tab, p, Setter(L.tab[p].map, get_key(e[1]), e[2]).map)
    BY <1>7, <1>9
  <2> QED BY <1>9, <2>1, <2>2 DEF Entered
<1> QED
  BY <1>14, <1>15

(* The outermost call ends ... *)
Finished(L, R) ==
  /\ Len(L.calls) = 1 /\ Turns(L) = Len(Source(L, 1)) + 1
  /\ R.calls = <<>> /\ R.tab = L.tab /\ R.src = L.src

(* ... or a nested one, and its table is stored. *)
Returned(L, R) ==
  LET d == Len(L.calls)
      p == L.calls[d - 1]
      key == KeyAt(L, d - 1)
  IN  /\ d > 1 /\ Turns(L) = Len(Source(L, d)) + 1
      /\ KeyOf(Source(L, d - 1), key) /\ key # LNil /\ KeyOK(key)
      /\ MapPut(R.tab, L.tab, p, Setter(L.tab[p].map, get_key(key), LUd(L.calls[d])).map)
      /\ R.src = L.src
      /\ Len(R.calls) = d - 1
      /\ \A j \in 1 .. d - 1 : R.calls[j] = L.calls[j] /\ KeyAt(R, j) = KeyAt(L, j)

(* The key is popped. *)
Popped(M, L, st) == M = [L EXCEPT !.st = st]

LEMMA PoppedIs ==
  ASSUME NEW L, ConvRecord(L), NEW st, NEW M, Popped(M, L, st)
  PROVE  /\ ConvRecord(M) /\ M.st = st
         /\ M.tab = L.tab /\ M.calls = L.calls /\ M.err = L.err /\ M.full = L.full /\ M.src = L.src
<1>1. M = [st |-> st, tab |-> L.tab, calls |-> L.calls, err |-> L.err, full |-> L.full, src |-> L.src]
  BY DEF Popped, ConvRecord
<1>2. /\ M.st = st /\ M.tab = L.tab /\ M.calls = L.calls /\ M.err = L.err /\ M.full = L.full
      /\ M.src = L.src
  BY ONLY <1>1
<1> QED
  BY ONLY <1>1, <1>2 DEF ConvRecord

CallsPut(R, M, c) == R = [M EXCEPT !.calls = c]

ReturnPut(R, M, p, key, v, c, st) ==
  R = [M EXCEPT !.tab[p].map = Setter(@, key, v).map, !.calls = c, !.st = st]

LEMMA FinishedOK ==
  ASSUME NEW L, ConvTyped(L), Running(L), Len(L.calls) = 1,
         Turns(L) = Len(Source(L, 1)) + 1,
         NEW st, NEW M, Popped(M, L, st), NEW R, CallsPut(R, M, <<>>)
  PROVE  ConvTyped(R) /\ Finished(L, R)
<1>1. /\ ConvRecord(M) /\ M.st = st
      /\ M.tab = L.tab /\ M.calls = L.calls /\ M.err = L.err /\ M.full = L.full /\ M.src = L.src
  BY PoppedIs DEF ConvTyped
<1>2. R = [st |-> st, tab |-> L.tab, calls |-> <<>>, err |-> L.err, full |-> L.full, src |-> L.src]
  BY ONLY <1>1, CallsPut(R, M, <<>>) DEF CallsPut, ConvRecord
<1>3. /\ R.st = st /\ R.tab = L.tab /\ R.calls = <<>> /\ R.err = L.err /\ R.full = L.full
      /\ R.src = L.src
  BY ONLY <1>2
<1>4. ConvRecord(R)
  BY ONLY <1>2, <1>3 DEF ConvRecord
<1>5. Len(<<>>) = 0 /\ <<>> \in Seq(Tables)
  OBVIOUS
<1>6. ~Running(R)
  BY <1>3 DEF Running
<1>7. \A j \in 1 .. Len(R.calls) : FALSE
  BY <1>3, <1>5
<1> QED
  BY <1>3, <1>4, <1>5, <1>6, <1>7 DEF ConvTyped, Finished

LEMMA ReturnedOK ==
  ASSUME NEW L, ConvTyped(L), Running(L), NEW d, d = Len(L.calls), d > 1,
         Turns(L) = Len(Source(L, d)) + 1,
         NEW M, Popped(M, L, SubSeq(L.st, 1, 4 * d - 3)),
         NEW R, ReturnPut(R, M, Last(Front(M.calls)), get_key(index2adr(M.st, -2)), LUd(Last(M.calls)),
                          Front(M.calls), lua_pop(M.st, 3))
  PROVE  ConvTyped(R) /\ Returned(L, R)
<1> DEFINE st == L.st
           P == SubSeq(st, 1, 4 * d - 3)
           st3 == lua_pop(P, 3)
           c2 == Front(L.calls)
           p == L.calls[d - 1]
           a == L.calls[d]
           key == KeyAt(L, d - 1)
           m2 == Setter(L.tab[p].map, get_key(key), LUd(a)).map
           t2 == [L.tab EXCEPT ![p].map = m2]
<1>1. /\ d \in Nat \ {0} /\ d \in 1 .. d /\ d - 1 \in 1 .. d
      /\ p \in Tables /\ L.tab[p].live /\ a \in Tables
      /\ \A j \in 1 .. d : Source(L, j) \in LuaTables
      /\ st \in Seq(StackValues) /\ Len(st) = 4 * d - 2
  <2>1. d \in Nat \ {0}
    BY TopFacts
  <2>2. d \in 1 .. d /\ d - 1 \in 1 .. d
    BY ONLY <2>1, d > 1
  <2>3. \A j \in 1 .. d : L.calls[j] \in Tables /\ L.tab[L.calls[j]].live /\ Source(L, j) \in LuaTables
    BY TopFacts
  <2>4. st \in Seq(StackValues) /\ Len(st) = 4 * d - 2
    BY TopFacts
  <2> QED BY ONLY <2>1, <2>2, <2>3, <2>4
<1>2. ConvRecord(L) /\ ConvStack(L) /\ L.calls \in Seq(Tables) /\ L.calls # <<>>
  BY DEF ConvTyped, Running
<1>3. /\ ConvRecord(M) /\ M.st = P
      /\ M.tab = L.tab /\ M.calls = L.calls /\ M.err = L.err /\ M.full = L.full /\ M.src = L.src
  <2>1. Popped(M, L, P)
    OBVIOUS
  <2> HIDE DEF P
  <2> QED BY ONLY <1>2, <2>1, PoppedIs
<1>4. P \in Seq(StackValues) /\ Len(P) = 4 * d - 3 /\ \A q \in 1 .. 4 * d - 3 : P[q] = st[q]
  <2>1. 4 * d - 3 \in 0 .. Len(st)
    BY ONLY <1>1
  <2> HIDE DEF st
  <2> QED BY ONLY <1>1, <2>1, StackFacts
<1>5. KeyOf(Source(L, d - 1), key) /\ key # LNil /\ KeyOK(key) /\ st[4 * (d - 1)] = key
  <2>1. d - 1 \in 1 .. Len(L.calls) /\ d - 1 # Len(L.calls)
    BY ONLY <1>1, d = Len(L.calls)
  <2> QED BY ONLY <1>2, <2>1 DEF ConvStack
<1> HIDE DEF key
<1>6. index2adr(P, -2) = key
  <2>1. index2adr(P, -2) = P[4 * d - 4]
    <3> HIDE DEF P
    <3>1. index2adr(P, -2) = P[Len(P) + (-2) + 1]
      BY DEF index2adr
    <3>2. Len(P) + (-2) + 1 = 4 * d - 4
      BY ONLY <1>1, <1>4
    <3> QED BY ONLY <3>1, <3>2
  <2>2. 4 * d - 4 \in 1 .. 4 * d - 3 /\ 4 * d - 4 = 4 * (d - 1)
    BY ONLY <1>1, d > 1
  <2> QED BY ONLY <1>4, <1>5, <2>1, <2>2
<1>7. c2 \in Seq(Tables) /\ Len(c2) = d - 1 /\ \A j \in 1 .. d - 1 : c2[j] = L.calls[j]
  BY <1>2, FrontFacts
<1>8. Last(L.calls) = a /\ Last(c2) = p
  <2>1. Last(L.calls) = a
    BY DEF Last
  <2>2. Last(c2) = c2[d - 1]
    BY <1>7 DEF Last
  <2>3. d - 1 \in 1 .. d - 1
    BY ONLY <1>1, d > 1
  <2> QED BY ONLY <1>7, <2>1, <2>2, <2>3
<1>9. /\ st3 \in Seq(StackValues) /\ Len(st3) = 4 * (d - 1) - 2
      /\ \A q \in 1 .. 4 * (d - 1) - 2 : st3[q] = st[q]
  <2>1. 3 \in 0 .. Len(P) /\ Len(P) - 3 = 4 * (d - 1) - 2
        /\ \A q \in 1 .. 4 * (d - 1) - 2 : q \in 1 .. 4 * d - 3
    BY ONLY <1>1, <1>4, d > 1
  <2> HIDE DEF P
  <2>2. /\ st3 \in Seq(StackValues) /\ Len(st3) = 4 * (d - 1) - 2
        /\ \A q \in 1 .. 4 * (d - 1) - 2 : st3[q] = P[q]
    BY ONLY <1>4, <2>1, PopIs
  <2> HIDE DEF st3
  <2> QED BY ONLY <1>4, <2>1, <2>2
<1>10. ReturnPut(R, M, p, get_key(key), LUd(a), c2, st3)
  BY <1>3, <1>6, <1>8
<1>11. R = [st |-> st3, tab |-> t2, calls |-> c2, err |-> L.err, full |-> L.full, src |-> L.src]
  <2>1. R = [M EXCEPT !.tab = [M.tab EXCEPT ![p].map = Setter(M.tab[p].map, get_key(key), LUd(a)).map],
                      !.calls = c2, !.st = st3]
    BY ONLY <1>10 DEF ReturnPut
  <2>2. R = [M EXCEPT !.tab = t2, !.calls = c2, !.st = st3]
    BY ONLY <1>3, <2>1
  <2> HIDE DEF t2, c2, st3
  <2>3. M = [st |-> M.st, tab |-> M.tab, calls |-> M.calls, err |-> M.err, full |-> M.full, src |-> M.src]
    BY ONLY <1>3 DEF ConvRecord
  <2> QED BY ONLY <1>3, <2>2, <2>3
<1>12. MapPut(t2, L.tab, p, m2)
  BY DEF MapPut
<1> HIDE DEF t2, c2, st3
<1>13. /\ R.st = st3 /\ R.tab = t2 /\ R.calls = c2 /\ R.err = L.err /\ R.full = L.full
       /\ R.src = L.src
  BY ONLY <1>11
<1>14. ConvRecord(R)
  BY ONLY <1>11, <1>13 DEF ConvRecord
<1>15. KeyAt(R, d - 1) = key /\ Source(R, d - 1) = Source(L, d - 1)
  <2>1. 4 * (d - 1) - 2 \in 1 .. 4 * (d - 1) - 2 /\ d - 1 \in 1 .. d - 1
    BY ONLY <1>1, d > 1
  <2>2. KeyAt(R, d - 1) = st3[4 * (d - 1) - 2] /\ key = st[4 * (d - 1) - 2]
    BY ONLY <1>13 DEF KeyAt, key
  <2>3. Source(R, d - 1) = L.src[c2[d - 1]].lt /\ Source(L, d - 1) = L.src[L.calls[d - 1]].lt
    BY ONLY <1>13 DEF Source
  <2> QED BY ONLY <1>7, <1>9, <2>1, <2>2, <2>3
<1>16. ConvStack(R) /\ \A j \in 1 .. d - 1 : j # d - 1 => KeyAt(R, j) = KeyAt(L, j)
  <2>1. Len(L.calls) \in Nat /\ d - 1 \in 1 .. Len(L.calls) /\ Len(R.calls) = d - 1
        /\ \A j \in 1 .. d - 1 : R.calls[j] = L.calls[j]
    BY ONLY <1>1, <1>7, <1>13, d = Len(L.calls)
  <2>2. R.st \in Seq(StackValues) /\ Len(R.st) = 4 * (d - 1) - 2
        /\ \A q \in 1 .. 4 * (d - 1) - 3 : R.st[q] = L.st[q]
    <3>1. \A q \in 1 .. 4 * (d - 1) - 3 : q \in 1 .. 4 * (d - 1) - 2
      BY ONLY <1>1
    <3> QED BY ONLY <1>9, <1>13, <3>1
  <2>3. KeyOf(Source(R, d - 1), KeyAt(R, d - 1))
    BY ONLY <1>5, <1>15
  <2>4. R.src = L.src
    BY ONLY <1>13
  <2> QED BY ONLY <1>2, <2>1, <2>2, <2>3, <2>4, StackKept
<1>17. MapOK(m2, MapKeys, MapValues)
  <2>1. PICK i \in 1 .. Len(Source(L, d - 1)) : key = Source(L, d - 1)[i][1]
    BY ONLY <1>5 DEF KeyOf
  <2>2. get_key(key) \in MapKeys
    <3> DEFINE lt == Source(L, d - 1)
    <3>1. lt \in LuaTables /\ i \in 1 .. Len(lt) /\ key = lt[i][1]
      BY ONLY <1>1, <2>1
    <3> HIDE DEF lt
    <3> QED BY ONLY <1>5, <3>1, EntryFacts
  <2>3. LUd(a) \in Storable
    BY <1>1, UdStorable
  <2> DEFINE tb == L.tab
             m == tb[p].map
  <2>4. HeapOK(tb) /\ tb[p].live
    BY <1>1 DEF ConvTyped
  <2>5. MapOK(m, MapKeys, MapValues)
    <3>1. p \in Tables
      BY ONLY <1>1
    <3> HIDE DEF tb, p
    <3> QED BY ONLY <2>4, <3>1, TableFacts
  <2>6. m2 = Setter(m, get_key(key), LUd(a)).map
    OBVIOUS
  <2> HIDE DEF m, m2
  <2> QED BY ONLY <2>2, <2>3, <2>5, <2>6, SetterOK
<1>18. ConvTyped(R)
  <2>1. /\ \A i, j \in 1 .. Len(L.calls) : L.calls[i] = L.calls[j] => i = j
        /\ \A j \in 1 .. Len(L.calls) : L.src[L.calls[j]].new
    BY DEF ConvTyped
  <2>2. \A j \in 1 .. d - 1 : j \in 1 .. Len(L.calls)
    BY ONLY <1>1, d = Len(L.calls)
  <2>3. /\ R.calls \in Seq(Tables)
        /\ \A i, j \in 1 .. Len(R.calls) : R.calls[i] = R.calls[j] => i = j
        /\ \A j \in 1 .. Len(R.calls) : R.src[R.calls[j]].new
    BY ONLY <1>7, <1>13, <2>1, <2>2
  <2>4. MapPut(R.tab, L.tab, p, m2) /\ R.src = L.src
    BY ONLY <1>12, <1>13
  <2> HIDE DEF m2
  <2> QED BY ONLY ConvTyped(L), <1>1, <1>17, <1>14, <1>16, <2>3, <2>4, PutTyped
<1>19. Returned(L, R)
  <2>1. \A j \in 1 .. d - 1 : R.calls[j] = L.calls[j] /\ KeyAt(R, j) = KeyAt(L, j)
    BY ONLY <1>7, <1>13, <1>15, <1>16 DEF key
  <2>2. MapPut(R.tab, L.tab, p, Setter(L.tab[p].map, get_key(key), LUd(a)).map)
    BY ONLY <1>12, <1>13
  <2>3. Len(R.calls) = d - 1 /\ R.src = L.src
    BY ONLY <1>7, <1>13
  <2> QED BY <1>5, <2>1, <2>2, <2>3 DEF Returned, key
<1> QED
  BY <1>18, <1>19

(* A table is created for a Lua table and its call starts. *)
OpenPut(R, M, b, lt, at) ==
  R = [M EXCEPT !.tab[b] = NewTable, !.calls = Append(@, b), !.st = Append(@, LNil),
                !.src[b] = [new |-> TRUE, lt |-> lt, at |-> at]]

LEMMA OpenIs ==
  ASSUME NEW M, ConvRecord(M), OnTables(M.src), NEW b \in Tables, NEW lt, NEW at,
         NEW R, OpenPut(R, M, b, lt, at)
  PROVE  /\ ConvRecord(R)
         /\ NewPut(R.tab, M.tab, b)
         /\ R.calls = Append(M.calls, b)
         /\ R.st = Append(M.st, LNil)
         /\ R.err = M.err /\ R.full = M.full
         /\ OnTables(R.src)
         /\ R.src[b].new /\ R.src[b].lt = lt /\ R.src[b].at = at
         /\ \A a \in Tables : a # b => R.src[a] = M.src[a]
<1> DEFINE f == [new |-> TRUE, lt |-> lt, at |-> at]
           t2 == [M.tab EXCEPT ![b] = NewTable]
           c2 == Append(M.calls, b)
           st2 == Append(M.st, LNil)
           src2 == [M.src EXCEPT ![b] = f]
<1>1. f.new /\ f.lt = lt /\ f.at = at
  BY ONLY TRUE
<1> HIDE DEF f
<1>2. R = [M EXCEPT !.tab = t2, !.calls = c2, !.st = st2, !.src = src2]
  BY DEF OpenPut, f
<1>3. src2 = [a \in Tables |-> IF a = b THEN f ELSE M.src[a]]
  BY ONLY OnTables(M.src), b \in Tables DEF OnTables
<1> HIDE DEF t2, c2, st2, src2
<1>4. R = [st |-> st2, tab |-> t2, calls |-> c2, err |-> M.err, full |-> M.full, src |-> src2]
  BY ONLY <1>2, ConvRecord(M) DEF ConvRecord
<1>5. R.st = st2 /\ R.tab = t2 /\ R.calls = c2 /\ R.err = M.err /\ R.full = M.full /\ R.src = src2
  BY ONLY <1>4
<1>6. ConvRecord(R)
  BY ONLY <1>4, <1>5 DEF ConvRecord
<1>7. /\ OnTables(src2) /\ src2[b] = f
      /\ \A a \in Tables : a # b => src2[a] = M.src[a]
  BY ONLY <1>3, b \in Tables DEF OnTables
<1>8. NewPut(t2, M.tab, b)
  BY DEF NewPut, t2
<1> QED
  BY ONLY <1>1, <1>5, <1>6, <1>7, <1>8 DEF c2, st2

LEMMA OpenTyped ==
  ASSUME NEW M, ConvRecord(M), HeapOK(M.tab), CountedOnce(M.tab),
         OnTables(M.src),
         \A a \in Tables : /\ M.src[a].new \in BOOLEAN
                           /\ M.src[a].new => M.src[a].lt \in LuaTables /\ M.tab[a].live,
         M.calls \in Seq(Tables),
         \A i, j \in 1 .. Len(M.calls) : M.calls[i] = M.calls[j] => i = j,
         \A j \in 1 .. Len(M.calls) : M.src[M.calls[j]].new,
         NEW b \in Tables, ~M.tab[b].live, NEW lt \in LuaTables, NEW at,
         NEW R, OpenPut(R, M, b, lt, at), ConvStack(R)
  PROVE  /\ ConvTyped(R)
         /\ Len(R.calls) = Len(M.calls) + 1 /\ R.calls[Len(M.calls) + 1] = b
         /\ \A j \in 1 .. Len(M.calls) : R.calls[j] = M.calls[j] /\ M.calls[j] # b /\ M.calls[j] \in Tables
         /\ \A a \in Tables : M.src[a].new => a # b
<1> DEFINE t2 == R.tab
           tb == M.tab
           c == M.calls
           n == Len(c)
<1>1. /\ ConvRecord(R)
      /\ NewPut(t2, tb, b)
      /\ R.calls = Append(c, b)
      /\ R.err = M.err /\ R.full = M.full
      /\ OnTables(R.src)
      /\ R.src[b].new /\ R.src[b].lt = lt
      /\ \A a \in Tables : a # b => R.src[a] = M.src[a]
  BY ONLY ConvRecord(M), OnTables(M.src), b \in Tables, OpenPut(R, M, b, lt, at),
          OpenIs
<1>2. /\ HeapOK(t2)
      /\ t2[b].live /\ t2[b].ref = 1
      /\ \A q \in Tables : q # b => t2[q] = tb[q]
  <2>1. HeapOK(tb) /\ ~tb[b].live
    OBVIOUS
  <2>2. NewPut(t2, tb, b)
    BY ONLY <1>1
  <2> HIDE DEF t2, tb
  <2> QED BY ONLY <2>1, <2>2, b \in Tables, CreateTree
<1>3. CountedOnce(t2)
  BY <1>2 DEF CountedOnce
<1>4. \A a \in Tables : M.src[a].new => a # b
  OBVIOUS
<1>5. \A a \in Tables : /\ R.src[a].new \in BOOLEAN
                        /\ R.src[a].new => R.src[a].lt \in LuaTables /\ t2[a].live
  <2> SUFFICES ASSUME NEW a \in Tables
               PROVE  /\ R.src[a].new \in BOOLEAN
                      /\ R.src[a].new => R.src[a].lt \in LuaTables /\ t2[a].live
    OBVIOUS
  <2>1. CASE a = b
    BY ONLY <1>1, <1>2, <2>1, lt \in LuaTables
  <2>2. CASE a # b
    BY <1>1, <1>2, <2>2
  <2> QED BY <2>1, <2>2
<1>6. n \in Nat /\ \A j \in 1 .. n : c[j] \in Tables /\ M.src[c[j]].new
  <2>1. c \in Seq(Tables) /\ \A j \in 1 .. n : M.src[c[j]].new
    OBVIOUS
  <2> HIDE DEF c
  <2> QED BY ONLY <2>1
<1>7. /\ R.calls \in Seq(Tables)
      /\ Len(R.calls) = n + 1 /\ R.calls[n + 1] = b
      /\ \A j \in 1 .. n : R.calls[j] = c[j]
  <2>1. c \in Seq(Tables)
    OBVIOUS
  <2>2. R.calls = Append(c, b)
    BY ONLY <1>1
  <2> HIDE DEF c
  <2> QED BY ONLY <2>1, <2>2, b \in Tables
<1>8. \A j \in 1 .. n : c[j] # b
  BY ONLY <1>4, <1>6
<1>9. \A i, j \in 1 .. n : c[i] = c[j] => i = j
  OBVIOUS
<1>10. \A j \in 1 .. n + 1 : j = n + 1 \/ j \in 1 .. n
  BY ONLY <1>6
<1>11. \A i, j \in 1 .. Len(R.calls) : R.calls[i] = R.calls[j] => i = j
  BY ONLY <1>7, <1>8, <1>9, <1>10
<1>12. \A j \in 1 .. Len(R.calls) : R.src[R.calls[j]].new
  BY ONLY <1>1, <1>6, <1>7, <1>8, <1>10
<1>13. ConvTyped(R)
  BY ONLY <1>1, <1>2, <1>3, <1>5, <1>7, <1>11, <1>12, ConvStack(R) DEF ConvTyped
<1> QED
  BY ONLY <1>4, <1>6, <1>7, <1>8, <1>13

(* For the value of an entry that is a Lua table. *)
Opened(L, R, b) ==
  LET d == Len(L.calls)
      e == Source(L, d)[Turns(L)]
  IN  /\ Turns(L) \in 1 .. Len(Source(L, d))
      /\ KeyOK(e[1]) /\ e[2].t = "table"
      /\ b \in Tables /\ ~L.tab[b].live
      /\ NewPut(R.tab, L.tab, b)
      /\ R.src[b].new /\ R.src[b].at = <<L.calls[d], e[1]>>
      /\ \A a \in Tables : a # b => R.src[a] = L.src[a]
      /\ Len(R.calls) = d + 1 /\ R.calls[d + 1] = b
      /\ \A j \in 1 .. d : R.calls[j] = L.calls[j] /\ L.calls[j] # b
      /\ \A j \in 1 .. d : KeyAt(R, j) = IF j = d THEN e[1] ELSE KeyAt(L, j)
      /\ KeyAt(R, d + 1) = LNil

(* The stack of a turn with the value of the entry once more on top. *)
Opening(L, d, e, st3) ==
  /\ st3 \in Seq(StackValues) /\ Len(st3) = 4 * d + 1
  /\ \A q \in 1 .. 4 * d - 3 : st3[q] = L.st[q]
  /\ st3[4 * d - 2] = e[1] /\ st3[4 * d] = e[1] /\ st3[4 * d + 1] = e[2]
  /\ index2adr(st3, -1) = e[2] /\ index2adr(st3, -2) = e[1]

LEMMA OpenStack ==
  ASSUME NEW L, ConvTyped(L), Running(L), NEW d, d = Len(L.calls), NEW e, e = Source(L, d)[Turns(L)],
         Turns(L) \in 1 .. Len(Source(L, d)),
         NEW st2, st2 = lua_pushvalue(lua_next(L.st, -2).st, -2),
         NEW st3, st3 = lua_pushvalue(st2, -2)
  PROVE  Opening(L, d, e, st3)
<1> DEFINE st == L.st
           lt == Source(L, d)
           n == 4 * d - 2
           i == Turns(L)
<1>1. /\ d \in Nat \ {0} /\ lt \in LuaTables
      /\ st \in Seq(StackValues) /\ Len(st) = 4 * d - 2
      /\ st[4 * d - 3] = OnStack(lt)
      /\ KeyOf(lt, KeyAt(L, d))
      /\ Turns(L) = Place(lt, st[4 * d - 2]) + 1
  BY ONLY ConvTyped(L), Running(L), d = Len(L.calls), TopFacts
<1>2. /\ st2 \in Seq(StackValues) /\ Len(st2) = 4 * d
      /\ \A q \in 1 .. 4 * d - 3 : st2[q] = st[q]
      /\ st2[4 * d - 2] = e[1] /\ st2[4 * d - 1] = e[2] /\ st2[4 * d] = e[1]
  <2>1. n \in Nat /\ n >= 2 /\ Len(st) = n /\ n - 1 = 4 * d - 3 /\ n + 2 = 4 * d /\ n + 1 = 4 * d - 1
    BY ONLY <1>1
  <2>2. st[n - 1] = OnStack(lt) /\ KeyOf(lt, st[n])
    BY <1>1, <2>1 DEF KeyAt
  <2>3. i \in 1 .. Len(lt) /\ i = Place(lt, st[n]) + 1 /\ e = lt[i]
    BY <1>1
  <2>4. st2 = lua_pushvalue(lua_next(st, -2).st, -2)
    OBVIOUS
  <2> HIDE DEF n, i, st, lt
  <2>h. /\ st \in Seq(StackValues) /\ n \in Nat /\ n >= 2 /\ Len(st) = n
        /\ lt \in LuaTables /\ st[n - 1] = OnStack(lt) /\ KeyOf(lt, st[n])
        /\ i \in 1 .. Len(lt) /\ i = Place(lt, st[n]) + 1
    BY ONLY <1>1, <2>1, <2>2, <2>3
  <2>a. EntryStack(st, n, lt, i, st2)
    BY ONLY <2>h, <2>4, TurnStack
  <2>5. /\ st2 \in Seq(StackValues) /\ Len(st2) = n + 2
        /\ \A q \in 1 .. n - 1 : st2[q] = st[q]
        /\ st2[n] = lt[i][1] /\ st2[n + 1] = lt[i][2] /\ st2[n + 2] = lt[i][1]
    BY ONLY <2>a DEF EntryStack
  <2>6. st2[n] = e[1] /\ st2[n + 1] = e[2] /\ st2[n + 2] = e[1]
    BY ONLY <2>3, <2>5
  <2>7. n = 4 * d - 2
    BY DEF n
  <2> QED BY ONLY <2>1, <2>5, <2>6, <2>7
<1>3. /\ st3 \in Seq(StackValues) /\ Len(st3) = 4 * d + 1
      /\ \A q \in 1 .. 4 * d : st3[q] = st2[q]
      /\ st3[4 * d + 1] = st2[4 * d - 1]
  <2>1. 4 * d \in Nat /\ 4 * d >= 2 /\ 4 * d - 1 \in 1 .. 4 * d
    BY ONLY <1>1
  <2> QED BY ONLY <1>2, <2>1, st3 = lua_pushvalue(st2, -2), PushIs
<1>4. 4 * d - 2 \in 1 .. 4 * d /\ 4 * d \in 1 .. 4 * d /\ \A q \in 1 .. 4 * d - 3 : q \in 1 .. 4 * d
  BY ONLY <1>1
<1>5. index2adr(st3, -1) = st3[4 * d + 1] /\ index2adr(st3, -2) = st3[4 * d]
  <2>1. /\ index2adr(st3, -1) = st3[Len(st3) + (-1) + 1]
        /\ index2adr(st3, -2) = st3[Len(st3) + (-2) + 1]
    BY DEF index2adr
  <2>2. Len(st3) + (-1) + 1 = 4 * d + 1 /\ Len(st3) + (-2) + 1 = 4 * d
    BY ONLY <1>1, <1>3
  <2> QED BY ONLY <2>1, <2>2
<1> QED
  BY ONLY <1>2, <1>3, <1>4, <1>5 DEF Opening

LEMMA OpenedOK ==
  ASSUME NEW L, ConvTyped(L), Running(L), NEW d, d = Len(L.calls), NEW e, e = Source(L, d)[Turns(L)],
         Turns(L) \in 1 .. Len(Source(L, d)), KeyOK(e[1]), e[2].t = "table",
         NEW st3, Opening(L, d, e, st3), NEW M, Popped(M, L, st3),
         NEW b \in Tables, ~L.tab[b].live,
         NEW R, OpenPut(R, M, b, index2adr(M.st, -1).x, <<Last(M.calls), index2adr(M.st, -2)>>)
  PROVE  ConvTyped(R) /\ Opened(L, R, b)
<1> DEFINE lt == e[2].x
           at == <<L.calls[d], e[1]>>
<1>1. /\ d \in Nat \ {0} /\ d \in 1 .. d /\ Source(L, d) \in LuaTables
      /\ Last(L.calls) = L.calls[d]
  BY ONLY ConvTyped(L), Running(L), d = Len(L.calls), TopFacts
<1>2. e[1] # LNil /\ e[2] = OnStack(lt) /\ lt \in LuaTables
  BY <1>1, EntryFacts DEF OnStack
<1>3. /\ st3 \in Seq(StackValues) /\ Len(st3) = 4 * d + 1
      /\ \A q \in 1 .. 4 * d - 3 : st3[q] = L.st[q]
      /\ st3[4 * d - 2] = e[1] /\ st3[4 * d] = e[1] /\ st3[4 * d + 1] = e[2]
      /\ index2adr(st3, -1) = e[2] /\ index2adr(st3, -2) = e[1]
  BY DEF Opening
<1>4. Popped(M, L, st3)
  OBVIOUS
<1>5. /\ ConvRecord(L) /\ HeapOK(L.tab) /\ CountedOnce(L.tab) /\ OnTables(L.src)
      /\ \A a \in Tables : /\ L.src[a].new \in BOOLEAN
                           /\ L.src[a].new => L.src[a].lt \in LuaTables /\ L.tab[a].live
      /\ L.calls \in Seq(Tables)
      /\ \A i, j \in 1 .. Len(L.calls) : L.calls[i] = L.calls[j] => i = j
      /\ \A j \in 1 .. Len(L.calls) : L.src[L.calls[j]].new
      /\ ConvStack(L)
  BY DEF ConvTyped
<1>6. /\ ConvRecord(M) /\ M.st = st3
      /\ M.tab = L.tab /\ M.calls = L.calls /\ M.err = L.err /\ M.full = L.full /\ M.src = L.src
  BY ONLY <1>4, <1>5, PoppedIs
<1>7. OpenPut(R, M, b, lt, at)
  <2>1. index2adr(M.st, -1).x = lt /\ <<Last(M.calls), index2adr(M.st, -2)>> = at
    BY ONLY <1>1, <1>3, <1>6
  <2> QED BY ONLY <2>1, OpenPut(R, M, b, index2adr(M.st, -1).x, <<Last(M.calls), index2adr(M.st, -2)>>)
<1> HIDE DEF lt, at
<1>8. /\ ConvRecord(R)
      /\ NewPut(R.tab, L.tab, b)
      /\ R.calls = Append(L.calls, b)
      /\ R.st = Append(st3, LNil)
      /\ R.src[b].new /\ R.src[b].lt = lt /\ R.src[b].at = at
      /\ \A a \in Tables : a # b => R.src[a] = L.src[a]
  BY ONLY <1>5, <1>6, <1>7, b \in Tables, OpenIs, SMTT(30)
<1>9. /\ R.st \in Seq(StackValues) /\ Len(R.st) = 4 * d + 2
      /\ \A q \in 1 .. 4 * d + 1 : R.st[q] = st3[q]
      /\ R.st[4 * d + 2] = LNil
  <2>1. LNil \in StackValues /\ 4 * d + 1 \in Nat
    BY <1>1 DEF StackValues
  <2> DEFINE x == LNil
  <2> HIDE DEF x
  <2>2. x \in StackValues /\ R.st = Append(st3, x)
    BY <1>8, <2>1 DEF x
  <2>3. /\ R.st \in Seq(StackValues) /\ Len(R.st) = Len(st3) + 1
        /\ \A q \in 1 .. Len(st3) : R.st[q] = st3[q]
        /\ R.st[Len(st3) + 1] = x
    BY ONLY <1>3, <2>2
  <2>4. Len(st3) + 1 = 4 * d + 2
    BY ONLY <1>1, <1>3
  <2> QED BY ONLY <1>3, <2>3, <2>4 DEF x
<1>10. /\ Len(L.calls) = d
       /\ \A j \in 1 .. d : L.calls[j] \in Tables /\ L.calls[j] # b
  <2> DEFINE c == L.calls
  <2>1. c \in Seq(Tables) /\ d = Len(c)
    BY <1>5
  <2>2. \A j \in 1 .. d : L.src[c[j]].new
    BY ONLY <1>5, <2>1 DEF c
  <2> HIDE DEF c
  <2>3. \A j \in 1 .. d : c[j] \in Tables
    BY ONLY <2>1
  <2>4. \A j \in 1 .. d : L.tab[c[j]].live
    BY ONLY <1>5, <2>2, <2>3
  <2> QED BY ONLY <2>1, <2>3, <2>4, ~L.tab[b].live DEF c
<1>11. /\ Len(R.calls) = d + 1 /\ R.calls[d + 1] = b
       /\ \A j \in 1 .. d : R.calls[j] = L.calls[j]
  <2> DEFINE c == L.calls
  <2>1. c \in Seq(Tables) /\ d = Len(c) /\ R.calls = Append(c, b)
    BY <1>5, <1>8
  <2> HIDE DEF c
  <2>2. /\ Len(R.calls) = Len(c) + 1 /\ R.calls[Len(c) + 1] = b
        /\ \A j \in 1 .. Len(c) : R.calls[j] = c[j]
    BY ONLY <2>1, b \in Tables
  <2> QED BY ONLY <2>1, <2>2 DEF c
<1>12. \A j \in 1 .. d : Source(R, j) = Source(L, j)
  BY ONLY <1>8, <1>10, <1>11 DEF Source
<1>13. Source(R, d + 1) = lt
  BY ONLY <1>8, <1>11 DEF Source
<1>14. \A j \in 1 .. d : KeyAt(R, j) = IF j = d THEN e[1] ELSE KeyAt(L, j)
  <2>1. \A j \in 1 .. d : 4 * j - 2 \in 1 .. 4 * d + 1 /\ (j # d => 4 * j - 2 \in 1 .. 4 * d - 3)
    BY ONLY <1>1
  <2> QED BY ONLY <1>3, <1>9, <2>1 DEF KeyAt
<1>15. KeyAt(R, d + 1) = LNil
  <2>1. 4 * (d + 1) - 2 = 4 * d + 2
    BY ONLY <1>1
  <2> QED BY ONLY <1>9, <2>1 DEF KeyAt
<1>16. KeyOf(Source(R, d), e[1])
  BY <1>1, <1>12 DEF KeyOf
<1>17. ASSUME NEW j \in 1 .. d
       PROVE  /\ R.st[4 * j - 3] = OnStack(Source(R, j))
              /\ KeyOf(Source(R, j), KeyAt(R, j))
  <2>1. 4 * j - 3 \in 1 .. 4 * d - 3 /\ 4 * j - 3 \in 1 .. 4 * d + 1
    BY ONLY <1>1, j \in 1 .. d
  <2>2. R.st[4 * j - 3] = L.st[4 * j - 3]
    BY ONLY <1>3, <1>9, <2>1
  <2>3. L.st[4 * j - 3] = OnStack(Source(L, j)) /\ KeyOf(Source(L, j), KeyAt(L, j))
    BY ONLY <1>5, <1>10, j \in 1 .. d DEF ConvStack
  <2>4. Source(R, j) = Source(L, j) /\ KeyAt(R, j) = IF j = d THEN e[1] ELSE KeyAt(L, j)
    BY ONLY <1>12, <1>14, j \in 1 .. d
  <2> QED BY ONLY <1>16, <2>2, <2>3, <2>4
<1>18. ASSUME NEW j \in 1 .. d
       PROVE  R.st[4 * j] = KeyAt(R, j) /\ KeyAt(R, j) # LNil /\ KeyOK(KeyAt(R, j))
  <2>1. KeyAt(R, j) = IF j = d THEN e[1] ELSE KeyAt(L, j)
    BY ONLY <1>14, j \in 1 .. d
  <2>2. CASE j = d
    <3>1. 4 * d \in 1 .. 4 * d + 1
      BY ONLY <1>1
    <3>2. R.st[4 * d] = e[1]
      BY ONLY <1>3, <1>9, <3>1
    <3> QED BY ONLY <1>2, <2>1, <2>2, <3>2, KeyOK(e[1])
  <2>3. CASE j # d
    <3>1. 4 * j \in 1 .. 4 * d - 3 /\ 4 * j \in 1 .. 4 * d + 1
      BY ONLY <1>1, <2>3, j \in 1 .. d
    <3>2. R.st[4 * j] = L.st[4 * j]
      BY ONLY <1>3, <1>9, <3>1
    <3>3. L.st[4 * j] = KeyAt(L, j) /\ KeyAt(L, j) # LNil /\ KeyOK(KeyAt(L, j))
      BY ONLY <1>5, <1>10, <2>3, j \in 1 .. d DEF ConvStack
    <3> QED BY ONLY <2>1, <2>3, <3>2, <3>3
  <2> QED BY <2>2, <2>3
<1>19. ConvStack(R)
  <2>0. d \in Nat \ {0} /\ Len(R.calls) = d + 1 /\ Len(R.st) = 4 * d + 2
    BY ONLY <1>1, <1>9, <1>11
  <2>1. /\ Len(R.st) = 4 * Len(R.calls) - 2 /\ 4 * (d + 1) - 3 = 4 * d + 1
        /\ 4 * d + 1 \in 1 .. 4 * d + 1
        /\ \A j \in 1 .. Len(R.calls) : j = d + 1 \/ j \in 1 .. d
        /\ \A j \in 1 .. Len(R.calls) : j # Len(R.calls) => j \in 1 .. d
    BY ONLY <2>0
  <2>2. R.st[4 * (d + 1) - 3] = OnStack(Source(R, d + 1)) /\ KeyOf(Source(R, d + 1), KeyAt(R, d + 1))
    <3>1. R.st[4 * d + 1] = e[2]
      BY ONLY <1>3, <1>9, <2>1
    <3>2. KeyOf(Source(R, d + 1), KeyAt(R, d + 1))
      BY ONLY <1>15 DEF KeyOf
    <3> QED BY ONLY <1>2, <1>13, <2>1, <3>1, <3>2
  <2>3. \A j \in 1 .. Len(R.calls) :
       /\ R.st[4 * j - 3] = OnStack(Source(R, j))
       /\ KeyOf(Source(R, j), KeyAt(R, j))
    BY ONLY <1>17, <2>1, <2>2
  <2>4. \A j \in 1 .. Len(R.calls) : j # Len(R.calls) =>
          R.st[4 * j] = KeyAt(R, j) /\ KeyAt(R, j) # LNil /\ KeyOK(KeyAt(R, j))
    BY ONLY <1>18, <2>1
  <2> QED BY ONLY <1>9, <2>1, <2>3, <2>4 DEF ConvStack
<1>20. ConvTyped(R)
  <2>1. ~M.tab[b].live
    BY ONLY <1>6, ~L.tab[b].live
  <2> QED BY ONLY <1>2, <1>5, <1>6, <1>7, <1>19, <2>1, b \in Tables, OpenTyped
<1>21. Opened(L, R, b)
  BY <1>8, <1>10, <1>11, <1>14, <1>15 DEF Opened, at
<1> QED
  BY <1>20, <1>21

LEMMA FreeFacts ==
  ASSUME NEW h, Live(h) # Tables
  PROVE  FreeTable(h) \in Tables /\ ~h[FreeTable(h)].live
<1>1. \E a \in Tables : ~h[a].live
  BY DEF Live
<1>2. FreeTable(h) = CHOOSE a \in Tables : ~h[a].live
  BY DEF FreeTable
<1> QED
  BY ONLY <1>1, <1>2

FullPut(R, M, x) == R = [M EXCEPT !.full = x]

LEMMA FullIs ==
  ASSUME NEW L, ConvTyped(L), NEW st, NEW M, Popped(M, L, st), NEW R,
         NEW x, x # {}, FullPut(R, M, x)
  PROVE  ConvTyped(R) /\ R.full = x
<1>1. /\ ConvRecord(M) /\ M.st = st
      /\ M.tab = L.tab /\ M.calls = L.calls /\ M.err = L.err /\ M.full = L.full /\ M.src = L.src
  BY PoppedIs DEF ConvTyped
<1>2. R = [st |-> M.st, tab |-> M.tab, calls |-> M.calls, err |-> M.err, full |-> x, src |-> M.src]
  BY ONLY <1>1, FullPut(R, M, x) DEF FullPut, ConvRecord
<1>3. R.st = M.st /\ R.tab = M.tab /\ R.calls = M.calls /\ R.err = M.err /\ R.full = x
      /\ R.src = M.src
  BY ONLY <1>2
<1>4. ConvRecord(R)
  BY ONLY <1>2, <1>3 DEF ConvRecord
<1>5. R.tab = L.tab /\ R.calls = L.calls /\ R.src = L.src /\ R.full # {}
  BY ONLY <1>1, <1>3, x # {}
<1> QED
  BY ONLY ConvTyped(L), <1>3, <1>4, <1>5, ConvStops

LEMMA RunOut ==
  ASSUME NEW L, ConvTyped(L), NEW R, NEW x, x # {}, FullPut(R, L, x)
  PROVE  ConvTyped(R) /\ R.full = x
<1>1. ConvRecord(L)
  BY DEF ConvTyped
<1>2. R = [st |-> L.st, tab |-> L.tab, calls |-> L.calls, err |-> L.err, full |-> x, src |-> L.src]
  BY ONLY <1>1, FullPut(R, L, x) DEF FullPut, ConvRecord
<1>3. R.st = L.st /\ R.tab = L.tab /\ R.calls = L.calls /\ R.err = L.err /\ R.full = x
      /\ R.src = L.src
  BY ONLY <1>2
<1>4. ConvRecord(R)
  BY ONLY <1>2, <1>3 DEF ConvRecord
<1> QED
  BY ONLY ConvTyped(L), x # {}, <1>3, <1>4, ConvStops

ErrPut(R, L) == R = [L EXCEPT !.err = TRUE]

LEMMA ErrIs ==
  ASSUME NEW L, ConvTyped(L), NEW R, ErrPut(R, L)
  PROVE  ConvTyped(R) /\ R.err
<1>1. ConvRecord(L)
  BY DEF ConvTyped
<1>2. R = [st |-> L.st, tab |-> L.tab, calls |-> L.calls, err |-> TRUE, full |-> L.full, src |-> L.src]
  BY ONLY <1>1, ErrPut(R, L) DEF ErrPut, ConvRecord
<1>3. R.st = L.st /\ R.tab = L.tab /\ R.calls = L.calls /\ R.err /\ R.err = TRUE /\ R.full = L.full
      /\ R.src = L.src
  BY ONLY <1>2
<1>4. ConvRecord(R)
  BY ONLY <1>2, <1>3 DEF ConvRecord
<1> QED
  BY ONLY ConvTyped(L), <1>3, <1>4, ConvStops

(* What a turn does. *)
Turned(L, R) ==
  \/ R.err
  \/ R.full # {}
  \/ Finished(L, R)
  \/ Returned(L, R)
  \/ Entered(L, R)
  \/ \E b \in Tables : Opened(L, R, b)

LEMMA ConvertStepIs ==
  ASSUME NEW L, ConvTyped(L)
  PROVE  /\ ConvTyped(ConvertStep(L))
         /\ ~Running(L) => ConvertStep(L) = L
         /\ Running(L) => Turned(L, ConvertStep(L))
<1>1. CASE ~Running(L)
  <2>1. L.calls = <<>> \/ L.err \/ L.full # {}
    BY <1>1 DEF Running
  <2>2. ConvertStep(L) = L
    BY ONLY <2>1 DEF ConvertStep
  <2> QED BY <1>1, <2>2
<1>2. CASE Running(L)
  <2> DEFINE d == Len(L.calls)
             R == ConvertStep(L)
             lt == Source(L, d)
             i == Turns(L)
             e == lt[i]
             a == Last(L.calls)
             nx == lua_next(L.st, -2)
             st2 == lua_pushvalue(nx.st, -2)
             st3 == lua_pushvalue(st2, -2)
             P == SubSeq(L.st, 1, 4 * d - 3)
             key == index2adr(st2, -1)
             val == index2adr(st2, -2)
             S == Setter(L.tab[a].map, get_key(key), val)
             M1 == [L EXCEPT !.st = nx.st]
             M3 == [L EXCEPT !.st = st3]
  <2>1. R = (IF L.calls = <<>> \/ L.err \/ L.full # {} THEN L
             ELSE IF ~nx.more THEN Return(M1)
             ELSE IF Overflows(st2) THEN [L EXCEPT !.full = {"slots"}]
             ELSE IF ~KeyOK(key) THEN [L EXCEPT !.err = TRUE]
             ELSE IF val.t = "table" THEN Call(M3)
             ELSE IF val.t \notin DOMAIN LTypes THEN [L EXCEPT !.err = TRUE]
             ELSE [L EXCEPT !.tab[a].map = S.map, !.err = S.ret # 0, !.st = lua_pop(st2, 2)])
    BY DEF ConvertStep
  <2>2. ~(L.calls = <<>> \/ L.err \/ L.full # {})
    BY <1>2 DEF Running
  <2>3. /\ d \in Nat \ {0} /\ d \in 1 .. d /\ a = L.calls[d] /\ lt \in LuaTables
        /\ i \in 1 .. Len(lt) + 1
        /\ L.st \in Seq(StackValues) /\ Len(L.st) = 4 * d - 2
    BY <1>2, TopFacts
  <2>4. (nx.more <=> i # Len(lt) + 1) /\ (i = Len(lt) + 1 => nx.st = P)
    BY <1>2, NextFacts
  <2>5. ConvRecord(L)
    BY DEF ConvTyped
  <2>6. L.calls \in Seq(Tables)
    BY DEF ConvTyped
  <2>7. CASE ~nx.more
    <3>1. i = Len(lt) + 1 /\ nx.st = P
      BY <2>4, <2>7
    <3>2. Popped(M1, L, P)
      BY <3>1 DEF Popped
    <3>3. R = Return(M1)
      BY <2>1, <2>2, <2>7
    <3> HIDE DEF R, M1, P, nx, lt, i
    <3>4. /\ ConvRecord(M1) /\ M1.st = P
          /\ M1.tab = L.tab /\ M1.calls = L.calls /\ M1.err = L.err /\ M1.full = L.full
          /\ M1.src = L.src
      BY ONLY <2>5, <3>2, PoppedIs
    <3>5. Front(M1.calls) = <<>> <=> d = 1
      <4> DEFINE c == Front(L.calls)
      <4>1. c \in Seq(Tables) /\ Len(c) = d - 1
        BY <2>2, <2>6, FrontFacts
      <4> HIDE DEF c, d
      <4>2. c = <<>> <=> d = 1
        BY ONLY <2>3, <4>1
      <4> QED BY <3>4, <4>2 DEF c
    <3>6. CASE d = 1
      <4>1. R = [M1 EXCEPT !.calls = <<>>]
        BY <3>3, <3>5, <3>6 DEF Return
      <4>2. CallsPut(R, M1, <<>>)
        BY <4>1 DEF CallsPut
      <4>3. Turns(L) = Len(Source(L, 1)) + 1 /\ Len(L.calls) = 1
        BY <3>1, <3>6 DEF i, lt
      <4>4. ConvTyped(R) /\ Finished(L, R)
        BY ONLY ConvTyped(L), <1>2, <3>2, <4>2, <4>3, FinishedOK
      <4> QED BY <1>2, <4>4 DEF R, Turned
    <3>7. CASE d # 1
      <4> DEFINE o == Front(M1.calls)
      <4>1. R = [M1 EXCEPT !.tab[Last(o)].map = Setter(@, get_key(index2adr(M1.st, -2)), LUd(Last(M1.calls))).map,
                           !.calls = o, !.st = lua_pop(@, 3)]
        BY <3>3, <3>5, <3>7 DEF Return
      <4>2. ReturnPut(R, M1, Last(Front(M1.calls)), get_key(index2adr(M1.st, -2)), LUd(Last(M1.calls)),
                          Front(M1.calls), lua_pop(M1.st, 3))
        BY <4>1 DEF ReturnPut
      <4> HIDE DEF d
      <4>3. d > 1
        BY ONLY <2>3, <3>7
      <4>4. Turns(L) = Len(Source(L, d)) + 1 /\ d = Len(L.calls) /\ Popped(M1, L, SubSeq(L.st, 1, 4 * d - 3))
        BY <3>1, <3>2 DEF i, lt, d, P
      <4>5. ConvTyped(R) /\ Returned(L, R)
        BY ONLY ConvTyped(L), <1>2, <4>2, <4>3, <4>4, ReturnedOK
      <4> QED BY <1>2, <4>5 DEF R, Turned
    <3> QED BY <3>6, <3>7
  <2>o. CASE nx.more /\ Overflows(st2)
    <3>1. R = [L EXCEPT !.full = {"slots"}]
      BY <2>1, <2>2, <2>o
    <3> HIDE DEF R
    <3>2. FullPut(R, L, {"slots"})
      BY <3>1 DEF FullPut
    <3>3. ConvTyped(R) /\ R.full = {"slots"}
      BY ONLY ConvTyped(L), <3>2, RunOut
    <3> QED BY <1>2, <3>3 DEF R, Turned
  <2>8. CASE nx.more /\ ~Overflows(st2)
    <3>1. i \in 1 .. Len(lt)
      <4>1. Len(lt) \in Nat
        BY <2>3, EntryFacts
      <4> QED BY <2>3, <2>4, <2>8, <4>1
    <3> HIDE DEF nx
    <3>2. st2 = lua_pushvalue(lua_next(L.st, -2).st, -2) /\ st3 = lua_pushvalue(st2, -2)
      BY DEF nx
    <3> HIDE DEF st2, st3, d, R, i, e, lt
    <3>d. d = Len(L.calls) /\ lt = Source(L, d) /\ i = Turns(L) /\ e = Source(L, d)[Turns(L)]
          /\ Turns(L) \in 1 .. Len(Source(L, d))
      BY <3>1 DEF d, i, e, lt
    <3>3. Opening(L, d, e, st3)
      BY ONLY ConvTyped(L), <1>2, <3>2, <3>d, OpenStack
    <3>4. key = e[1] /\ val = e[2]
      <4> DEFINE n == 4 * d - 2
      <4>0. /\ L.st[4 * d - 3] = OnStack(lt) /\ KeyOf(lt, KeyAt(L, d))
            /\ i = Place(lt, L.st[4 * d - 2]) + 1
        BY ONLY ConvTyped(L), <1>2, <3>d, TopFacts
      <4>1. n \in Nat /\ n >= 2 /\ Len(L.st) = n /\ n - 1 = 4 * d - 3
        BY ONLY <2>3
      <4>2. L.st[n - 1] = OnStack(lt) /\ KeyOf(lt, L.st[n])
        BY <4>0, <4>1 DEF KeyAt
      <4>3. i = Place(lt, L.st[n]) + 1
        BY <4>0
      <4> HIDE DEF n
      <4>h. /\ L.st \in Seq(StackValues) /\ n \in Nat /\ n >= 2 /\ Len(L.st) = n
            /\ lt \in LuaTables /\ L.st[n - 1] = OnStack(lt) /\ KeyOf(lt, L.st[n])
            /\ i \in 1 .. Len(lt) /\ i = Place(lt, L.st[n]) + 1
        BY ONLY <2>3, <3>1, <3>2, <4>1, <4>2, <4>3
      <4>a. EntryStack(L.st, n, lt, i, st2)
        BY ONLY <3>1, <3>2, <4>h, TurnStack
      <4>4. /\ st2 \in Seq(StackValues) /\ Len(st2) = n + 2
            /\ st2[n + 1] = lt[i][2] /\ st2[n + 2] = lt[i][1]
        BY ONLY <4>a DEF EntryStack
      <4>5. key = st2[Len(st2) + (-1) + 1] /\ val = st2[Len(st2) + (-2) + 1]
        BY DEF index2adr
      <4>6. Len(st2) + (-1) + 1 = n + 2 /\ Len(st2) + (-2) + 1 = n + 1
        BY ONLY <4>1, <4>4
      <4>7. e = lt[i]
        BY DEF e
      <4> QED BY ONLY <4>4, <4>5, <4>6, <4>7
    <3> HIDE DEF key, val
    <3>5. CASE ~KeyOK(key) \/ (val.t # "table" /\ val.t \notin DOMAIN LTypes)
      <4>1. R = [L EXCEPT !.err = TRUE]
        BY <2>1, <2>2, <2>8, <3>5 DEF nx
      <4>2. ErrPut(R, L)
        BY <4>1 DEF ErrPut
      <4>3. ConvTyped(R) /\ R.err
        BY ONLY ConvTyped(L), <4>2, ErrIs
      <4> QED BY <1>2, <4>3 DEF R, Turned
    <3>6. CASE KeyOK(key) /\ val.t = "table"
      <4>1. R = Call(M3)
        BY <2>1, <2>2, <2>8, <3>6 DEF nx
      <4>2. Popped(M3, L, st3)
        BY DEF Popped
      <4> HIDE DEF M3
      <4>3. /\ ConvRecord(M3) /\ M3.st = st3
            /\ M3.tab = L.tab /\ M3.calls = L.calls /\ M3.err = L.err /\ M3.full = L.full
            /\ M3.src = L.src
        BY ONLY <2>5, <4>2, PoppedIs
      <4>4. CASE Overflows(Append(M3.st, LNil)) \/ Live(M3.tab) = Tables
        <5> DEFINE x == IF Overflows(Append(M3.st, LNil)) THEN {"slots"} ELSE {"tables"}
        <5>1. FullPut(R, M3, x)
          BY <4>1, <4>4 DEF Call, FullPut
        <5>2. x # {}
          OBVIOUS
        <5> HIDE DEF x
        <5>3. ConvTyped(R) /\ R.full # {}
          BY ONLY ConvTyped(L), <4>2, <5>1, <5>2, FullIs
        <5> QED BY <1>2, <5>3 DEF R, Turned
      <4>5. CASE ~Overflows(Append(M3.st, LNil)) /\ Live(M3.tab) # Tables
        <5> DEFINE b == FreeTable(M3.tab)
                   at == <<Last(M3.calls), index2adr(M3.st, -2)>>
        <5>1. b \in Tables /\ ~L.tab[b].live
          BY <4>3, <4>5, FreeFacts
        <5>2. M3.calls # <<>>
          BY <2>2, <4>3
        <5>3. R = [M3 EXCEPT !.tab[b] = NewTable, !.calls = Append(@, b), !.st = Append(@, LNil),
                             !.src[b] = [new |-> TRUE, lt |-> index2adr(M3.st, -1).x, at |-> at]]
          BY <4>1, <4>5, <5>2 DEF Call
        <5> HIDE DEF b
        <5>4. OpenPut(R, M3, b, index2adr(M3.st, -1).x, <<Last(M3.calls), index2adr(M3.st, -2)>>)
          BY <5>3 DEF OpenPut
        <5>5. KeyOK(e[1]) /\ e[2].t = "table"
          BY <3>4, <3>6
        <5>6. ConvTyped(R) /\ Opened(L, R, b)
          BY ONLY ConvTyped(L), <1>2, <3>d, <3>3, <4>2, <5>1, <5>4, <5>5, OpenedOK
        <5>7. \E q \in Tables : Opened(L, R, q)
          BY ONLY <5>1, <5>6
        <5> QED BY <1>2, <5>6, <5>7 DEF R, Turned
      <4> QED BY <4>4, <4>5
    <3>7. CASE KeyOK(key) /\ val.t # "table" /\ val.t \in DOMAIN LTypes
      <4>1. R = [L EXCEPT !.tab[a].map = S.map, !.err = S.ret # 0, !.st = lua_pop(st2, 2)]
        BY <2>1, <2>2, <2>8, <3>7 DEF nx
      <4>2. PutAt(R, L, a, S, lua_pop(st2, 2))
        BY <4>1 DEF PutAt
      <4>3. S = Setter(L.tab[a].map, get_key(e[1]), e[2])
        BY <3>4
      <4> HIDE DEF S, a
      <4>4. KeyOK(e[1]) /\ e[2].t \in DOMAIN LTypes /\ a = L.calls[d]
        BY <2>3, <3>4, <3>7
      <4>5. ConvTyped(R) /\ Entered(L, R)
        BY ONLY ConvTyped(L), <1>2, <3>2, <3>d, <4>2, <4>3, <4>4, EnteredOK
      <4> QED BY <1>2, <4>5 DEF R, Turned
    <3> QED BY <3>5, <3>6, <3>7
  <2> QED BY <2>7, <2>o, <2>8
<1> QED
  BY <1>1, <1>2

LEMMA ConvertRunDef ==
  ASSUME NEW L
  PROVE  /\ ConvertRun(L)[0] = Call(L)
         /\ \A n \in 1 .. MaxSteps : ConvertRun(L)[n] = ConvertStep(ConvertRun(L)[n - 1])
<1> DEFINE Eqn(f, k) == f = [n \in 0 .. k |-> IF n = 0 THEN Call(L) ELSE ConvertStep(f[n - 1])]
           T == {k \in 0 .. MaxSteps : \E f : Eqn(f, k)}
<1>1. MaxSteps \in Nat
  BY SizeAssumption
<1>2. 0 \in T
  <2>1. Eqn([n \in 0 .. 0 |-> Call(L)], 0)
    OBVIOUS
  <2> HIDE DEF Eqn
  <2> QED BY <1>1, <2>1
<1>3. ASSUME NEW k \in 1 .. MaxSteps, k - 1 \in T PROVE k \in T
  <2>1. PICK f : Eqn(f, k - 1)
    BY <1>3
  <2> DEFINE last == ConvertStep(f[k - 1])
             g == [n \in 0 .. k |-> IF n = k THEN last ELSE f[n]]
  <2>2. \A n \in 0 .. k - 1 : f[n] = IF n = 0 THEN Call(L) ELSE ConvertStep(f[n - 1])
    BY <2>1
  <2>3. \A n \in 0 .. k : g[n] = IF n = 0 THEN Call(L) ELSE ConvertStep(g[n - 1])
    <3> SUFFICES ASSUME NEW n \in 0 .. k
                 PROVE  g[n] = IF n = 0 THEN Call(L) ELSE ConvertStep(g[n - 1])
      OBVIOUS
    <3>1. CASE n = 0
      <4>1. 0 \in 0 .. k - 1 /\ 0 # k /\ 0 \in 0 .. k
        OBVIOUS
      <4>2. g[0] = f[0]
        BY <4>1
      <4>3. f[0] = Call(L)
        BY <2>2, <4>1
      <4> HIDE DEF g
      <4> QED BY <3>1, <4>2, <4>3
    <3>2. CASE n = k
      <4>1. g[n - 1] = f[k - 1] /\ n # 0
        BY <3>2
      <4>2. g[n] = last
        BY <3>2
      <4> HIDE DEF g
      <4> QED BY <4>1, <4>2
    <3>3. CASE n # 0 /\ n # k
      <4>1. n \in 0 .. k - 1 /\ n - 1 \in 0 .. k /\ n - 1 # k
        BY <3>3
      <4>2. g[n] = f[n] /\ g[n - 1] = f[n - 1]
        BY <3>3, <4>1
      <4>3. f[n] = ConvertStep(f[n - 1])
        BY <2>2, <3>3, <4>1
      <4> HIDE DEF g
      <4> QED BY <3>3, <4>2, <4>3
    <3> QED BY <3>1, <3>2, <3>3
  <2>4. g = [n \in 0 .. k |-> g[n]]
    OBVIOUS
  <2> HIDE DEF g
  <2>5. Eqn(g, k)
    BY <2>3, <2>4
  <2> HIDE DEF Eqn
  <2> QED BY <2>5
<1> HIDE DEF T
<1>4. \A k \in 0 .. MaxSteps : k \in T
  BY <1>1, <1>2, <1>3, UpToInduction
<1>5. PICK f : Eqn(f, MaxSteps)
  BY <1>1, <1>4 DEF T
<1> DEFINE run == ConvertRun(L)
<1>6. Eqn(run, MaxSteps)
  <2>1. run = CHOOSE x : Eqn(x, MaxSteps)
    BY DEF ConvertRun
  <2> HIDE DEF Eqn, run
  <2> QED BY <1>5, <2>1
<1> HIDE DEF run
<1>7. \A n \in 0 .. MaxSteps : run[n] = IF n = 0 THEN Call(L) ELSE ConvertStep(run[n - 1])
  BY <1>6
<1>8. 0 \in 0 .. MaxSteps /\ \A n \in 1 .. MaxSteps : n \in 0 .. MaxSteps /\ n # 0
  BY <1>1
<1>9. run[0] = Call(L) /\ \A n \in 1 .. MaxSteps : run[n] = ConvertStep(run[n - 1])
  BY <1>7, <1>8
<1> QED
  BY <1>9 DEF run

(* The outermost call: its Lua table alone is on the stack. *)
Start(g, lt) ==
  [st |-> <<OnStack(lt)>>, tab |-> g, calls |-> <<>>, err |-> FALSE, full |-> {},
   src |-> [a \in Tables |-> NotNew]]

First(R, g, lt, b) ==
  /\ ~g[b].live
  /\ NewPut(R.tab, g, b)
  /\ R.src[b].new /\ R.src[b].lt = lt /\ R.src[b].at = <<>>
  /\ \A a \in Tables : a # b => ~R.src[a].new
  /\ Len(R.calls) = 1 /\ R.calls[1] = b
  /\ KeyAt(R, 1) = LNil

LEMMA StartIs ==
  ASSUME NEW g, HeapOK(g), CountedOnce(g), NEW lt \in LuaTables
  PROVE  /\ ConvTyped(Call(Start(g, lt)))
         /\ Call(Start(g, lt)).full # {} \/ \E b \in Tables : First(Call(Start(g, lt)), g, lt, b)
<1> DEFINE L == Start(g, lt)
           src == [a \in Tables |-> NotNew]
           st == <<OnStack(lt)>>
           R == Call(L)
<1>1. L = [st |-> st, tab |-> g, calls |-> <<>>, err |-> FALSE, full |-> {}, src |-> src]
  BY DEF Start
<1>2. ~NotNew.new
  BY DEF NotNew
<1>3. OnTables(src) /\ \A a \in Tables : src[a] = NotNew
  BY DEF OnTables
<1>a. OnStack(lt) \in StackValues /\ LNil \in StackValues
  BY DEF StackValues
<1>b. OnStack(lt).x = lt
  BY DEF OnStack
<1> DEFINE x == OnStack(lt)
<1> HIDE DEF L, src, x
<1>4. /\ L.st = st /\ L.tab = g /\ L.calls = <<>> /\ L.err = FALSE /\ L.full = {} /\ L.src = src
  BY ONLY <1>1
<1>5. ConvRecord(L)
  BY ONLY <1>1, <1>4 DEF ConvRecord
<1>6. st = <<x>> /\ st \in Seq(StackValues) /\ Len(st) = 1 /\ st[1] = x
  BY <1>a DEF x
<1> HIDE DEF st
<1>7. \A a \in Tables : src[a].new = FALSE
  BY ONLY <1>3 DEF NotNew
<1>8. CASE Overflows(Append(L.st, LNil)) \/ Live(g) = Tables
  <2> DEFINE full == IF Overflows(Append(L.st, LNil)) THEN {"slots"} ELSE {"tables"}
  <2>1. R = [L EXCEPT !.full = full]
    BY <1>4, <1>8 DEF Call
  <2>f. full # {}
    OBVIOUS
  <2> HIDE DEF R, full
  <2>2. R = [st |-> st, tab |-> g, calls |-> <<>>, err |-> FALSE, full |-> full, src |-> src]
    BY ONLY <1>1, <2>1
  <2>3. /\ R.st = st /\ R.tab = g /\ R.calls = <<>> /\ R.err = FALSE /\ R.full # {}
        /\ R.src = src
    BY ONLY <2>2, <2>f
  <2>4. ConvRecord(R)
    BY ONLY <2>2, <2>3 DEF ConvRecord
  <2>5. ~Running(R)
    BY ONLY <2>3 DEF Running
  <2>6. R.calls \in Seq(Tables) /\ \A j \in 1 .. Len(R.calls) : FALSE
    BY <2>3
  <2>7. ConvTyped(R)
    BY <1>3, <1>7, <2>3, <2>4, <2>5, <2>6 DEF ConvTyped
  <2> QED BY <2>3, <2>7 DEF R, L
<1>9. CASE ~Overflows(Append(L.st, LNil)) /\ Live(g) # Tables
  <2> DEFINE b == FreeTable(g)
             at == <<>>
  <2>1. b \in Tables /\ ~g[b].live
    BY <1>9, FreeFacts
  <2>2. index2adr(L.st, -1).x = lt
    <3>1. index2adr(st, -1) = st[Len(st) + (-1) + 1]
      BY DEF index2adr
    <3>2. Len(st) + (-1) + 1 = 1
      BY <1>6
    <3> QED BY <1>4, <1>6, <1>b, <3>1, <3>2 DEF x
  <2>3. R = [L EXCEPT !.tab[b] = NewTable, !.calls = Append(@, b), !.st = Append(@, LNil),
                      !.src[b] = [new |-> TRUE, lt |-> index2adr(L.st, -1).x, at |-> <<>>]]
    BY <1>4, <1>9 DEF Call
  <2> HIDE DEF R, b
  <2>4. OpenPut(R, L, b, lt, <<>>)
    BY <2>2, <2>3 DEF OpenPut
  <2> HIDE DEF at
  <2>5. OnTables(L.src)
    BY <1>3, <1>4
  <2>5a. OpenPut(R, L, b, lt, at)
    BY <2>4 DEF at
  <2>6. /\ ConvRecord(R)
        /\ NewPut(R.tab, L.tab, b)
        /\ R.calls = Append(L.calls, b)
        /\ R.st = Append(L.st, LNil)
        /\ R.src[b].new /\ R.src[b].lt = lt /\ R.src[b].at = at
        /\ \A a \in Tables : a # b => R.src[a] = L.src[a]
    BY ONLY <1>5, <2>1, <2>5, <2>5a, OpenIs
  <2>7. R.calls \in Seq(Tables) /\ Len(R.calls) = 1 /\ R.calls[1] = b
    BY <1>4, <2>1, <2>6
  <2>8. R.st \in Seq(StackValues) /\ Len(R.st) = 2 /\ R.st[1] = x /\ R.st[2] = LNil
    <3> DEFINE y == LNil
    <3> HIDE DEF y
    <3>1. R.st = Append(st, y) /\ y \in StackValues
      BY <1>4, <1>a, <2>6 DEF y
    <3>2. /\ R.st \in Seq(StackValues) /\ Len(R.st) = Len(st) + 1 /\ R.st[Len(st) + 1] = y
          /\ \A q \in 1 .. Len(st) : R.st[q] = st[q]
      BY ONLY <1>6, <3>1
    <3> QED BY ONLY <1>6, <3>2 DEF y
  <2>9. KeyAt(R, 1) = LNil /\ Source(R, 1) = lt
    BY ONLY <2>6, <2>7, <2>8 DEF KeyAt, Source
  <2>10. ConvStack(R)
    <3>1. Len(R.st) = 4 * Len(R.calls) - 2 /\ 4 * 1 - 3 = 1 /\ \A j \in 1 .. Len(R.calls) : j = 1 /\ j = Len(R.calls)
      BY ONLY <2>7, <2>8
    <3>2. R.st[4 * 1 - 3] = OnStack(Source(R, 1)) /\ KeyOf(Source(R, 1), KeyAt(R, 1))
      BY ONLY <2>8, <2>9, <3>1 DEF x, KeyOf
    <3> QED BY ONLY <2>8, <3>1, <3>2 DEF ConvStack
  <2>11. ConvTyped(R)
    <3>1. /\ HeapOK(L.tab) /\ CountedOnce(L.tab) /\ ~L.tab[b].live
          /\ L.calls \in Seq(Tables) /\ \A j \in 1 .. Len(L.calls) : FALSE
      BY <1>4, <2>1
    <3>2. \A a \in Tables : /\ L.src[a].new \in BOOLEAN
                            /\ L.src[a].new => L.src[a].lt \in LuaTables /\ L.tab[a].live
      BY <1>4, <1>7
    <3>3. /\ \A i, j \in 1 .. Len(L.calls) : L.calls[i] = L.calls[j] => i = j
          /\ \A j \in 1 .. Len(L.calls) : L.src[L.calls[j]].new
      BY ONLY <3>1
    <3> QED BY ONLY <1>5, <2>1, <2>5, <2>5a, <2>10, <3>1, <3>2, <3>3, lt \in LuaTables, OpenTyped
  <2>12. First(R, g, lt, b)
    BY <1>4, <1>7, <2>1, <2>6, <2>7, <2>9 DEF First, at
  <2> QED BY <2>1, <2>11, <2>12 DEF R, L
<1> QED
  BY <1>8, <1>9

-----------------------------------------------------------------------------
(* What has been converted *)

(* Entry i of the Lua table of a has been dealt with, or waits for the      *)
(* conversion of its value.                                                 *)
Done(L, a, i) ==
  \A j \in 1 .. Len(L.calls) : L.calls[j] = a =>
    \/ i < Place(Source(L, j), KeyAt(L, j))
    \/ j = Len(L.calls) /\ i = Place(Source(L, j), KeyAt(L, j))

Pending(L, a, i) ==
  \E j \in 1 .. Len(L.calls) :
    /\ j # Len(L.calls)
    /\ L.calls[j] = a
    /\ i = Place(Source(L, j), KeyAt(L, j))

Entries(L, a) == 1 .. Len(L.src[a].lt)

(* Turns that deal with one more entry, with none, and with none but leave  *)
(* one more waiting.                                                        *)
DoneMore(R, L, p, n) ==
  \A a \in Tables : L.src[a].new => \A i \in Entries(L, a) :
    /\ Done(R, a, i) <=> Done(L, a, i) \/ (a = p /\ i = n)
    /\ Pending(L, a, i) => Pending(R, a, i) \/ (a = p /\ i = n)

DoneSame(R, L) ==
  \A a \in Tables : L.src[a].new => \A i \in Entries(L, a) :
    /\ Done(R, a, i) <=> Done(L, a, i)
    /\ Pending(L, a, i) => Pending(R, a, i)

LEMMA CallPlace ==
  ASSUME NEW L, ConvTyped(L), Running(L), NEW j \in 1 .. Len(L.calls)
  PROVE  /\ Source(L, j) \in LuaTables
         /\ Len(Source(L, j)) \in Nat
         /\ Place(Source(L, j), KeyAt(L, j)) \in 0 .. Len(Source(L, j))
         /\ KeyAt(L, j) = LNil => Place(Source(L, j), KeyAt(L, j)) = 0
         /\ KeyAt(L, j) # LNil =>
              /\ Place(Source(L, j), KeyAt(L, j)) \in 1 .. Len(Source(L, j))
              /\ Source(L, j)[Place(Source(L, j), KeyAt(L, j))][1] = KeyAt(L, j)
         /\ \A i \in 1 .. Len(Source(L, j)) :
              KeyAt(L, j) = Source(L, j)[i][1] => Place(Source(L, j), KeyAt(L, j)) = i
         /\ j # Len(L.calls) => KeyAt(L, j) # LNil
<1> DEFINE lt == Source(L, j)
           key == KeyAt(L, j)
<1>1. Len(L.calls) \in Nat /\ ConvStack(L)
  BY DEF ConvTyped, Running
<1>2. lt \in LuaTables
  BY TopFacts
<1>3. KeyOf(lt, key) /\ (j # Len(L.calls) => key # LNil)
  BY <1>1 DEF ConvStack
<1> HIDE DEF lt, key
<1>4. Len(lt) \in Nat
  BY <1>2, EntryFacts
<1>5. Place(lt, LNil) = 0 /\ \A i \in 1 .. Len(lt) : Place(lt, lt[i][1]) = i
  BY <1>2, PlaceIs
<1>6. key # LNil => Place(lt, key) \in 1 .. Len(lt) /\ lt[Place(lt, key)][1] = key
  BY <1>3, <1>5 DEF KeyOf
<1>7. Place(lt, key) \in 0 .. Len(lt)
  BY ONLY <1>4, <1>5, <1>6
<1> QED
  BY <1>2, <1>3, <1>4, <1>5, <1>6, <1>7 DEF lt, key

(* Only its own call counts for a table. *)
LEMMA DoneIs ==
  ASSUME NEW L, ConvTyped(L), NEW j \in 1 .. Len(L.calls), NEW i
  PROVE  /\ Done(L, L.calls[j], i) <=>
              \/ i < Place(Source(L, j), KeyAt(L, j))
              \/ j = Len(L.calls) /\ i = Place(Source(L, j), KeyAt(L, j))
         /\ Pending(L, L.calls[j], i) <=>
              j # Len(L.calls) /\ i = Place(Source(L, j), KeyAt(L, j))
         /\ Source(L, j) = L.src[L.calls[j]].lt
<1>1. \A n \in 1 .. Len(L.calls) : L.calls[n] = L.calls[j] <=> n = j
  BY DEF ConvTyped
<1> QED
  BY ONLY <1>1, j \in 1 .. Len(L.calls) DEF Done, Pending, Source

LEMMA DoneNew ==
  ASSUME NEW L, NEW a, \A j \in 1 .. Len(L.calls) : L.calls[j] # a, NEW i
  PROVE  Done(L, a, i) /\ ~Pending(L, a, i)
BY DEF Done, Pending

LEMMA EnteredDone ==
  ASSUME NEW L, ConvTyped(L), Running(L), NEW R, ConvTyped(R), Entered(L, R),
         NEW d, d = Len(L.calls)
  PROVE  /\ DoneMore(R, L, L.calls[d], Turns(L))
         /\ ~Done(L, L.calls[d], Turns(L))
<1> DEFINE n == Turns(L)
           lt == Source(L, d)
           p == L.calls[d]
<1>1. d \in 1 .. d /\ d \in Nat \ {0} /\ lt \in LuaTables
  BY TopFacts
<1>2. /\ n \in 1 .. Len(lt)
      /\ R.calls = L.calls /\ R.src = L.src
      /\ KeyAt(R, d) = lt[n][1]
      /\ \A j \in 1 .. d : j # d => KeyAt(R, j) = KeyAt(L, j)
  BY <1>1 DEF Entered
<1>3. \A j \in 1 .. d : Source(R, j) = Source(L, j)
  BY ONLY <1>2 DEF Source
<1>4. Place(lt, KeyAt(R, d)) = n
  BY <1>1, <1>2, PlaceIs
<1>5. n = Place(lt, KeyAt(L, d)) + 1
  BY DEF Turns
<1>6. Place(lt, KeyAt(L, d)) \in Nat /\ Len(lt) \in Nat
  BY <1>1, CallPlace
<1> HIDE DEF n, lt
<1>7. \A i : /\ Done(L, p, i) <=> i < Place(lt, KeyAt(L, d)) \/ i = Place(lt, KeyAt(L, d))
             /\ ~Pending(L, p, i)
             /\ Done(R, p, i) <=> i < n \/ i = n
             /\ lt = L.src[p].lt
  <2> SUFFICES ASSUME NEW i
               PROVE  /\ Done(L, p, i) <=> i < Place(lt, KeyAt(L, d)) \/ i = Place(lt, KeyAt(L, d))
                      /\ ~Pending(L, p, i)
                      /\ Done(R, p, i) <=> i < n \/ i = n
                      /\ lt = L.src[p].lt
    OBVIOUS
  <2>1. /\ Done(L, p, i) <=> i < Place(lt, KeyAt(L, d)) \/ i = Place(lt, KeyAt(L, d))
        /\ ~Pending(L, p, i)
        /\ lt = L.src[p].lt
    BY <1>1, DoneIs DEF lt
  <2>2. Done(R, R.calls[d], i) <=> i < Place(Source(R, d), KeyAt(R, d)) \/ i = Place(Source(R, d), KeyAt(R, d))
    BY <1>1, <1>2, DoneIs
  <2>3. Source(R, d) = lt
    BY <1>1, <1>3 DEF lt
  <2> QED BY ONLY <1>2, <1>4, <2>1, <2>2, <2>3
<1>8. ASSUME NEW a \in Tables, a # p, NEW i
      PROVE  (Done(R, a, i) <=> Done(L, a, i)) /\ (Pending(R, a, i) <=> Pending(L, a, i))
  <2>1. CASE \E j \in 1 .. d : L.calls[j] = a
    <3>1. PICK j \in 1 .. d : L.calls[j] = a
      BY <2>1
    <3>2. j # d
      BY <1>8, <3>1
    <3>3. /\ Done(L, a, i) <=> i < Place(Source(L, j), KeyAt(L, j))
          /\ Pending(L, a, i) <=> i = Place(Source(L, j), KeyAt(L, j))
      BY <3>1, <3>2, DoneIs
    <3>4. /\ Done(R, a, i) <=> i < Place(Source(R, j), KeyAt(R, j))
          /\ Pending(R, a, i) <=> i = Place(Source(R, j), KeyAt(R, j))
      <4>1. j \in 1 .. Len(R.calls) /\ j # Len(R.calls) /\ R.calls[j] = a
        BY ONLY <1>2, <3>1, <3>2, d = Len(L.calls)
      <4>2. /\ Done(R, R.calls[j], i) <=> \/ i < Place(Source(R, j), KeyAt(R, j))
                                          \/ j = Len(R.calls) /\ i = Place(Source(R, j), KeyAt(R, j))
            /\ Pending(R, R.calls[j], i) <=> j # Len(R.calls) /\ i = Place(Source(R, j), KeyAt(R, j))
        BY ONLY ConvTyped(R), <4>1, DoneIs
      <4> QED BY ONLY <4>1, <4>2
    <3>5. Source(R, j) = Source(L, j) /\ KeyAt(R, j) = KeyAt(L, j)
      BY <1>2, <1>3, <3>2
    <3> QED BY ONLY <3>3, <3>4, <3>5
  <2>2. CASE \A j \in 1 .. d : L.calls[j] # a
    BY <1>2, <2>2, DoneNew
  <2> QED BY <2>1, <2>2
<1>9. ASSUME NEW a \in Tables, NEW i \in Entries(L, a)
      PROVE  /\ Done(R, a, i) <=> Done(L, a, i) \/ (a = p /\ i = n)
             /\ Pending(L, a, i) => Pending(R, a, i) \/ (a = p /\ i = n)
  <2>1. CASE a = p
    <3>1. i \in 1 .. Len(lt)
      BY <1>7, <2>1 DEF Entries
    <3>2. Done(R, a, i) <=> Done(L, a, i) \/ i = n
      BY ONLY <1>2, <1>5, <1>6, <1>7, <2>1, <3>1
    <3> QED BY <1>7, <2>1, <3>2
  <2>2. CASE a # p
    BY <1>8, <2>2
  <2> QED BY <2>1, <2>2
<1>10. ~Done(L, p, n)
  BY ONLY <1>5, <1>6, <1>7
<1> QED
  BY <1>9, <1>10 DEF DoneMore, n

LEMMA ReturnedDone ==
  ASSUME NEW L, ConvTyped(L), Running(L), NEW R, ConvTyped(R), Returned(L, R),
         NEW d, d = Len(L.calls), NEW n, n = Place(Source(L, d - 1), KeyAt(L, d - 1))
  PROVE  /\ DoneMore(R, L, L.calls[d - 1], n)
         /\ ~Done(L, L.calls[d - 1], n)
         /\ n \in 1 .. Len(Source(L, d - 1))
         /\ Source(L, d - 1)[n][1] = KeyAt(L, d - 1)
<1> DEFINE lt == Source(L, d - 1)
           p == L.calls[d - 1]
<1>1. d \in 1 .. d /\ d \in Nat \ {0} /\ d > 1
  BY TopFacts DEF Returned
<1>2. d - 1 \in 1 .. d /\ d - 1 \in 1 .. d - 1 /\ d - 1 # d /\ \A j \in 1 .. d - 1 : j \in 1 .. d
  BY ONLY <1>1
<1>3. /\ R.src = L.src /\ Len(R.calls) = d - 1
      /\ \A j \in 1 .. d - 1 : R.calls[j] = L.calls[j] /\ KeyAt(R, j) = KeyAt(L, j)
      /\ Turns(L) = Len(Source(L, d)) + 1
  BY DEF Returned
<1>4. \A j \in 1 .. d - 1 : Source(R, j) = Source(L, j)
  BY ONLY <1>3 DEF Source
<1>5. n \in 1 .. Len(lt) /\ Len(lt) \in Nat /\ lt[n][1] = KeyAt(L, d - 1)
  BY <1>2, CallPlace
<1>6. Place(Source(L, d), KeyAt(L, d)) = Len(Source(L, d)) /\ Len(Source(L, d)) \in Nat
  <2>1. Place(Source(L, d), KeyAt(L, d)) \in 0 .. Len(Source(L, d)) /\ Len(Source(L, d)) \in Nat
    BY <1>1, CallPlace
  <2>2. Turns(L) = Place(Source(L, d), KeyAt(L, d)) + 1
    BY DEF Turns
  <2> QED BY ONLY <1>3, <2>1, <2>2
<1> HIDE DEF lt
<1>7. ASSUME NEW i
      PROVE  /\ Done(L, p, i) <=> i < n
             /\ Done(R, p, i) <=> i < n \/ i = n
             /\ lt = L.src[p].lt
             /\ Pending(L, p, i) => i = n
  <2>1. (Done(L, p, i) <=> i < n) /\ lt = L.src[p].lt /\ (Pending(L, p, i) => i = n)
    BY <1>2, DoneIs DEF lt
  <2>2. Done(R, R.calls[d - 1], i) <=> i < Place(Source(R, d - 1), KeyAt(R, d - 1)) \/ i = Place(Source(R, d - 1), KeyAt(R, d - 1))
    BY <1>2, <1>3, DoneIs
  <2>3. Source(R, d - 1) = Source(L, d - 1) /\ R.calls[d - 1] = p /\ KeyAt(R, d - 1) = KeyAt(L, d - 1)
    BY <1>2, <1>3, <1>4
  <2> QED BY ONLY <2>1, <2>2, <2>3, n = Place(Source(L, d - 1), KeyAt(L, d - 1))
<1>8. ASSUME NEW a \in Tables, a # p, NEW i \in Entries(L, a)
      PROVE  (Done(R, a, i) <=> Done(L, a, i)) /\ (Pending(L, a, i) => Pending(R, a, i))
  <2>1. CASE \E j \in 1 .. d - 1 : L.calls[j] = a
    <3>1. PICK j \in 1 .. d - 1 : L.calls[j] = a
      BY <2>1
    <3>2. j # d - 1 /\ j # d /\ j \in 1 .. d
      BY <1>1, <1>8, <3>1
    <3>3. /\ Done(L, a, i) <=> i < Place(Source(L, j), KeyAt(L, j))
          /\ Pending(L, a, i) <=> i = Place(Source(L, j), KeyAt(L, j))
      BY <3>1, <3>2, DoneIs
    <3>4. /\ Done(R, a, i) <=> i < Place(Source(R, j), KeyAt(R, j))
          /\ Pending(R, a, i) <=> i = Place(Source(R, j), KeyAt(R, j))
      BY <1>3, <3>1, <3>2, DoneIs
    <3>5. Source(R, j) = Source(L, j) /\ KeyAt(R, j) = KeyAt(L, j)
      BY <1>3, <1>4, <3>2
    <3> QED BY ONLY <3>3, <3>4, <3>5
  <2>2. CASE a = L.calls[d]
    <3>1. \A j \in 1 .. d : L.calls[j] = L.calls[d] => j = d
      BY <1>1 DEF ConvTyped
    <3>2. \A j \in 1 .. Len(R.calls) : R.calls[j] # a
      BY ONLY <1>1, <1>2, <1>3, <2>2, <3>1
    <3>3. Done(R, a, i)
      BY <3>2, DoneNew
    <3>4. /\ Done(L, a, i) <=> i < Place(Source(L, d), KeyAt(L, d)) \/ i = Place(Source(L, d), KeyAt(L, d))
          /\ ~Pending(L, a, i)
          /\ Source(L, d) = L.src[a].lt
      BY <1>1, <2>2, DoneIs
    <3>5. i \in 1 .. Len(Source(L, d))
      BY <3>4 DEF Entries
    <3> QED BY ONLY <1>6, <3>3, <3>4, <3>5
  <2>3. CASE \A j \in 1 .. d : L.calls[j] # a
    <3>1. \A j \in 1 .. Len(R.calls) : R.calls[j] # a
      BY ONLY <1>2, <1>3, <2>3
    <3> QED BY <2>3, <3>1, DoneNew
  <2>4. \A j \in 1 .. d : j = d \/ j \in 1 .. d - 1
    BY ONLY <1>1
  <2> QED BY <2>1, <2>2, <2>3, <2>4
<1>9. ASSUME NEW a \in Tables, NEW i \in Entries(L, a)
      PROVE  /\ Done(R, a, i) <=> Done(L, a, i) \/ (a = p /\ i = n)
             /\ Pending(L, a, i) => Pending(R, a, i) \/ (a = p /\ i = n)
  BY <1>7, <1>8
<1>10. ~Done(L, p, n)
  BY ONLY <1>5, <1>7
<1> QED
  BY <1>5, <1>9, <1>10 DEF DoneMore, lt

LEMMA FinishedDone ==
  ASSUME NEW L, ConvTyped(L), Running(L), NEW R, Finished(L, R)
  PROVE  DoneSame(R, L)
<1>1. Len(L.calls) = 1 /\ 1 \in 1 .. Len(L.calls) /\ R.calls = <<>> /\ R.src = L.src
      /\ Turns(L) = Len(Source(L, 1)) + 1
  BY DEF Finished
<1>2. \A a : \A j \in 1 .. Len(R.calls) : R.calls[j] # a
  BY <1>1
<1>3. Place(Source(L, 1), KeyAt(L, 1)) = Len(Source(L, 1)) /\ Len(Source(L, 1)) \in Nat
  <2>1. Place(Source(L, 1), KeyAt(L, 1)) \in 0 .. Len(Source(L, 1)) /\ Len(Source(L, 1)) \in Nat
    BY <1>1, CallPlace
  <2>2. Turns(L) = Place(Source(L, 1), KeyAt(L, 1)) + 1
    BY <1>1 DEF Turns
  <2> QED BY ONLY <1>1, <2>1, <2>2
<1>4. ASSUME NEW a \in Tables, NEW i \in Entries(L, a)
      PROVE  Done(R, a, i) /\ Done(L, a, i) /\ ~Pending(L, a, i)
  <2>1. Done(R, a, i)
    BY <1>2, DoneNew
  <2>2. CASE a = L.calls[1]
    <3>1. /\ Done(L, a, i) <=> i < Place(Source(L, 1), KeyAt(L, 1)) \/ i = Place(Source(L, 1), KeyAt(L, 1))
          /\ ~Pending(L, a, i)
          /\ Source(L, 1) = L.src[a].lt
      BY <1>1, <2>2, DoneIs, SMTT(30)
    <3>2. i \in 1 .. Len(Source(L, 1))
      BY <3>1 DEF Entries
    <3> QED BY ONLY <1>3, <2>1, <3>1, <3>2
  <2>3. CASE a # L.calls[1]
    <3>1. \A j \in 1 .. Len(L.calls) : L.calls[j] # a
      BY <1>1, <2>3
    <3> QED BY <2>1, <3>1, DoneNew
  <2> QED BY <2>2, <2>3
<1> QED
  BY <1>4 DEF DoneSame

LEMMA OpenedDone ==
  ASSUME NEW L, ConvTyped(L), Running(L), NEW R, ConvTyped(R), NEW b \in Tables, Opened(L, R, b),
         NEW d, d = Len(L.calls)
  PROVE  /\ DoneSame(R, L)
         /\ \A i \in Entries(R, b) : ~Done(R, b, i)
         /\ Pending(R, L.calls[d], Turns(L))
         /\ ~Done(L, L.calls[d], Turns(L)) /\ ~Pending(L, L.calls[d], Turns(L))
<1> DEFINE n == Turns(L)
           lt == Source(L, d)
           p == L.calls[d]
<1>1. d \in 1 .. d /\ d \in Nat \ {0} /\ lt \in LuaTables
  BY TopFacts
<1>2. /\ n \in 1 .. Len(lt)
      /\ ~L.tab[b].live
      /\ \A a \in Tables : a # b => R.src[a] = L.src[a]
      /\ Len(R.calls) = d + 1 /\ R.calls[d + 1] = b
      /\ \A j \in 1 .. d : R.calls[j] = L.calls[j] /\ L.calls[j] # b
      /\ \A j \in 1 .. d : KeyAt(R, j) = IF j = d THEN lt[n][1] ELSE KeyAt(L, j)
      /\ KeyAt(R, d + 1) = LNil
  BY <1>1 DEF Opened
<1>3. d + 1 \in 1 .. d + 1 /\ (\A j \in 1 .. d : j \in 1 .. d + 1 /\ j # d + 1)
      /\ \A j \in 1 .. d + 1 : j \in 1 .. d \/ j = d + 1
  BY ONLY <1>1
<1>4. \A j \in 1 .. d : L.calls[j] \in Tables
  BY TopFacts
<1>5. \A j \in 1 .. d : Source(R, j) = Source(L, j)
  BY ONLY <1>2, <1>4 DEF Source
<1>6. Place(lt, lt[n][1]) = n /\ Place(Source(R, d + 1), LNil) = 0
  BY <1>1, <1>2, PlaceIs DEF Place
<1>7. n = Place(lt, KeyAt(L, d)) + 1
  BY DEF Turns
<1>8. Place(lt, KeyAt(L, d)) \in Nat /\ Len(lt) \in Nat
  BY <1>1, CallPlace
<1> HIDE DEF n, lt
<1>9. ASSUME NEW i
      PROVE  /\ Done(L, p, i) <=> i < Place(lt, KeyAt(L, d)) \/ i = Place(lt, KeyAt(L, d))
             /\ ~Pending(L, p, i)
             /\ Done(R, p, i) <=> i < n
             /\ Pending(R, p, i) <=> i = n
             /\ lt = L.src[p].lt
  <2>1. /\ Done(L, p, i) <=> i < Place(lt, KeyAt(L, d)) \/ i = Place(lt, KeyAt(L, d))
        /\ ~Pending(L, p, i)
        /\ lt = L.src[p].lt
    BY <1>1, DoneIs DEF lt
  <2>2. d \in 1 .. Len(R.calls) /\ d # Len(R.calls) /\ R.calls[d] = p /\ KeyAt(R, d) = lt[n][1]
        /\ Source(R, d) = lt
    BY <1>1, <1>2, <1>3, <1>5 DEF lt
  <2>3. /\ Done(R, R.calls[d], i) <=> i < Place(Source(R, d), KeyAt(R, d))
        /\ Pending(R, R.calls[d], i) <=> i = Place(Source(R, d), KeyAt(R, d))
    BY <2>2, DoneIs
  <2> QED BY ONLY <1>6, <2>1, <2>2, <2>3
<1>10. ASSUME NEW i \in Entries(R, b) PROVE ~Done(R, b, i)
  <2>1. Len(R.calls) \in 1 .. Len(R.calls) /\ R.calls[Len(R.calls)] = b
    BY ONLY <1>2, <1>3
  <2>2. /\ Done(R, b, i) <=> i < Place(Source(R, d + 1), KeyAt(R, d + 1)) \/ i = Place(Source(R, d + 1), KeyAt(R, d + 1))
    <3>1. d + 1 \in 1 .. Len(R.calls)
      BY ONLY <1>2, <1>3
    <3>2. Done(R, R.calls[d + 1], i) <=>
            \/ i < Place(Source(R, d + 1), KeyAt(R, d + 1))
            \/ d + 1 = Len(R.calls) /\ i = Place(Source(R, d + 1), KeyAt(R, d + 1))
      BY ONLY ConvTyped(R), <3>1, DoneIs
    <3> QED BY ONLY <1>2, <3>2
  <2>3. i \in 1 .. Len(R.src[b].lt)
    BY DEF Entries
  <2>4. R.src[b].lt \in LuaTables
    BY <2>1, <1>2, <1>3 DEF ConvTyped
  <2>5. Len(R.src[b].lt) \in Nat
    BY <2>4, EntryFacts
  <2> QED BY ONLY <1>2, <1>6, <2>2, <2>3, <2>5
<1>11. ASSUME NEW a \in Tables, L.src[a].new, NEW i \in Entries(L, a), a # p
       PROVE  (Done(R, a, i) <=> Done(L, a, i)) /\ (Pending(L, a, i) => Pending(R, a, i))
  <2>1. CASE \E j \in 1 .. d : L.calls[j] = a
    <3>1. PICK j \in 1 .. d : L.calls[j] = a
      BY <2>1
    <3>2. j # d /\ j \in 1 .. Len(R.calls) /\ j # Len(R.calls) /\ R.calls[j] = a
      BY <1>2, <1>3, <1>11, <3>1
    <3>3. /\ Done(L, a, i) <=> i < Place(Source(L, j), KeyAt(L, j))
          /\ Pending(L, a, i) <=> i = Place(Source(L, j), KeyAt(L, j))
      <4>1. /\ Done(L, L.calls[j], i) <=> \/ i < Place(Source(L, j), KeyAt(L, j))
                                          \/ j = d /\ i = Place(Source(L, j), KeyAt(L, j))
            /\ Pending(L, L.calls[j], i) <=> j # d /\ i = Place(Source(L, j), KeyAt(L, j))
        BY ONLY ConvTyped(L), d = Len(L.calls), j \in 1 .. d, DoneIs
      <4> QED BY ONLY <3>1, <3>2, <4>1
    <3>4. /\ Done(R, a, i) <=> i < Place(Source(R, j), KeyAt(R, j))
          /\ Pending(R, a, i) <=> i = Place(Source(R, j), KeyAt(R, j))
      <4>1. j \in 1 .. Len(R.calls) /\ j # Len(R.calls) /\ R.calls[j] = a
        BY ONLY <3>1, <3>2
      <4>2. /\ Done(R, R.calls[j], i) <=> \/ i < Place(Source(R, j), KeyAt(R, j))
                                          \/ j = Len(R.calls) /\ i = Place(Source(R, j), KeyAt(R, j))
            /\ Pending(R, R.calls[j], i) <=> j # Len(R.calls) /\ i = Place(Source(R, j), KeyAt(R, j))
        BY ONLY ConvTyped(R), <4>1, DoneIs
      <4> QED BY ONLY <4>1, <4>2
    <3>5. Source(R, j) = Source(L, j) /\ KeyAt(R, j) = KeyAt(L, j)
      BY <1>2, <1>5, <3>2
    <3> QED BY ONLY <3>3, <3>4, <3>5
  <2>2. CASE \A j \in 1 .. d : L.calls[j] # a
    <3>1. a # b
      BY <1>2, <1>11 DEF ConvTyped
    <3>2. \A j \in 1 .. Len(R.calls) : R.calls[j] # a
      BY ONLY <1>2, <1>3, <2>2, <3>1
    <3> QED BY <2>2, <3>2, DoneNew
  <2> QED BY <2>1, <2>2
<1>12. ASSUME NEW i \in Entries(L, p)
       PROVE  (Done(R, p, i) <=> Done(L, p, i)) /\ (Pending(L, p, i) => Pending(R, p, i))
  <2>1. i \in 1 .. Len(lt)
    BY <1>9 DEF Entries
  <2> QED BY ONLY <1>7, <1>8, <1>9, <2>1
<1>13. DoneSame(R, L)
  BY <1>11, <1>12 DEF DoneSame
<1>14. ~Done(L, p, n) /\ ~Pending(L, p, n) /\ Pending(R, p, n)
  BY ONLY <1>7, <1>8, <1>9
<1> QED
  BY <1>10, <1>13, <1>14 DEF n

(* Table b is made for a key of table a. *)
Made(L, b, a, key) == L.src[b].new /\ L.src[b].at = <<a, key>>

Finds(L, a, key, v) == Search(L.tab[a].map, get_key(key)) = Held(v)

EntryOK(L, a, e) ==
  /\ KeyOK(e[1])
  /\ e[2].t = "table" => \E b \in Tables : Made(L, b, a, e[1]) /\ Finds(L, a, e[1], LUd(b))
  /\ e[2].t # "table" => e[2].t \in DOMAIN LTypes /\ Finds(L, a, e[1], e[2])

TreesKept(L, g) ==
  /\ Tree(L.tab)
  /\ \A a \in Tables : IF L.src[a].new THEN ~g[a].live ELSE L.tab[a] = g[a]

EntriesIn(L) ==
  \A a \in Tables : L.src[a].new => \A i \in Entries(L, a) :
    Done(L, a, i) => EntryOK(L, a, L.src[a].lt[i])

EntriesOnly(L) ==
  \A a \in Tables : L.src[a].new => \A k \in MapKeys :
    \/ Search(L.tab[a].map, k) = NilValue
    \/ \E i \in Entries(L, a) : Done(L, a, i) /\ get_key(L.src[a].lt[i][1]) = k

MadeFor(L) ==
  \A a, b \in Tables : L.src[a].new => \A i \in Entries(L, a) :
    Made(L, b, a, L.src[a].lt[i][1]) => Done(L, a, i) \/ Pending(L, a, i)

MadeOnce(L) ==
  \A a, b, c \in Tables : \A key : Made(L, b, a, key) /\ Made(L, c, a, key) => b = c

Loose(L) == \A j \in 1 .. Len(L.calls) : \A q \in Tables : L.calls[j] \notin Stored(L.tab, q)

Nested(L) ==
  \A j \in 1 .. Len(L.calls) : j # Len(L.calls) =>
    /\ Made(L, L.calls[j + 1], L.calls[j], KeyAt(L, j))
    /\ \E i \in Entries(L, L.calls[j]) :
         /\ KeyAt(L, j) = L.src[L.calls[j]].lt[i][1]
         /\ L.src[L.calls[j]].lt[i][2].t = "table"

(* No key loses a fraction. *)
FracFree(L) ==
  \A a \in Tables : L.src[a].new => \A i \in Entries(L, a) :
    ~(L.src[a].lt[i][1].t = "number" /\ L.src[a].lt[i][1].frac)

LEMMA EntryWhole ==
  ASSUME NEW L, ConvTyped(L), FracFree(L), NEW a \in Tables, L.src[a].new, NEW i \in Entries(L, a),
         KeyOK(L.src[a].lt[i][1])
  PROVE  /\ L.src[a].lt \in LuaTables
         /\ Whole(L.src[a].lt[i][1])
         /\ get_key(L.src[a].lt[i][1]) \in MapKeys
<1> DEFINE lt == L.src[a].lt
<1>1. lt \in LuaTables
  BY DEF ConvTyped
<1>2. i \in 1 .. Len(lt) /\ ~(lt[i][1].t = "number" /\ lt[i][1].frac) /\ KeyOK(lt[i][1])
  BY DEF FracFree, Entries
<1> HIDE DEF lt
<1>3. Whole(lt[i][1])
  BY <1>1, <1>2, EntryFacts DEF Whole
<1> QED
  BY <1>1, <1>3, WholeKey DEF lt

(* What is stored for an entry. *)
ValueOf(L, p, e, v) ==
  \/ e[2].t # "table" /\ e[2].t \in DOMAIN LTypes /\ v = e[2]
  \/ /\ e[2].t = "table"
     /\ \E b \in Tables :
          /\ v = LUd(b) /\ b # p /\ L.tab[b].live /\ Made(L, b, p, e[1])
          /\ \A q \in Tables : b \notin Stored(L.tab, q) /\ p \notin Stored(L.tab, q)

LEMMA ConvStore ==
  ASSUME NEW L, ConvTyped(L), FracFree(L), NEW g, TreesKept(L, g),
         EntriesIn(L), EntriesOnly(L), MadeFor(L),
         NEW p \in Tables, L.src[p].new, NEW n \in Entries(L, p), NEW e, e = L.src[p].lt[n],
         KeyOK(e[1]), ~Done(L, p, n), NEW v, ValueOf(L, p, e, v),
         NEW R, MapPut(R.tab, L.tab, p, Setter(L.tab[p].map, get_key(e[1]), v).map), R.src = L.src,
         DoneMore(R, L, p, n)
  PROVE  /\ TreesKept(R, g) /\ EntriesIn(R) /\ EntriesOnly(R) /\ MadeFor(R)
         /\ \A q \in Tables : \A x \in Stored(R.tab, q) : x \in Stored(L.tab, q) \/ v = LUd(x)
<1> DEFINE lt == L.src[p].lt
           tb == L.tab
           t2 == R.tab
           k == get_key(e[1])
           m == tb[p].map
           m2 == Setter(m, k, v).map
<1>1. lt \in LuaTables /\ Whole(e[1]) /\ k \in MapKeys
  BY EntryWhole
<1>2. HeapOK(tb) /\ tb[p].live /\ MapOK(m, MapKeys, MapValues)
  <2>1. HeapOK(tb) /\ tb[p].live
    BY DEF ConvTyped
  <2> HIDE DEF tb
  <2> QED BY <2>1, TableFacts
<1>3. v \in Storable
  <2>1. CASE e[2].t # "table" /\ e[2].t \in DOMAIN LTypes /\ v = e[2]
    BY <1>1, <2>1, EntryFacts, Zenon DEF Entries
  <2>2. CASE \E b \in Tables : v = LUd(b)
    BY <2>2, UdStorable, SMTT(30)
  <2> QED BY <2>1, <2>2 DEF ValueOf
<1>4. ASSUME NEW i \in Entries(L, p), Done(L, p, i) PROVE get_key(lt[i][1]) # k
  <2>1. i # n
    BY <1>4, SMTT(30)
  <2>2. KeyOK(lt[i][1])
    BY <1>4, SMTT(30) DEF EntriesIn, EntryOK
  <2>3. Whole(lt[i][1])
    BY <2>2, EntryWhole, SMTT(30)
  <2>4. lt[i][1] # e[1]
    BY <1>1, <2>1, EntryFacts, SMTT(30) DEF Entries
  <2> QED BY <1>1, <2>3, <2>4, SameKey
<1>5. Search(m, k) = NilValue
  BY <1>1, <1>4 DEF EntriesOnly
<1>6. MapPut(t2, tb, p, m2)
  OBVIOUS
<1>7. /\ MapOK(m2, MapKeys, MapValues)
      /\ Search(m2, k) = Held(v)
      /\ \A other \in MapKeys : other # k => Search(m2, other) = Search(m, other)
  <2> HIDE DEF m, k
  <2> QED BY ONLY <1>1, <1>2, <1>3, <1>5, SetterOK DEF m2
<1>8. /\ HeapOK(t2)
      /\ t2[p].map = m2
      /\ \A q \in Tables : t2[q].live = tb[q].live /\ (q # p => t2[q] = tb[q])
  <2> HIDE DEF t2, tb, m2
  <2> QED BY ONLY <1>2, <1>6, <1>7, p \in Tables, MapSet, SMTT(30)
<1>9. v.t = "lightuserdata" =>
           /\ tb[v.x].live
           /\ \A q \in Tables : v.x \notin Stored(tb, q)
           /\ \E C \in SUBSET Tables : v.x \in C /\ p \notin C /\ ClosedIn(tb, C)
  <2>1. CASE e[2].t # "table" /\ e[2].t \in DOMAIN LTypes /\ v = e[2]
    BY <1>1, <2>1, EntryFacts, ZenonT(40) DEF Entries
  <2>2. CASE ~(e[2].t # "table" /\ e[2].t \in DOMAIN LTypes /\ v = e[2])
    <3>1. PICK b \in Tables : /\ v = LUd(b) /\ b # p /\ tb[b].live
                              /\ \A q \in Tables : b \notin Stored(tb, q) /\ p \notin Stored(tb, q)
      BY <2>2 DEF ValueOf
    <3>2. v.x = b
      BY <3>1, LUdFacts
    <3> DEFINE C == Tables \ {p}
    <3>3. C \in SUBSET Tables /\ b \in C /\ p \notin C
      BY <3>1
    <3>4. ClosedIn(tb, C)
      <4> HIDE DEF tb
      <4> QED BY <1>2, <3>1, StoredIs DEF ClosedIn
    <3> QED BY ONLY <3>1, <3>2, <3>3, <3>4
  <2> QED BY <2>1, <2>2
<1>10. /\ Tree(t2)
       /\ \A q \in Tables : \A x \in Stored(t2, q) :
            \/ x \in Stored(tb, q)
            \/ q = p /\ v.t = "lightuserdata" /\ x = v.x
  <2>1. Tree(tb)
    BY DEF TreesKept
  <2>2. Search(tb[p].map, k).type # "UD"
    BY <1>5, ValueFacts
  <2> HIDE DEF t2, tb, m2, k
  <2> QED BY ONLY <1>1, <1>2, <1>3, <1>6, <1>7, <1>9, <2>1, <2>2, p \in Tables, StoreTree DEF m
<1>11. \A q \in Tables : \A x \in Stored(t2, q) : x \in Stored(tb, q) \/ v = LUd(x)
  BY <1>3, <1>10 DEF Storable
<1>12. TreesKept(R, g)
  <2>1. \A a \in Tables : IF L.src[a].new THEN ~g[a].live ELSE tb[a] = g[a]
    BY DEF TreesKept
  <2>2. \A a \in Tables : IF R.src[a].new THEN ~g[a].live ELSE t2[a] = g[a]
    BY ONLY <1>8, <2>1, L.src[p].new, R.src = L.src, p \in Tables
  <2> QED BY <1>10, <2>2 DEF TreesKept
<1>13. \A a, b : \A key : Made(R, b, a, key) <=> Made(L, b, a, key)
  BY DEF Made
<1>14. ASSUME NEW a \in Tables, L.src[a].new, NEW i \in Entries(L, a), Done(R, a, i)
       PROVE  EntryOK(R, a, L.src[a].lt[i])
  <2>1. CASE a = p /\ i = n
    <3>1. \A w : Finds(R, p, e[1], w) <=> Held(v) = Held(w)
      BY <1>7, <1>8, Zenon DEF Finds
    <3>2. CASE e[2].t # "table" /\ e[2].t \in DOMAIN LTypes /\ v = e[2]
      BY <2>1, <3>1, <3>2, ZenonT(40) DEF EntryOK
    <3>3. CASE ~(e[2].t # "table" /\ e[2].t \in DOMAIN LTypes /\ v = e[2])
      <4>1. PICK b \in Tables : v = LUd(b) /\ Made(L, b, p, e[1])
        BY <3>3, SMTT(30) DEF ValueOf
      <4>2. e[2].t = "table"
        BY <3>3 DEF ValueOf
      <4>3. Made(R, b, p, e[1]) /\ Finds(R, p, e[1], LUd(b))
        BY <1>13, <3>1, <4>1
      <4> QED BY <2>1, <4>2, <4>3, SMTT(30) DEF EntryOK
    <3> QED BY <3>2, <3>3
  <2>2. CASE ~(a = p /\ i = n)
    <3> DEFINE f == L.src[a].lt[i]
    <3>1. Done(L, a, i)
      BY <1>14, <2>2 DEF DoneMore
    <3>2. EntryOK(L, a, f)
      BY <1>14, <3>1 DEF EntriesIn
    <3>3. \A w : Finds(R, a, f[1], w) <=> Finds(L, a, f[1], w)
      <4>1. CASE a # p
        BY <1>8, <4>1, SMTT(30) DEF Finds
      <4>2. CASE a = p
        <5>1. get_key(f[1]) # k
          BY <1>4, <3>1, <4>2, SMTT(30)
        <5>2. get_key(f[1]) \in MapKeys
          BY <1>14, <3>2, EntryWhole DEF EntryOK
        <5>3. Search(m2, get_key(f[1])) = Search(m, get_key(f[1]))
          BY <1>7, <5>1, <5>2, Zenon
        <5> QED BY <1>8, <4>2, <5>3 DEF Finds
      <4> QED BY <4>1, <4>2
    <3> HIDE DEF f
    <3>4. EntryOK(R, a, f)
      BY ONLY <1>13, <3>2, <3>3 DEF EntryOK
    <3> QED BY <3>4 DEF f
  <2> QED BY <2>1, <2>2, SMTT(30)
<1>15. ASSUME NEW a \in Tables, L.src[a].new, NEW l \in MapKeys
       PROVE  \/ Search(t2[a].map, l) = NilValue
              \/ \E i \in Entries(L, a) : Done(R, a, i) /\ get_key(L.src[a].lt[i][1]) = l
  <2>1. \/ Search(tb[a].map, l) = NilValue
        \/ \E i \in Entries(L, a) : Done(L, a, i) /\ get_key(L.src[a].lt[i][1]) = l
    BY <1>15 DEF EntriesOnly
  <2>2. \A i \in Entries(L, a) : Done(L, a, i) \/ (a = p /\ i = n) => Done(R, a, i)
    BY <1>15 DEF DoneMore
  <2>3. CASE a = p /\ l = k
    <3>1. Done(R, a, n) /\ n \in Entries(L, a) /\ get_key(L.src[a].lt[n][1]) = l
      BY <2>2, <2>3
    <3> QED BY <3>1
  <2>4. CASE ~(a = p /\ l = k)
    <3>1. Search(t2[a].map, l) = Search(tb[a].map, l)
      BY <1>7, <1>8, <2>4, ZenonT(40)
    <3> HIDE DEF t2, tb
    <3> QED BY ONLY <2>1, <2>2, <3>1
  <2> QED BY <2>3, <2>4
<1>16. \A a : Entries(R, a) = Entries(L, a)
  BY DEF Entries
<1>17. EntriesIn(R)
  BY ONLY <1>14, <1>16, R.src = L.src DEF EntriesIn
<1>18. EntriesOnly(R)
  BY <1>15, <1>16 DEF EntriesOnly
<1>19. MadeFor(R)
  <2> SUFFICES ASSUME NEW a \in Tables, NEW b \in Tables, L.src[a].new, NEW i \in Entries(L, a),
                      Made(R, b, a, L.src[a].lt[i][1])
               PROVE  Done(R, a, i) \/ Pending(R, a, i)
    BY <1>16 DEF MadeFor
  <2>1. Done(L, a, i) \/ Pending(L, a, i)
    BY <1>13 DEF MadeFor
  <2> QED BY <2>1 DEF DoneMore
<1> QED
  BY <1>11, <1>12, <1>17, <1>18, <1>19

MadeOf(L) == \A a, b \in Tables : \A key : Made(L, b, a, key) => L.src[a].new

ConvTree(L, g) ==
  /\ TreesKept(L, g)
  /\ EntriesIn(L) /\ EntriesOnly(L)
  /\ MadeFor(L) /\ MadeOnce(L) /\ MadeOf(L)
  /\ Loose(L) /\ Nested(L)

LEMMA MadeSame ==
  ASSUME NEW L, NEW R, R.src = L.src, MadeOnce(L), MadeOf(L)
  PROVE  /\ MadeOnce(R) /\ MadeOf(R)
         /\ \A a, b, key : Made(R, b, a, key) <=> Made(L, b, a, key)
         /\ \A a : Entries(R, a) = Entries(L, a)
BY DEF MadeOnce, MadeOf, Made, Entries

LEMMA EnteredTree ==
  ASSUME NEW L, ConvTyped(L), Running(L), FracFree(L), NEW g, ConvTree(L, g),
         NEW R, ConvTyped(R), Entered(L, R)
  PROVE  ConvTree(R, g)
<1> DEFINE d == Len(L.calls)
           p == L.calls[d]
           n == Turns(L)
           e == L.src[p].lt[n]
           v == e[2]
<1>1. d \in 1 .. d /\ p \in Tables /\ d \in Nat \ {0}
  BY TopFacts
<1>2. L.src[p].new /\ Source(L, d) = L.src[p].lt /\ L.src[p].lt \in LuaTables
  <2>1. L.src[p].new
    BY <1>1 DEF ConvTyped
  <2> QED BY <1>1, <2>1 DEF ConvTyped, Source
<1>3. /\ n \in Entries(L, p)
      /\ KeyOK(e[1]) /\ v.t \in DOMAIN LTypes
      /\ MapPut(R.tab, L.tab, p, Setter(L.tab[p].map, get_key(e[1]), v).map)
      /\ R.calls = L.calls /\ R.src = L.src
      /\ \A j \in 1 .. d : j # d => KeyAt(R, j) = KeyAt(L, j)
  BY <1>2, Zenon DEF Entered, Entries
<1>4. DoneMore(R, L, p, n) /\ ~Done(L, p, n)
  BY EnteredDone
<1>5. v.t # "table" /\ v.t # "lightuserdata"
  BY <1>2, <1>3, EntryFacts, Zenon DEF Entries, LTypes
<1> HIDE DEF d, n, p, e
<1>6. ValueOf(L, p, e, v)
  BY <1>3, <1>5 DEF ValueOf
<1>7. TreesKept(L, g) /\ EntriesIn(L) /\ EntriesOnly(L) /\ MadeFor(L)
  BY DEF ConvTree
<1>e. e = L.src[p].lt[n]
  BY DEF e
<1>8. /\ TreesKept(R, g) /\ EntriesIn(R) /\ EntriesOnly(R) /\ MadeFor(R)
      /\ \A q \in Tables : \A x \in Stored(R.tab, q) : x \in Stored(L.tab, q) \/ v = LUd(x)
  <2> DEFINE w == v
  <2>1. ValueOf(L, p, e, w) /\ MapPut(R.tab, L.tab, p, Setter(L.tab[p].map, get_key(e[1]), w).map)
    BY <1>3, <1>6
  <2>2. KeyOK(e[1]) /\ n \in Entries(L, p) /\ R.src = L.src
    BY <1>3
  <2> HIDE DEF w
  <2>3. /\ TreesKept(R, g) /\ EntriesIn(R) /\ EntriesOnly(R) /\ MadeFor(R)
        /\ \A q \in Tables : \A x \in Stored(R.tab, q) : x \in Stored(L.tab, q) \/ w = LUd(x)
    BY ONLY ConvTyped(L), FracFree(L), <1>1, <1>2, <1>4, <1>7, <1>e, <2>1, <2>2, ConvStore, SMTT(30)
  <2> QED BY <2>3 DEF w
<1>9. Loose(R)
  <2>1. \A q \in Tables : \A x \in Stored(R.tab, q) : x \in Stored(L.tab, q)
    BY <1>5, <1>8, LUdFacts
  <2> QED BY <1>3, <2>1 DEF Loose, ConvTree
<1>10. /\ MadeOnce(R) /\ MadeOf(R)
       /\ \A a, b, key : Made(R, b, a, key) <=> Made(L, b, a, key)
       /\ \A a : Entries(R, a) = Entries(L, a)
  BY <1>3, MadeSame DEF ConvTree
<1>11. Nested(R)
  <2> SUFFICES ASSUME NEW j \in 1 .. Len(R.calls), j # Len(R.calls)
               PROVE  /\ Made(R, R.calls[j + 1], R.calls[j], KeyAt(R, j))
                      /\ \E i \in Entries(R, R.calls[j]) :
                           /\ KeyAt(R, j) = R.src[R.calls[j]].lt[i][1]
                           /\ R.src[R.calls[j]].lt[i][2].t = "table"
    BY DEF Nested
  <2>1. j \in 1 .. d /\ j # d /\ KeyAt(R, j) = KeyAt(L, j)
    BY <1>3, SMTT(30) DEF d
  <2>2. /\ Made(L, L.calls[j + 1], L.calls[j], KeyAt(L, j))
        /\ \E i \in Entries(L, L.calls[j]) :
             /\ KeyAt(L, j) = L.src[L.calls[j]].lt[i][1]
             /\ L.src[L.calls[j]].lt[i][2].t = "table"
    BY <2>1 DEF ConvTree, Nested, d
  <2> QED BY ONLY <1>3, <1>10, <2>1, <2>2, Zenon
<1> QED
  BY <1>8, <1>9, <1>10, <1>11 DEF ConvTree

LEMMA ReturnedTree ==
  ASSUME NEW L, ConvTyped(L), Running(L), FracFree(L), NEW g, ConvTree(L, g),
         NEW R, ConvTyped(R), Returned(L, R)
  PROVE  ConvTree(R, g)
<1> DEFINE d == Len(L.calls)
           p == L.calls[d - 1]
           b == L.calls[d]
           n == Place(Source(L, d - 1), KeyAt(L, d - 1))
           e == L.src[p].lt[n]
           v == LUd(b)
<1>1. d \in 1 .. d /\ d \in Nat \ {0} /\ d > 1
  BY TopFacts DEF Returned
<1>2. d - 1 \in 1 .. d /\ d - 1 # d /\ (d - 1) + 1 = d /\ \A j \in 1 .. d - 1 : j \in 1 .. d /\ j # d
  BY ONLY <1>1
<1>3. /\ p \in Tables /\ b \in Tables /\ L.tab[b].live /\ b # p
      /\ L.src[p].new /\ Source(L, d - 1) = L.src[p].lt
  <2>1. p \in Tables /\ b \in Tables /\ L.tab[b].live
    BY <1>1, <1>2, TopFacts
  <2>2. L.src[p].new /\ (p = b => d - 1 = d)
    BY <1>1, <1>2 DEF ConvTyped
  <2> QED BY <1>2, <2>1, <2>2 DEF Source
<1>4. /\ DoneMore(R, L, p, n) /\ ~Done(L, p, n)
      /\ n \in Entries(L, p) /\ e[1] = KeyAt(L, d - 1)
  <2>1. /\ DoneMore(R, L, L.calls[d - 1], n)
        /\ ~Done(L, L.calls[d - 1], n)
        /\ n \in 1 .. Len(Source(L, d - 1))
        /\ Source(L, d - 1)[n][1] = KeyAt(L, d - 1)
    <3>1. n = Place(Source(L, d - 1), KeyAt(L, d - 1)) /\ d = Len(L.calls)
      BY SMTT(30)
    <3> HIDE DEF n, d
    <3> QED BY ONLY ConvTyped(L), Running(L), ConvTyped(R), Returned(L, R), <3>1, ReturnedDone
  <2> QED BY <1>3, <2>1 DEF Entries
<1>5. /\ KeyOK(e[1])
      /\ MapPut(R.tab, L.tab, p, Setter(L.tab[p].map, get_key(e[1]), v).map)
      /\ R.src = L.src /\ Len(R.calls) = d - 1
      /\ \A j \in 1 .. d - 1 : R.calls[j] = L.calls[j] /\ KeyAt(R, j) = KeyAt(L, j)
  BY <1>4, SMTT(30) DEF Returned
<1>6. Made(L, b, p, e[1]) /\ e[2].t = "table"
  <2>1. /\ Made(L, b, p, KeyAt(L, d - 1))
        /\ \E i \in Entries(L, p) : KeyAt(L, d - 1) = L.src[p].lt[i][1] /\ L.src[p].lt[i][2].t = "table"
    BY <1>2, Zenon DEF ConvTree, Nested
  <2>2. PICK i \in Entries(L, p) : KeyAt(L, d - 1) = L.src[p].lt[i][1] /\ L.src[p].lt[i][2].t = "table"
    BY <2>1, Zenon
  <2>3. i \in 1 .. Len(Source(L, d - 1)) /\ KeyAt(L, d - 1) = Source(L, d - 1)[i][1]
    BY <1>3, <2>2 DEF Entries
  <2>4. n = i
    BY <1>2, <2>3, CallPlace
  <2> QED BY <1>4, <2>1, <2>2, <2>4
<1>7. \A q \in Tables : b \notin Stored(L.tab, q) /\ p \notin Stored(L.tab, q)
  BY <1>1, <1>2, Zenon DEF ConvTree, Loose
<1>8. ValueOf(L, p, e, v)
  BY <1>3, <1>6, <1>7, Zenon DEF ValueOf
<1>9. TreesKept(L, g) /\ EntriesIn(L) /\ EntriesOnly(L) /\ MadeFor(L)
  BY DEF ConvTree
<1>e. e = L.src[p].lt[n]
  OBVIOUS
<1> HIDE DEF d, n, p, e, b, v
<1>10. /\ TreesKept(R, g) /\ EntriesIn(R) /\ EntriesOnly(R) /\ MadeFor(R)
       /\ \A q \in Tables : \A x \in Stored(R.tab, q) : x \in Stored(L.tab, q) \/ v = LUd(x)
  <2>1. p \in Tables /\ L.src[p].new /\ n \in Entries(L, p) /\ ~Done(L, p, n) /\ DoneMore(R, L, p, n)
    BY <1>3, <1>4
  <2>2. MapPut(R.tab, L.tab, p, Setter(L.tab[p].map, get_key(e[1]), v).map) /\ KeyOK(e[1]) /\ R.src = L.src
    BY <1>5
  <2> QED BY ONLY ConvTyped(L), FracFree(L), <1>8, <1>9, <1>e, <2>1, <2>2, ConvStore
<1>11. Loose(R)
  <2>1. \A q \in Tables : \A x \in Stored(R.tab, q) : x \in Stored(L.tab, q) \/ x = b
    BY <1>10, LUdFacts DEF v
  <2>2. \A j \in 1 .. d - 1 : L.calls[j] # b /\ \A q \in Tables : L.calls[j] \notin Stored(L.tab, q)
    <3>1. \A j \in 1 .. d - 1 : L.calls[j] # b
      BY <1>1, <1>2 DEF ConvTyped, b, d
    <3>2. \A j \in 1 .. d : \A q \in Tables : L.calls[j] \notin Stored(L.tab, q)
      BY DEF ConvTree, Loose, d
    <3> QED BY ONLY <1>2, <3>1, <3>2
  <2> QED BY ONLY <1>5, <2>1, <2>2 DEF Loose
<1>12. /\ MadeOnce(R) /\ MadeOf(R)
       /\ \A a, c, key : Made(R, c, a, key) <=> Made(L, c, a, key)
       /\ \A a : Entries(R, a) = Entries(L, a)
  BY <1>5, MadeSame DEF ConvTree
<1>13. Nested(R)
  <2> SUFFICES ASSUME NEW j \in 1 .. Len(R.calls), j # Len(R.calls)
               PROVE  /\ Made(R, R.calls[j + 1], R.calls[j], KeyAt(R, j))
                      /\ \E i \in Entries(R, R.calls[j]) :
                           /\ KeyAt(R, j) = R.src[R.calls[j]].lt[i][1]
                           /\ R.src[R.calls[j]].lt[i][2].t = "table"
    BY DEF Nested
  <2>0. j \in 1 .. d - 1 /\ j + 1 \in 1 .. d - 1 /\ j # d /\ j \in 1 .. d
    BY ONLY <1>1, <1>5, j \in 1 .. Len(R.calls), j # Len(R.calls)
  <2>1. KeyAt(R, j) = KeyAt(L, j) /\ R.calls[j] = L.calls[j] /\ R.calls[j + 1] = L.calls[j + 1]
    BY ONLY <1>5, <2>0, SMTT(30)
  <2>2. /\ Made(L, L.calls[j + 1], L.calls[j], KeyAt(L, j))
        /\ \E i \in Entries(L, L.calls[j]) :
             /\ KeyAt(L, j) = L.src[L.calls[j]].lt[i][1]
             /\ L.src[L.calls[j]].lt[i][2].t = "table"
    BY <2>0 DEF ConvTree, Nested, d
  <2> QED BY ONLY <1>5, <1>12, <2>1, <2>2, Zenon
<1> QED
  BY <1>10, <1>11, <1>12, <1>13, SMTT(30) DEF ConvTree

LEMMA FinishedTree ==
  ASSUME NEW L, ConvTyped(L), Running(L), NEW g, ConvTree(L, g),
         NEW R, Finished(L, R)
  PROVE  ConvTree(R, g)
<1>1. DoneSame(R, L)
  BY FinishedDone
<1>2. R.tab = L.tab /\ R.src = L.src /\ Len(R.calls) = 0
  BY DEF Finished
<1>3. /\ MadeOnce(R) /\ MadeOf(R)
      /\ \A a, c, key : Made(R, c, a, key) <=> Made(L, c, a, key)
      /\ \A a : Entries(R, a) = Entries(L, a)
  BY <1>2, MadeSame DEF ConvTree
<1>4. TreesKept(R, g) /\ Loose(R) /\ Nested(R)
  BY <1>2 DEF ConvTree, TreesKept, Loose, Nested
<1>5. \A a, e : EntryOK(R, a, e) <=> EntryOK(L, a, e)
  BY <1>2, <1>3 DEF EntryOK, Finds
<1>6. EntriesIn(R)
  BY <1>1, <1>2, <1>3, <1>5 DEF EntriesIn, ConvTree, DoneSame
<1>7. EntriesOnly(R)
  BY <1>1, <1>2, <1>3 DEF EntriesOnly, ConvTree, DoneSame
<1>8. MadeFor(R)
  BY <1>1, <1>2, <1>3 DEF MadeFor, ConvTree, DoneSame
<1> QED
  BY <1>3, <1>4, <1>6, <1>7, <1>8 DEF ConvTree

LEMMA OpenedTree ==
  ASSUME NEW L, ConvTyped(L), Running(L), NEW g, ConvTree(L, g),
         NEW R, ConvTyped(R), NEW b \in Tables, Opened(L, R, b)
  PROVE  ConvTree(R, g)
<1> DEFINE d == Len(L.calls)
           p == L.calls[d]
           n == Turns(L)
           e == L.src[p].lt[n]
           tb == L.tab
           t2 == R.tab
<1>1. d \in 1 .. d /\ d \in Nat \ {0} /\ p \in Tables /\ HeapOK(tb)
  <2>1. HeapOK(tb)
    BY DEF ConvTyped
  <2> QED BY <2>1, TopFacts
<1>2. L.src[p].new /\ Source(L, d) = L.src[p].lt /\ L.src[p].lt \in LuaTables
  <2>1. L.src[p].new
    BY <1>1 DEF ConvTyped
  <2> QED BY <1>1, <2>1 DEF ConvTyped, Source
<1>3. /\ n \in Entries(L, p)
      /\ KeyOK(e[1]) /\ e[2].t = "table"
      /\ ~tb[b].live /\ NewPut(t2, tb, b)
      /\ R.src[b].new /\ R.src[b].at = <<p, e[1]>>
      /\ \A a \in Tables : a # b => R.src[a] = L.src[a]
      /\ Len(R.calls) = d + 1 /\ R.calls[d + 1] = b
      /\ \A j \in 1 .. d : R.calls[j] = L.calls[j] /\ L.calls[j] # b
      /\ \A j \in 1 .. d : KeyAt(R, j) = IF j = d THEN e[1] ELSE KeyAt(L, j)
  BY <1>2, Zenon DEF Opened, Entries
<1>4. /\ DoneSame(R, L)
      /\ \A i \in Entries(R, b) : ~Done(R, b, i)
      /\ Pending(R, p, n)
      /\ ~Done(L, p, n) /\ ~Pending(L, p, n)
  BY OpenedDone
<1>5. /\ \A k \in MapKeys : Search(t2[b].map, k) = NilValue
      /\ \A q \in Tables : q # b => t2[q] = tb[q]
      /\ \A q \in Tables : Stored(t2, q) = Stored(tb, q)
      /\ Tree(t2) /\ \A q \in Tables : b \notin Stored(t2, q)
  <2>1. Tree(tb)
    BY DEF ConvTree, TreesKept
  <2>2. HeapOK(tb) /\ ~tb[b].live /\ NewPut(t2, tb, b)
    BY <1>1, <1>3, Zenon
  <2> HIDE DEF tb, t2
  <2> QED BY ONLY <2>1, <2>2, b \in Tables, CreateTree
<1>6. ~L.src[b].new
  BY <1>3, Zenon DEF ConvTyped
<1>7. TreesKept(R, g)
  <2>1. \A a \in Tables : IF L.src[a].new THEN ~g[a].live ELSE tb[a] = g[a]
    BY DEF ConvTree, TreesKept
  <2>2. ~g[b].live
    BY <1>3, <1>6, <2>1, Zenon
  <2>3. \A a \in Tables : IF R.src[a].new THEN ~g[a].live ELSE t2[a] = g[a]
    <3> HIDE DEF tb, t2
    <3> QED BY ONLY <1>3, <1>5, <2>1, <2>2, ZenonT(40)
  <2> QED BY <1>5, <2>3 DEF TreesKept
<1> HIDE DEF d, n, e
<1>8. \A c \in Tables : \A a, key : c # b => (Made(R, c, a, key) <=> Made(L, c, a, key))
  BY <1>3 DEF Made
<1>9. \A a, key : Made(R, b, a, key) <=> a = p /\ key = e[1]
  BY <1>3 DEF Made
<1>10. \A a \in Tables : a # b => Entries(R, a) = Entries(L, a)
  BY <1>3 DEF Entries
<1>11. p # b
  BY <1>2, <1>6
<1>12. \A a, c \in Tables : \A key : Made(L, c, a, key) => L.src[a].new
  BY DEF ConvTree, MadeOf
<1>13. MadeOf(R)
  <2>1. ASSUME NEW a \in Tables, NEW c \in Tables, NEW key, Made(R, c, a, key) PROVE R.src[a].new
    <3>1. CASE c = b
      BY <1>2, <1>3, <1>9, <1>11, <2>1, <3>1
    <3>2. CASE c # b
      <4>1. L.src[a].new
        BY <1>8, <1>12, <2>1, <3>2
      <4> QED BY <1>3, <1>6, <4>1
    <3> QED BY <3>1, <3>2
  <2> QED BY <2>1 DEF MadeOf
<1>14. \A i \in Entries(L, p) : L.src[p].lt[i][1] = e[1] => i = n
  <2> DEFINE lt == L.src[p].lt
  <2>1. lt \in LuaTables /\ n \in 1 .. Len(lt) /\ e = lt[n] /\ Entries(L, p) = 1 .. Len(lt)
    BY <1>2, <1>3, Zenon DEF Entries, e
  <2> HIDE DEF lt
  <2>2. \A i \in 1 .. Len(lt) : lt[i][1] = lt[n][1] => i = n
    BY ONLY <2>1, EntryFacts
  <2> QED BY ONLY <2>1, <2>2 DEF lt
<1>15. MadeFor(R)
  <2> SUFFICES ASSUME NEW a \in Tables, NEW c \in Tables, R.src[a].new, NEW i \in Entries(R, a),
                      Made(R, c, a, R.src[a].lt[i][1])
               PROVE  Done(R, a, i) \/ Pending(R, a, i)
    BY DEF MadeFor
  <2>1. CASE c = b
    <3>1. a = p /\ R.src[a].lt[i][1] = e[1]
      BY <1>9, <2>1
    <3>2. i \in Entries(L, p) /\ L.src[p].lt[i][1] = e[1]
      BY <1>3, <1>10, <1>11, <3>1
    <3>3. i = n
      BY <1>14, <3>2
    <3> QED BY <1>4, <3>1, <3>3
  <2>2. CASE c # b
    <3> DEFINE key == R.src[a].lt[i][1]
    <3>1. Made(L, c, a, key) /\ L.src[a].new
      BY <1>8, <1>12, <2>2
    <3>2. a # b /\ i \in Entries(L, a) /\ key = L.src[a].lt[i][1]
      BY <1>3, <1>6, <1>10, <3>1
    <3>3. Done(L, a, i) \/ Pending(L, a, i)
      BY <3>1, <3>2 DEF ConvTree, MadeFor
    <3> QED BY <1>4, <3>1, <3>2, <3>3 DEF DoneSame
  <2> QED BY <2>1, <2>2
<1>16. MadeOnce(R)
  <2>1. ASSUME NEW c \in Tables, Made(L, c, p, e[1]) PROVE FALSE
    BY <1>1, <1>2, <1>3, <1>4, <2>1, Zenon DEF ConvTree, MadeFor, e
  <2> SUFFICES ASSUME NEW a \in Tables, NEW x \in Tables, NEW y \in Tables, NEW key,
                      Made(R, x, a, key), Made(R, y, a, key)
               PROVE  x = y
    BY DEF MadeOnce
  <2>2. CASE x = b \/ y = b
    BY <1>8, <1>9, <2>1, <2>2
  <2>3. CASE x # b /\ y # b
    <3>1. Made(L, x, a, key) /\ Made(L, y, a, key)
      BY <1>8, <2>3
    <3> QED BY <3>1 DEF ConvTree, MadeOnce
  <2> QED BY <2>2, <2>3
<1>17. EntriesIn(R)
  <2> SUFFICES ASSUME NEW a \in Tables, R.src[a].new, NEW i \in Entries(R, a), Done(R, a, i)
               PROVE  EntryOK(R, a, R.src[a].lt[i])
    BY DEF EntriesIn
  <2> DEFINE f == R.src[a].lt[i]
  <2>1. a # b
    BY <1>4
  <2>2. R.src[a] = L.src[a] /\ i \in Entries(L, a)
    BY <1>3, <1>10, <2>1
  <2>3. Done(L, a, i)
    BY <1>4, <2>2 DEF DoneSame
  <2>4. EntryOK(L, a, f)
    BY <2>2, <2>3 DEF ConvTree, EntriesIn
  <2>5. \A w : Finds(R, a, f[1], w) <=> Finds(L, a, f[1], w)
    BY <1>5, <2>1 DEF Finds
  <2>6. \A c \in Tables : \A key : Made(L, c, a, key) => Made(R, c, a, key)
    <3>1. \A key : ~Made(L, b, a, key)
      BY <1>6 DEF Made
    <3> QED BY <1>8, <3>1
  <2> HIDE DEF f
  <2>7. EntryOK(R, a, f)
    BY ONLY <2>4, <2>5, <2>6 DEF EntryOK
  <2> QED BY <2>7 DEF f
<1>18. EntriesOnly(R)
  <2> SUFFICES ASSUME NEW a \in Tables, R.src[a].new, NEW k \in MapKeys
               PROVE  \/ Search(t2[a].map, k) = NilValue
                      \/ \E i \in Entries(R, a) : Done(R, a, i) /\ get_key(R.src[a].lt[i][1]) = k
    BY DEF EntriesOnly
  <2>1. CASE a = b
    BY <1>5, <2>1
  <2>2. CASE a # b
    <3>1. R.src[a] = L.src[a] /\ Entries(R, a) = Entries(L, a) /\ t2[a] = tb[a]
      BY <1>3, <1>5, <1>10, <2>2
    <3>2. L.src[a].new
      BY <3>1
    <3>3. \/ Search(tb[a].map, k) = NilValue
          \/ \E i \in Entries(L, a) : Done(L, a, i) /\ get_key(L.src[a].lt[i][1]) = k
      BY <3>2 DEF ConvTree, EntriesOnly
    <3>4. \A i \in Entries(L, a) : Done(R, a, i) <=> Done(L, a, i)
      BY <1>4, <3>2 DEF DoneSame
    <3> HIDE DEF t2, tb
    <3> QED BY ONLY <3>1, <3>3, <3>4
  <2> QED BY <2>1, <2>2
<1>19. \A j \in 1 .. Len(R.calls) : j = d + 1 \/ j \in 1 .. d
  BY ONLY <1>1, <1>3
<1>20. Loose(R)
  <2>1. \A j \in 1 .. d : \A q \in Tables : L.calls[j] \notin Stored(tb, q)
    BY DEF ConvTree, Loose, d
  <2> HIDE DEF t2, tb
  <2>2. \A j \in 1 .. Len(R.calls) : \A q \in Tables : R.calls[j] \notin Stored(t2, q)
    BY ONLY <1>3, <1>5, <1>19, <2>1, SMTT(30)
  <2> QED BY <2>2 DEF Loose, t2
<1>21. Nested(R)
  <2> SUFFICES ASSUME NEW j \in 1 .. Len(R.calls), j # Len(R.calls)
               PROVE  /\ Made(R, R.calls[j + 1], R.calls[j], KeyAt(R, j))
                      /\ \E i \in Entries(R, R.calls[j]) :
                           /\ KeyAt(R, j) = R.src[R.calls[j]].lt[i][1]
                           /\ R.src[R.calls[j]].lt[i][2].t = "table"
    BY DEF Nested
  <2>0. j \in 1 .. d
    BY <1>3, <1>19
  <2>a. /\ R.calls[j] = L.calls[j] /\ L.calls[j] # b
        /\ KeyAt(R, j) = IF j = d THEN e[1] ELSE KeyAt(L, j)
    BY ONLY <1>3, <2>0
  <2>b. L.calls[j] \in Tables
    BY <2>0, TopFacts DEF d
  <2>c. R.src[L.calls[j]] = L.src[L.calls[j]] /\ Entries(R, L.calls[j]) = Entries(L, L.calls[j])
    BY <1>3, <1>10, <2>a, <2>b
  <2>1. CASE j = d
    <3>1. Made(R, R.calls[j + 1], R.calls[j], KeyAt(R, j))
      BY <1>3, <1>9, <2>1, <2>a
    <3>2. L.calls[j] = p /\ n \in Entries(L, p) /\ e[2].t = "table" /\ e = L.src[p].lt[n]
      BY <1>3, <2>1, Zenon DEF d, e
    <3>3. /\ n \in Entries(R, R.calls[j])
          /\ KeyAt(R, j) = R.src[R.calls[j]].lt[n][1]
          /\ R.src[R.calls[j]].lt[n][2].t = "table"
      BY ONLY <2>1, <2>a, <2>c, <3>2
    <3> QED BY ONLY <3>1, <3>3, Zenon
  <2>2. CASE j # d
    <3>1. j + 1 \in 1 .. d
      BY ONLY <1>1, <2>0, <2>2
    <3>2. R.calls[j + 1] = L.calls[j + 1] /\ L.calls[j + 1] # b /\ L.calls[j + 1] \in Tables
      BY <1>3, <3>1, TopFacts DEF d
    <3>3. /\ Made(L, L.calls[j + 1], L.calls[j], KeyAt(L, j))
          /\ \E i \in Entries(L, L.calls[j]) :
               /\ KeyAt(L, j) = L.src[L.calls[j]].lt[i][1]
               /\ L.src[L.calls[j]].lt[i][2].t = "table"
      BY <2>0, <2>2 DEF ConvTree, Nested, d
    <3>4. Made(R, L.calls[j + 1], L.calls[j], KeyAt(L, j))
      BY <1>8, <3>2, <3>3
    <3> QED BY ONLY <2>2, <2>a, <2>c, <3>2, <3>3, <3>4, Zenon
  <2> QED BY <2>1, <2>2, SMTT(30)
<1> QED
  BY <1>7, <1>13, <1>15, <1>16, <1>17, <1>18, <1>20, <1>21 DEF ConvTree

LEMMA FirstTree ==
  ASSUME NEW g, HeapOK(g), Tree(g), NEW lt, NEW R, ConvTyped(R), NEW b \in Tables, First(R, g, lt, b)
  PROVE  ConvTree(R, g)
<1> DEFINE t2 == R.tab
<1>1. /\ ~g[b].live /\ NewPut(t2, g, b)
      /\ R.src[b].new /\ R.src[b].at = <<>>
      /\ \A a \in Tables : a # b => ~R.src[a].new
      /\ Len(R.calls) = 1 /\ R.calls[1] = b /\ KeyAt(R, 1) = LNil
  BY DEF First
<1>2. /\ \A k \in MapKeys : Search(t2[b].map, k) = NilValue
      /\ \A q \in Tables : q # b => t2[q] = g[q]
      /\ Tree(t2) /\ \A q \in Tables : b \notin Stored(t2, q)
  <2> HIDE DEF t2
  <2> QED BY ONLY <1>1, HeapOK(g), Tree(g), b \in Tables, CreateTree
<1>3. \A c \in Tables : \A a, key : ~Made(R, c, a, key)
  <2>1. \A a, key : <<a, key>> # <<>>
    OBVIOUS
  <2> QED BY <1>1, <2>1 DEF Made
<1>4. TreesKept(R, g)
  BY <1>1, <1>2 DEF TreesKept
<1>5. EntriesIn(R)
  <2> SUFFICES ASSUME NEW i \in Entries(R, b), Done(R, b, i) PROVE FALSE
    BY <1>1 DEF EntriesIn
  <2>1. 1 \in 1 .. Len(R.calls)
    BY <1>1
  <2>2. Done(R, R.calls[1], i) <=> \/ i < Place(Source(R, 1), KeyAt(R, 1))
                                   \/ 1 = Len(R.calls) /\ i = Place(Source(R, 1), KeyAt(R, 1))
    BY ONLY ConvTyped(R), <2>1, DoneIs
  <2>3. Place(Source(R, 1), LNil) = 0
    BY DEF Place
  <2>4. R.src[b].lt \in LuaTables
    BY <1>1 DEF ConvTyped
  <2>5. i \in 1 .. Len(R.src[b].lt) /\ Len(R.src[b].lt) \in Nat
    BY <2>4, EntryFacts DEF Entries
  <2>6. Done(R, b, i)
    OBVIOUS
  <2> QED BY ONLY <1>1, <2>2, <2>3, <2>5, <2>6
<1>6. EntriesOnly(R)
  BY <1>1, <1>2 DEF EntriesOnly
<1>7. MadeFor(R) /\ MadeOnce(R) /\ MadeOf(R)
  BY <1>3 DEF MadeFor, MadeOnce, MadeOf
<1>8. \A j \in 1 .. Len(R.calls) : j = 1 /\ j = Len(R.calls)
  BY <1>1
<1>9. Loose(R) /\ Nested(R)
  BY <1>1, <1>2, <1>8 DEF Loose, Nested
<1> QED
  BY <1>4, <1>5, <1>6, <1>7, <1>9 DEF ConvTree

(* Nothing has gone wrong, and no key of a Lua table lost its fraction.     *)
Clean(L) == ~L.err /\ L.full = {} /\ FracFree(L)

ConvInv(L, g) == ConvTyped(L) /\ (Clean(L) => ConvTree(L, g))

LEMMA CleanBefore ==
  ASSUME NEW L, ConvTyped(L), Running(L), NEW R, Turned(L, R), Clean(R)
  PROVE  Clean(L)
<1>1. ~L.err /\ L.full = {}
  BY DEF Running
<1>2. CASE R.src = L.src
  BY <1>1, <1>2 DEF Clean, FracFree, Entries
<1>3. CASE \E b \in Tables : Opened(L, R, b)
  <2>1. PICK b \in Tables : Opened(L, R, b)
    BY <1>3
  <2>2. ~L.tab[b].live /\ \A a \in Tables : a # b => R.src[a] = L.src[a]
    BY <2>1 DEF Opened
  <2>3. ~L.src[b].new
    BY <2>2 DEF ConvTyped
  <2>4. \A a \in Tables : L.src[a].new => R.src[a] = L.src[a]
    BY <2>2, <2>3
  <2> QED BY <1>1, <2>4 DEF Clean, FracFree, Entries
<1>4. ~R.err /\ R.full = {}
  BY DEF Clean
<1>5. Finished(L, R) \/ Returned(L, R) \/ Entered(L, R) => R.src = L.src
  BY DEF Finished, Returned, Entered
<1> QED
  BY <1>2, <1>3, <1>4, <1>5 DEF Turned

LEMMA ConvertStepInv ==
  ASSUME NEW L, NEW g, ConvInv(L, g)
  PROVE  ConvInv(ConvertStep(L), g)
<1> DEFINE R == ConvertStep(L)
<1>1. ConvTyped(L)
  BY DEF ConvInv
<1>2. /\ ConvTyped(R)
      /\ ~Running(L) => R = L
      /\ Running(L) => Turned(L, R)
  BY <1>1, ConvertStepIs
<1> HIDE DEF R
<1>3. CASE ~Running(L)
  BY <1>2, <1>3 DEF ConvInv, R
<1>4. CASE Running(L)
  <2>1. ASSUME Clean(R) PROVE ConvTree(R, g)
    <3>1. Turned(L, R) /\ Clean(L)
      BY <1>1, <1>2, <1>4, <2>1, CleanBefore
    <3>2. ConvTree(L, g) /\ FracFree(L)
      BY <3>1 DEF ConvInv, Clean
    <3>3. ~R.err /\ R.full = {}
      BY <2>1 DEF Clean
    <3>4. CASE Finished(L, R)
      BY <1>1, <1>4, <3>2, <3>4, FinishedTree
    <3>5. CASE Returned(L, R)
      BY <1>1, <1>2, <1>4, <3>2, <3>5, ReturnedTree
    <3>6. CASE Entered(L, R)
      BY <1>1, <1>2, <1>4, <3>2, <3>6, EnteredTree
    <3>7. CASE \E b \in Tables : Opened(L, R, b)
      BY <1>1, <1>2, <1>4, <3>2, <3>7, OpenedTree
    <3> QED BY <3>1, <3>3, <3>4, <3>5, <3>6, <3>7 DEF Turned
  <2> QED BY <1>2, <2>1 DEF ConvInv, R
<1> QED
  BY <1>3, <1>4

(* The heap do_convert leaves. *)
LEMMA Converted ==
  ASSUME HeapOK(tab), CountedOnce(tab), NEW lt \in LuaTables, NEW L, L = do_convert(lt)
  PROVE  /\ ConvTyped(L)
         /\ Tree(tab) /\ Clean(L) => ConvTree(L, tab)
<1> DEFINE S == Start(tab, lt)
           run == ConvertRun(S)
<1>1. L = run[MaxSteps]
  BY DEF do_convert, Start, OnStack
<1>2. MaxSteps \in Nat
  BY SizeAssumption
<1> HIDE DEF S
<1>3. run[0] = Call(S) /\ \A n \in 1 .. MaxSteps : run[n] = ConvertStep(run[n - 1])
  BY ConvertRunDef
<1>4. /\ ConvTyped(Call(S))
      /\ Call(S).full # {} \/ \E b \in Tables : First(Call(S), tab, lt, b)
  BY StartIs DEF S
<1> HIDE DEF run
<1>5. ConvTyped(L)
  <2> DEFINE T == {n \in 0 .. MaxSteps : ConvTyped(run[n])}
  <2>1. 0 \in T
    BY <1>2, <1>3, <1>4
  <2>2. ASSUME NEW n \in 1 .. MaxSteps, n - 1 \in T PROVE n \in T
    BY <1>3, <2>2, ConvertStepIs
  <2> HIDE DEF T
  <2>3. \A n \in 0 .. MaxSteps : n \in T
    BY <1>2, <2>1, <2>2, UpToInduction
  <2> QED BY <1>1, <1>2, <2>3 DEF T
<1>6. ASSUME Tree(tab), Clean(L) PROVE ConvTree(L, tab)
  <2> DEFINE T == {n \in 0 .. MaxSteps : ConvInv(run[n], tab)}
  <2>1. 0 \in T
    <3>1. ASSUME Clean(Call(S)) PROVE ConvTree(Call(S), tab)
      <4>1. Call(S).full = {}
        BY <3>1 DEF Clean
      <4>2. PICK b \in Tables : First(Call(S), tab, lt, b)
        BY <1>4, <4>1
      <4> QED BY <1>4, <1>6, <4>2, FirstTree
    <3>2. ConvInv(run[0], tab)
      BY <1>3, <1>4, <3>1 DEF ConvInv
    <3> QED BY <1>2, <3>2
  <2>2. ASSUME NEW n \in 1 .. MaxSteps, n - 1 \in T PROVE n \in T
    <3>1. ConvInv(run[n - 1], tab)
      BY <2>2
    <3>2. ConvInv(ConvertStep(run[n - 1]), tab)
      BY <3>1, ConvertStepInv
    <3> QED BY <1>3, <3>2
  <2> HIDE DEF T
  <2>3. \A n \in 0 .. MaxSteps : n \in T
    BY <1>2, <2>1, <2>2, UpToInduction
  <2>4. ConvInv(run[MaxSteps], tab)
    BY <1>2, <2>3 DEF T
  <2> QED BY <1>1, <1>6, <2>4 DEF ConvInv
<1> QED
  BY <1>5, <1>6

-----------------------------------------------------------------------------
(* The invariant *)

(* The state, whatever the script did.                                      *)
ItOK ==
  it # NoIter =>
    /\ it = [t |-> it.t, keys |-> it.keys, pos |-> it.pos, valid |-> it.valid]
    /\ it.t \in Tables
    /\ it.keys \in Seq(MapKeys)
    /\ it.pos \in 0 .. Len(it.keys)
    /\ it.valid \in BOOLEAN

Typed ==
  /\ HeapOK(tab) /\ CountedOnce(tab)
  /\ mt \in BOOLEAN
  /\ ItOK
  /\ status \in {"up", "crashed"}
  /\ OnTables(dict)

(* A map holds what the script stored, and nothing else.                    *)
Agree(m, d) ==
  /\ \A key \in DOMAIN d :
       Whole(key) /\ d[key] \in Storable /\ Search(m, get_key(key)) = Held(d[key])
  /\ \A k \in MapKeys :
       Search(m, k) = NilValue \/ \E key \in DOMAIN d : get_key(key) = k

(* What holds as long as the script has misused nothing.                    *)
Script ==
  /\ status = "up"
  /\ Tree(tab)
  /\ \A a \in Tables : tab[a].live => Agree(tab[a].map, dict[a])
  /\ it # NoIter /\ it.valid => tab[it.t].live

Inv == Typed /\ (misuse = {} => Script)

-----------------------------------------------------------------------------
(* Reading back *)

(* A node of the right type is read as what it holds. *)
LEMMA ReadValue ==
  ASSUME NEW m, NEW key, NEW v \in Storable, Search(m, key) = Held(v)
  PROVE  get_value(m, key) = v /\ v # Fault /\ v # LNil
<1> DEFINE w == Search(m, key)
<1>1. w.type = LTypes[v.t] /\ w.v = v /\ Intact(w)
  BY HeldFacts
<1>2. v.t \in DOMAIN LTypes /\ LTypes[v.t] \in Types
  BY TypeFacts DEF Storable
<1>3. v.t # "fault" /\ v.t # "nil" /\ w.type # "NIL"
  BY <1>1, <1>2, TypeFacts DEF Types
<1>4. Fault.t = "fault" /\ LNil.t = "nil"
  BY DEF Fault, LNil
<1> HIDE DEF w
<1>5. get_value(m, key) = w.v
  BY <1>1, <1>3 DEF get_value, w
<1> QED
  BY ONLY <1>1, <1>3, <1>4, <1>5

LEMMA ReadNil ==
  ASSUME NEW m, NEW key, Search(m, key) = NilValue
  PROVE  get_value(m, key) = LNil /\ LNil # Fault
<1>1. NilValue.type = "NIL"
  BY DEF NilValue
<1>2. get_value(m, key) = LNil
  BY <1>1 DEF get_value
<1>3. LNil # Fault
  BY DEF LNil, Fault
<1> QED
  BY <1>2, <1>3

(* The values of a map are those of its keys, whatever key is looked up.    *)
LEMMA AnyKey ==
  ASSUME NEW m, MapOK(m, MapKeys, MapValues), NEW key, IsKey(key)
  PROVE  \/ Search(m, key) = NilValue
         \/ \E k \in MapKeys : Search(m, key) = Search(m, k) /\ Search(m, k) \in MapValues
<1> DEFINE chain == Chain(m, key)
           found == {i \in DOMAIN chain : is_in_hash(key, chain[i])}
<1>1. chain \in Seq(NodeSet(MapKeys, MapValues))
  <2>1. m.size \in Nat \ {0} /\ \A h \in 0 .. m.size - 1 : m.data[h] \in Seq(NodeSet(MapKeys, MapValues))
    BY Chains, MapKeysFit
  <2>2. hash(key, m.size) \in 0 .. m.size - 1
    BY <2>1, HashRange
  <2> QED BY <2>1, <2>2 DEF Chain
<1>2. CASE found = {}
  BY <1>2 DEF Search, Position
<1>3. CASE found # {}
  <2>1. PICK i \in DOMAIN chain : is_in_hash(key, chain[i])
    BY <1>3
  <2>2. chain[i] \in NodeSet(MapKeys, MapValues)
    BY <1>1
  <2> HIDE DEF chain, found
  <2>3. NodeKey(chain[i]) \in MapKeys
    BY <2>2, KeyOfNode, MapKeysFit
  <2>4. key = [type |-> key.type, k |-> key.k]
    BY DEF IsKey
  <2>5. NodeKey(chain[i]) = [type |-> key.type, k |-> key.k]
    BY <2>1 DEF NodeKey, is_in_hash
  <2>6. key \in MapKeys
    BY ONLY <2>3, <2>4, <2>5
  <2> QED BY <2>6, Found
<1> QED
  BY <1>2, <1>3

(* A number key stored below 2^(IntBits-1) is read one above it, as an int. *)
LEMMA ReadNumber ==
  ASSUME NEW m, NEW n \in 0 .. 2^(IntBits - 1) - 1
  PROVE  get(m, LNum(n + 1)) = IF n = 2^(IntBits - 1) - 1 THEN Err
                               ELSE get_value(m, [type |-> "NUMBER", k |-> n])
<1> DEFINE P == 2^(IntBits - 1)
           i == ToInt(n + 1)
<1>1. P \in Nat \ {0}
  BY PowerAssumption
<1>2. get(m, LNum(n + 1)) =
        IF i <= 0 THEN Err ELSE get_value(m, [type |-> "NUMBER", k |-> ToSize(i - 1)])
  <2>1. LNum(n + 1).t = "number" /\ LNum(n + 1).x = n + 1
    BY DEF LNum
  <2> QED BY <2>1 DEF get
<1>3. n = P - 1 => i <= 0
  <2>1. n = P - 1 => n + 1 = P
    BY <1>1
  <2> QED BY <2>1, IntWraps
<1>4. n # P - 1 => i = n + 1
  <2>1. n # P - 1 => n + 1 \in 0 .. P - 1
    <3> HIDE DEF P, i
    <3> QED BY <1>1, n \in 0 .. P - 1 DEF P
  <2> QED BY <2>1, IntKeeps
<1>5. ToSize(n) = n
  BY IntKeeps
<1> HIDE DEF P, i
<1>6. CASE n = P - 1
  BY <1>2, <1>3, <1>6 DEF P
<1>7. CASE n # P - 1
  <2>1. i - 1 = n /\ ~(i <= 0)
    BY <1>1, <1>4, <1>7, n \in 0 .. P - 1 DEF P
  <2> QED BY <1>2, <1>5, <1>7, <2>1 DEF P
<1> QED BY <1>6, <1>7

(* The iterator called with n - 1 looks up n. *)
LEMMA ReadNext ==
  ASSUME NEW m, NEW n \in 0 .. 2^(IntBits - 1) - 1,
         get_value(m, [type |-> "NUMBER", k |-> n]) # LNil
  PROVE  ipairsaux(m, n - 1) = <<LNum(n), get_value(m, [type |-> "NUMBER", k |-> n])>>
<1>1. n - 1 + 1 = n
  <2>1. 2^(IntBits - 1) \in Nat \ {0}
    BY PowerAssumption
  <2> QED BY <2>1
<1>2. ToInt(n - 1 + 1) = n /\ ToSize(ToInt(n - 1 + 1)) = n
  BY <1>1, IntKeeps
<1> QED BY <1>2 DEF ipairsaux

LEMMA AgreeReads ==
  ASSUME NEW m, MapOK(m, MapKeys, MapValues), NEW d, Agree(m, d), NEW key \in DOMAIN d
  PROVE  IF key.t = "string" THEN get(m, key) = d[key]
         ELSE /\ get(m, LNum(key.x + 1)) = IF key.x = 2^(IntBits - 1) - 1 THEN Err ELSE d[key]
              /\ ipairsaux(m, key.x - 1) = <<key, d[key]>>
<1> DEFINE v == d[key]
<1>1. Whole(key) /\ v \in Storable /\ Search(m, get_key(key)) = Held(v)
  BY DEF Agree
<1> HIDE DEF v
<1>2. get_value(m, get_key(key)) = v /\ v # LNil
  BY <1>1, ReadValue
<1>3. CASE key.t = "string"
  <2>1. get_key(key) = [type |-> "STRING", k |-> key.x]
    BY <1>1, <1>3, WholeKey
  <2>2. get(m, key) = get_value(m, [type |-> "STRING", k |-> key.x])
    BY <1>3 DEF get
  <2> QED BY <1>2, <1>3, <2>1, <2>2 DEF v
<1>4. CASE key.t # "string"
  <2>1. PICK n \in 0 .. 2^(IntBits - 1) - 1 :
          get_key(key) = [type |-> "NUMBER", k |-> n] /\ key = LNum(n)
    BY <1>1, <1>4, WholeKey
  <2>2. key.x = n
    BY <2>1 DEF LNum
  <2>3. get_value(m, [type |-> "NUMBER", k |-> n]) = v
    BY <1>2, <2>1
  <2>4. get(m, LNum(n + 1)) = IF n = 2^(IntBits - 1) - 1 THEN Err ELSE v
    BY <2>3, ReadNumber
  <2>5. ipairsaux(m, n - 1) = <<LNum(n), v>>
    BY <1>2, <2>3, ReadNext
  <2> QED BY <1>4, <2>1, <2>2, <2>4, <2>5 DEF v
<1> QED
  BY <1>3, <1>4

LEMMA AgreeKeys ==
  ASSUME NEW m, MapOK(m, MapKeys, MapValues), NEW d, Agree(m, d), NEW keys, keys = KeysOf(m)
  PROVE  /\ {PushKey(keys[i]) : i \in DOMAIN keys} \subseteq DOMAIN d
         /\ ~Full(m) =>
              DOMAIN d \subseteq {PushKey(keys[i]) : i \in DOMAIN keys}
         /\ IsInjective(keys)
<1> DEFINE nodes == Nodes(m)
<1>1. /\ DOMAIN keys = 1 .. Len(keys) /\ Len(keys) \in Nat
      /\ \A i \in 1 .. Len(keys) : i \in 1 .. Len(nodes) /\ keys[i] = NodeKey(nodes[i])
      /\ ~Full(m) => Len(keys) = Len(nodes)
  BY KeysOfIs
<1>2. NodesAgree(m, MapKeys, MapValues)
  BY NodesOK, MapKeysFit
<1>3. /\ \A i \in 1 .. Len(nodes) :
           /\ NodeKey(nodes[i]) \in MapKeys
           /\ nodes[i].v \in MapValues
           /\ Search(m, NodeKey(nodes[i])) = nodes[i].v
      /\ \A i, j \in 1 .. Len(nodes) : NodeKey(nodes[i]) = NodeKey(nodes[j]) => i = j
      /\ \A k \in MapKeys : \/ Search(m, k) = NilValue
                            \/ \E i \in 1 .. Len(nodes) : NodeKey(nodes[i]) = k
  BY <1>2 DEF NodesAgree
<1> HIDE DEF nodes
<1>4. IsInjective(keys)
  BY <1>1, <1>3 DEF IsInjective
<1>5. ASSUME NEW i \in DOMAIN keys PROVE PushKey(keys[i]) \in DOMAIN d
  <2>1. keys[i] \in MapKeys /\ Search(m, keys[i]) # NilValue
    BY <1>1, <1>3, <1>5, ValueFacts
  <2>2. PICK key \in DOMAIN d : get_key(key) = keys[i]
    BY <2>1 DEF Agree
  <2>3. PushKey(get_key(key)) = key
    BY WholeKey DEF Agree
  <2> QED BY <2>2, <2>3
<1>6. ASSUME ~Full(m), NEW key \in DOMAIN d
      PROVE  \E i \in DOMAIN keys : key = PushKey(keys[i])
  <2>1. Whole(key) /\ d[key] \in Storable /\ Search(m, get_key(key)) = Held(d[key])
    BY DEF Agree
  <2>2. get_key(key) \in MapKeys /\ PushKey(get_key(key)) = key
    BY <2>1, WholeKey
  <2>3. Search(m, get_key(key)) # NilValue
    BY <2>1, HeldFacts, ValueFacts
  <2>4. PICK i \in 1 .. Len(nodes) : NodeKey(nodes[i]) = get_key(key)
    BY <1>3, <2>2, <2>3
  <2>5. i \in DOMAIN keys /\ keys[i] = get_key(key)
    BY <1>1, <1>6, <2>4
  <2> QED BY <2>2, <2>5
<1> QED
  BY <1>4, <1>5, <1>6 DEF nodes

-----------------------------------------------------------------------------
(* Serialising *)

SerRecord(S) == S = [buf |-> S.buf, ok |-> S.ok, calls |-> S.calls]

(* A table that serialize may be called with. *)
Fine(a) == tab[a].live /\ ~LongText(a)

(* What holds of a table holds of those stored in it. *)
LEMMA FineBelow ==
  ASSUME HeapOK(tab), NEW a \in Tables, Fine(a), NEW x \in Tables, x \in Stored(tab, a), tab[x].live
  PROVE  Fine(x)
<1>1. ASSUME NEW y \in Reach({x}) PROVE y \in Reach({a})
  <2>1. ASSUME NEW C \in SUBSET Tables, {a} \subseteq C, Closed(C) PROVE y \in C
    <3>1. {x} \subseteq C
      BY <2>1 DEF Closed
    <3> QED BY <1>1, <2>1, <3>1 DEF Reach
  <2>2. y \in Tables
    BY <1>1 DEF Reach
  <2> QED BY <2>1, <2>2 DEF Reach
<1> QED
  BY <1>1 DEF Fine, LongText

SerInv(S) ==
  /\ SerRecord(S)
  /\ S.ok
  /\ S.calls \in Seq(DelFrame)
  /\ \A j \in 1 .. Len(S.calls) : Fine(S.calls[j].t)
  /\ \A j, k \in 1 .. Len(S.calls) : k = j + 1 => S.calls[k].t \in Stored(tab, S.calls[j].t)

(* A table whose call is under way does not lie below the innermost.        *)
LEMMA NotAgain ==
  ASSUME HeapOK(tab), Acyclic(tab), NEW S, SerInv(S), S.calls # <<>>,
         NEW x, x \in Stored(tab, S.calls[Len(S.calls)].t)
  PROVE  \A j \in 1 .. Len(S.calls) : S.calls[j].t # x
<1> DEFINE c == S.calls
           l == Len(c)
<1>1. c \in Seq(DelFrame) /\ c # <<>>
  BY DEF SerInv
<1>2. l \in Nat /\ l \in 1 .. l /\ \A j \in 1 .. l : c[j] \in DelFrame
  <2> HIDE DEF c
  <2> QED BY <1>1
<1>3. \A j \in 1 .. l : c[j].t \in Tables
  BY <1>2 DEF DelFrame
<1>4. \A j, k \in 1 .. l : k = j + 1 => c[k].t \in Stored(tab, c[j].t)
  BY DEF SerInv
<1>5. x \in Stored(tab, c[l].t)
  OBVIOUS
<1> HIDE DEF c, l
<1> SUFFICES ASSUME NEW n \in 1 .. l, c[n].t = x PROVE FALSE
  BY DEF c, l
<1> DEFINE C == {c[j].t : j \in n .. l}
<1>6. C \in SUBSET Tables
  BY <1>2, <1>3
<1>7. ASSUME NEW p \in C PROVE \E y \in C : y \in Stored(tab, p)
  <2>1. PICK j \in n .. l : p = c[j].t
    BY <1>7
  <2>2. CASE j = l
    <3>1. x \in C
      BY <1>2
    <3> QED BY <1>5, <2>1, <2>2, <3>1
  <2>3. CASE j # l
    <3>1. j + 1 \in n .. l /\ j + 1 \in 1 .. l /\ j \in 1 .. l
      BY <1>2, <2>3
    <3>2. c[j + 1].t \in C /\ c[j + 1].t \in Stored(tab, p)
      BY <1>4, <2>1, <3>1
    <3> QED BY <3>2
  <2> QED BY <2>2, <2>3
<1>8. x \in C
  BY <1>2
<1> HIDE DEF C
<1> QED
  BY <1>6, <1>7, <1>8 DEF Acyclic

LEMMA CallSerializeOK ==
  ASSUME NEW S, SerInv(S), NEW x \in Tables, Fine(x),
         \A j \in 1 .. Len(S.calls) : S.calls[j].t # x,
         S.calls # <<>> => x \in Stored(tab, S.calls[Len(S.calls)].t)
  PROVE  SerInv(CallSerialize(S, x))
<1> DEFINE c == S.calls
           c2 == Append(c, [t |-> x, i |-> 1])
           buf == AddString(S.buf, Mark("open"))
           R == CallSerialize(S, x)
           l == Len(c)
<1>1. c \in Seq(DelFrame) /\ SerRecord(S) /\ S.ok
  BY DEF SerInv
<1>2. l \in Nat /\ DOMAIN c = 1 .. l /\ (l # 0 => c # <<>>)
  <2> HIDE DEF c
  <2> QED BY <1>1
<1>3. R = [S EXCEPT !.buf = buf, !.calls = c2]
  BY <1>2 DEF CallSerialize, Fine
<1>4. /\ c2 \in Seq(DelFrame) /\ Len(c2) = l + 1
      /\ \A j \in 1 .. l : c2[j] = c[j]
      /\ c2[l + 1].t = x
  <2> HIDE DEF c
  <2> QED BY <1>1, FramePush
<1> HIDE DEF c2, buf
<1>5. R = [buf |-> buf, ok |-> S.ok, calls |-> c2]
  <2> HIDE DEF R
  <2> QED BY ONLY <1>1, <1>3 DEF SerRecord
<1> HIDE DEF R
<1>6. R.buf = buf /\ R.ok = S.ok /\ R.calls = c2
  BY ONLY <1>5
<1>7. SerRecord(R)
  BY ONLY <1>5, <1>6 DEF SerRecord
<1>8. \A j \in 1 .. l : Fine(c[j].t)
  BY DEF SerInv
<1>9. \A j, k \in 1 .. l : k = j + 1 => c[k].t \in Stored(tab, c[j].t)
  BY DEF SerInv
<1>10. l # 0 => x \in Stored(tab, c[l].t)
  BY <1>2
<1> HIDE DEF c, l
<1>11. \A j \in 1 .. l + 1 : j = l + 1 \/ j \in 1 .. l
  BY <1>2
<1>12. \A j \in 1 .. l + 1 : Fine(c2[j].t)
  BY <1>4, <1>8, <1>11
<1>13. ASSUME NEW j \in 1 .. l + 1, NEW k \in 1 .. l + 1, k = j + 1
       PROVE  c2[k].t \in Stored(tab, c2[j].t)
  <2>1. j \in 1 .. l /\ (k = l + 1 => j = l /\ l # 0)
    BY <1>2, <1>13
  <2>2. CASE k = l + 1
    BY <1>4, <1>10, <2>1, <2>2
  <2>3. CASE k # l + 1
    BY <1>4, <1>9, <1>11, <1>13, <2>1, <2>3
  <2> QED BY <2>2, <2>3
<1> QED
  BY <1>1, <1>4, <1>6, <1>7, <1>12, <1>13 DEF SerInv, R

(* Before the first piece of text. *)
Blank == [buf |-> <<>>, ok |-> TRUE, calls |-> <<>>]

LEMMA SerializeRunDef ==
  ASSUME NEW a
  PROVE  /\ SerializeRun(a)[0] = CallSerialize(Blank, a)
         /\ \A n \in 1 .. MaxSteps : SerializeRun(a)[n] = SerializeStep(SerializeRun(a)[n - 1])
<1> DEFINE Eqn(f, k) == f = [n \in 0 .. k |-> IF n = 0 THEN CallSerialize(Blank, a) ELSE SerializeStep(f[n - 1])]
           T == {k \in 0 .. MaxSteps : \E f : Eqn(f, k)}
<1>1. MaxSteps \in Nat
  BY SizeAssumption
<1>2. 0 \in T
  <2>1. Eqn([n \in 0 .. 0 |-> CallSerialize(Blank, a)], 0)
    OBVIOUS
  <2> HIDE DEF Eqn
  <2> QED BY <1>1, <2>1
<1>3. ASSUME NEW k \in 1 .. MaxSteps, k - 1 \in T PROVE k \in T
  <2>1. PICK f : Eqn(f, k - 1)
    BY <1>3
  <2> DEFINE last == SerializeStep(f[k - 1])
             g == [n \in 0 .. k |-> IF n = k THEN last ELSE f[n]]
  <2>2. \A n \in 0 .. k - 1 : f[n] = IF n = 0 THEN CallSerialize(Blank, a) ELSE SerializeStep(f[n - 1])
    BY <2>1
  <2>3. \A n \in 0 .. k : g[n] = IF n = 0 THEN CallSerialize(Blank, a) ELSE SerializeStep(g[n - 1])
    <3> SUFFICES ASSUME NEW n \in 0 .. k
                 PROVE  g[n] = IF n = 0 THEN CallSerialize(Blank, a) ELSE SerializeStep(g[n - 1])
      OBVIOUS
    <3>1. CASE n = 0
      <4>1. 0 \in 0 .. k - 1 /\ 0 # k /\ 0 \in 0 .. k
        OBVIOUS
      <4>2. g[0] = f[0]
        BY <4>1
      <4>3. f[0] = CallSerialize(Blank, a)
        BY <2>2, <4>1
      <4> HIDE DEF g
      <4> QED BY <3>1, <4>2, <4>3
    <3>2. CASE n = k
      <4>1. g[n - 1] = f[k - 1] /\ n # 0
        BY <3>2
      <4>2. g[n] = last
        BY <3>2
      <4> HIDE DEF g
      <4> QED BY <4>1, <4>2
    <3>3. CASE n # 0 /\ n # k
      <4>1. n \in 0 .. k - 1 /\ n - 1 \in 0 .. k /\ n - 1 # k
        BY <3>3
      <4>2. g[n] = f[n] /\ g[n - 1] = f[n - 1]
        BY <3>3, <4>1
      <4>3. f[n] = SerializeStep(f[n - 1])
        BY <2>2, <3>3, <4>1
      <4> HIDE DEF g
      <4> QED BY <3>3, <4>2, <4>3
    <3> QED BY <3>1, <3>2, <3>3
  <2>4. g = [n \in 0 .. k |-> g[n]]
    OBVIOUS
  <2> HIDE DEF g
  <2>5. Eqn(g, k)
    BY <2>3, <2>4
  <2> HIDE DEF Eqn
  <2> QED BY <2>5
<1> HIDE DEF T
<1>4. \A k \in 0 .. MaxSteps : k \in T
  BY <1>1, <1>2, <1>3, UpToInduction
<1>5. PICK f : Eqn(f, MaxSteps)
  BY <1>1, <1>4 DEF T
<1> DEFINE run == SerializeRun(a)
<1>6. Eqn(run, MaxSteps)
  <2>1. run = CHOOSE x : Eqn(x, MaxSteps)
    BY DEF SerializeRun, Blank
  <2> HIDE DEF Eqn, run
  <2> QED BY <1>5, <2>1
<1> HIDE DEF run
<1>7. \A n \in 0 .. MaxSteps : run[n] = IF n = 0 THEN CallSerialize(Blank, a) ELSE SerializeStep(run[n - 1])
  BY <1>6
<1>8. 0 \in 0 .. MaxSteps /\ \A n \in 1 .. MaxSteps : n \in 0 .. MaxSteps /\ n # 0
  BY <1>1
<1>9. run[0] = CallSerialize(Blank, a) /\ \A n \in 1 .. MaxSteps : run[n] = SerializeStep(run[n - 1])
  BY <1>7, <1>8
<1> QED
  BY <1>9 DEF run

(* What a key is read as when every value has the type of its node. *)
LEMMA ReadIs ==
  ASSUME NEW m, NEW k,
         Search(m, k) = NilValue \/ (Search(m, k) \in MapValues /\ Intact(Search(m, k)))
  PROVE  /\ Search(m, k) = NilValue => get_value(m, k) = LNil
         /\ Search(m, k) # NilValue => /\ get_value(m, k) = Search(m, k).v
                                       /\ Search(m, k).v \in Storable
                                       /\ get_value(m, k) # LNil
         /\ get_value(m, k) # Fault
<1> DEFINE w == Search(m, k)
<1>1. CASE w = NilValue
  <2>1. w.type = "NIL"
    BY <1>1, ValueFacts
  <2>2. get_value(m, k) = LNil
    BY <2>1 DEF get_value
  <2>3. LNil # Fault
    BY DEF LNil, Fault
  <2> QED BY <1>1, <2>2, <2>3
<1>2. CASE w # NilValue
  <2>1. w \in MapValues /\ Intact(w)
    BY <1>2
  <2>2. w.type # "NIL" /\ w.v \in Storable
    BY <2>1, ValueFacts
  <2>3. get_value(m, k) = w.v
    BY <2>1, <2>2 DEF get_value
  <2>4. w.v.t \in DOMAIN LTypes
    BY <2>2 DEF Storable
  <2>5. w.v.t \in {"number", "boolean", "string", "lightuserdata"}
    BY ONLY <2>4, TypeFacts
  <2>6. w.v # LNil /\ w.v # Fault
    BY <2>5 DEF LNil, Fault
  <2> QED BY <1>2, <2>2, <2>3, <2>6
<1> QED
  BY <1>1, <1>2

LEMMA SerializeStepOK ==
  ASSUME HeapOK(tab), Tree(tab), NEW S, SerInv(S),
         \A a \in Tables : tab[a].live => Agree(tab[a].map, dict[a])
  PROVE  SerInv(SerializeStep(S))
<1> DEFINE c == S.calls
           l == Len(c)
           f == c[l]
           m == tab[f.t].map
           k == KeysOf(m)[f.i]
           w == Search(m, k)
           v == get_value(m, k)
           R == SerializeStep(S)
<1>1. c \in Seq(DelFrame) /\ SerRecord(S) /\ S.ok
  BY DEF SerInv
<1>2. CASE c = <<>>
  <2>1. R = S
    BY <1>2 DEF SerializeStep
  <2> QED BY <2>1
<1>3. ASSUME c # <<>> PROVE SerInv(R)
  <2>1. l \in Nat \ {0} /\ l \in 1 .. l /\ f \in DelFrame /\ Last(c) = f
    <3> HIDE DEF c
    <3> QED BY <1>1, <1>3 DEF Last
  <2>2. f.t \in Tables /\ f.i \in Nat \ {0}
    BY <2>1 DEF DelFrame
  <2>3. Fine(f.t) /\ tab[f.t].live
    BY <2>1 DEF SerInv, Fine
  <2>4. MapOK(m, MapKeys, MapValues)
    <3> DEFINE p == f.t
    <3> HIDE DEF f
    <3> QED BY <2>2, <2>3, TableFacts, ZenonT(40)
  <2>5. CASE f.i > Len(KeysOf(m))
    <3> DEFINE c2 == Front(c)
               buf == IF c2 = <<>> THEN AddString(S.buf, Mark("close"))
                      ELSE AddString(AddString(S.buf, Mark("close")), Mark("sep"))
    <3>1. R = EndSerialize(S)
      BY <1>1, <1>3, <2>1, <2>5 DEF SerializeStep
    <3>2. R = [S EXCEPT !.calls = c2, !.buf = buf]
      BY <3>1 DEF EndSerialize
    <3>3. /\ c2 \in Seq(DelFrame) /\ Len(c2) = l - 1
          /\ \A j \in 1 .. l - 1 : c2[j] = c[j]
      <4> HIDE DEF c
      <4> QED BY <1>1, <1>3, FrontFacts
    <3> HIDE DEF c2, buf, R
    <3>4. R = [buf |-> buf, ok |-> S.ok, calls |-> c2]
      BY ONLY <1>1, <3>2 DEF SerRecord
    <3>5. R.buf = buf /\ R.ok = S.ok /\ R.calls = c2
      BY ONLY <3>4
    <3>6. SerRecord(R)
      BY ONLY <3>4, <3>5 DEF SerRecord
    <3>7. \A j \in 1 .. l : Fine(c[j].t)
      BY DEF SerInv
    <3>8. \A j, n \in 1 .. l : n = j + 1 => c[n].t \in Stored(tab, c[j].t)
      BY DEF SerInv
    <3>9. \A j \in 1 .. l - 1 : j \in 1 .. l
      BY ONLY <2>1
    <3> HIDE DEF c, l
    <3>10. \A j \in 1 .. l - 1 : Fine(c2[j].t)
      BY ONLY <3>3, <3>7, <3>9
    <3>11. \A j, n \in 1 .. l - 1 : n = j + 1 => c2[n].t \in Stored(tab, c2[j].t)
      BY ONLY <3>3, <3>8, <3>9, SMTT(30)
    <3> QED BY ONLY <1>1, <3>3, <3>5, <3>6, <3>10, <3>11 DEF SerInv
  <2>6. CASE ~(f.i > Len(KeysOf(m)))
    <3>1. Len(KeysOf(m)) \in Nat
      BY <2>4, KeysOfIs
    <3>2. f.i \in 1 .. Len(KeysOf(m))
      BY ONLY <2>2, <2>6, <3>1
    <3>3. KeysOf(m) \in Seq(MapKeys) /\ f.i \in 1 .. Len(Nodes(m)) /\ k = NodeKey(Nodes(m)[f.i])
      BY <2>4, <3>2, KeysOfIs
    <3>4. k \in MapKeys
      BY ONLY <3>2, <3>3
    <3>5. w \in MapValues
      <4>1. NodesAgree(m, MapKeys, MapValues)
        BY <2>4, NodesOK, MapKeysFit
      <4> HIDE DEF m
      <4>2. \A i \in 1 .. Len(Nodes(m)) :
              Nodes(m)[i].v \in MapValues /\ Search(m, NodeKey(Nodes(m)[i])) = Nodes(m)[i].v
        BY ONLY <4>1 DEF NodesAgree
      <4> HIDE DEF k
      <4> QED BY ONLY <3>3, <4>2
    <3>6. w # NilValue
      BY <3>5, ValueFacts
    <3>7. Intact(w)
      BY <2>2, <2>3, <3>4, <3>6 DEF Tree, Sound
    <3>8. v = w.v /\ v # Fault
      BY <3>5, <3>6, <3>7, ReadIs, Zenon
    <3>t. ~TooLong(PushKey(k), v)
      <4> DEFINE d == dict[f.t]
      <4>1. Agree(m, d)
        BY <2>2, <2>3
      <4>2. PICK key \in DOMAIN d : get_key(key) = k
        BY <3>4, <3>6, <4>1 DEF Agree
      <4>3. Whole(key) /\ d[key] \in Storable /\ w = Held(d[key])
        BY <4>1, <4>2 DEF Agree
      <4> HIDE DEF w
      <4>4. v = d[key]
        BY <3>8, <4>3, HeldFacts
      <4>5. PushKey(k) = key
        BY <4>2, <4>3, WholeKey
      <4>6. f.t \in Reach({f.t})
        BY <2>2 DEF Reach
      <4>7. ~TooLong(key, d[key])
        BY <2>3, <4>6 DEF Fine, LongText
      <4> QED BY <4>4, <4>5, <4>7
    <3> DEFINE c2 == Advance(c)
               buf == AddString(S.buf, [p |-> "key", v |-> PushKey(k)])
               named == [S EXCEPT !.buf = buf, !.calls = c2]
    <3>9. /\ w.type # "UD" => R = [named EXCEPT !.buf =
                                     AddString(AddString(@, [p |-> "val", v |-> v]), Mark("sep"))]
          /\ w.type = "UD" /\ v.t = "lightuserdata" => R = CallSerialize(named, v.x)
      BY <1>1, <1>3, <2>1, <2>6, <3>8, <3>t, Zenon DEF SerializeStep
    <3>10. /\ c2 \in Seq(DelFrame) /\ Len(c2) = l
           /\ \A j \in 1 .. l : c2[j].t = c[j].t
      <4> HIDE DEF c
      <4> QED BY <1>1, <1>3, FrameNext
    <3> HIDE DEF c2, buf
    <3>11. named = [buf |-> buf, ok |-> S.ok, calls |-> c2]
      <4>1. named = [S EXCEPT !.buf = buf, !.calls = c2]
        OBVIOUS
      <4> HIDE DEF named
      <4> QED BY ONLY <1>1, <4>1 DEF SerRecord
    <3>12. ASSUME NEW b, NEW Q, Q = [buf |-> b, ok |-> S.ok, calls |-> c2] PROVE SerInv(Q)
      <4>1. Q.buf = b /\ Q.ok = S.ok /\ Q.calls = c2
        BY ONLY <3>12
      <4>2. SerRecord(Q)
        BY ONLY <3>12, <4>1 DEF SerRecord
      <4>3. \A j \in 1 .. l : Fine(c[j].t)
        BY DEF SerInv
      <4>4. \A j, n \in 1 .. l : n = j + 1 => c[n].t \in Stored(tab, c[j].t)
        BY DEF SerInv
      <4> HIDE DEF c, l
      <4> QED BY ONLY <1>1, <3>10, <4>1, <4>2, <4>3, <4>4 DEF SerInv
    <3>13. SerInv(named)
      <4> HIDE DEF named
      <4> QED BY ONLY <3>11, <3>12
    <3>14. CASE w.type # "UD"
      <4> DEFINE b == AddString(AddString(named.buf, [p |-> "val", v |-> v]), Mark("sep"))
      <4>1. R = [named EXCEPT !.buf = b]
        BY ONLY <3>9, <3>14, Zenon
      <4> HIDE DEF b, R
      <4>2. R = [buf |-> b, ok |-> S.ok, calls |-> c2]
        <5> HIDE DEF named
        <5> QED BY ONLY <3>11, <4>1
      <4> QED BY ONLY <3>12, <4>2
    <3>15. CASE w.type = "UD"
      <4>1. LTypes[v.t] = "UD"
        BY <3>7, <3>8, <3>15, Zenon DEF Intact
      <4>2. w.v \in Storable
        BY <3>5, ValueFacts
      <4>3. v.t = "lightuserdata"
        BY <3>8, <4>1, <4>2, TypeFacts, Zenon DEF Storable
      <4>4. v.x \in Tables /\ w = Held(LUd(v.x))
        BY <3>5, <3>8, <3>15, <4>3, SubTable, ZenonT(40)
      <4>5. Holds(tab, f.t, k, v.x)
        BY <2>3, <4>4 DEF Holds
      <4>6. v.x \in Stored(tab, f.t)
        BY <2>2, <3>4, <4>5, StoredIs, Zenon
      <4>7. tab[v.x].live
        BY <2>2, <4>6, Zenon DEF Tree, NoneDangles
      <4>f. Fine(v.x)
        BY <2>2, <2>3, <4>4, <4>6, <4>7, FineBelow
      <4>8. R = CallSerialize(named, v.x)
        BY ONLY <3>9, <3>15, <4>3, Zenon
      <4>9. named.calls = c2
        BY ONLY <3>11
      <4>10. c2[l].t = f.t
        BY ONLY <2>1, <3>10, SMTT(30)
      <4>11. named.calls # <<>> /\ v.x \in Stored(tab, named.calls[Len(named.calls)].t)
        BY ONLY <2>1, <3>10, <4>6, <4>9, <4>10
      <4> DEFINE x == v.x
      <4> HIDE DEF named, R, x
      <4>12. \A j \in 1 .. Len(named.calls) : named.calls[j].t # x
        <5>1. Acyclic(tab)
          BY DEF Tree
        <5> QED BY ONLY <3>13, <4>11, <5>1, HeapOK(tab), NotAgain, Zenon DEF x
      <4>13. SerInv(CallSerialize(named, x))
        BY ONLY <3>13, <4>4, <4>f, <4>11, <4>12, CallSerializeOK, Zenon DEF x
      <4> QED BY ONLY <4>8, <4>13, Zenon DEF x
    <3> QED BY <3>14, <3>15
  <2> QED BY <2>5, <2>6
<1> QED
  BY <1>2, <1>3

(* Without misuse no serialisation misreads a value, meets a dead table,    *)
(* recurses without end or overruns temp.                                   *)
LEMMA SerializeOK ==
  ASSUME HeapOK(tab), Tree(tab), NEW a \in Tables, Fine(a),
         \A b \in Tables : tab[b].live => Agree(tab[b].map, dict[b])
  PROVE  serialize(a).ok
<1> DEFINE run == SerializeRun(a)
           T == {n \in 0 .. MaxSteps : SerInv(run[n])}
<1>1. MaxSteps \in Nat
  BY SizeAssumption
<1>2. SerInv(CallSerialize(Blank, a))
  <2>1. Blank.buf = <<>> /\ Blank.ok = TRUE /\ Blank.calls = <<>>
    BY DEF Blank
  <2>2. SerRecord(Blank)
    BY <2>1 DEF SerRecord, Blank
  <2>3. Len(<<>>) = 0 /\ <<>> \in Seq(DelFrame)
    OBVIOUS
  <2>4. \A j \in 1 .. Len(Blank.calls) : FALSE
    BY <2>1, <2>3
  <2>5. SerInv(Blank)
    BY <2>1, <2>2, <2>3, <2>4 DEF SerInv
  <2> QED BY <2>1, <2>4, <2>5, CallSerializeOK
<1>3. run[0] = CallSerialize(Blank, a) /\ \A n \in 1 .. MaxSteps : run[n] = SerializeStep(run[n - 1])
  BY SerializeRunDef
<1> HIDE DEF run
<1>4. 0 \in T
  BY <1>1, <1>2, <1>3
<1>5. ASSUME NEW n \in 1 .. MaxSteps, n - 1 \in T PROVE n \in T
  BY <1>3, <1>5, SerializeStepOK
<1> HIDE DEF T
<1>6. \A n \in 0 .. MaxSteps : n \in T
  BY <1>1, <1>4, <1>5, UpToInduction
<1>7. SerInv(run[MaxSteps])
  BY <1>1, <1>6 DEF T
<1> QED
  BY <1>7 DEF serialize, run, SerInv

-----------------------------------------------------------------------------
(* What the invariant says *)

LEMMA InvReadBack ==
  ASSUME Inv
  PROVE  ReadBack
<1> SUFFICES ASSUME misuse = {}, NEW a \in Live(tab)
             PROVE  LET m == tab[a].map
                        keys == KeysOf(m)
                    IN  /\ \A key \in DOMAIN dict[a] :
                             IF key.t = "string" THEN get(m, key) = dict[a][key]
                             ELSE /\ get(m, LNum(key.x + 1)) =
                                       IF key.x = 2^(IntBits - 1) - 1 THEN Err ELSE dict[a][key]
                                  /\ ipairsaux(m, key.x - 1) = <<key, dict[a][key]>>
                        /\ {PushKey(keys[i]) : i \in DOMAIN keys} \subseteq DOMAIN dict[a]
                        /\ ~Full(m) =>
                             DOMAIN dict[a] \subseteq {PushKey(keys[i]) : i \in DOMAIN keys}
                        /\ IsInjective(keys)
  BY DEF ReadBack
<1> DEFINE m == tab[a].map
           d == dict[a]
           keys == KeysOf(m)
<1>1. a \in Tables /\ tab[a].live
  BY DEF Live
<1>2. MapOK(m, MapKeys, MapValues)
  BY <1>1, TableFacts DEF Inv, Typed
<1>3. Agree(m, d)
  BY <1>1 DEF Inv, Script
<1> HIDE DEF m, d
<1>4. \A key \in DOMAIN d :
        IF key.t = "string" THEN get(m, key) = d[key]
        ELSE /\ get(m, LNum(key.x + 1)) = IF key.x = 2^(IntBits - 1) - 1 THEN Err ELSE d[key]
             /\ ipairsaux(m, key.x - 1) = <<key, d[key]>>
  BY <1>2, <1>3, AgreeReads
<1> HIDE DEF keys
<1>5. /\ {PushKey(keys[i]) : i \in DOMAIN keys} \subseteq DOMAIN d
      /\ ~Full(m) =>
           DOMAIN d \subseteq {PushKey(keys[i]) : i \in DOMAIN keys}
      /\ IsInjective(keys)
  BY <1>2, <1>3, AgreeKeys DEF keys
<1> QED
  BY <1>4, <1>5 DEF m, d, keys

LEMMA InvMeans ==
  ASSUME Inv
  PROVE  TypeOK /\ OnlyMisuseCrashes /\ NoDangling
<1>1. TypeOK
  BY DEF Inv, Typed, CountedOnce, ItOK, TypeOK
<1>2. OnlyMisuseCrashes
  BY DEF Inv, Script, OnlyMisuseCrashes
<1>3. NoDangling
  <2> SUFFICES ASSUME misuse = {}, NEW b \in Live(tab), NEW x \in Stored(tab, b)
               PROVE  x \in Live(tab)
    BY DEF NoDangling, StoredSomewhere
  <2>1. HeapOK(tab) /\ NoneDangles(tab) /\ b \in Tables
    BY DEF Inv, Typed, Script, Tree, Live
  <2>2. x \in Tables /\ tab[x].live
    BY <2>1, StoredIs DEF NoneDangles
  <2> QED BY <2>2 DEF Live
<1> QED
  BY <1>1, <1>2, <1>3

-----------------------------------------------------------------------------
(* The steps *)

LEMMA InitInv ==
  ASSUME Init
  PROVE  Inv
<1>1. HeapOK(tab) /\ Tree(tab) /\ \A a \in Tables : ~tab[a].live /\ tab[a].ref = 0
  BY EmptyTree DEF Init
<1>2. Typed
  BY <1>1 DEF Init, Typed, CountedOnce, ItOK, OnTables
<1>3. Script
  BY <1>1 DEF Init, Script
<1> QED
  BY <1>2, <1>3 DEF Inv

LEMMA SameInv ==
  ASSUME Inv, UNCHANGED <<tab, mt, it, status, misuse, dict>>
  PROVE  Inv'
BY DEF Inv, Typed, ItOK, Script

LEMMA CrashInv ==
  ASSUME Inv, Crash, misuse' # {}
  PROVE  Inv'
BY DEF Inv, Typed, ItOK, Crash

LEMMA InvalidateOK ==
  ASSUME ItOK, NEW S, it' = Invalidate(S)
  PROVE  /\ ItOK'
         /\ it' # NoIter /\ it'.valid => it # NoIter /\ it.valid /\ it'.t = it.t /\ it.t \notin S
<1>1. CASE it # NoIter /\ it.t \in S
  <2>1. it = [t |-> it.t, keys |-> it.keys, pos |-> it.pos, valid |-> it.valid]
    BY <1>1 DEF ItOK
  <2>2. it' = [it EXCEPT !.valid = FALSE]
    BY <1>1 DEF Invalidate
  <2> DEFINE t == it.t
             keys == it.keys
             pos == it.pos
             valid == it.valid
  <2>3. t \in Tables /\ keys \in Seq(MapKeys) /\ pos \in 0 .. Len(keys)
    BY <1>1 DEF ItOK
  <2>4. it = [t |-> t, keys |-> keys, pos |-> pos, valid |-> valid]
    BY <2>1
  <2> HIDE DEF t, keys, pos, valid
  <2>5. it' = [t |-> t, keys |-> keys, pos |-> pos, valid |-> FALSE]
    BY ONLY <2>2, <2>4
  <2>6. it'.t = t /\ it'.keys = keys /\ it'.pos = pos /\ it'.valid = FALSE
    BY ONLY <2>5
  <2>7. it' = [t |-> it'.t, keys |-> it'.keys, pos |-> it'.pos, valid |-> it'.valid]
    BY ONLY <2>5, <2>6
  <2> QED BY ONLY <2>3, <2>6, <2>7 DEF ItOK
<1>2. CASE ~(it # NoIter /\ it.t \in S)
  <2>1. it' = it
    BY <1>2 DEF Invalidate
  <2> QED BY <1>2, <2>1 DEF ItOK
<1> QED
  BY <1>1, <1>2

(* A free address. *)
LEMMA FreeIs ==
  ASSUME NEW h, Live(h) # Tables
  PROVE  FreeTable(h) \in Tables /\ ~h[FreeTable(h)].live
BY DEF FreeTable, Live

LEMMA CreateInv ==
  ASSUME Inv, NEW a \in Tables, Create(a)
  PROVE  Inv'
<1>1. /\ ~tab[a].live /\ NewPut(tab', tab, a) /\ mt' = TRUE
      /\ dict' = [dict EXCEPT ![a] = <<>>] /\ it' = Invalidate({a})
      /\ status' = status /\ misuse' = misuse
  BY FreeIs DEF Create, NewPut
<1>2. HeapOK(tab) /\ CountedOnce(tab) /\ ItOK /\ OnTables(dict) /\ status \in {"up", "crashed"}
  BY DEF Inv, Typed
<1>3. /\ HeapOK(tab')
      /\ tab'[a].live /\ tab'[a].ref = 1
      /\ \A k \in MapKeys : Search(tab'[a].map, k) = NilValue
      /\ \A q \in Tables : q # a => tab'[q] = tab[q]
      /\ Tree(tab) => Tree(tab')
  BY <1>1, <1>2, CreateTree
<1>4. CountedOnce(tab')
  BY <1>2, <1>3 DEF CountedOnce
<1>5. /\ ItOK'
      /\ it' # NoIter /\ it'.valid => it # NoIter /\ it.valid /\ it'.t = it.t /\ it.t \notin {a}
  BY <1>1, <1>2, InvalidateOK
<1>6. OnTables(dict') /\ dict'[a] = <<>> /\ \A q \in Tables : q # a => dict'[q] = dict[q]
  BY <1>1, <1>2 DEF OnTables
<1>7. Typed'
  BY <1>1, <1>2, <1>3, <1>4, <1>5, <1>6 DEF Typed
<1>8. ASSUME misuse' = {} PROVE Script'
  <2>1. Script
    BY <1>1, <1>8 DEF Inv
  <2>2. ASSUME NEW q \in Tables, tab'[q].live PROVE Agree(tab'[q].map, dict'[q])
    <3>1. CASE q = a
      <4>1. DOMAIN dict'[a] = {}
        BY <1>6
      <4> QED BY <1>3, <3>1, <4>1 DEF Agree
    <3>2. CASE q # a
      BY <1>3, <1>6, <2>1, <2>2, <3>2 DEF Script
    <3> QED BY <3>1, <3>2
  <2>3. ASSUME it' # NoIter, it'.valid PROVE tab'[it'.t].live
    <3>1. it # NoIter /\ it.valid /\ it'.t = it.t /\ it.t # a
      BY <1>5, <2>3
    <3>2. it.t \in Tables /\ tab[it.t].live
      BY <1>2, <2>1, <3>1 DEF Script, ItOK
    <3> QED BY <1>3, <3>1, <3>2
  <2>4. Tree(tab') /\ status' = "up"
    BY <1>1, <1>3, <2>1 DEF Script
  <2> QED BY <2>2, <2>3, <2>4 DEF Script
<1> QED
  BY <1>7, <1>8 DEF Inv

LEMMA UseDeadInv ==
  ASSUME Inv, NEW a \in Tables, UseDead(a)
  PROVE  Inv'
BY CrashInv, Zenon DEF UseDead, Note

(* Without misuse no key of a live table faults. *)
LEMMA NoFault ==
  ASSUME Inv, misuse = {}, NEW a \in Tables, tab[a].live, NEW key, IsKey(key)
  PROVE  get_value(tab[a].map, key) # Fault
<1> DEFINE m == tab[a].map
<1>1. HeapOK(tab) /\ Sound(tab)
  BY DEF Inv, Typed, Script, Tree
<1>2. /\ MapOK(m, MapKeys, MapValues)
      /\ \A k \in MapKeys : Search(m, k) = NilValue \/ Intact(Search(m, k))
  BY <1>1, TableFacts DEF Sound
<1> HIDE DEF m
<1>3. CASE Search(m, key) = NilValue
  BY <1>3, ReadNil DEF m
<1>4. CASE Search(m, key) # NilValue
  <2>1. PICK k \in MapKeys : Search(m, key) = Search(m, k) /\ Search(m, k) \in MapValues
    BY <1>2, <1>4, AnyKey
  <2> DEFINE w == Search(m, k)
  <2>2. w \in MapValues /\ Intact(w)
    BY <1>2, <1>4, <2>1
  <2> HIDE DEF w
  <2>3. w = Held(w.v) /\ w.v \in Storable
    BY <2>2, IntactIsHeld, ValueFacts DEF MapValues
  <2>4. Search(m, key) = w
    BY <2>1 DEF w
  <2> QED BY <2>3, <2>4, ReadValue DEF m
<1> QED
  BY <1>3, <1>4

LEMMA ReadInv ==
  ASSUME Inv, NEW a \in Tables, NEW key \in GetKeys, Read(a, key)
  PROVE  Inv'
<1> DEFINE m == tab[a].map
<1>1. /\ tab[a].live /\ get(m, key) = Fault /\ Crash
      /\ misuse' = misuse \cup (IF KeyOK(key) THEN {} ELSE {"key type"})
  BY Zenon DEF Read, Note
<1>2. ASSUME misuse' = {} PROVE FALSE
  <2>1. misuse = {} /\ KeyOK(key)
    BY <1>1, <1>2, Zenon
  <2> HIDE DEF m
  <2>2. CASE key.t = "string"
    <3> DEFINE k == [type |-> "STRING", k |-> key.x]
    <3>1. IsKey(k)
      BY <2>2, GetKeysAssumption DEF IsKey
    <3>2. get(m, key) = get_value(m, k)
      BY <2>2 DEF get
    <3> HIDE DEF k
    <3> QED BY <1>1, <2>1, <3>1, <3>2, NoFault DEF m
  <2>3. CASE key.t = "number"
    <3> DEFINE idx == ToInt(key.x)
               k == [type |-> "NUMBER", k |-> ToSize(idx - 1)]
    <3>1. key.x \in Int
      <4> DEFINE N == 2^(SizeBits - 1)
      <4>1. key.x \in -N .. N - 1
        BY <2>3, GetKeysAssumption
      <4> HIDE DEF N
      <4> QED BY <4>1
    <3>2. idx \in Int
      BY <3>1, ToIntInt
    <3>3. get(m, key) = IF idx <= 0 THEN Err ELSE get_value(m, k)
      BY <2>3 DEF get
    <3> HIDE DEF idx
    <3>4. ToSize(idx - 1) \in 0 .. 2^SizeBits - 1
      BY <3>2, ToSizeRange
    <3>5. IsKey(k)
      BY <3>4 DEF IsKey
    <3> HIDE DEF k
    <3>6. get_value(m, k) # Fault
      BY <1>1, <2>1, <3>5, NoFault DEF m
    <3>7. Err # Fault
      BY DEF Err, Fault
    <3> QED BY <1>1, <3>3, <3>6, <3>7, Zenon
  <2> QED BY <2>1, <2>2, <2>3 DEF KeyOK
<1> QED
  BY <1>1, <1>2, CrashInv, Zenon

LEMMA PairsInv ==
  ASSUME Inv, NEW a \in Tables, Pairs(a)
  PROVE  Inv'
<1> DEFINE keys == KeysOf(tab[a].map)
<1>1. /\ tab[a].live /\ it' = [t |-> a, keys |-> keys, pos |-> 0, valid |-> TRUE]
      /\ UNCHANGED <<tab, mt, status, misuse, dict>>
  BY DEF Pairs
<1>2. keys \in Seq(MapKeys) /\ Len(keys) \in Nat
  BY <1>1, TableFacts, KeysOfIs DEF Inv, Typed
<1> HIDE DEF keys
<1>3. /\ it'.t = a /\ it'.keys = keys /\ it'.pos = 0 /\ it'.valid = TRUE
      /\ it' = [t |-> it'.t, keys |-> it'.keys, pos |-> it'.pos, valid |-> it'.valid]
  BY <1>1
<1>4. 0 \in 0 .. Len(keys)
  BY <1>2
<1>5. ItOK'
  BY ONLY <1>2, <1>3, <1>4, a \in Tables DEF ItOK
<1>6. Typed'
  BY <1>1, <1>5 DEF Inv, Typed
<1>7. misuse = {} => Script'
  BY <1>1, <1>3 DEF Inv, Script
<1> QED
  BY <1>1, <1>6, <1>7 DEF Inv

LEMMA PairsNextInv ==
  ASSUME Inv, PairsNext
  PROVE  Inv'
<1>1. it # NoIter
  BY Zenon DEF PairsNext
<1> DEFINE t == it.t
           keys == it.keys
           pos == it.pos
           valid == it.valid
           key == keys[pos + 1]
<1>2. /\ it = [t |-> t, keys |-> keys, pos |-> pos, valid |-> valid]
      /\ t \in Tables /\ keys \in Seq(MapKeys) /\ pos \in 0 .. Len(keys) /\ valid \in BOOLEAN
  BY <1>1 DEF Inv, Typed, ItOK
<1>3. CASE it' = NoIter /\ UNCHANGED <<tab, mt, serialed, status, misuse, dict>>
  BY <1>3 DEF Inv, Typed, ItOK, Script
<1>4. CASE pos < Len(keys) /\ Crash /\ Note(IF valid THEN {} ELSE {"changed in pairs"})
           /\ ((key.type = "STRING" /\ ~valid) \/ ~tab[t].live \/ get_value(tab[t].map, key) = Fault)
  <2>1. ASSUME misuse' = {} PROVE FALSE
    <3>1. misuse = {} /\ valid
      BY <1>4, <2>1, Zenon DEF Note
    <3>2. tab[t].live
      BY <1>1, <3>1 DEF Inv, Script
    <3>3. IsKey(key)
      <4>1. keys \in Seq(MapKeys) /\ pos \in 0 .. Len(keys) /\ pos < Len(keys)
        BY <1>2, <1>4, Zenon
      <4>2. key \in MapKeys
        <5> HIDE DEF keys, pos
        <5> QED BY ONLY <4>1
      <4> QED BY <4>2, MapKeysFit DEF KeysFit
    <3> HIDE DEF t, keys, pos, valid, key
    <3>4. get_value(tab[t].map, key) # Fault
      BY <1>2, <3>1, <3>2, <3>3, NoFault
    <3> QED BY <1>4, <3>1, <3>2, <3>4
  <2> QED BY <1>4, <2>1, CrashInv, Zenon
<1>5. CASE /\ pos < Len(keys) /\ it' = [it EXCEPT !.pos = pos + 1]
           /\ UNCHANGED <<tab, mt, serialed, status, misuse, dict>>
  <2> DEFINE n == pos + 1
  <2>1. n \in 0 .. Len(keys)
    BY <1>2, <1>5
  <2>0. it' = [it EXCEPT !.pos = n]
    BY <1>5
  <2> HIDE DEF t, keys, pos, valid, n
  <2>2. it' = [t |-> t, keys |-> keys, pos |-> n, valid |-> valid]
    BY ONLY <1>2, <2>0
  <2>3. it'.t = t /\ it'.keys = keys /\ it'.pos = n /\ it'.valid = valid
    BY ONLY <2>2
  <2>4. it' = [t |-> it'.t, keys |-> it'.keys, pos |-> it'.pos, valid |-> it'.valid]
    BY ONLY <2>2, <2>3
  <2>5. ItOK'
    BY ONLY <1>2, <2>1, <2>3, <2>4 DEF ItOK
  <2>6. Typed'
    BY <1>5, <2>5 DEF Inv, Typed
  <2>7. misuse = {} => Script'
    BY <1>1, <1>5, <2>3 DEF Inv, Script, t, valid
  <2> QED BY <1>5, <2>6, <2>7 DEF Inv
<1> QED
  BY <1>3, <1>4, <1>5, Zenon DEF PairsNext

LEMMA SerializeInv ==
  ASSUME Inv, NEW a \in Tables, Serialize(a)
  PROVE  Inv'
<1>1. CASE serialize(a).ok
  BY <1>1, SameInv DEF Serialize, SerializeEnds
<1>2. CASE ~serialize(a).ok
  <2>1. /\ Crash /\ tab[a].live
        /\ misuse' = misuse \cup (IF LongText(a) THEN {"long text"} ELSE {})
    BY <1>2, Zenon DEF Serialize, SerializeEnds, Note
  <2>2. misuse # {} \/ LongText(a)
    BY <1>2, <2>1, SerializeOK DEF Inv, Typed, Script, Fine
  <2>3. misuse' # {}
    BY <2>1, <2>2
  <2> QED BY <2>1, <2>3, CrashInv
<1> QED
  BY <1>1, <1>2

(* A delete without misuse is of a table no other one holds. *)
LEMMA MayDelete ==
  ASSUME Inv, NEW a \in Tables, Delete(a), misuse' = {}
  PROVE  Deletable(tab, a) /\ misuse = {}
<1>1. misuse = {} /\ a \notin StoredSomewhere(tab) /\ tab[a].live
  BY Zenon DEF Delete, DeleteEnds, Note
<1>2. HeapOK(tab) /\ Tree(tab) /\ CountedOnce(tab)
  BY <1>1 DEF Inv, Typed, Script
<1>3. \A b \in Tables : a \notin Stored(tab, b)
  <2> SUFFICES ASSUME NEW b \in Tables, a \in Stored(tab, b)
               PROVE  FALSE
    OBVIOUS
  <2>1. tab[b].live
    BY <1>2, StoredIs
  <2> QED BY <1>1, <2>1 DEF StoredSomewhere, Live
<1> QED
  BY <1>1, <1>2, <1>3 DEF Deletable, CountedOnce

LEMMA DeleteInv ==
  ASSUME Inv, NEW a \in Tables, Delete(a)
  PROVE  Inv'
<1> DEFINE h == DeleteTable(a)
<1>1. /\ tab[a].live /\ (h.calls = <<>> \/ ~h.ok)
      /\ HeapOK(tab) /\ CountedOnce(tab) /\ ItOK /\ OnTables(dict)
  BY Zenon DEF Delete, DeleteEnds, Inv, Typed
<1>2. h.ok = FALSE \/ (DelHeap(h) /\ Counts(h))
  BY <1>1, DeleteRunTyped DEF DelTyped
<1>3. misuse' = {} =>
        /\ h.ok /\ HeapOK(h.tab) /\ Deletable(tab, a) /\ misuse = {}
        /\ h.calls = <<>> =>
             /\ \A b \in Tables : h.tab[b] = IF b \in Reach({a}) THEN NoTable ELSE tab[b]
             /\ \A x \in Reach({a}) : x = a \/ \E p \in Reach({a}) : x \in Stored(tab, p)
  BY MayDelete, DeleteRunTree
<1>4. CASE ~h.ok
  <2>1. Crash /\ misuse' # {}
    BY <1>3, <1>4, Zenon DEF Delete, DeleteEnds
  <2> QED BY <2>1, CrashInv
<1>5. CASE h.ok
  <2>1. /\ tab' = h.tab /\ it' = Invalidate(Live(tab) \ Live(h.tab))
        /\ dict' = [b \in Tables |-> IF h.tab[b].live THEN dict[b] ELSE <<>>]
        /\ UNCHANGED <<mt, status>>
    BY <1>5, Zenon DEF Delete, DeleteEnds
  <2>2. h.calls = <<>> /\ DelHeap(h) /\ Counts(h)
    BY <1>1, <1>2, <1>5
  <2> HIDE DEF h
  <2>3. \A b : ~Dying(h, b)
    BY <2>2 DEF Dying
  <2>4. HeapOK(tab') /\ CountedOnce(tab')
    BY <2>1, <2>2, <2>3 DEF DelHeap, Counts, CountedOnce
  <2>5. /\ ItOK'
        /\ it' # NoIter /\ it'.valid =>
             it # NoIter /\ it.valid /\ it'.t = it.t /\ it.t \notin Live(tab) \ Live(h.tab)
    BY <1>1, <2>1, InvalidateOK
  <2>6. OnTables(dict') /\ \A b \in Tables : h.tab[b].live => dict'[b] = dict[b]
    BY <2>1 DEF OnTables
  <2>7. Typed'
    BY <2>1, <2>4, <2>5, <2>6 DEF Inv, Typed
  <2>8. ASSUME misuse' = {} PROVE Script'
    <3> DEFINE Gone == Reach({a})
    <3>1. /\ Deletable(tab, a) /\ misuse = {}
          /\ \A b \in Tables : h.tab[b] = IF b \in Gone THEN NoTable ELSE tab[b]
          /\ \A x \in Gone : x = a \/ \E p \in Gone : x \in Stored(tab, p)
      BY <1>3, <2>2, <2>8
    <3>2. Gone \in SUBSET Tables
      BY DEF Reach
    <3> HIDE DEF Gone
    <3>3. Tree(tab) /\ HeapOK(tab) /\ \A b \in Tables : a \notin Stored(tab, b)
      BY <3>1 DEF Deletable
    <3>4. HeapOK(h.tab)
      BY <2>1, <2>4
    <3>5. Tree(h.tab)
      BY <3>1, <3>2, <3>3, <3>4, DeletedTree
    <3>6. Script
      BY <3>1 DEF Inv
    <3>7. \A b \in Tables : h.tab[b].live => b \notin Gone /\ h.tab[b] = tab[b]
      BY <3>1, <3>3, TableFacts
    <3>8. ASSUME NEW b \in Tables, tab'[b].live PROVE Agree(tab'[b].map, dict'[b])
      BY <2>1, <2>6, <3>6, <3>7, <3>8 DEF Script
    <3>9. ASSUME it' # NoIter, it'.valid PROVE tab'[it'.t].live
      <4>1. /\ it # NoIter /\ it.valid /\ it'.t = it.t /\ it.t \in Tables
            /\ it.t \notin Live(tab) \ Live(h.tab)
        BY <1>1, <2>5, <3>9 DEF ItOK
      <4>2. tab[it.t].live
        BY <3>6, <4>1 DEF Script
      <4> QED BY <2>1, <4>1, <4>2 DEF Live
    <3>10. status' = "up"
      BY <2>1, <3>6 DEF Script
    <3> QED BY <2>1, <3>5, <3>8, <3>9, <3>10 DEF Script
  <2> QED BY <2>7, <2>8 DEF Inv
<1> QED
  BY <1>4, <1>5

(* What the script passes to __newindex. *)
LEMMA SetArgFacts ==
  ASSUME NEW arg \in SetArgs, KeyOK(arg[1]), arg[2].t \in DOMAIN LTypes
  PROVE  /\ arg[1] \in ScriptKeys /\ get_key(arg[1]) \in MapKeys
         /\ arg[2] \in Storable
<1>1. arg[1] \in ScriptKeys
  BY DEF ScriptKeys
<1>2. arg[2] \in ScriptValues
  BY DEF ScriptValues
<1> QED
  BY <1>1, <1>2, SetArgsAssumption DEF MapKeys, Storable

LEMMA ReachClosed ==
  ASSUME HeapOK(tab), NEW x \in Tables
  PROVE  Reach({x}) \in SUBSET Tables /\ x \in Reach({x}) /\ ClosedIn(tab, Reach({x}))
<1>1. Reach({x}) \in SUBSET Tables /\ x \in Reach({x})
  BY DEF Reach
<1>2. ASSUME NEW p \in Reach({x}), NEW y \in Stored(tab, p) PROVE y \in Reach({x})
  <2>1. y \in Tables
    BY <1>1, StoredIs
  <2>2. ASSUME NEW C \in SUBSET Tables, {x} \subseteq C, Closed(C) PROVE y \in C
    <3>1. p \in C
      BY <2>2 DEF Reach
    <3> QED BY <2>2, <3>1 DEF Closed
  <2> QED BY <2>1, <2>2 DEF Reach
<1> QED
  BY <1>1, <1>2 DEF ClosedIn

(* What is given when nothing is wrong with a value and its key.            *)
LEMMA GoodSet ==
  ASSUME Inv, misuse = {}, NEW a \in Tables, tab[a].live, NEW arg \in SetArgs,
         KeyOK(arg[1]), arg[2].t \in DOMAIN LTypes, BadSet(a, arg[1], arg[2]) = {}
  PROVE  LET old == Search(tab[a].map, get_key(arg[1]))
             val == arg[2]
         IN  /\ Whole(arg[1])
             /\ old = NilValue \/ (old.type = LTypes[val.t] /\ Intact(old))
             /\ old.type # "UD"
             /\ val.t = "lightuserdata" =>
                  /\ tab[val.x].live
                  /\ \A q \in Tables : val.x \notin Stored(tab, q)
                  /\ \E R \in SUBSET Tables : val.x \in R /\ a \notin R /\ ClosedIn(tab, R)
<1> DEFINE key == arg[1]
           val == arg[2]
           old == Search(tab[a].map, get_key(key))
<1>1. /\ key \in ScriptKeys /\ get_key(key) \in MapKeys /\ val \in Storable
      /\ HeapOK(tab) /\ Sound(tab)
  BY SetArgFacts DEF Inv, Typed, Script, Tree
<1>2. /\ old.type \in {"NIL", LTypes[val.t]}
      /\ ~(val.t = "lightuserdata" /\ (val.x \in StoredSomewhere(tab)
                                         \/ ~tab[val.x].live \/ a \in Reach({val.x})))
      /\ old.type # "UD"
      /\ ~(key.t = "number" /\ key.frac)
  <2> HIDE DEF key, val
  <2> DEFINE Bad == {bad \in {"other type", "shared", "overwritten", "fraction"} :
         CASE bad = "other type" -> old.type \notin {"NIL", LTypes[val.t]}
           [] bad = "shared" ->
                val.t = "lightuserdata" /\ (val.x \in StoredSomewhere(tab)
                                              \/ ~tab[val.x].live \/ a \in Reach({val.x}))
           [] bad = "overwritten" -> old.type = "UD"
           [] OTHER -> key.t = "number" /\ key.frac}
  <2>1. Bad = {}
    BY Zenon DEF BadSet, key, val
  <2>2. ~(old.type \notin {"NIL", LTypes[val.t]})
    <3>1. "other type" \notin Bad
      BY <2>1, Zenon
    <3> QED BY <3>1
  <2>3. ~(val.t = "lightuserdata" /\ (val.x \in StoredSomewhere(tab)
                                         \/ ~tab[val.x].live \/ a \in Reach({val.x})))
    <3>1. "shared" \notin Bad
      BY <2>1, Zenon
    <3> QED BY <3>1
  <2>4. ~(old.type = "UD")
    <3>1. "overwritten" \notin Bad
      BY <2>1, Zenon
    <3> QED BY <3>1
  <2>5. ~(key.t = "number" /\ key.frac)
    <3>1. "fraction" \notin Bad
      BY <2>1, Zenon
    <3> QED BY <3>1
  <2> QED BY <2>2, <2>3, <2>4, <2>5
<1>3. Whole(key)
  BY <1>1, <1>2 DEF Whole
<1>4. old = NilValue \/ (old.type = LTypes[val.t] /\ Intact(old))
  <2>1. MapOK(tab[a].map, MapKeys, MapValues)
    BY <1>1, TableFacts
  <2>2. old = NilValue \/ old.type # "NIL"
    BY <1>1, <2>1, Found
  <2>3. old = NilValue \/ Intact(old)
    BY <1>1 DEF Sound
  <2> QED BY <1>2, <2>2, <2>3
<1>5. ASSUME val.t = "lightuserdata"
      PROVE  /\ tab[val.x].live
             /\ \A q \in Tables : val.x \notin Stored(tab, q)
             /\ \E R \in SUBSET Tables : val.x \in R /\ a \notin R /\ ClosedIn(tab, R)
  <2>1. /\ val.x \in Tables /\ val.x \notin StoredSomewhere(tab) /\ tab[val.x].live
        /\ a \notin Reach({val.x})
    BY <1>1, <1>2, <1>5 DEF Storable
  <2> HIDE DEF val, old
  <2>2. \A q \in Tables : val.x \notin Stored(tab, q)
    <3>1. \A q \in Tables : ~tab[q].live => Stored(tab, q) = {}
      BY <1>1, StoredIs
    <3> QED BY <2>1, <3>1 DEF StoredSomewhere, Live
  <2>3. /\ Reach({val.x}) \in SUBSET Tables /\ val.x \in Reach({val.x})
        /\ ClosedIn(tab, Reach({val.x}))
    BY <1>1, <2>1, ReachClosed
  <2> QED BY <2>1, <2>2, <2>3
<1> QED
  BY <1>2, <1>3, <1>4, <1>5

LEMMA AgreePut ==
  ASSUME NEW m, NEW d, Agree(m, d), NEW key, Whole(key), NEW v \in Storable,
         NEW m2, Search(m2, get_key(key)) = Held(v),
         \A k \in MapKeys : k # get_key(key) => Search(m2, k) = Search(m, k)
  PROVE  Agree(m2, Write(d, key, v))
<1> DEFINE d2 == Write(d, key, v)
<1>1. /\ DOMAIN d2 = {key} \cup DOMAIN d
      /\ d2[key] = v
      /\ \A other \in DOMAIN d : other # key => d2[other] = d[other]
  BY DEF Write
<1> HIDE DEF d2
<1>2. ASSUME NEW other \in DOMAIN d2
      PROVE  /\ Whole(other) /\ d2[other] \in Storable
             /\ Search(m2, get_key(other)) = Held(d2[other])
  <2>1. CASE other = key
    BY <1>1, <2>1
  <2>2. CASE other # key
    <3>1. /\ other \in DOMAIN d /\ d2[other] = d[other]
          /\ Whole(other) /\ d[other] \in Storable
          /\ Search(m, get_key(other)) = Held(d[other])
      BY <1>1, <2>2 DEF Agree
    <3>2. get_key(other) # get_key(key) /\ get_key(other) \in MapKeys
      BY <2>2, <3>1, SameKey, WholeKey
    <3> QED BY <3>1, <3>2
  <2> QED BY <2>1, <2>2
<1>3. ASSUME NEW k \in MapKeys, Search(m2, k) # NilValue
      PROVE  \E other \in DOMAIN d2 : get_key(other) = k
  <2>1. CASE k = get_key(key)
    BY <1>1, <2>1
  <2>2. CASE k # get_key(key)
    <3>1. Search(m, k) # NilValue
      BY <1>3, <2>2
    <3>2. PICK other \in DOMAIN d : get_key(other) = k
      BY <3>1 DEF Agree
    <3> QED BY <1>1, <3>2
  <2> QED BY <2>1, <2>2
<1> QED
  BY <1>2, <1>3 DEF Agree, d2

LEMMA SetInv ==
  ASSUME Inv, NEW a \in Tables, NEW arg \in SetArgs, Set(a, arg[1], arg[2])
  PROVE  Inv'
<1> DEFINE key == arg[1]
           val == arg[2]
           m == tab[a].map
           S == Setter(m, get_key(key), val)
           grown == S.map.size # m.size
<1>1. /\ status = "up" /\ tab[a].live /\ KeyOK(key) /\ val.t \in DOMAIN LTypes
      /\ misuse' = misuse \cup BadSet(a, key, val)
      /\ IF S.ok
           THEN /\ tab' = [tab EXCEPT ![a].map = S.map]
                /\ dict' = [dict EXCEPT ![a] =
                              IF S.ret = 0 THEN Write(dict[a], key, val) ELSE dict[a]]
                /\ it' = IF grown THEN Invalidate({a}) ELSE it
                /\ UNCHANGED <<mt, serialed, status>>
           ELSE Crash
  BY DEF Set, Note
<1>2. key \in ScriptKeys /\ get_key(key) \in MapKeys /\ val \in Storable
  BY <1>1, SetArgFacts
<1>3. HeapOK(tab) /\ CountedOnce(tab) /\ ItOK /\ OnTables(dict) /\ mt \in BOOLEAN
      /\ MapOK(m, MapKeys, MapValues)
  BY <1>1, TableFacts DEF Inv, Typed
<1>4. MapOK(S.map, MapKeys, MapValues)
  <2> HIDE DEF key, val, m
  <2> QED BY <1>2, <1>3, SetterOK
<1>5. ASSUME misuse' = {}
      PROVE  /\ misuse = {} /\ Script /\ Whole(key)
             /\ S.ok /\ S.ret = 0
             /\ Search(S.map, get_key(key)) = Held(val)
             /\ \A other \in MapKeys : other # get_key(key) =>
                  Search(S.map, other) = Search(m, other)
             /\ Search(m, get_key(key)).type # "UD"
             /\ val.t = "lightuserdata" =>
                  /\ tab[val.x].live
                  /\ \A q \in Tables : val.x \notin Stored(tab, q)
                  /\ \E R \in SUBSET Tables : val.x \in R /\ a \notin R /\ ClosedIn(tab, R)
  <2>1. misuse = {} /\ BadSet(a, key, val) = {}
    BY <1>1, <1>5
  <2>2. LET old == Search(m, get_key(key))
        IN  /\ Whole(key)
            /\ old = NilValue \/ (old.type = LTypes[val.t] /\ Intact(old))
            /\ old.type # "UD"
            /\ val.t = "lightuserdata" =>
                 /\ tab[val.x].live
                 /\ \A q \in Tables : val.x \notin Stored(tab, q)
                 /\ \E R \in SUBSET Tables : val.x \in R /\ a \notin R /\ ClosedIn(tab, R)
    BY <1>1, <2>1, GoodSet
  <2>3. Script
    BY <2>1 DEF Inv
  <2> HIDE DEF key, val, m
  <2>4. /\ S.ok /\ S.ret = 0
        /\ Search(S.map, get_key(key)) = Held(val)
        /\ \A other \in MapKeys : other # get_key(key) =>
             Search(S.map, other) = Search(m, other)
    BY <1>2, <1>3, <2>2, SetterOK
  <2> QED BY <2>1, <2>2, <2>3, <2>4
<1> HIDE DEF key, val, m, S
<1>6. CASE ~S.ok
  <2>1. Crash /\ misuse' # {}
    BY <1>1, <1>5, <1>6
  <2> QED BY <2>1, CrashInv
<1>7. CASE S.ok
  <2>1. /\ MapPut(tab', tab, a, S.map)
        /\ dict' = [dict EXCEPT ![a] =
                      IF S.ret = 0 THEN Write(dict[a], key, val) ELSE dict[a]]
        /\ it' = (IF grown THEN Invalidate({a}) ELSE it)
        /\ UNCHANGED <<mt, serialed, status>>
    BY <1>1, <1>7 DEF MapPut
  <2>2. /\ HeapOK(tab')
        /\ tab'[a].map = S.map
        /\ \A q \in Tables : /\ tab'[q].live = tab[q].live
                             /\ tab'[q].ref = tab[q].ref
                             /\ q # a => tab'[q] = tab[q]
    BY <1>1, <1>3, <1>4, <2>1, MapSet
  <2>3. CountedOnce(tab')
    BY <1>3, <2>2 DEF CountedOnce
  <2>4. /\ ItOK'
        /\ it' # NoIter /\ it'.valid => it # NoIter /\ it.valid /\ it'.t = it.t
    <3>1. CASE grown
      BY <1>3, <2>1, <3>1, InvalidateOK
    <3>2. CASE ~grown
      BY <1>3, <2>1, <3>2 DEF ItOK
    <3> QED BY <3>1, <3>2
  <2>5. OnTables(dict') /\ \A q \in Tables : q # a => dict'[q] = dict[q]
    BY <1>3, <2>1 DEF OnTables
  <2>6. Typed'
    BY <1>1, <1>3, <2>1, <2>2, <2>3, <2>4, <2>5 DEF Typed
  <2>7. ASSUME misuse' = {} PROVE Script'
    <3>1. Tree(tab')
      <4>1. Tree(tab)
        BY <1>5, <2>7 DEF Script
      <4> QED BY <1>1, <1>2, <1>3, <1>4, <1>5, <2>1, <2>7, <4>1, StoreTree DEF m
    <3>2. ASSUME NEW q \in Tables, tab'[q].live PROVE Agree(tab'[q].map, dict'[q])
      <4>1. CASE q = a
        <5>1. dict'[a] = Write(dict[a], key, val)
          BY <1>3, <1>5, <2>1, <2>7 DEF OnTables
        <5>2. Agree(m, dict[a])
          BY <1>1, <1>5, <2>7 DEF Script, m
        <5> QED BY <1>2, <1>5, <2>2, <2>7, <4>1, <5>1, <5>2, AgreePut
      <4>2. CASE q # a
        BY <1>5, <2>2, <2>5, <2>7, <3>2, <4>2 DEF Script
      <4> QED BY <4>1, <4>2
    <3>3. ASSUME it' # NoIter, it'.valid PROVE tab'[it'.t].live
      BY <1>3, <1>5, <2>2, <2>4, <2>7, <3>3 DEF Script, ItOK
    <3>4. status' = "up"
      BY <1>1, <2>1
    <3> QED BY <3>1, <3>2, <3>3, <3>4 DEF Script
  <2> QED BY <2>6, <2>7 DEF Inv
<1> QED
  BY <1>6, <1>7

(* What the script reads back from a table made by convert. *)
StoredFrom(L, a, New, from) ==
  LET value(e) ==
        IF e[2].t = "table" THEN LUd(CHOOSE b \in New : L.src[b].at = <<a, e[1]>>) ELSE e[2]
  IN  [key \in {e[1] : e \in from} |-> value(CHOOSE e \in from : e[1] = key)]

LEMMA ConvertedAgree ==
  ASSUME NEW L, ConvTyped(L), FracFree(L), EntriesIn(L), EntriesOnly(L), MadeOnce(L),
         L.calls = <<>>, NEW a \in Tables, L.src[a].new,
         NEW New, New = {b \in Tables : L.src[b].new},
         NEW from, from = ToSet(L.src[a].lt)
  PROVE  Agree(L.tab[a].map, StoredFrom(L, a, New, from))
<1> DEFINE lt == L.src[a].lt
           value(e) ==
             IF e[2].t = "table" THEN LUd(CHOOSE b \in New : L.src[b].at = <<a, e[1]>>) ELSE e[2]
           d == [key \in {e[1] : e \in from} |-> value(CHOOSE e \in from : e[1] = key)]
           m == L.tab[a].map
<1>1. lt \in LuaTables
  BY DEF ConvTyped
<1>2. \A i \in Entries(L, a) : Done(L, a, i)
  BY DEF Done
<1>3. Entries(L, a) = 1 .. Len(lt)
  BY DEF Entries
<1> DEFINE Row == 1 .. Len(lt)
<1>4. from = {lt[i] : i \in Row}
  <2>1. lt \in Seq(ToSet(lt))
    BY <1>1, LuaTablesAssumption
  <2> HIDE DEF lt
  <2>2. DOMAIN lt = Row
    BY <2>1
  <2> QED BY <2>2 DEF ToSet, lt
<1>5. \A i \in Row : EntryOK(L, a, lt[i])
  BY <1>2, <1>3 DEF EntriesIn
<1>6. \A i, j \in Row : lt[i][1] = lt[j][1] => i = j
  BY <1>1, EntryFacts
<1>7. \A i \in Row : /\ Whole(lt[i][1])
                     /\ lt[i][2].t \in DOMAIN LTypes => lt[i][2] \in Storable
  <2> SUFFICES ASSUME NEW i \in Row
               PROVE  Whole(lt[i][1]) /\ (lt[i][2].t \in DOMAIN LTypes => lt[i][2] \in Storable)
    OBVIOUS
  <2>1. KeyOK(lt[i][1]) /\ i \in Entries(L, a)
    BY <1>3, <1>5 DEF EntryOK
  <2>2. Whole(lt[i][1])
    BY <2>1, EntryWhole
  <2> QED BY <1>1, <2>2, EntryFacts
<1> HIDE DEF d, m, value, lt, Row
<1>8. DOMAIN d = {lt[i][1] : i \in Row}
  BY <1>4 DEF d
<1>9. ASSUME NEW i \in Row PROVE d[lt[i][1]] = value(lt[i])
  <2> DEFINE c == CHOOSE e \in from : e[1] = lt[i][1]
  <2>1. c \in from /\ c[1] = lt[i][1]
    BY <1>4
  <2> HIDE DEF c
  <2>2. c = lt[i]
    BY <1>4, <1>6, <2>1
  <2>3. d[lt[i][1]] = value(c)
    BY <1>4 DEF c, d
  <2> QED BY ONLY <2>2, <2>3
<1>10. ASSUME NEW i \in Row
       PROVE  value(lt[i]) \in Storable /\ Search(m, get_key(lt[i][1])) = Held(value(lt[i]))
  <2> DEFINE e == lt[i]
  <2>1. EntryOK(L, a, e) /\ (e[2].t \in DOMAIN LTypes => e[2] \in Storable)
    BY <1>5, <1>7
  <2> HIDE DEF e
  <2>2. CASE e[2].t # "table"
    <3>1. value(e) = e[2]
      BY <2>2 DEF value
    <3>2. e[2].t \in DOMAIN LTypes /\ Finds(L, a, e[1], e[2])
      BY <2>1, <2>2 DEF EntryOK
    <3> QED BY <2>1, <3>1, <3>2 DEF Finds, m, e
  <2>3. CASE e[2].t = "table"
    <3>1. PICK b \in Tables : Made(L, b, a, e[1]) /\ Finds(L, a, e[1], LUd(b))
      BY <2>1, <2>3 DEF EntryOK
    <3> DEFINE c == CHOOSE x \in New : L.src[x].at = <<a, e[1]>>
    <3>2. b \in New /\ L.src[b].at = <<a, e[1]>>
      BY <3>1, SMTT(30) DEF Made
    <3>3. c \in New /\ L.src[c].at = <<a, e[1]>>
      BY <3>2
    <3>4. value(e) = LUd(c)
      BY <2>3 DEF value
    <3> HIDE DEF c
    <3>5. c \in Tables /\ Made(L, c, a, e[1])
      BY <3>3 DEF Made
    <3>6. c = b
      BY <3>1, <3>5 DEF MadeOnce
    <3> QED BY <3>1, <3>4, <3>6, UdStorable DEF Finds, m, e
  <2> QED BY <2>2, <2>3
<1>11. ASSUME NEW key \in DOMAIN d
       PROVE  Whole(key) /\ d[key] \in Storable /\ Search(m, get_key(key)) = Held(d[key])
  <2>1. PICK i \in Row : key = lt[i][1]
    BY <1>8
  <2> QED BY <1>7, <1>9, <1>10, <2>1
<1>12. ASSUME NEW k \in MapKeys, Search(m, k) # NilValue
       PROVE  \E key \in DOMAIN d : get_key(key) = k
  <2>1. PICK i \in Entries(L, a) : get_key(lt[i][1]) = k
    BY <1>12 DEF EntriesOnly, m, lt
  <2> QED BY <1>3, <1>8, <2>1 DEF Row
<1>13. Agree(m, d)
  BY <1>11, <1>12 DEF Agree
<1> QED
  BY <1>13 DEF m, d, value, StoredFrom

(* A conversion that has the slots it needs. *)
LEMMA ConvertedInv ==
  ASSUME Inv, NEW lt \in LuaTables, Convert(lt), do_convert(lt).full = {}
  PROVE  Inv'
<1> DEFINE L == do_convert(lt)
           New == {a \in Tables : L.src[a].new}
           from(a) == ToSet(L.src[a].lt)
           value(a, e) ==
             IF e[2].t = "table" THEN LUd(CHOOSE b \in New : L.src[b].at = <<a, e[1]>>) ELSE e[2]
           stored(a) ==
             [key \in {e[1] : e \in from(a)} |-> value(a, CHOOSE e \in from(a) : e[1] = key)]
           fraction(a) == \E e \in from(a) : e[1].t = "number" /\ e[1].frac
           bad == {b \in {"convert error", "fraction"} :
                     IF b = "fraction" THEN \E a \in New : fraction(a) ELSE L.err}
<1>1. /\ L.full = {} /\ (L.calls = <<>> \/ L.err)
      /\ tab' = L.tab
      /\ misuse' = misuse \cup bad
      /\ dict' = [a \in Tables |->
                    IF a \notin New THEN dict[a] ELSE IF L.err THEN <<>> ELSE stored(a)]
      /\ UNCHANGED <<mt, it, serialed, status>>
  BY Zenon DEF Convert, ConvertEnds, Note
<1>2. /\ HeapOK(tab) /\ CountedOnce(tab) /\ mt \in BOOLEAN /\ ItOK
      /\ status \in {"up", "crashed"} /\ OnTables(dict)
  BY DEF Inv, Typed
<1>3. ConvTyped(L) /\ (Tree(tab) /\ Clean(L) => ConvTree(L, tab))
  <2> HIDE DEF L
  <2>1. L = do_convert(lt)
    BY DEF L
  <2> QED BY <1>2, <2>1, Converted
<1> HIDE DEF L
<1>4. OnTables(dict')
  BY <1>1, Zenon DEF OnTables
<1>5. ItOK'
  BY <1>1, <1>2, ZenonT(40) DEF ItOK
<1>6. Typed'
  BY <1>1, <1>2, <1>3, <1>4, <1>5, Zenon DEF Typed, ConvTyped
<1>7. ASSUME misuse' = {} PROVE Script'
  <2>1. misuse = {} /\ Script /\ "convert error" \notin bad /\ "fraction" \notin bad
    BY <1>1, <1>7, Zenon DEF Inv
  <2>2. ~L.err /\ ~(\E a \in New : fraction(a))
    <3> HIDE DEF New, fraction
    <3> QED BY <2>1
  <2>3. FracFree(L)
    <3> SUFFICES ASSUME NEW a \in Tables, L.src[a].new, NEW i \in Entries(L, a),
                        L.src[a].lt[i][1].t = "number", L.src[a].lt[i][1].frac
                 PROVE  FALSE
      BY DEF FracFree
    <3> DEFINE s == L.src[a].lt
    <3>1. s \in Seq(ToSet(s)) /\ i \in 1 .. Len(s)
      <4>1. s \in LuaTables
        BY <1>3 DEF ConvTyped
      <4> QED BY <4>1, LuaTablesAssumption DEF Entries
    <3>2. a \in New /\ from(a) = ToSet(s) /\ s[i][1].t = "number" /\ s[i][1].frac
      OBVIOUS
    <3> HIDE DEF s, New
    <3>3. s[i] \in ToSet(s)
      BY <3>1
    <3>4. fraction(a)
      BY <3>2, <3>3
    <3> QED BY <2>2, <3>2, <3>4
  <2>4. Clean(L) /\ L.calls = <<>>
    BY <1>1, <2>2, <2>3, Zenon DEF Clean
  <2>5. ConvTree(L, tab)
    BY <1>3, <2>1, <2>4 DEF Script
  <2>6. /\ Tree(tab')
        /\ \A a \in Tables : IF L.src[a].new THEN ~tab[a].live ELSE tab'[a] = tab[a]
        /\ EntriesIn(L) /\ EntriesOnly(L) /\ MadeOnce(L)
    BY <1>1, <2>5, Zenon DEF ConvTree, TreesKept
  <2>7. ASSUME NEW a \in Tables, tab'[a].live PROVE Agree(tab'[a].map, dict'[a])
    <3>1. CASE a \notin New
      <4>1. dict'[a] = dict[a] /\ tab'[a] = tab[a]
        BY <1>1, <2>6, <3>1, ZenonT(40)
      <4> QED BY <2>1, <2>7, <4>1 DEF Script
    <3>2. CASE a \in New
      <4>1. dict'[a] = stored(a)
        <5> HIDE DEF New, stored
        <5> QED BY <1>1, <2>2, <3>2, Zenon
      <4>2. L.src[a].new
        BY <3>2
      <4> DEFINE F == from(a)
      <4>3. Agree(L.tab[a].map, stored(a))
        <5>1. New = {b \in Tables : L.src[b].new} /\ F = ToSet(L.src[a].lt)
          OBVIOUS
        <5> HIDE DEF New, F
        <5>2. Agree(L.tab[a].map, StoredFrom(L, a, New, F))
          BY <1>3, <2>3, <2>4, <2>6, <4>2, <5>1, ConvertedAgree
        <5>3. stored(a) = StoredFrom(L, a, New, F)
          BY DEF F, StoredFrom
        <5> QED BY <5>2, <5>3
      <4> QED BY <1>1, <4>1, <4>3, Zenon
    <3> QED BY <3>1, <3>2
  <2>8. ASSUME it' # NoIter, it'.valid PROVE tab'[it'.t].live
    <3>1. it' = it /\ it.t \in Tables /\ tab[it.t].live
      BY <1>1, <1>2, <2>1, <2>8, Zenon DEF Script, ItOK
    <3> QED BY <2>6, <3>1
  <2>9. status' = "up"
    BY <1>1, <2>1, Zenon DEF Script
  <2> QED BY <2>6, <2>7, <2>8, <2>9 DEF Script
<1> QED
  BY <1>6, <1>7 DEF Inv

LEMMA ConvertInv ==
  ASSUME Inv, NEW lt \in LuaTables, Convert(lt)
  PROVE  Inv'
<1>1. CASE do_convert(lt).full = {}
  BY <1>1, ConvertedInv
<1>2. CASE do_convert(lt).full # {}
  <2>1. Crash /\ misuse' = misuse \cup {"deep nesting"}
    BY <1>2, Zenon DEF Convert, ConvertEnds, Note
  <2> QED BY <2>1, CrashInv
<1> QED
  BY <1>1, <1>2

(* Every call of the script keeps the invariant. *)
LEMMA StepInv ==
  ASSUME Inv, [Next]_vars
  PROVE  Inv'
<1>1. CASE UNCHANGED vars
  BY <1>1, SameInv DEF vars
<1>2. ASSUME NEW a \in Tables,
             Create(a) \/ UseDead(a) \/ Pairs(a) \/ Serialize(a) \/ Delete(a)
      PROVE  Inv'
  <2>1. CASE Create(a)
    BY <2>1, CreateInv
  <2>2. CASE UseDead(a)
    BY <2>2, UseDeadInv
  <2>3. CASE Pairs(a)
    BY <2>3, PairsInv
  <2>4. CASE Serialize(a)
    BY <2>4, SerializeInv
  <2>5. CASE Delete(a)
    BY <2>5, DeleteInv
  <2> QED BY <1>2, <2>1, <2>2, <2>3, <2>4, <2>5
<1>3. ASSUME NEW a \in Tables, NEW arg \in SetArgs, Set(a, arg[1], arg[2])
      PROVE  Inv'
  BY <1>3, SetInv
<1>4. ASSUME NEW a \in Tables, NEW key \in GetKeys, Read(a, key)
      PROVE  Inv'
  BY <1>4, ReadInv
<1>5. ASSUME NEW lt \in LuaTables, Convert(lt)
      PROVE  Inv'
  BY <1>5, ConvertInv
<1>6. CASE PairsNext
  BY <1>6, PairsNextInv
<1> QED
  BY <1>1, <1>2, <1>3, <1>4, <1>5, <1>6 DEF Next

(* The state of the binding, and what a script without misuse can rely on:  *)
(* the inductive invariant of everything below.                             *)
THEOREM Invariant == Spec => []Inv
<1>1. Init => Inv
  BY InitInv
<1>2. Inv /\ [Next]_vars => Inv'
  BY StepInv
<1> QED
  BY <1>1, <1>2, PTL DEF Spec

(* A table that is alive is counted once and a deleted one not at all: ref  *)
(* of table.h never leaves these values between calls of the script.        *)
THEOREM TypeCorrect == Spec => []TypeOK
<1>1. Inv => TypeOK
  BY InvMeans
<1> QED
  BY <1>1, Invariant, PTL

(* No call of a script that commits none of the named misuses - it keeps to *)
(* one type per key, to whole numbers and to one owner per sub-table, and   *)
(* to what the Lua stack and temp can hold - misreads a union, recurses for *)
(* ever, writes past the end of temp or calls through a pointer to freed    *)
(* memory.                                                                  *)
THEOREM ScriptSurvives == Spec => []OnlyMisuseCrashes
<1>1. Inv => OnlyMisuseCrashes
  BY InvMeans
<1> QED
  BY <1>1, Invariant, PTL

(* __index, ipairs and pairs give back what __newindex and convert stored,  *)
(* through growing hashes and nested conversions; the value of the greatest *)
(* int comes back through ipairs and pairs only.                            *)
THEOREM ReadsBack == Spec => []ReadBack
<1>1. Inv => ReadBack
  BY InvReadBack
<1> QED
  BY <1>1, Invariant, PTL

(* set_ud takes no reference, and still no table holds one that _release    *)
(* has freed.                                                               *)
THEOREM NothingDangles == Spec => []NoDangling
<1>1. Inv => NoDangling
  BY InvMeans
<1> QED
  BY <1>1, Invariant, PTL

(* delete, through _clear_value and _release, frees the tables that can be  *)
(* reached from the deleted one and no other.                               *)
THEOREM DeleteExact == Spec => DeleteFreesTree
<1> DEFINE Exact == \A a \in Tables :
             misuse' = {} /\ Delete(a) => Live(tab) \ Live(tab') = Reach({a})
<1>1. Inv => Exact
  <2> SUFFICES ASSUME Inv, NEW a \in Tables, Delete(a), misuse' = {}
               PROVE  Live(tab) \ Live(tab') = Reach({a})
    OBVIOUS
  <2> DEFINE h == DeleteTable(a)
  <2>1. Deletable(tab, a)
    BY MayDelete
  <2>2. h.ok /\ (h.calls = <<>> => Live(tab) \ Live(h.tab) = Reach({a}))
    <3> HIDE DEF h
    <3> QED BY <2>1, DeleteRunTree DEF h
  <2>3. tab' = h.tab /\ h.calls = <<>>
    BY <2>2, Zenon DEF Delete, DeleteEnds
  <2> HIDE DEF h
  <2> QED BY <2>2, <2>3
<1>2. Inv /\ [Next]_vars => [Exact]_vars
  BY <1>1
<1>3. Spec => [][Exact]_vars
  BY <1>2, Invariant, PTL DEF Spec
<1> QED
  BY <1>3 DEF DeleteFreesTree

=============================================================================
