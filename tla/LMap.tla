-------------------------------- MODULE LMap --------------------------------
(***************************************************************************)
(* class lmap: a chained hash table, as a value.                            *)
(*                                                                          *)
(* A map is a record: size buckets, data[h] the chain of bucket h in list   *)
(* order, index the count of nodes added by _insert_value.  The map's own   *)
(* reference count belongs to the table's protocol and is kept there.       *)
(*                                                                          *)
(* A caller names a key by a pair (const char *key, size_t sz_idx): a       *)
(* string when key is not NULL, the number sz_idx otherwise.  The model's   *)
(* key is [type |-> "STRING", k |-> a string] or [type |-> "NUMBER", k |-> a*)
(* size_t].  A node keeps a number in an int, so both conversions between   *)
(* size_t and int are modelled with their widths.                           *)
(***************************************************************************)
EXTENDS Integers, Sequences, SequencesExt

CONSTANTS
  IntBits,      \* width of int (32 in the build)
  SizeBits,     \* width of size_t (64 in the build)
  StrHash       \* the 32-bit JS hash of each string key, before the mask

ASSUME WidthAssumption ==
  /\ IntBits \in Nat \ {0}
  /\ SizeBits \in Nat \ {0}
  /\ IntBits <= SizeBits

ASSUME HashAssumption == \A x \in DOMAIN StrHash : StrHash[x] \in Nat

-----------------------------------------------------------------------------
(* Conversions and hashing (ltutil.cpp) *)

(* size_t to int: the low bits, read as two's complement. *)
ToInt(n) ==
  LET low == n % 2^IntBits
  IN  IF low >= 2^(IntBits - 1) THEN low - 2^IntBits ELSE low

(* int to size_t: sign extension. *)
ToSize(i) == i % 2^SizeBits

(* a & b on naturals *)
BitAnd[b \in Nat] ==
  [a \in Nat |->
     IF b = 0 THEN 0 ELSE 2 * BitAnd[b \div 2][a \div 2] + (a % 2) * (b % 2)]

hash_str(name, map_size) == BitAnd[map_size - 1][StrHash[name]]

hash_num(numkey, map_size) == numkey % map_size

hash(key, map_size) ==
  IF key.type = "STRING" THEN hash_str(key.k, map_size)
                         ELSE hash_num(key.k, map_size)

-----------------------------------------------------------------------------
(* Values and nodes *)

(* _search sets only the type of a missing value; the rest of the caller's  *)
(* struct stays uninitialised and no property looks at it.                  *)
NilValue == [ref |-> 0, type |-> "NIL", v |-> 0]

new_node(key, val) ==
  [key_type |-> key.type,
   k |-> IF key.type = "STRING" THEN key.k ELSE ToInt(key.k),
   v |-> val]

(* cmp_string for strings; for numbers the int is widened and compared. *)
is_in_hash(key, n) ==
  /\ n.key_type = key.type
  /\ key.k = IF key.type = "STRING" THEN n.k ELSE ToSize(n.k)

(* The key (buf, sz) or (NULL, numkey) a node is hashed with when it moves. *)
NodeKey(n) ==
  [type |-> n.key_type,
   k |-> IF n.key_type = "STRING" THEN n.k ELSE ToSize(n.k)]

-----------------------------------------------------------------------------
(* Operations *)

(* Mutant: one bucket too many in _init_data. *)
NewMapOffByOne(n) == [size |-> n, index |-> 0, data |-> [h \in 0 .. n |-> <<>>]]

NewMap(n) == [size |-> n, index |-> 0, data |-> [h \in 0 .. n - 1 |-> <<>>]]

Chain(m, key) == m.data[hash(key, m.size)]

(* Position of the key's first node in its chain, 0 if it has none. *)
Position(m, key) ==
  LET chain == Chain(m, key)
      found == {i \in DOMAIN chain : is_in_hash(key, chain[i])}
  IN  IF found = {} THEN 0 ELSE CHOOSE i \in found : \A j \in found : i <= j

Search(m, key) ==
  LET i == Position(m, key)
  IN  IF i = 0 THEN NilValue ELSE Chain(m, key)[i].v

(* _insert_value walks to the key's node or to the end of the chain and     *)
(* counts the nodes it passes ...                                           *)
InsertDepth(m, key) ==
  LET i == Position(m, key)
  IN  IF i = 0 THEN Len(Chain(m, key)) ELSE i - 1

(* ... returns the type it found ... *)
InsertType(m, key) == Search(m, key).type

(* Mutant: the key's node is not looked for. *)
InsertValueAppend(m, key, val) ==
  [m EXCEPT !.data[hash(key, m.size)] = Append(@, new_node(key, [val EXCEPT !.ref = 1])),
            !.index = @ + 1]

(* Mutant: an overwrite takes the new type as well. *)
InsertValueRetype(m, key, val) ==
  LET h == hash(key, m.size)
      i == Position(m, key)
  IN  IF i # 0
        THEN [m EXCEPT !.data[h][i].v.v = val.v, !.data[h][i].v.type = val.type]
        ELSE [m EXCEPT !.data[h] = Append(@, new_node(key, [val EXCEPT !.ref = 1])),
                       !.index = @ + 1]

(* ... and overwrites the union (not the type) of a node it finds, or       *)
(* appends a new node with the caller's value and a reference count of 1.   *)
InsertValue(m, key, val) ==
  LET h == hash(key, m.size)
      i == Position(m, key)
  IN  IF i # 0
        THEN [m EXCEPT !.data[h][i].v.v = val.v]
        ELSE [m EXCEPT !.data[h] = Append(@, new_node(key, [val EXCEPT !.ref = 1])),
                       !.index = @ + 1]

(* All nodes, in the order the bucket loops visit them. *)
Nodes(m) == FlattenSeq([i \in 1 .. m.size |-> m.data[i - 1]])

(* table::keys(vv, cap): the keys in that order, at most cap - 1 of them. *)
FirstKeys(m, cap) ==
  LET all == Nodes(m)
      count == IF Len(all) < cap - 1 THEN Len(all) ELSE cap - 1
  IN  [i \in 1 .. count |-> NodeKey(all[i])]

(* Mutant: nodes keep the bucket they had. *)
CopyMapOldHash(m, cm) ==
  [m EXCEPT !.data =
     [h \in DOMAIN m.data |-> IF h < cm.size THEN Reverse(cm.data[h]) ELSE <<>>]]

(* A node is re-created at the head of its chain. *)
LinkFirst(m, n) ==
  [m EXCEPT !.data[hash(NodeKey(n), m.size)] = <<new_node(NodeKey(n), n.v)>> \o @]

(* m when i of the nodes have been linked into it, for every i *)
Linked(m, nodes) ==
  LET L[i \in 0 .. Len(nodes)] == IF i = 0 THEN m ELSE LinkFirst(L[i - 1], nodes[i])
  IN  L

(* Mutant: the count is raised before the value is copied. *)
CopyMapCountedFirst(m, cm) ==
  LET nodes == [i \in DOMAIN Nodes(cm) |-> [Nodes(cm)[i] EXCEPT !.v.ref = @ + 1]]
  IN  Linked(m, nodes)[Len(nodes)]

(* _copy_map: every node of cm is re-created, value and count as they are,  *)
(* at the head of its chain in m.  index is not touched.                    *)
CopyMap(m, cm) == Linked(m, Nodes(cm))[Len(Nodes(cm))]

(* Mutant: the counts left behind stay at 1. *)
CopiedFromUncounted(cm) == cm

(* ... and the count of every value left behind in cm goes up (v->ref += 1). *)
CopiedFrom(cm) ==
  [cm EXCEPT !.data =
     [h \in DOMAIN cm.data |->
        [i \in DOMAIN cm.data[h] |-> [cm.data[h][i] EXCEPT !.v.ref = @ + 1]]]]

(* ~lmap hands _clear_value the values whose count is 1. *)
ClearedBy(m) == {n.v : n \in {x \in ToSet(Nodes(m)) : x.v.ref = 1}}

-----------------------------------------------------------------------------
(* What the operations rely on and preserve *)

(* A key a caller can name, and one a node keeps as it is: a number outside *)
(* the range of int comes back from the node as another key.                *)
IsKey(key) ==
  \/ key \in [type : {"STRING"}, k : DOMAIN StrHash]
  \/ key \in [type : {"NUMBER"}, k : 0 .. 2^SizeBits - 1]

KeysFit(K) == \A key \in K : IsKey(key) /\ NodeKey(new_node(key, NilValue)) = key

(* The nodes with keys of K and values of W. *)
NodeSet(K, W) ==
  UNION {[key_type : {key.type}, k : {new_node(key, NilValue).k}, v : W] : key \in K}

(* Every node is in the bucket of its key and no key has two nodes. *)
MapOK(m, K, W) ==
  /\ m \in [size : Nat \ {0}, index : Nat,
            data : [0 .. m.size - 1 -> Seq(NodeSet(K, W))]]
  /\ \A h \in 0 .. m.size - 1 : \A i, j \in DOMAIN m.data[h] :
       /\ hash(NodeKey(m.data[h][i]), m.size) = h
       /\ NodeKey(m.data[h][i]) = NodeKey(m.data[h][j]) => i = j
=============================================================================
