------------------------------ MODULE TableSeq ------------------------------
(***************************************************************************)
(* One table used by one thread: the setters, the getters, keys() and the   *)
(* growth of the hash, with the lifetime of the lstrings its values point   *)
(* to.  Each call is one step; map is the lmap the table points to.         *)
(* Values are numbers, booleans and strings; sub-tables (LT_UD) are owned   *)
(* by other rules and are not stored here.                                  *)
(***************************************************************************)
EXTENDS LMap, FiniteSets

CONSTANTS
  Keys,           \* the keys the client uses
  WriteTypes,     \* WriteTypes[key]: the value types the client stores there
  Bits,           \* contents of a number or boolean
  Strs,           \* addresses malloc can return for an lstring
  Texts,          \* string contents
  INIT_SIZE,      \* next_prime(DEFAULT_SIZE)
  MAX_HASH_DEPTH,
  MaxSize         \* bound: the largest hash the model grows to

Plain == {"NUMBER", "BOOLEAN"}

ASSUME SeqAssumption ==
  /\ INIT_SIZE \in Nat \ {0}
  /\ MAX_HASH_DEPTH \in Nat \ {0}
  /\ WriteTypes \in [Keys -> SUBSET (Plain \cup {"STRING"})]

(* Keys that fit in a node's int, and numbers that are no address of an     *)
(* lstring.                                                                 *)
ASSUME KeyAssumption == KeysFit(Keys)
ASSUME BitsAssumption == Bits \cap Strs = {}

VARIABLES
  map,            \* table.map
  live,           \* lstrings allocated and not freed
  text,           \* the text of each lstring's slot
  status,         \* "up", "deleted" by the client, or "crashed"
  ret,            \* what the last setter returned
  dict            \* reference: what each key holds, by the calls made so far

vars == <<map, live, text, status, ret, dict>>

NIL == [type |-> "NIL", v |-> 0]

TypeOK ==
  /\ map.size \in Nat \ {0}
  /\ map.index \in Nat
  /\ DOMAIN map.data = 0 .. map.size - 1
  /\ \A n \in ToSet(Nodes(map)) :
       /\ n.v.ref \in Nat
       /\ n.v.type \in Plain \cup {"STRING"}
       /\ n.v.v \in Bits \cup Strs
  /\ live \subseteq Strs
  /\ text \in [Strs -> Texts]
  /\ status \in {"up", "deleted", "crashed"}
  /\ ret \in {0, 1}
  /\ DOMAIN dict = Keys

-----------------------------------------------------------------------------
(* ~lmap frees the lstrings among the values it clears. *)
StringsClearedBy(m) ==
  {val.v : val \in {w \in ClearedBy(m) : w.type = "STRING"}}

(* _expand_hash, _update_map: twice the buckets, the nodes copied, and the  *)
(* old map, which nobody else holds, deleted.                               *)
Expanded(m) == CopyMap(NewMap(m.size * 2), m)

(* _insert_table -> _insert_map_value: insert, then grow if the walk was    *)
(* long, also when it ended on an existing key.  fresh holds the lstring    *)
(* the caller has just allocated, if any.                                   *)
InsertTable(key, val, fresh) ==
  LET m == InsertValue(map, key, val)
      grow == InsertDepth(map, key) >= MAX_HASH_DEPTH
  IN  /\ grow => m.size * 2 <= MaxSize
      /\ map' = IF grow THEN Expanded(m) ELSE m
      /\ live' = (live \cup fresh) \
                   (IF grow THEN StringsClearedBy(CopiedFrom(m)) ELSE {})

Init ==
  /\ map = NewMap(INIT_SIZE)
  /\ live = {}
  /\ text \in [Strs -> Texts]
  /\ status = "up"
  /\ ret = 0
  /\ dict = [key \in Keys |-> NIL]

(* set_number, set_boolean.  The reference keeps the type a key was first   *)
(* given and takes the new contents even when the call reports failure.     *)
SetPlain(key, type, b) ==
  /\ status = "up"
  /\ InsertTable(key, [ref |-> 0, type |-> type, v |-> b], {})
  /\ ret' = IF InsertType(map, key) \in {type, "NIL"} THEN 0 ELSE 1
  /\ dict' = [dict EXCEPT ![key] =
                [type |-> IF @.type = "NIL" THEN type ELSE @.type, v |-> b]]
  /\ UNCHANGED <<text, status>>

(* set_string on a key that holds a string: _update_string of its lstring, *)
(* a crash if a number has been written over the pointer.                   *)
UpdateString(key, x) ==
  LET val == Search(map, key)
  IN  /\ status = "up"
      /\ val.type = "STRING"
      /\ IF val.v \in Strs
           THEN /\ text' = [text EXCEPT ![val.v] = x]
                /\ dict' = [dict EXCEPT ![key].v = x]
                /\ ret' = 0
                /\ UNCHANGED status
           ELSE status' = "crashed" /\ UNCHANGED <<text, dict, ret>>
      /\ UNCHANGED <<map, live>>

(* set_string on a key that holds something else returns 1. *)
RefuseString(key) ==
  /\ status = "up"
  /\ Search(map, key).type \in Plain
  /\ ret' = 1
  /\ UNCHANGED <<map, live, text, status, dict>>

(* set_string on an absent key: a new lstring, then _insert_table. *)
SetString(key, x) ==
  /\ status = "up"
  /\ Search(map, key).type = "NIL"
  /\ \E ls \in Strs \ live :
       /\ InsertTable(key, [ref |-> 0, type |-> "STRING", v |-> ls], {ls})
       /\ text' = [text EXCEPT ![ls] = x]
  /\ ret' = 0
  /\ dict' = [dict EXCEPT ![key] = [type |-> "STRING", v |-> x]]
  /\ UNCHANGED status

(* delete t: ~table deletes the map, whose destructor clears its values; a  *)
(* crash if one of them is a number where an lstring should be.             *)
Delete ==
  /\ status = "up"
  /\ status' = IF StringsClearedBy(map) \subseteq Strs THEN "deleted" ELSE "crashed"
  /\ live' = live \ StringsClearedBy(map)
  /\ UNCHANGED <<map, text, ret, dict>>

Next ==
  \/ \E key \in Keys :
       \/ \E type \in WriteTypes[key] \cap Plain, b \in Bits : SetPlain(key, type, b)
       \/ /\ "STRING" \in WriteTypes[key]
          /\ \/ RefuseString(key)
             \/ \E x \in Texts : UpdateString(key, x) \/ SetString(key, x)
  \/ Delete

Spec == Init /\ [][Next]_vars

-----------------------------------------------------------------------------
(* Reading the table *)

(* get_type and the typed getters: the type and the contents, through the   *)
(* lstring for a string whose pointer is intact.                            *)
Get(key) ==
  LET val == Search(map, key)
  IN  [type |-> val.type,
       v |-> IF val.type = "STRING" /\ val.v \in Strs THEN text[val.v] ELSE val.v]

(* size(): a capacity for keys(), not a count. *)
size == map.size * MAX_HASH_DEPTH

(* keys(vv, cap) *)
keys(cap) == FirstKeys(map, cap)

-----------------------------------------------------------------------------
(* Properties *)

(* Every getter returns what the last setter of that key stored, however    *)
(* the chains have been walked, extended and rebuilt by _expand_hash.       *)
GetAgrees ==
  status = "up" =>
    \A key \in Keys :
      /\ Get(key).type = dict[key].type
      /\ Get(key).type # "NIL" => Get(key).v = dict[key].v

(* _insert_value and _copy_map never leave two nodes for one key, so keys() *)
(* and pairs report a key once.                                             *)
OneNodePerKey ==
  \A i, j \in 1 .. Len(Nodes(map)) :
    NodeKey(Nodes(map)[i]) = NodeKey(Nodes(map)[j]) => i = j

(* The value counts do their job: the destructor of a map that has been     *)
(* copied frees no lstring the new map points to, and two keys never share  *)
(* an lstring.                                                              *)
StringsStayLive ==
  LET holders == {i \in 1 .. Len(Nodes(map)) :
                    Nodes(map)[i].v.type = "STRING" /\ Nodes(map)[i].v.v \in Strs}
  IN  status = "up" =>
        /\ \A i \in holders : Nodes(map)[i].v.v \in live
        /\ \A i, j \in holders : Nodes(map)[i].v.v = Nodes(map)[j].v.v => i = j

(* Deleting the table frees every lstring it ever allocated.  (A table that *)
(* has lost the pointer to one, overwritten by a number, crashes instead.)  *)
DeleteFreesStrings == status = "deleted" => live = {}

(* Once a key has a type it keeps it, whatever is set on it later and       *)
(* however the hash grows: _insert_value writes the union, never the type.  *)
TypeIsSticky ==
  [][\A key \in Keys :
       Search(map, key).type # "NIL" =>
         Search(map', key).type = Search(map, key).type]_vars

-----------------------------------------------------------------------------
(* The inductive invariant *)

(* Only the table's map refers to a value: its count is 1. *)
Values == [ref : {1}, type : Plain \cup {"STRING"}, v : Bits \cup Strs]

(* The keys whose node still points to an lstring, and those whose node has *)
(* been overwritten by a number.                                            *)
Holders == {key \in Keys : Search(map, key).type = "STRING" /\ Search(map, key).v \in Strs}
Losers == {key \in Keys : Search(map, key).type = "STRING" /\ Search(map, key).v \notin Strs}

(* Holders own live lstrings, one each, and while no pointer has been lost  *)
(* they own all of them.                                                    *)
OwnersOK ==
  /\ \A key \in Holders : Search(map, key).v \in live
  /\ \A key, other \in Holders :
       Search(map, key).v = Search(map, other).v => key = other
  /\ Losers = {} => \A ls \in live : \E key \in Holders : Search(map, key).v = ls

(* The buckets, the counts, the contents and the ownership of lstrings, all *)
(* of which _insert_value, _expand_hash and ~lmap rely on: what makes the   *)
(* properties above inductive.                                              *)
TableInv ==
  /\ MapOK(map, Keys, Values)
  /\ \A key \in Keys : Search(map, key).type \in Plain => Search(map, key).v \in Bits
  /\ live \subseteq Strs
  /\ text \in [Strs -> Texts]
  /\ status \in {"up", "deleted", "crashed"}
  /\ ret \in {0, 1}
  /\ dict \in [Keys -> [type : Plain \cup {"STRING", "NIL"}, v : Bits \cup Texts \cup {0}]]
  /\ GetAgrees
  /\ status = "up" => OwnersOK
  /\ DeleteFreesStrings

-----------------------------------------------------------------------------
(* Documented, and not so *)

(* The comment on keys(): the return value is the number of keys and all    *)
(* the keys are stored in tk, when the caller passes size() as the          *)
(* binding's _size and _pairs do.                                           *)
KeysReturnsAll ==
  ToSet(keys(size)) = {NodeKey(n) : n \in ToSet(Nodes(map))}

(* The comment on the setters: 0 is success, anything else is not.  A call  *)
(* that reports failure leaves every key as it was.                         *)
FailedSetChangesNothing ==
  [][ret' = 1 /\ status' = "up" => \A key \in Keys : Get(key)' = Get(key)]_vars
=============================================================================
