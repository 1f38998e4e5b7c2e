--------------------------- MODULE TableSeqProofs ---------------------------
(* One table in one thread: for every set of keys that fit in a node's int, *)
(* every hash of strings and every hash size, the table is the dictionary   *)
(* its calls describe, and its lstrings live exactly as long as they should.*)
EXTENDS TableSeq, LMapProofs

Types == Plain \cup {"STRING"}

LEMMA ValueFacts ==
  /\ NilValue \notin Values
  /\ NilValue.type = "NIL"
  /\ \A w \in Values : /\ w = [ref |-> w.ref, type |-> w.type, v |-> w.v]
                       /\ w.ref = 1
                       /\ w.type \in Types
                       /\ w.type # "NIL"
                       /\ w.v \in Bits \cup Strs
  /\ \A val : val.type \in Types /\ val.v \in Bits \cup Strs =>
       \A w \in Values \cup {NilValue} : Written(w, val) \in Values
BY DEF NilValue, Values, Types, Plain, Written

(* What a key finds: nothing, or one of the table's values. *)
LEMMA Found ==
  ASSUME NEW m, MapOK(m, Keys, Values), NEW key \in Keys
  PROVE  \/ Search(m, key) = NilValue /\ Search(m, key).type = "NIL"
         \/ Search(m, key) \in Values /\ Search(m, key).type # "NIL"
BY PositionIs, KeyAssumption, ValueFacts

(* The destructor of a map that has been copied clears nothing. *)
LEMMA CopiedClearsNothing ==
  ASSUME NEW m, MapOK(m, Keys, Values)
  PROVE  StringsClearedBy(CopiedFrom(m)) = {}
<1> DEFINE X == [ref : {2}, type : Types, v : Bits \cup Strs]
<1>1. \A w \in Values : Counted(w) \in X
  <2>1. ASSUME NEW w \in Values PROVE Counted(w) \in X
    <3>1. w = [ref |-> 1, type |-> w.type, v |-> w.v] /\ w.type \in Types /\ w.v \in Bits \cup Strs
      BY ValueFacts
    <3>2. Counted(w) = [ref |-> 1 + 1, type |-> w.type, v |-> w.v]
      BY <3>1 DEF Counted
    <3> QED BY <3>1, <3>2
  <2> QED BY <2>1
<1>2. NilValue \notin X /\ \A w \in X : w.ref # 1
  BY DEF NilValue
<1> HIDE DEF X
<1>3. MapOK(CopiedFrom(m), Keys, X)
  BY <1>1, CopiedFromOK, KeyAssumption, ValueFacts
<1>4. ClearedBy(CopiedFrom(m)) = {}
  BY <1>2, <1>3, ClearedByIs, KeyAssumption
<1> QED
  BY <1>4 DEF StringsClearedBy

(* Twice the buckets, the same dictionary. *)
LEMMA ExpandedOK ==
  ASSUME NEW m, MapOK(m, Keys, Values)
  PROVE  /\ MapOK(Expanded(m), Keys, Values)
         /\ \A key \in Keys : Search(Expanded(m), key) = Search(m, key)
<1>1. m.size * 2 \in Nat \ {0}
  <2>1. m.size \in Nat \ {0}
    BY MapRecord
  <2> QED BY <2>1
<1> QED
  BY <1>1, CopyMapOK, KeyAssumption, ValueFacts DEF Expanded

(* _insert_table stores one key and frees nothing. *)
LEMMA InsertTableOK ==
  ASSUME MapOK(map, Keys, Values), NEW key \in Keys, NEW type \in Types,
         NEW b \in Bits \cup Strs, NEW fresh,
         InsertTable(key, [ref |-> 0, type |-> type, v |-> b], fresh)
  PROVE  /\ MapOK(map', Keys, Values)
         /\ Search(map', key) =
              IF Search(map, key) = NilValue
                THEN [ref |-> 1, type |-> type, v |-> b]
                ELSE [ref |-> 1, type |-> Search(map, key).type, v |-> b]
         /\ \A other \in Keys : other # key => Search(map', other) = Search(map, other)
         /\ live' = live \cup fresh
<1> DEFINE val == [ref |-> 0, type |-> type, v |-> b]
           m == InsertValue(map, key, val)
           grow == InsertDepth(map, key) >= MAX_HASH_DEPTH
<1>1. val.type = type /\ val.v = b /\ val = [ref |-> val.ref, type |-> val.type, v |-> val.v]
  OBVIOUS
<1> HIDE DEF val
<1>2. \A w \in Values \cup {NilValue} : Written(w, val) \in Values
  BY <1>1, ValueFacts
<1>3. \A w \in Values : w = [ref |-> w.ref, type |-> w.type, v |-> w.v]
  BY ValueFacts
<1>4. /\ MapOK(m, Keys, Values)
      /\ Search(m, key) = Written(Search(map, key), val)
      /\ \A other \in Keys : other # key => Search(m, other) = Search(map, other)
  BY <1>1, <1>2, <1>3, InsertValueOK, KeyAssumption, ValueFacts
<1>5. /\ map' = IF grow THEN Expanded(m) ELSE m
      /\ live' = (live \cup fresh) \ (IF grow THEN StringsClearedBy(CopiedFrom(m)) ELSE {})
  BY DEF InsertTable, val
<1>6. Written(Search(map, key), val) =
        IF Search(map, key) = NilValue
          THEN [ref |-> 1, type |-> type, v |-> b]
          ELSE [ref |-> 1, type |-> Search(map, key).type, v |-> b]
  <2>1. Search(map, key) # NilValue => Search(map, key).ref = 1
    BY Found, ValueFacts
  <2> QED BY <1>1, <2>1 DEF Written
<1> HIDE DEF m, grow
<1>7. MapOK(map', Keys, Values) /\ \A other \in Keys : Search(map', other) = Search(m, other)
  BY <1>4, <1>5, ExpandedOK
<1>8. live' = live \cup fresh
  BY <1>4, <1>5, CopiedClearsNothing
<1> QED
  BY <1>4, <1>6, <1>7, <1>8

-----------------------------------------------------------------------------
(* The invariant, action by action *)

Dicts == [Keys -> [type : Plain \cup {"STRING", "NIL"}, v : Bits \cup Texts \cup {0}]]

LEMMA InitInv == Init => TableInv
<1> SUFFICES ASSUME Init PROVE TableInv
  OBVIOUS
<1>1. /\ map = NewMap(INIT_SIZE) /\ live = {} /\ text \in [Strs -> Texts]
      /\ status = "up" /\ ret = 0 /\ dict = [key \in Keys |-> NIL]
  BY DEF Init
<1>2. MapOK(map, Keys, Values) /\ \A key \in Keys : Search(map, key) = NilValue
  BY <1>1, NewMapOK, SeqAssumption, KeyAssumption
<1>3. \A key \in Keys : Search(map, key).type = "NIL"
  BY <1>2, ValueFacts
<1>4. Holders = {} /\ Losers = {}
  BY <1>3 DEF Holders, Losers
<1>5. OwnersOK
  BY <1>1, <1>4 DEF OwnersOK
<1>6. GetAgrees
  BY <1>1, <1>3 DEF GetAgrees, Get, NIL
<1>7. dict \in [Keys -> [type : Plain \cup {"STRING", "NIL"}, v : Bits \cup Texts \cup {0}]]
  BY <1>1 DEF NIL
<1>8. \A key \in Keys : Search(map, key).type \in Plain => Search(map, key).v \in Bits
  BY <1>3 DEF Plain
<1> QED
  BY <1>1, <1>2, <1>5, <1>6, <1>7, <1>8 DEF TableInv, DeleteFreesStrings

LEMMA SetPlainInv ==
  ASSUME TableInv, NEW key \in Keys, NEW type \in Plain, NEW b \in Bits, SetPlain(key, type, b)
  PROVE  TableInv'
<1> DEFINE w == Search(map, key)
           u == Search(map', key)
<1>1. /\ status = "up" /\ status' = "up" /\ text' = text /\ ret' \in {0, 1}
      /\ InsertTable(key, [ref |-> 0, type |-> type, v |-> b], {})
      /\ dict' = [dict EXCEPT ![key] =
                    [type |-> IF dict[key].type = "NIL" THEN type ELSE dict[key].type, v |-> b]]
  BY DEF SetPlain
<1>2. /\ MapOK(map, Keys, Values)
      /\ \A k \in Keys : Search(map, k).type \in Plain => Search(map, k).v \in Bits
      /\ live \subseteq Strs
      /\ text \in [Strs -> Texts]
      /\ dict \in Dicts
      /\ GetAgrees
      /\ OwnersOK
  BY <1>1 DEF TableInv, Dicts
<1>3. /\ MapOK(map', Keys, Values)
      /\ u = IF w = NilValue THEN [ref |-> 1, type |-> type, v |-> b]
                             ELSE [ref |-> 1, type |-> w.type, v |-> b]
      /\ \A k \in Keys : k # key => Search(map', k) = Search(map, k)
      /\ live' = live
  <2>1. type \in Types /\ b \in Bits \cup Strs
    BY DEF Types
  <2>2. /\ MapOK(map', Keys, Values)
        /\ Search(map', key) =
              IF Search(map, key) = NilValue
                THEN [ref |-> 1, type |-> type, v |-> b]
                ELSE [ref |-> 1, type |-> Search(map, key).type, v |-> b]
        /\ \A other \in Keys : other # key => Search(map', other) = Search(map, other)
        /\ live' = live \cup {}
    BY <1>1, <1>2, <2>1, InsertTableOK
  <2> QED BY <2>2
<1>4. w = NilValue <=> w.type = "NIL"
  BY <1>2, Found, ValueFacts
<1> HIDE DEF u, w
<1>5. u.type = (IF w.type = "NIL" THEN type ELSE w.type) /\ u.v = b /\ u.type # "NIL"
  BY <1>3, <1>4 DEF Plain
<1>6. b \notin Strs
  BY BitsAssumption
<1>7. \A k \in Keys : Search(map', k).type \in Plain => Search(map', k).v \in Bits
  BY <1>2, <1>3, <1>5 DEF u
<1>8. dict' \in Dicts
  <2>1. dict[key].type \in Plain \cup {"STRING", "NIL"}
    BY <1>2 DEF Dicts
  <2> QED BY <1>1, <1>2, <2>1 DEF Dicts
<1>9. ASSUME NEW k \in Keys
      PROVE  /\ Get(k)'.type = dict'[k].type
             /\ Get(k)'.type # "NIL" => Get(k)'.v = dict'[k].v
  <2>1. /\ Get(k).type = dict[k].type
        /\ Get(k).type # "NIL" => Get(k).v = dict[k].v
    BY <1>1, <1>2 DEF GetAgrees
  <2>2. CASE k # key
    <3>1. Get(k)' = Get(k)
      BY <2>2, <1>1, <1>3 DEF Get
    <3>2. dict'[k] = dict[k]
      BY <2>2, <1>1, <1>2 DEF Dicts
    <3> QED BY <2>1, <3>1, <3>2
  <2>3. CASE k = key
    <3>1. Get(k)'.type = u.type /\ Get(k)'.v = b
      BY <2>3, <1>5, <1>6 DEF Get, u
    <3>2. dict[key].type = w.type
      BY <2>1, <2>3 DEF Get, w
    <3>3. dict'[key] = [type |-> IF dict[key].type = "NIL" THEN type ELSE dict[key].type, v |-> b]
      BY <1>1, <1>2 DEF Dicts
    <3> QED BY <2>3, <3>1, <3>2, <3>3, <1>5
  <2> QED BY <2>2, <2>3
<1>10. OwnersOK'
  <2>1. \A k \in Holders' : k # key /\ k \in Holders /\ Search(map', k) = Search(map, k)
    BY <1>3, <1>5, <1>6 DEF Holders, u
  <2>2. ASSUME Losers' = {} PROVE Losers = {} /\ Holders \subseteq Holders'
    <3>1. u.type # "STRING"
      BY <2>2, <1>5, <1>6 DEF Losers, u
    <3>2. w.type # "STRING"
      BY <3>1, <1>5
    <3>3. \A k \in Losers \cup Holders : k # key /\ Search(map', k) = Search(map, k)
      BY <3>2, <1>3 DEF Losers, Holders, w
    <3>4. Losers \subseteq Losers' /\ Holders \subseteq Holders'
      BY <3>3 DEF Losers, Holders
    <3> QED BY <3>4, <2>2
  <2>3. \A k \in Holders' : Search(map', k).v \in live'
    BY <2>1, <1>2, <1>3 DEF OwnersOK
  <2>4. \A k, other \in Holders' : Search(map', k).v = Search(map', other).v => k = other
    BY <2>1, <1>2 DEF OwnersOK
  <2>5. ASSUME Losers' = {}, NEW ls \in live' PROVE \E k \in Holders' : Search(map', k).v = ls
    <3>1. PICK k \in Holders : Search(map, k).v = ls
      BY <2>2, <2>5, <1>2, <1>3 DEF OwnersOK
    <3>2. k \in Holders'
      BY <2>2, <2>5, <3>1
    <3> QED BY <2>1, <3>1, <3>2
  <2> QED BY <2>3, <2>4, <2>5 DEF OwnersOK
<1>11. GetAgrees'
  BY <1>9 DEF GetAgrees
<1>12. DeleteFreesStrings'
  BY <1>1 DEF DeleteFreesStrings
<1> QED
  BY <1>1, <1>2, <1>3, <1>7, <1>8, <1>10, <1>11, <1>12 DEF TableInv, Dicts

LEMMA UpdateStringInv ==
  ASSUME TableInv, NEW key \in Keys, NEW x \in Texts, UpdateString(key, x)
  PROVE  TableInv'
<1> DEFINE w == Search(map, key)
<1>1. status = "up" /\ w.type = "STRING" /\ map' = map /\ live' = live
  BY DEF UpdateString
<1>2. /\ text \in [Strs -> Texts]
      /\ ret \in {0, 1}
      /\ dict \in Dicts
      /\ GetAgrees
      /\ OwnersOK
  BY <1>1 DEF TableInv, Dicts
<1>3. OwnersOK'
  BY <1>1, <1>2 DEF OwnersOK, Holders, Losers
<1>4. CASE w.v \in Strs
  <2>1. /\ text' = [text EXCEPT ![w.v] = x]
        /\ dict' = [dict EXCEPT ![key] = [dict[key] EXCEPT !.v = x]]
        /\ ret' = 0 /\ status' = "up"
    BY <1>1, <1>4 DEF UpdateString
  <2>2. text' \in [Strs -> Texts]
    BY <1>2, <2>1
  <2>3. dict[key] = [type |-> dict[key].type, v |-> dict[key].v]
        /\ dict[key].type \in Plain \cup {"STRING", "NIL"}
    BY <1>2 DEF Dicts
  <2>4. [dict[key] EXCEPT !.v = x] = [type |-> dict[key].type, v |-> x]
    BY <2>3
  <2>5. dict' = [dict EXCEPT ![key] = [type |-> dict[key].type, v |-> x]]
    BY <2>1, <2>4
  <2>6. dict' \in Dicts
    BY <1>2, <2>3, <2>5 DEF Dicts
  <2>7. key \in Holders
    BY <1>1, <1>4 DEF Holders
  <2>8. ASSUME NEW k \in Keys
        PROVE  /\ Get(k)'.type = dict'[k].type
               /\ Get(k)'.type # "NIL" => Get(k)'.v = dict'[k].v
    <3>1. /\ Get(k).type = dict[k].type
          /\ Get(k).type # "NIL" => Get(k).v = dict[k].v
      BY <1>1, <1>2 DEF GetAgrees
    <3>2. CASE k # key
      <4>1. k \in Holders => Search(map, k).v # w.v
        BY <2>7, <3>2, <1>2 DEF OwnersOK
      <4>2. Get(k)' = Get(k)
        BY <4>1, <1>1, <1>2, <2>1 DEF Get, Holders
      <4>3. dict'[k] = dict[k]
        BY <3>2, <2>5, <1>2 DEF Dicts
      <4> QED BY <3>1, <4>2, <4>3
    <3>3. CASE k = key
      <4>1. Get(k)'.type = w.type /\ Get(k)'.v = text'[w.v] /\ Get(k).type = w.type
        BY <3>3, <1>1, <1>4 DEF Get
      <4>2. text'[w.v] = x
        BY <1>2, <1>4, <2>1
      <4>3. dict'[key] = [type |-> dict[key].type, v |-> x]
        BY <2>5, <1>2 DEF Dicts
      <4> QED BY <3>1, <3>3, <4>1, <4>2, <4>3
    <3> QED BY <3>2, <3>3
  <2>9. GetAgrees' /\ DeleteFreesStrings'
    BY <2>1, <2>8 DEF GetAgrees, DeleteFreesStrings
  <2> QED BY <1>1, <1>3, <2>1, <2>2, <2>6, <2>9 DEF TableInv, Dicts
<1>5. CASE w.v \notin Strs
  <2>1. status' = "crashed" /\ text' = text /\ dict' = dict /\ ret' = ret
    BY <1>1, <1>5 DEF UpdateString
  <2>2. GetAgrees' /\ DeleteFreesStrings'
    BY <2>1 DEF GetAgrees, DeleteFreesStrings
  <2> QED BY <1>1, <1>3, <2>1, <2>2 DEF TableInv
<1> QED
  BY <1>4, <1>5

LEMMA SetStringInv ==
  ASSUME TableInv, NEW key \in Keys, NEW x \in Texts, SetString(key, x)
  PROVE  TableInv'
<1> DEFINE u == Search(map', key)
<1>1. PICK ls \in Strs \ live :
        /\ InsertTable(key, [ref |-> 0, type |-> "STRING", v |-> ls], {ls})
        /\ text' = [text EXCEPT ![ls] = x]
  BY DEF SetString
<1>2. /\ status = "up" /\ status' = "up" /\ ret' = 0
      /\ Search(map, key).type = "NIL"
      /\ dict' = [dict EXCEPT ![key] = [type |-> "STRING", v |-> x]]
  BY DEF SetString
<1>3. /\ MapOK(map, Keys, Values)
      /\ \A k \in Keys : Search(map, k).type \in Plain => Search(map, k).v \in Bits
      /\ live \subseteq Strs
      /\ text \in [Strs -> Texts]
      /\ dict \in Dicts
      /\ GetAgrees
      /\ OwnersOK
  BY <1>2 DEF TableInv, Dicts
<1>4. /\ MapOK(map', Keys, Values)
      /\ Search(map', key) =
            IF Search(map, key) = NilValue
              THEN [ref |-> 1, type |-> "STRING", v |-> ls]
              ELSE [ref |-> 1, type |-> Search(map, key).type, v |-> ls]
      /\ \A k \in Keys : k # key => Search(map', k) = Search(map, k)
      /\ live' = live \cup {ls}
  <2>1. "STRING" \in Types /\ ls \in Bits \cup Strs
    BY DEF Types
  <2> QED BY <1>1, <1>3, <2>1, InsertTableOK
<1>5. u.type = "STRING" /\ u.v = ls
  <2>1. Search(map, key) = NilValue
    BY <1>2, <1>3, Found
  <2>2. u = [ref |-> 1, type |-> "STRING", v |-> ls]
    BY <1>4, <2>1
  <2> QED BY <2>2
<1> HIDE DEF u
<1>6. \A k \in Keys : Search(map', k).type \in Plain => Search(map', k).v \in Bits
  BY <1>3, <1>4, <1>5 DEF u, Plain
<1>7. text' \in [Strs -> Texts] /\ dict' \in Dicts
  BY <1>1, <1>2, <1>3 DEF Dicts
<1>8. \A k \in Holders : Search(map, k).v # ls /\ k # key
  BY <1>1, <1>2, <1>3 DEF OwnersOK, Holders
<1>9. ASSUME NEW k \in Keys
      PROVE  /\ Get(k)'.type = dict'[k].type
             /\ Get(k)'.type # "NIL" => Get(k)'.v = dict'[k].v
  <2>1. CASE k # key
    <3>1. /\ Get(k).type = dict[k].type
          /\ Get(k).type # "NIL" => Get(k).v = dict[k].v
      BY <1>2, <1>3 DEF GetAgrees
    <3>2. Get(k)' = Get(k)
      BY <2>1, <1>1, <1>3, <1>4, <1>8 DEF Get, Holders
    <3>3. dict'[k] = dict[k]
      BY <2>1, <1>2, <1>3 DEF Dicts
    <3> QED BY <3>1, <3>2, <3>3
  <2>2. CASE k = key
    <3>1. Get(k)'.type = "STRING" /\ Get(k)'.v = text'[ls]
      BY <2>2, <1>5 DEF Get, u
    <3>2. text'[ls] = x
      BY <1>1, <1>3
    <3>3. dict'[key] = [type |-> "STRING", v |-> x]
      BY <1>2, <1>3 DEF Dicts
    <3> QED BY <2>2, <3>1, <3>2, <3>3
  <2> QED BY <2>1, <2>2
<1>10. OwnersOK'
  <2>1. Holders' = Holders \cup {key} /\ Losers' = Losers
    <3>1. key \in Holders' /\ key \notin Losers' /\ key \notin Losers
      BY <1>2, <1>5 DEF Holders, Losers, u
    <3>2. \A k \in Keys : k # key => (k \in Holders' <=> k \in Holders)
      BY <1>4 DEF Holders
    <3>3. \A k \in Keys : k # key => (k \in Losers' <=> k \in Losers)
      BY <1>4 DEF Losers
    <3>4. Holders \subseteq Keys /\ Losers \subseteq Keys /\ Holders' \subseteq Keys /\ Losers' \subseteq Keys
      BY DEF Holders, Losers
    <3> QED BY <3>1, <3>2, <3>3, <3>4
  <2>2. \A k \in Holders : Search(map', k) = Search(map, k)
    BY <1>4, <1>8 DEF Holders
  <2>3. Search(map', key).v = ls
    BY <1>5 DEF u
  <2>4. \A k \in Holders' : Search(map', k).v \in live'
    BY <2>1, <2>2, <2>3, <1>3, <1>4 DEF OwnersOK
  <2>5. \A k, other \in Holders' : Search(map', k).v = Search(map', other).v => k = other
    BY <2>1, <2>2, <2>3, <1>3, <1>8 DEF OwnersOK
  <2>6. Losers' = {} => \A s \in live' : \E k \in Holders' : Search(map', k).v = s
    BY <2>1, <2>2, <2>3, <1>3, <1>4 DEF OwnersOK
  <2> QED BY <2>4, <2>5, <2>6 DEF OwnersOK
<1>11. GetAgrees' /\ DeleteFreesStrings'
  BY <1>2, <1>9 DEF GetAgrees, DeleteFreesStrings
<1>12. live' \subseteq Strs
  BY <1>3, <1>4
<1> QED
  BY <1>2, <1>4, <1>6, <1>7, <1>10, <1>11, <1>12 DEF TableInv, Dicts

LEMMA RefuseStringInv ==
  ASSUME TableInv, NEW key \in Keys, RefuseString(key)
  PROVE  TableInv'
<1>1. /\ status = "up" /\ ret' = 1 /\ map' = map /\ live' = live
      /\ text' = text /\ status' = status /\ dict' = dict
  BY DEF RefuseString
<1>2. GetAgrees' /\ OwnersOK' /\ DeleteFreesStrings'
  BY <1>1 DEF TableInv, GetAgrees, Get, OwnersOK, Holders, Losers, DeleteFreesStrings
<1> QED
  BY <1>1, <1>2 DEF TableInv

(* The destructor frees every lstring that has a holder.                    *)
LEMMA DeleteInv == ASSUME TableInv, Delete PROVE TableInv'
<1>1. /\ status = "up" /\ map' = map /\ text' = text /\ ret' = ret /\ dict' = dict
      /\ status' = IF StringsClearedBy(map) \subseteq Strs THEN "deleted" ELSE "crashed"
      /\ live' = live \ StringsClearedBy(map)
  BY DEF Delete
<1>2. MapOK(map, Keys, Values) /\ OwnersOK /\ live \subseteq Strs
  BY <1>1 DEF TableInv
<1>3. \A key \in Keys : Search(map, key).type = "STRING" =>
        Search(map, key).v \in StringsClearedBy(map)
  <2>1. ASSUME NEW key \in Keys, Search(map, key).type = "STRING"
        PROVE  Search(map, key).v \in StringsClearedBy(map)
    <3> DEFINE w == Search(map, key)
    <3>1. w \in Values /\ w.ref = 1
      BY <2>1, <1>2, Found, ValueFacts
    <3>2. w \in ClearedBy(map)
      BY <3>1, <1>2, ClearedByIs, KeyAssumption, ValueFacts
    <3> QED BY <2>1, <3>2 DEF StringsClearedBy
  <2> QED BY <2>1
<1>4. ASSUME status' = "deleted" PROVE live' = {}
  <2>1. StringsClearedBy(map) \subseteq Strs
    BY <1>1, <1>4
  <2>2. Losers = {}
    BY <1>3, <2>1 DEF Losers
  <2>3. \A ls \in live : ls \in StringsClearedBy(map)
    BY <1>2, <1>3, <2>2 DEF OwnersOK, Holders
  <2> QED BY <1>1, <2>3
<1>5. GetAgrees' /\ DeleteFreesStrings' /\ status' \in {"deleted", "crashed"}
  BY <1>1, <1>4 DEF GetAgrees, DeleteFreesStrings
<1>6. live' \subseteq Strs
  BY <1>1, <1>2
<1> QED
  BY <1>1, <1>5, <1>6 DEF TableInv

LEMMA StutterInv == ASSUME TableInv, UNCHANGED vars PROVE TableInv'
<1>1. GetAgrees' /\ (status' = "up" => OwnersOK') /\ DeleteFreesStrings'
  BY DEF TableInv, vars, GetAgrees, Get, OwnersOK, Holders, Losers, DeleteFreesStrings
<1> QED
  BY <1>1 DEF TableInv, vars

LEMMA NextInv == TableInv /\ [Next]_vars => TableInv'
<1> SUFFICES ASSUME TableInv, [Next]_vars PROVE TableInv'
  OBVIOUS
<1>1. ASSUME NEW key \in Keys, NEW type \in WriteTypes[key] \cap Plain, NEW b \in Bits,
             SetPlain(key, type, b)
      PROVE  TableInv'
  BY <1>1, SetPlainInv
<1>2. ASSUME NEW key \in Keys, RefuseString(key) PROVE TableInv'
  BY <1>2, RefuseStringInv
<1>3. ASSUME NEW key \in Keys, NEW x \in Texts, UpdateString(key, x) PROVE TableInv'
  BY <1>3, UpdateStringInv
<1>4. ASSUME NEW key \in Keys, NEW x \in Texts, SetString(key, x) PROVE TableInv'
  BY <1>4, SetStringInv
<1>5. CASE Delete
  BY <1>5, DeleteInv
<1>6. CASE UNCHANGED vars
  BY <1>6, StutterInv
<1> QED
  BY <1>1, <1>2, <1>3, <1>4, <1>5, <1>6 DEF Next

(* Whatever is set, overwritten, grown or deleted, the buckets, the counts  *)
(* and the ownership of the lstrings stay in order.                         *)
THEOREM TableInvariant == Spec => []TableInv
<1>1. Init => TableInv
  BY InitInv
<1>2. TableInv /\ [Next]_vars => TableInv'
  BY NextInv
<1> QED
  BY <1>1, <1>2, PTL DEF Spec

-----------------------------------------------------------------------------
(* What the invariant is for *)

LEMMA InvNodes ==
  ASSUME TableInv
  PROVE  /\ Nodes(map) \in Seq(NodeSet(Keys, Values))
         /\ \A i \in 1 .. Len(Nodes(map)) :
              /\ NodeKey(Nodes(map)[i]) \in Keys
              /\ Nodes(map)[i].v \in Values
              /\ Search(map, NodeKey(Nodes(map)[i])) = Nodes(map)[i].v
         /\ \A i, j \in 1 .. Len(Nodes(map)) :
              NodeKey(Nodes(map)[i]) = NodeKey(Nodes(map)[j]) => i = j
BY NodesOK, KeyAssumption DEF TableInv, NodesAgree

LEMMA InvTypeOK == TableInv => TypeOK
<1> SUFFICES ASSUME TableInv PROVE TypeOK
  OBVIOUS
<1>1. \A n \in ToSet(Nodes(map)) :
        n.v.ref \in Nat /\ n.v.type \in Plain \cup {"STRING"} /\ n.v.v \in Bits \cup Strs
  <2> DEFINE nodes == Nodes(map)
  <2>1. \A i \in 1 .. Len(nodes) : nodes[i].v \in Values
    BY InvNodes
  <2>2. nodes \in Seq(NodeSet(Keys, Values))
    BY InvNodes
  <2> HIDE DEF nodes
  <2>3. \A n \in ToSet(nodes) : n.v \in Values
    BY <2>1, <2>2 DEF ToSet
  <2>4. \A w \in Values : w.ref \in Nat /\ w.type \in Plain \cup {"STRING"} /\ w.v \in Bits \cup Strs
    BY ValueFacts DEF Types
  <2> QED BY <2>3, <2>4 DEF nodes
<1>2. map.size \in Nat \ {0} /\ map.index \in Nat /\ DOMAIN map.data = 0 .. map.size - 1
  <2>1. MapOK(map, Keys, Values)
    BY DEF TableInv
  <2> QED BY <2>1, MapRecord
<1> QED
  BY <1>1, <1>2 DEF TypeOK, TableInv

LEMMA InvStrings == TableInv => StringsStayLive
<1> SUFFICES ASSUME TableInv, status = "up" PROVE StringsStayLive
  BY DEF StringsStayLive
<1> DEFINE nodes == Nodes(map)
           held(i) == nodes[i].v.type = "STRING" /\ nodes[i].v.v \in Strs
<1>1. OwnersOK
  BY DEF TableInv
<1>2. ASSUME NEW i \in 1 .. Len(nodes), held(i)
      PROVE  NodeKey(nodes[i]) \in Holders /\ Search(map, NodeKey(nodes[i])).v = nodes[i].v.v
  BY <1>2, InvNodes DEF Holders
<1>3. \A i \in 1 .. Len(nodes) : held(i) => nodes[i].v.v \in live
  BY <1>1, <1>2 DEF OwnersOK
<1>4. ASSUME NEW i \in 1 .. Len(nodes), NEW j \in 1 .. Len(nodes),
             held(i), held(j), nodes[i].v.v = nodes[j].v.v
      PROVE  i = j
  <2>1. NodeKey(nodes[i]) = NodeKey(nodes[j])
    BY <1>1, <1>2, <1>4 DEF OwnersOK
  <2> QED BY <2>1, InvNodes
<1> QED
  BY <1>3, <1>4 DEF StringsStayLive

(* Types: the map's buckets and counts, the lstrings, the calls' results.   *)
THEOREM TypeCorrect == Spec => []TypeOK
BY TableInvariant, InvTypeOK, PTL

(* Every getter returns what the last setter of its key stored, through any *)
(* number of walks, appends and rebuilds of the hash.                       *)
THEOREM TableIsDictionary == Spec => []GetAgrees
<1>1. TableInv => GetAgrees
  BY DEF TableInv
<1> QED
  BY <1>1, TableInvariant, PTL

(* No key has two nodes, so keys() and pairs report it once.                *)
THEOREM KeysAreUnique == Spec => []OneNodePerKey
<1>1. TableInv => OneNodePerKey
  BY InvNodes DEF OneNodePerKey
<1> QED
  BY <1>1, TableInvariant, PTL

(* An lstring a node points to is allocated and has no other node: the      *)
(* destructor of the copied map has freed nothing.                          *)
THEOREM StringsAreOwned == Spec => []StringsStayLive
BY InvStrings, TableInvariant, PTL

(* delete t frees every lstring, unless a number has overwritten a pointer. *)
THEOREM NoStringLeaks == Spec => []DeleteFreesStrings
<1>1. TableInv => DeleteFreesStrings
  BY DEF TableInv
<1> QED
  BY <1>1, TableInvariant, PTL

LEMMA StepKeepsTypes ==
  ASSUME TableInv, [Next]_vars, NEW k \in Keys, Search(map, k).type # "NIL"
  PROVE  Search(map', k).type = Search(map, k).type
<1>1. MapOK(map, Keys, Values)
  BY DEF TableInv
<1>2. Search(map, k) # NilValue
  BY ValueFacts
<1>3. ASSUME NEW key \in Keys, NEW type \in Types, NEW b \in Bits \cup Strs, NEW fresh,
             InsertTable(key, [ref |-> 0, type |-> type, v |-> b], fresh)
      PROVE  Search(map', k).type = Search(map, k).type
  <2>1. /\ Search(map', key) =
              IF Search(map, key) = NilValue
                THEN [ref |-> 1, type |-> type, v |-> b]
                ELSE [ref |-> 1, type |-> Search(map, key).type, v |-> b]
        /\ \A other \in Keys : other # key => Search(map', other) = Search(map, other)
    BY <1>1, <1>3, InsertTableOK
  <2> QED BY <2>1, <1>2
<1>4. ASSUME NEW key \in Keys, NEW type \in Plain, NEW b \in Bits, SetPlain(key, type, b)
      PROVE  Search(map', k).type = Search(map, k).type
  <2>1. InsertTable(key, [ref |-> 0, type |-> type, v |-> b], {})
    BY <1>4 DEF SetPlain
  <2>2. type \in Types /\ b \in Bits \cup Strs
    BY DEF Types
  <2> QED BY <2>1, <2>2, <1>3
<1>5. ASSUME NEW key \in Keys, NEW x \in Texts, SetString(key, x)
      PROVE  Search(map', k).type = Search(map, k).type
  <2>1. PICK ls \in Strs \ live :
          InsertTable(key, [ref |-> 0, type |-> "STRING", v |-> ls], {ls})
    BY <1>5 DEF SetString
  <2>2. "STRING" \in Types /\ ls \in Bits \cup Strs
    BY DEF Types
  <2> QED BY <2>1, <2>2, <1>3
<1>6. CASE map' = map
  BY <1>6
<1> QED
  BY <1>4, <1>5, <1>6 DEF Next, RefuseString, UpdateString, Delete, vars

(* A key keeps the type it was first given, also when the hash grows.       *)
THEOREM TypesAreSticky == Spec => TypeIsSticky
<1>1. TableInv /\ [Next]_vars =>
        [\A key \in Keys :
           Search(map, key).type # "NIL" =>
             Search(map', key).type = Search(map, key).type]_vars
  BY StepKeepsTypes
<1> QED
  BY <1>1, TableInvariant, PTL DEF Spec, TypeIsSticky
=============================================================================
