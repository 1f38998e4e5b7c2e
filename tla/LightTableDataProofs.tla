------------------------ MODULE LightTableDataProofs ------------------------
(* What readers of LightTable find, for one reader and any number of        *)
(* setters, keys, map addresses and hash parameters: the contents of the    *)
(* maps and the calls in progress are as DataInv says, so IInv is           *)
(* inductive and keys() is consistent.                                      *)
(*                                                                          *)
(* First what the operations of lmap do to a call that walks the map; then  *)
(* one lemma per action.  An action that leaves the maps alone only has to  *)
(* show that its own call is in order (QuietKeeps), one that changes them   *)
(* what it does to the walks of the others (WalksKept).                     *)
EXTENDS LightTableProofs, LMapProofs

-----------------------------------------------------------------------------
(* Maps with the table's keys and values *)

LEMMA NilNotHeld == \A refs : NilValue \notin Held(refs)
BY TypeAssumption DEF Held, NilValue

(* The keys of a map are those that Search finds. *)
LEMMA KeyHasPlace ==
  ASSUME NEW refs, NEW d, MapOK(d, Keys, Held(refs)), NEW k \in Keys, Search(d, k) # NilValue
  PROVE  \E h \in 0 .. d.size - 1 : \E i \in DOMAIN d.data[h] : NodeKey(d.data[h][i]) = k
<1>1. /\ Position(d, k) \in DOMAIN Chain(d, k)
      /\ NodeKey(Chain(d, k)[Position(d, k)]) = k
  BY KeyAssumption, PositionIs
<1>2. /\ hash(k, d.size) \in 0 .. d.size - 1
      /\ Chain(d, k) = d.data[hash(k, d.size)]
  BY KeyAssumption, Chains
<1> QED
  BY <1>1, <1>2

LEMMA PlaceHasKey ==
  ASSUME NEW refs, NEW d, MapOK(d, Keys, Held(refs)),
         NEW h \in 0 .. d.size - 1, NEW i \in DOMAIN d.data[h]
  PROVE  /\ NodeKey(d.data[h][i]) \in Keys
         /\ Search(d, NodeKey(d.data[h][i])) # NilValue
<1>1. /\ NodeKey(d.data[h][i]) \in Keys
      /\ Search(d, NodeKey(d.data[h][i])) = d.data[h][i].v
      /\ d.data[h][i].v \in Held(refs)
  BY KeyAssumption, SearchFinds
<1> QED
  BY <1>1, NilNotHeld

LEMMA KeysInIs ==
  ASSUME NEW refs, NEW x, MapOK(data[x], Keys, Held(refs))
  PROVE  KeysIn(x) = {k \in Keys : Search(data[x], k) # NilValue}
<1> DEFINE d == data[x]
           nodes == Nodes(d)
<1>1. /\ nodes \in Seq(NodeSet(Keys, Held(refs)))
      /\ \A i \in 1 .. Len(nodes) :
           /\ NodeKey(nodes[i]) \in Keys
           /\ nodes[i].v \in Held(refs)
           /\ Search(d, NodeKey(nodes[i])) = nodes[i].v
      /\ \A k \in Keys : \/ Search(d, k) = NilValue
                          \/ \E i \in 1 .. Len(nodes) : NodeKey(nodes[i]) = k
  BY KeyAssumption, NodesOK DEF NodesAgree
<1>2. KeysIn(x) = {NodeKey(n) : n \in {nodes[i] : i \in DOMAIN nodes}}
  BY DEF KeysIn, ToSet
<1>3. DOMAIN nodes = 1 .. Len(nodes)
  BY <1>1
<1>4. NilValue \notin Held(refs)
  BY NilNotHeld
<1> HIDE DEF nodes
<1>5. ASSUME NEW k \in Keys, Search(d, k) # NilValue PROVE k \in KeysIn(x)
  BY <1>1, <1>2, <1>3, <1>5
<1>6. ASSUME NEW k \in KeysIn(x) PROVE k \in Keys /\ Search(d, k) # NilValue
  BY <1>1, <1>2, <1>3, <1>4
<1> QED
  BY <1>5, <1>6

(* _insert_value, in the current map *)
LEMMA InsertKept ==
  ASSUME NEW refs, 1 \in refs, NEW d, MapOK(d, Keys, Held(refs)),
         NEW k \in Keys, NEW val \in Held({0})
  PROVE  /\ MapOK(InsertValue(d, k, val), Keys, Held(refs))
         /\ Covers(InsertValue(d, k, val), d)
         /\ Grown(InsertValue(d, k, val), d)
         /\ Search(InsertValue(d, k, val), k) = Written(Search(d, k), val)
         /\ \A other \in Keys : other # k =>
              Search(InsertValue(d, k, val), other) = Search(d, other)
<1> DEFINE W == Held(refs)
           r == InsertValue(d, k, val)
<1>1. val = [ref |-> val.ref, type |-> val.type, v |-> val.v]
      /\ val.type \in PlainTypes \cup {"STRING"} /\ val.v \in Bits \cup Strs
  BY DEF Held
<1>2. \A w \in W : /\ w = [ref |-> w.ref, type |-> w.type, v |-> w.v]
                    /\ w.ref \in refs /\ w.type \in PlainTypes \cup {"STRING"}
  BY DEF Held
<1>3. \A w \in W \cup {NilValue} : Written(w, val) \in W
  BY <1>1, <1>2 DEF Written, Held
<1>4. NilValue \notin W
  BY NilNotHeld
<1> HIDE DEF W
<1>5. /\ MapOK(r, Keys, W)
      /\ Search(r, k) = Written(Search(d, k), val)
      /\ \A other \in Keys : other # k => Search(r, other) = Search(d, other)
  <2>1. MapOK(d, Keys, W) /\ \A w \in W : w = [ref |-> w.ref, type |-> w.type, v |-> w.v]
    BY <1>2 DEF W
  <2> QED BY <1>1, <1>3, <1>4, <2>1, KeyAssumption, InsertValueOK
<1>6. Search(d, k) \in W \cup {NilValue}
  BY KeyAssumption, PositionIs DEF W
<1>7. Search(r, k) # NilValue
  BY <1>3, <1>4, <1>5, <1>6
<1>8. Grown(r, d)
  BY KeyAssumption, InsertValueGrows
<1> QED
  BY <1>5, <1>7, <1>8 DEF W, Covers

(* The copy in a larger map, and what it leaves behind *)
LEMMA CopyKept ==
  ASSUME NEW d, MapOK(d, Keys, Held({1})), NEW size \in Nat \ {0}
  PROVE  /\ MapOK(CopyMap(NewMap(size), d), Keys, Held({1}))
         /\ MapOK(CopiedFrom(d), Keys, Held({1, 2}))
         /\ Grown(CopiedFrom(d), d)
         /\ SameContents(CopyMap(NewMap(size), d), CopiedFrom(d))
         /\ SameContents(CopiedFrom(d), d)
<1> DEFINE W == Held({1})
           X == Held({1, 2})
<1>1. \A w \in W : Counted(w) \in X /\ Plain(Counted(w)) = Plain(w)
  BY DEF Held, Counted, Plain
<1>2. NilValue \notin W
  BY NilNotHeld
<1> HIDE DEF W, X
<1>3. MapOK(d, Keys, W)
  BY DEF W
<1>4. /\ MapOK(CopyMap(NewMap(size), d), Keys, W)
      /\ \A k \in Keys : Search(CopyMap(NewMap(size), d), k) = Search(d, k)
  BY <1>2, <1>3, KeyAssumption, CopyMapOK
<1>5. /\ MapOK(CopiedFrom(d), Keys, X)
      /\ \A k \in Keys : Search(CopiedFrom(d), k) =
           IF Search(d, k) = NilValue THEN NilValue ELSE Counted(Search(d, k))
  BY <1>1, <1>2, <1>3, KeyAssumption, CopiedFromOK
<1>6. \A k \in Keys : Search(d, k) \in W \cup {NilValue}
  BY <1>3, KeyAssumption, PositionIs
<1>7. \A k \in Keys : Plain(Search(CopiedFrom(d), k)) = Plain(Search(d, k))
  BY <1>1, <1>5, <1>6
<1>8. Grown(CopiedFrom(d), d)
  BY KeyAssumption, CopiedFromGrows
<1> QED
  BY <1>4, <1>5, <1>7, <1>8 DEF SameContents, W, X

(* Maps with the same contents have the same keys. *)
LEMMA SameCovers ==
  ASSUME NEW refs, NEW d, MapOK(d, Keys, Held(refs)), NEW some, NEW e, MapOK(e, Keys, Held(some)),
         SameContents(d, e)
  PROVE  Covers(d, e) /\ Covers(e, d)
<1>1. \A k \in Keys : /\ Search(d, k) \in Held(refs) \cup {NilValue}
                       /\ Search(e, k) \in Held(some) \cup {NilValue}
                       /\ Plain(Search(d, k)) = Plain(Search(e, k))
  BY KeyAssumption, PositionIs DEF SameContents
<1>2. \A any : \A w \in Held(any) : Plain(w).type # "NIL"
  BY TypeAssumption DEF Held, Plain
<1>3. Plain(NilValue).type = "NIL"
  BY DEF Plain, NilValue
<1> QED
  BY <1>1, <1>2, <1>3 DEF Covers

LEMMA CoversTrans ==
  ASSUME NEW c, NEW d, NEW e, Covers(c, d), Covers(d, e)
  PROVE  Covers(c, e)
BY DEF Covers

LEMMA CoversSelf == \A d : Covers(d, d)
BY DEF Covers

LEMMA GrownSelf ==
  ASSUME NEW refs, NEW d, MapOK(d, Keys, Held(refs))
  PROVE  Grown(d, d)
<1>1. \A h \in 0 .. d.size - 1 : d.data[h] \in Seq(NodeSet(Keys, Held(refs)))
  BY KeyAssumption, Chains
<1>2. \A h \in 0 .. d.size - 1 : Len(d.data[h]) \in Nat
  BY <1>1
<1> QED
  BY <1>2 DEF Grown

-----------------------------------------------------------------------------
(* Calls that walk a map while it grows *)

LEMMA JobFields ==
  ASSUME NEW j \in Jobs
  PROVE  /\ j.key \in Keys \cup {NilValue}
         /\ j.val \in Held({0}) \cup {NilValue}
         /\ j.res \in Held({1, 2}) \cup {NilValue}
         /\ j.cap \in Nat
         /\ j.out \in Seq(Keys)
         /\ j.fresh \in BOOLEAN
         /\ j.snap \in SUBSET Keys
         /\ j.cur = <<j.cur[1], j.cur[2]>>
         /\ j.cur[1] \in Nat /\ j.cur[2] \in Nat \ {0}
         /\ j.op \in {"none", "get", "set_string", "size", "keys", "set"}
BY DEF Jobs

LEMMA SetCur ==
  ASSUME NEW j \in Jobs, NEW cur
  PROVE  [j EXCEPT !.cur = cur] =
           [op |-> j.op, key |-> j.key, val |-> j.val, cur |-> cur, res |-> j.res,
            cap |-> j.cap, out |-> j.out, fresh |-> j.fresh, snap |-> j.snap]
BY DEF Jobs

LEMMA WalkKept ==
  ASSUME NEW j \in Jobs, j.key \in Keys, NEW refs, NEW d, MapOK(d, Keys, Held(refs)),
         NEW r, Grown(r, d), WalkOK(d, j)
  PROVE  WalkOK(r, j)
<1> DEFINE h == hash(j.key, d.size)
<1>1. /\ h \in 0 .. d.size - 1
      /\ d.data[h] \in Seq(NodeSet(Keys, Held(refs)))
  BY KeyAssumption, Chains
<1>2. r.size = d.size
  BY DEF Grown
<1> HIDE DEF h
<1>3. Chain(d, j.key) = d.data[h] /\ Chain(r, j.key) = r.data[h]
  BY <1>2 DEF Chain, h
<1>4. /\ Len(d.data[h]) <= Len(r.data[h])
      /\ \A i \in 1 .. Len(d.data[h]) : NodeKey(r.data[h][i]) = NodeKey(d.data[h][i])
  BY <1>1 DEF Grown
<1> DEFINE i == j.cur[2]
<1>5. i \in Nat /\ Len(d.data[h]) \in Nat
  BY <1>1, JobFields
<1>6. /\ i <= Len(d.data[h]) + 1
      /\ \A n \in 1 .. i - 1 : NodeKey(d.data[h][n]) # j.key
  BY <1>3, Zenon DEF WalkOK
<1> HIDE DEF i
<1>7. i <= Len(r.data[h]) + 1
  <2>1. Len(r.data[h]) + 1 >= Len(d.data[h]) + 1
    BY <1>4, <1>5
  <2> QED BY <1>5, <1>6, <2>1
<1>8. \A n \in 1 .. i - 1 : NodeKey(r.data[h][n]) # j.key
  BY <1>4, <1>5, <1>6
<1> QED
  BY <1>3, <1>7, <1>8, Zenon DEF WalkOK, i

LEMMA ScanKept ==
  ASSUME NEW j \in Jobs, NEW refs, NEW d, MapOK(d, Keys, Held(refs)),
         NEW some, NEW r, MapOK(r, Keys, Held(some)), Grown(r, d), ScanOK(d, j)
  PROVE  ScanOK(r, j)
<1>1. r.size = d.size
  BY DEF Grown
<1>2. ASSUME NEW h \in 0 .. d.size - 1, NEW i \in DOMAIN d.data[h]
      PROVE  i \in DOMAIN r.data[h] /\ NodeKey(r.data[h][i]) = NodeKey(d.data[h][i])
  <2>1. /\ DOMAIN d.data[h] = 1 .. Len(d.data[h]) /\ Len(d.data[h]) \in Nat
        /\ DOMAIN r.data[h] = 1 .. Len(r.data[h]) /\ Len(r.data[h]) \in Nat
    <3>1. d.data[h] \in Seq(NodeSet(Keys, Held(refs))) /\ r.data[h] \in Seq(NodeSet(Keys, Held(some)))
      BY <1>1, KeyAssumption, Chains
    <3> QED BY <3>1
  <2>2. /\ Len(d.data[h]) <= Len(r.data[h])
        /\ \A n \in 1 .. Len(d.data[h]) : NodeKey(r.data[h][n]) = NodeKey(d.data[h][n])
    BY DEF Grown
  <2> QED BY <2>1, <2>2
<1>3. ASSUME NEW n \in DOMAIN j.out
      PROVE  \E h \in 0 .. r.size - 1 : \E i \in DOMAIN r.data[h] :
               Before(h, i, j.cur) /\ NodeKey(r.data[h][i]) = j.out[n]
  <2>1. PICK h \in 0 .. d.size - 1 : \E i \in DOMAIN d.data[h] :
          Before(h, i, j.cur) /\ NodeKey(d.data[h][i]) = j.out[n]
    BY DEF ScanOK
  <2>2. PICK i \in DOMAIN d.data[h] :
          Before(h, i, j.cur) /\ NodeKey(d.data[h][i]) = j.out[n]
    BY <2>1
  <2> QED BY <2>2, <1>1, <1>2
<1>4. ASSUME NEW k \in j.snap \ ToSet(j.out)
      PROVE  \E h \in 0 .. r.size - 1 : \E i \in DOMAIN r.data[h] :
               ~Before(h, i, j.cur) /\ NodeKey(r.data[h][i]) = k
  <2>1. PICK h \in 0 .. d.size - 1 : \E i \in DOMAIN d.data[h] :
          ~Before(h, i, j.cur) /\ NodeKey(d.data[h][i]) = k
    BY DEF ScanOK
  <2>2. PICK i \in DOMAIN d.data[h] :
          ~Before(h, i, j.cur) /\ NodeKey(d.data[h][i]) = k
    BY <2>1
  <2> QED BY <2>2, <1>1, <1>2
<1>5. j.cur[1] <= r.size
  BY <1>1 DEF ScanOK
<1> QED
  BY <1>3, <1>4, <1>5 DEF ScanOK

(* A setter's step: the map a call walks has grown, or nobody walks it, and *)
(* the current map has lost no key.                                         *)
LEMMA CallKept ==
  ASSUME NEW l, NEW j, NEW d, NEW e, CallOK(l, j, d, e),
         NEW r, NEW f, Covers(f, e),
         l \in {"search", "gm_unlock", "scan"} =>
           /\ MapOK(d, Keys, Held({1, 2})) /\ MapOK(r, Keys, Held({1, 2}))
           /\ Grown(r, d)
  PROVE  CallOK(l, j, r, f)
<1>1. JobOK(l, j) /\ j \in Jobs
  BY DEF CallOK, JobOK
<1>2. ASSUME l = "search" PROVE WalkOK(r, j)
  <2>1. j.key \in Keys
    BY <1>1, <1>2 DEF JobOK
  <2> QED BY <1>1, <1>2, <2>1, WalkKept DEF CallOK
<1>3. ASSUME j.op = "keys", l \in {"gm_unlock", "scan"} PROVE ScanOK(r, j)
  BY <1>1, <1>3, ScanKept DEF CallOK
<1>4. ASSUME j.op = "keys", NEW n \in DOMAIN j.out PROVE Search(f, j.out[n]) # NilValue
  <2>1. j.out[n] \in Keys
    <3>1. j.out \in Seq(Keys)
      BY <1>1, JobFields
    <3> QED BY <3>1
  <2> QED BY <1>4, <2>1 DEF CallOK, Covers
<1> QED
  BY <1>1, <1>2, <1>3, <1>4 DEF CallOK

(* keys() takes the next node. *)
Takes(q, j, d) ==
  q = [j EXCEPT !.cur[2] = j.cur[2] + 1, !.out = Append(@, NodeKey(d.data[j.cur[1]][j.cur[2]]))]

LEMMA ScanTakes ==
  ASSUME NEW j \in Jobs, NEW refs, NEW d, MapOK(d, Keys, Held(refs)), ScanOK(d, j), OutOK(j),
         j.cur[1] < d.size, j.cur[2] <= Len(d.data[j.cur[1]]), Len(j.out) < j.cap - 1,
         NEW q, Takes(q, j, d)
  PROVE  /\ q \in Jobs
         /\ ScanOK(d, q)
         /\ OutOK(q)
         /\ q.out = Append(j.out, NodeKey(d.data[j.cur[1]][j.cur[2]]))
         /\ NodeKey(d.data[j.cur[1]][j.cur[2]]) \in Keys
         /\ q.op = j.op /\ q.key = j.key /\ q.cap = j.cap /\ q.snap = j.snap
<1> DEFINE b == j.cur[1]
           i == j.cur[2]
           c == d.data[b]
           k == NodeKey(c[i])
<1>1. /\ b \in Nat /\ i \in Nat \ {0} /\ j.cur = <<b, i>> /\ j.out \in Seq(Keys)
      /\ j.snap \in SUBSET Keys /\ j.cap \in Nat
  BY JobFields
<1>2. /\ d.size \in Nat \ {0}
      /\ \A h \in 0 .. d.size - 1 : DOMAIN d.data[h] = 1 .. Len(d.data[h])
  <2>1. d.size \in Nat \ {0} /\ \A h \in 0 .. d.size - 1 : d.data[h] \in Seq(NodeSet(Keys, Held(refs)))
    BY KeyAssumption, Chains
  <2> QED BY <2>1
<1>3. b \in 0 .. d.size - 1
  BY <1>1, <1>2
<1>4. i \in DOMAIN c
  BY <1>1, <1>2, <1>3
<1>5. k \in Keys /\ hash(k, d.size) = b
  BY <1>3, <1>4, KeyAssumption, SearchFinds
<1>6. /\ q.cur = <<b, i + 1>> /\ q.cur[1] = b /\ q.cur[2] = i + 1
      /\ q.out = Append(j.out, k)
      /\ q = [op |-> j.op, key |-> j.key, val |-> j.val, cur |-> q.cur, res |-> j.res,
              cap |-> j.cap, out |-> q.out, fresh |-> j.fresh, snap |-> j.snap]
  <2> HIDE DEF k, b, i
  <2>1. q = [[j EXCEPT !.cur = <<b, i + 1>>] EXCEPT !.out = Append(j.out, k)]
    <3>1. [j.cur EXCEPT ![2] = i + 1] = <<b, i + 1>>
      BY <1>1
    <3>2. q = [[j EXCEPT !.cur = [j.cur EXCEPT ![2] = i + 1]] EXCEPT !.out = Append(j.out, k)]
      BY Zenon DEF Takes, k, b, i
    <3> QED BY <3>1, <3>2
  <2> DEFINE x == [j EXCEPT !.cur = <<b, i + 1>>]
  <2>2. x = [op |-> j.op, key |-> j.key, val |-> j.val, cur |-> <<b, i + 1>>, res |-> j.res,
             cap |-> j.cap, out |-> j.out, fresh |-> j.fresh, snap |-> j.snap]
    BY SetCur
  <2>3. q = [x EXCEPT !.out = Append(j.out, k)]
    BY <2>1
  <2> HIDE DEF x
  <2>4. q = [op |-> j.op, key |-> j.key, val |-> j.val, cur |-> <<b, i + 1>>, res |-> j.res,
             cap |-> j.cap, out |-> Append(j.out, k), fresh |-> j.fresh, snap |-> j.snap]
    BY <2>2, <2>3
  <2>5. q.cur = <<b, i + 1>> /\ q.out = Append(j.out, k)
    BY <2>4
  <2>6. q.cur[1] = b /\ q.cur[2] = i + 1
    BY <2>5
  <2> QED BY <2>4, <2>5, <2>6
<1> HIDE DEF c, k, b, i
<1>7. q \in Jobs
  <2>1. q.cur \in Nat \X (Nat \ {0}) /\ q.out \in Seq(Keys)
    BY <1>1, <1>5, <1>6
  <2>2. /\ j.op \in {"none", "get", "set_string", "size", "keys", "set"}
        /\ j.key \in Keys \cup {NilValue}
        /\ j.val \in Held({0}) \cup {NilValue}
        /\ j.res \in Held({1, 2}) \cup {NilValue}
        /\ j.cap \in Nat /\ j.fresh \in BOOLEAN /\ j.snap \in SUBSET Keys
    BY JobFields
  <2>3. [op |-> j.op, key |-> j.key, val |-> j.val, cur |-> q.cur, res |-> j.res, cap |-> j.cap,
         out |-> q.out, fresh |-> j.fresh, snap |-> j.snap] \in Jobs
    BY <2>1, <2>2 DEF Jobs
  <2> QED BY <1>6, <2>3
<1>8. /\ Len(j.out) \in Nat /\ DOMAIN j.out = 1 .. Len(j.out)
      /\ q.cap = j.cap /\ q.snap = j.snap
      /\ DOMAIN q.out = 1 .. Len(j.out) + 1 /\ Len(q.out) = Len(j.out) + 1
      /\ \A n \in 1 .. Len(j.out) : q.out[n] = j.out[n]
      /\ q.out[Len(j.out) + 1] = k
  BY <1>1, <1>6
(* The node was ahead, so its key is new. *)
<1>9. ASSUME NEW n \in 1 .. Len(j.out) PROVE j.out[n] # k
  <2>1. PICK h \in 0 .. d.size - 1 : \E g \in DOMAIN d.data[h] :
          Before(h, g, j.cur) /\ NodeKey(d.data[h][g]) = j.out[n]
    BY <1>8 DEF ScanOK
  <2>2. PICK g \in DOMAIN d.data[h] : Before(h, g, j.cur) /\ NodeKey(d.data[h][g]) = j.out[n]
    BY <2>1
  <2>3. hash(j.out[n], d.size) = h
    BY <2>2, KeyAssumption, SearchFinds
  <2>4. ASSUME j.out[n] = k PROVE FALSE
    <3>1. h = b
      BY <2>3, <2>4, <1>5
    <3>2. g \in DOMAIN c /\ NodeKey(c[g]) = NodeKey(c[i])
      BY <3>1, <2>2, <2>4 DEF c, k
    <3>3. g = i
      BY <3>2, <1>3, <1>4 DEF MapOK, c
    <3> QED BY <3>1, <3>3, <2>2, <1>1, <1>2, <1>3 DEF Before
  <2> QED BY <2>4
<1>10. OutOK(q)
  <2>1. \A n, o \in 1 .. Len(j.out) : j.out[n] = j.out[o] => n = o
    BY <1>8 DEF OutOK
  <2>2. ASSUME NEW n \in 1 .. Len(j.out) + 1, NEW o \in 1 .. Len(j.out) + 1, q.out[n] = q.out[o]
        PROVE  n = o
    <3>1. CASE n \in 1 .. Len(j.out) /\ o \in 1 .. Len(j.out)
      BY <3>1, <2>1, <2>2, <1>8
    <3>2. CASE n = Len(j.out) + 1 /\ o \in 1 .. Len(j.out)
      BY <3>2, <2>2, <1>8, <1>9
    <3>3. CASE n \in 1 .. Len(j.out) /\ o = Len(j.out) + 1
      BY <3>3, <2>2, <1>8, <1>9
    <3>4. CASE n = Len(j.out) + 1 /\ o = Len(j.out) + 1
      BY <3>4
    <3> QED BY <3>1, <3>2, <3>3, <3>4, <1>8
  <2>3. Len(q.out) <= q.cap - 1
    BY <1>1, <1>6, <1>8
  <2>4. DOMAIN q.out = 1 .. Len(j.out) + 1
    BY <1>8
  <2>5. \A n, o \in DOMAIN q.out : q.out[n] = q.out[o] => n = o
    BY <2>2, <2>4, Zenon
  <2> QED BY <2>3, <2>5, Zenon DEF OutOK
<1>11. \A h \in 0 .. d.size - 1 : \A g \in DOMAIN d.data[h] :
         Before(h, g, q.cur) <=> Before(h, g, j.cur) \/ (h = b /\ g = i)
  <2> SUFFICES ASSUME NEW h \in 0 .. d.size - 1, NEW g \in DOMAIN d.data[h]
               PROVE  Before(h, g, q.cur) <=> Before(h, g, j.cur) \/ (h = b /\ g = i)
    OBVIOUS
  <2>1. g \in Nat /\ i \in Nat
    <3>1. g \in 1 .. Len(d.data[h])
      BY <1>2, Zenon
    <3> QED BY <1>1, <3>1
  <2>2. Before(h, g, q.cur) <=> h < b \/ (h = b /\ g < i + 1)
    <3> HIDE DEF b, i
    <3> QED BY <1>6, Zenon DEF Before
  <2>3. Before(h, g, j.cur) <=> h < b \/ (h = b /\ g < i)
    BY <1>1, <2>1 DEF Before
  <2> HIDE DEF i, b
  <2>4. g < i + 1 <=> g < i \/ g = i
    BY <2>1
  <2> QED BY <2>2, <2>3, <2>4, Zenon
<1>12. ASSUME NEW n \in DOMAIN q.out
       PROVE  \E h \in 0 .. d.size - 1 : \E g \in DOMAIN d.data[h] :
                Before(h, g, q.cur) /\ NodeKey(d.data[h][g]) = q.out[n]
  <2>1. CASE n \in 1 .. Len(j.out)
    <3>1. PICK h \in 0 .. d.size - 1 : \E g \in DOMAIN d.data[h] :
            Before(h, g, j.cur) /\ NodeKey(d.data[h][g]) = j.out[n]
      BY <2>1, <1>8 DEF ScanOK
    <3>2. PICK g \in DOMAIN d.data[h] : Before(h, g, j.cur) /\ NodeKey(d.data[h][g]) = j.out[n]
      BY <3>1
    <3> QED BY <3>2, <2>1, <1>8, <1>11
  <2>2. CASE n = Len(j.out) + 1
    <3>1. i \in DOMAIN d.data[b]
      BY <1>4 DEF c
    <3> HIDE DEF b, i
    <3>2. NodeKey(d.data[b][i]) = q.out[n]
      BY <2>2, <1>8, Zenon DEF c, k
    <3>3. Before(b, i, q.cur)
      BY <3>1, <1>3, <1>11, Zenon
    <3> QED BY <3>1, <3>2, <3>3, <1>3, Zenon
  <2>3. n \in 1 .. Len(j.out) + 1 /\ Len(j.out) \in Nat
    BY <1>8, Zenon
  <2>4. n \in 1 .. Len(j.out) \/ n = Len(j.out) + 1
    BY <2>3
  <2> QED BY <2>1, <2>2, <2>4, Zenon
<1>13. ASSUME NEW x \in q.snap \ ToSet(q.out)
       PROVE  \E h \in 0 .. d.size - 1 : \E g \in DOMAIN d.data[h] :
                ~Before(h, g, q.cur) /\ NodeKey(d.data[h][g]) = x
  <2>1. x \in j.snap \ ToSet(j.out) /\ x # k
    <3>1. /\ ToSet(q.out) = {q.out[n] : n \in 1 .. Len(j.out) + 1}
          /\ ToSet(j.out) = {j.out[n] : n \in 1 .. Len(j.out)}
      BY <1>8 DEF ToSet
    <3> QED BY <3>1, <1>8
  <2>2. PICK h \in 0 .. d.size - 1 : \E g \in DOMAIN d.data[h] :
          ~Before(h, g, j.cur) /\ NodeKey(d.data[h][g]) = x
    BY <2>1 DEF ScanOK
  <2>3. PICK g \in DOMAIN d.data[h] : ~Before(h, g, j.cur) /\ NodeKey(d.data[h][g]) = x
    BY <2>2
  <2>4. ~(h = b /\ g = i)
    BY <2>1, <2>3 DEF c, k
  <2> QED BY <2>3, <2>4, <1>11
<1>14. q.cur[1] <= d.size
  BY <1>2, <1>3, <1>6
<1>15. ScanOK(d, q)
  BY <1>12, <1>13, <1>14 DEF ScanOK
<1> QED
  BY <1>5, <1>6, <1>7, <1>10, <1>15 DEF c, k, b, i

-----------------------------------------------------------------------------
(* A call with one field set *)

LEMMA JobOp ==
  ASSUME NEW j \in Jobs, NEW x \in {"none", "get", "set_string", "size", "keys", "set"}, NEW q, q = [j EXCEPT !.op = x]
  PROVE  /\ q \in Jobs
         /\ q.op = x
         /\ q.key = j.key /\ q.val = j.val /\ q.cur = j.cur /\ q.res = j.res
         /\ q.cap = j.cap /\ q.out = j.out /\ q.fresh = j.fresh /\ q.snap = j.snap
BY DEF Jobs

LEMMA JobKey ==
  ASSUME NEW j \in Jobs, NEW x \in Keys \cup {NilValue}, NEW q, q = [j EXCEPT !.key = x]
  PROVE  /\ q \in Jobs
         /\ q.key = x
         /\ q.op = j.op /\ q.val = j.val /\ q.cur = j.cur /\ q.res = j.res
         /\ q.cap = j.cap /\ q.out = j.out /\ q.fresh = j.fresh /\ q.snap = j.snap
BY DEF Jobs

LEMMA JobVal ==
  ASSUME NEW j \in Jobs, NEW x \in Held({0}) \cup {NilValue}, NEW q, q = [j EXCEPT !.val = x]
  PROVE  /\ q \in Jobs
         /\ q.val = x
         /\ q.op = j.op /\ q.key = j.key /\ q.cur = j.cur /\ q.res = j.res
         /\ q.cap = j.cap /\ q.out = j.out /\ q.fresh = j.fresh /\ q.snap = j.snap
BY DEF Jobs

LEMMA JobCur ==
  ASSUME NEW j \in Jobs, NEW x \in Nat \X (Nat \ {0}), NEW q, q = [j EXCEPT !.cur = x]
  PROVE  /\ q \in Jobs
         /\ q.cur = x
         /\ q.op = j.op /\ q.key = j.key /\ q.val = j.val /\ q.res = j.res
         /\ q.cap = j.cap /\ q.out = j.out /\ q.fresh = j.fresh /\ q.snap = j.snap
BY DEF Jobs

LEMMA JobCap ==
  ASSUME NEW j \in Jobs, NEW x \in Nat, NEW q, q = [j EXCEPT !.cap = x]
  PROVE  /\ q \in Jobs
         /\ q.cap = x
         /\ q.op = j.op /\ q.key = j.key /\ q.val = j.val /\ q.cur = j.cur
         /\ q.res = j.res /\ q.out = j.out /\ q.fresh = j.fresh /\ q.snap = j.snap
BY DEF Jobs

LEMMA JobFresh ==
  ASSUME NEW j \in Jobs, NEW x \in BOOLEAN, NEW q, q = [j EXCEPT !.fresh = x]
  PROVE  /\ q \in Jobs
         /\ q.fresh = x
         /\ q.op = j.op /\ q.key = j.key /\ q.val = j.val /\ q.cur = j.cur
         /\ q.res = j.res /\ q.cap = j.cap /\ q.out = j.out /\ q.snap = j.snap
BY DEF Jobs

LEMMA JobSnap ==
  ASSUME NEW j \in Jobs, NEW x \in SUBSET Keys, NEW q, q = [j EXCEPT !.snap = x]
  PROVE  /\ q \in Jobs
         /\ q.snap = x
         /\ q.op = j.op /\ q.key = j.key /\ q.val = j.val /\ q.cur = j.cur
         /\ q.res = j.res /\ q.cap = j.cap /\ q.out = j.out /\ q.fresh = j.fresh
BY DEF Jobs

LEMMA JobRes ==
  ASSUME NEW j \in Jobs, NEW x \in Held({1, 2}) \cup {NilValue}, NEW q, q = [j EXCEPT !.res = x]
  PROVE  /\ q \in Jobs
         /\ q.res = x
         /\ q.op = j.op /\ q.key = j.key /\ q.val = j.val /\ q.cur = j.cur
         /\ q.cap = j.cap /\ q.out = j.out /\ q.fresh = j.fresh /\ q.snap = j.snap
BY DEF Jobs

(* The walk of call j ends with value w. *)
Ended(j, w, f) == [j EXCEPT !.res = w, !.cur = <<0, 1>>, !.fresh = f]

LEMMA EndedJob ==
  ASSUME NEW j \in Jobs, NEW w \in Held({1, 2}) \cup {NilValue}, NEW f \in BOOLEAN
  PROVE  /\ Ended(j, w, f) \in Jobs
         /\ Ended(j, w, f).res = w /\ Ended(j, w, f).cur = <<0, 1>> /\ Ended(j, w, f).fresh = f
         /\ Ended(j, w, f).op = j.op /\ Ended(j, w, f).key = j.key /\ Ended(j, w, f).val = j.val
         /\ Ended(j, w, f).cap = j.cap /\ Ended(j, w, f).out = j.out /\ Ended(j, w, f).snap = j.snap
<1> DEFINE a == [j EXCEPT !.res = w]
           b == [a EXCEPT !.cur = <<0, 1>>]
           c == [b EXCEPT !.fresh = f]
<1>1. /\ a \in Jobs /\ a.res = w /\ a.op = j.op /\ a.key = j.key /\ a.val = j.val
      /\ a.cap = j.cap /\ a.out = j.out /\ a.snap = j.snap
  BY JobRes
<1> HIDE DEF a
<1>2. /\ b \in Jobs /\ b.cur = <<0, 1>> /\ b.res = w /\ b.op = j.op /\ b.key = j.key /\ b.val = j.val
      /\ b.cap = j.cap /\ b.out = j.out /\ b.snap = j.snap
  <2>1. <<0, 1>> \in Nat \X (Nat \ {0})
    OBVIOUS
  <2> QED BY <1>1, <2>1, JobCur
<1> HIDE DEF b
<1>3. /\ c \in Jobs /\ c.fresh = f /\ c.cur = <<0, 1>> /\ c.res = w /\ c.op = j.op /\ c.key = j.key
      /\ c.val = j.val /\ c.cap = j.cap /\ c.out = j.out /\ c.snap = j.snap
  BY <1>2, JobFresh
<1> HIDE DEF c
<1>4. Ended(j, w, f) = c
  BY Zenon DEF Ended, c, b, a
<1> QED
  BY <1>3, <1>4

EndedIn(h, g, t, w, f) == h = [g EXCEPT ![t].res = w, ![t].cur = <<0, 1>>, ![t].fresh = f]

LEMMA EndsWalk ==
  ASSUME NEW g, NEW t \in DOMAIN g, NEW w, NEW f, NEW h, EndedIn(h, g, t, w, f)
  PROVE  /\ h[t] = Ended(g[t], w, f)
         /\ \A u \in DOMAIN g : u # t => h[u] = g[u]
<1> DEFINE a == [g EXCEPT ![t] = [g[t] EXCEPT !.res = w]]
           b == [a EXCEPT ![t] = [a[t] EXCEPT !.cur = <<0, 1>>]]
           c == [b EXCEPT ![t] = [b[t] EXCEPT !.fresh = f]]
<1>1. h = c
  BY Zenon DEF EndedIn
<1>2. /\ t \in DOMAIN a /\ DOMAIN a = DOMAIN g
      /\ a[t] = [g[t] EXCEPT !.res = w] /\ \A u \in DOMAIN g : u # t => a[u] = g[u]
  OBVIOUS
<1> HIDE DEF a
<1>3. /\ t \in DOMAIN b /\ DOMAIN b = DOMAIN g
      /\ b[t] = [a[t] EXCEPT !.cur = <<0, 1>>] /\ \A u \in DOMAIN g : u # t => b[u] = g[u]
  BY <1>2
<1> HIDE DEF b
<1>4. c[t] = [b[t] EXCEPT !.fresh = f] /\ \A u \in DOMAIN g : u # t => c[u] = g[u]
  BY <1>3
<1> HIDE DEF c
<1>5. c[t] = [[[g[t] EXCEPT !.res = w] EXCEPT !.cur = <<0, 1>>] EXCEPT !.fresh = f]
  BY <1>2, <1>3, <1>4, Zenon
<1>6. c[t] = Ended(g[t], w, f)
  BY <1>5, Zenon DEF Ended
<1> QED
  BY <1>1, <1>4, <1>6

(* ... or goes on to the next node. *)
NextCur(j) == [j EXCEPT !.cur[2] = j.cur[2] + 1]

LEMMA NextCurJob ==
  ASSUME NEW j \in Jobs
  PROVE  /\ NextCur(j) \in Jobs
         /\ NextCur(j).cur = <<j.cur[1], j.cur[2] + 1>>
         /\ NextCur(j).op = j.op /\ NextCur(j).key = j.key /\ NextCur(j).val = j.val
         /\ NextCur(j).res = j.res /\ NextCur(j).cap = j.cap /\ NextCur(j).out = j.out
         /\ NextCur(j).fresh = j.fresh /\ NextCur(j).snap = j.snap
<1>1. /\ j.cur[1] \in Nat /\ j.cur[2] \in Nat \ {0} /\ j.cur = <<j.cur[1], j.cur[2]>>
  BY JobFields
<1> DEFINE x == <<j.cur[1], j.cur[2] + 1>>
<1>2. [j.cur EXCEPT ![2] = j.cur[2] + 1] = x
  BY <1>1
<1>3. NextCur(j) = [j EXCEPT !.cur = [j.cur EXCEPT ![2] = j.cur[2] + 1]]
  BY Zenon DEF NextCur
<1>4. NextCur(j) = [j EXCEPT !.cur = x]
  BY <1>2, <1>3
<1>5. x \in Nat \X (Nat \ {0})
  BY <1>1
<1> HIDE DEF x
<1> DEFINE q == NextCur(j)
<1>6. q = [j EXCEPT !.cur = x]
  BY <1>4
<1> HIDE DEF q
<1>7. /\ q \in Jobs /\ q.cur = x
      /\ q.op = j.op /\ q.key = j.key /\ q.val = j.val /\ q.res = j.res
      /\ q.cap = j.cap /\ q.out = j.out /\ q.fresh = j.fresh /\ q.snap = j.snap
  BY <1>5, <1>6, JobCur
<1> QED
  BY <1>7 DEF q, x

-----------------------------------------------------------------------------
(* Steps that leave the maps alone *)

(* Thread t goes to label l with call j. *)
Quiet(t, l, j) ==
  /\ pc' = [pc EXCEPT ![t] = l]
  /\ job'[t] = j
  /\ \A u \in Threads \ {t} : job'[u] = job[u] /\ m'[u] = m[u] /\ nm'[u] = nm[u]
  /\ UNCHANGED <<map, data, live>>

LEMMA QuietKeeps ==
  ASSUME BaseInv, MapsInv, CallInv, NEW t \in Threads, NEW l, NEW j, Quiet(t, l, j),
         l \in Copied => nm'[t] = nm[t],
         pc[t] \in Copied <=> l \in Copied,
         l \in Holding => m'[t] = map \/ (pc[t] \in Holding /\ m'[t] = m[t]),
         CallOK(l, j, data[m'[t]], data[map])
  PROVE  MapsInv' /\ CallInv'
<1>1. /\ pc'[t] = l /\ job'[t] = j
      /\ \A u \in Threads : u # t =>
           pc'[u] = pc[u] /\ job'[u] = job[u] /\ m'[u] = m[u] /\ nm'[u] = nm[u]
      /\ map' = map /\ data' = data /\ live' = live
  BY DEF Quiet, BaseInv, TypeOK
<1>2. CallInv'
  <2>1. ASSUME NEW u \in Threads PROVE CallOK(pc'[u], job'[u], data[m'[u]], data[map])
    <3>1. CASE u = t
      BY <3>1, <1>1
    <3>2. CASE u # t
      BY <3>2, <1>1 DEF CallInv
    <3> QED BY <3>1, <3>2
  <2> QED BY <2>1, <1>1 DEF CallInv
<1>3. MapsInv'
  <2>1. \A x \in live' : MapOK(data'[x], Keys, Held({1, 2}))
    BY <1>1 DEF MapsInv
  <2>2. (\A u \in Threads : pc'[u] \notin Copied) => MapOK(data'[map'], Keys, Held({1}))
    BY <1>1 DEF MapsInv
  <2>3. ASSUME NEW u \in Threads, pc'[u] \in Copied
        PROVE  MapOK(data'[nm'[u]], Keys, Held({1})) /\ SameContents(data'[nm'[u]], data'[map'])
    <3>1. pc[u] \in Copied /\ nm'[u] = nm[u]
      BY <2>3, <1>1
    <3> QED BY <3>1, <1>1 DEF MapsInv
  <2>4. ASSUME NEW u \in Threads, pc'[u] \in Holding PROVE Covers(data'[map'], data'[m'[u]])
    <3>1. m'[u] = map \/ (pc[u] \in Holding /\ m'[u] = m[u])
      BY <2>4, <1>1
    <3> QED BY <3>1, <1>1, CoversSelf DEF MapsInv
  <2> QED BY <2>1, <2>2, <2>3, <2>4 DEF MapsInv
<1> QED
  BY <1>2, <1>3

(* A step that changes only the label leaves the call in order. *)
LEMMA JobGoesOn ==
  ASSUME NEW l, NEW k, NEW j, JobOK(l, j),
         \/ l = "gm_lock" /\ k = "gm_ref"
         \/ l = "gm_ref" /\ k = "gm_set"
         \/ l = "rm_read" /\ k = "rm_map"
         \/ l = "rm_map" /\ k = "rm_set"
         \/ l = "rm_set" /\ k \in {"rm_return", "rm_delete"}
         \/ l = "rm_delete" /\ k = "rm_return"
         \/ l = "rm_return" /\ k \in {"gm_lock", "ret"} /\ j.op \in {"get", "set_string"}
         \/ l = "rm_return" /\ k = "ret" /\ j.op = "keys"
         \/ l = "rm_return" /\ k = "us" /\ j.op = "set_string"
         \/ l = "gm_unlock" /\ k = "search" /\ j.op \in {"get", "set_string"}
         \/ l = "gm_unlock" /\ k = "size" /\ j.op = "size"
         \/ l = "gm_unlock" /\ k = "scan" /\ j.op = "keys"
         \/ l = "scan" /\ k = "rm_read"
         \/ l = "us" /\ k = "ret"
         \/ l = "tl_lock" /\ k = "ins"
         \/ l \in TableHeld \ {"ins"} /\ k \in (TableHeld \ {"ins"}) \cup {"ret"}
  PROVE  JobOK(k, j)
<1> USE DEF Reading, Leaving, TableHeld
<1>1. /\ j \in Jobs /\ j.op # "none"
      /\ j.op \in {"get", "set_string", "set"} => j.key \in Keys
  BY DEF JobOK
<1>2. /\ k # "idle"
      /\ k \in Reading => j.op # "set"
      /\ k = "search" => j.op \in {"get", "set_string"}
      /\ k = "size" => j.op = "size"
      /\ k = "scan" => j.op = "keys"
      /\ k = "us" => j.op = "set_string"
  BY DEF JobOK
<1>3. /\ k \in TableHeld \cup {"tl_lock"} => j.op \in {"set", "set_string"} /\ j.val \in Held({0})
      /\ k \in TableHeld \ {"ins"} => ~j.fresh
      /\ j.op = "size" => k \in Reading
      /\ j.op = "keys" => k \in Reading \cup {"ret"} /\ j.cap > 0
      /\ j.op = "size" /\ k \in Leaving => j.cap > 0
  BY DEF JobOK
<1>4. /\ j.op # "keys" \/ k \in {"gm_lock", "gm_ref", "gm_set", "gm_unlock"} => j.out = <<>>
      /\ (j.op # "keys" /\ k # "search") \/ k \in {"gm_lock", "gm_ref", "gm_set", "gm_unlock"} =>
           j.cur = <<0, 1>>
  BY DEF JobOK
<1> QED
  BY <1>1, <1>2, <1>3, <1>4 DEF JobOK

(* ... and, unless keys ends or a walk begins or ends, the call as a whole. *)
LEMMA CallGoesOn ==
  ASSUME NEW l, NEW k, NEW j, NEW d, NEW e, NEW r, NEW f, CallOK(l, j, d, e),
         JobOK(k, j), k \notin {"search", "gm_unlock", "scan"},
         j.op = "keys" /\ k \in Leaving \cup {"ret"} => l \in Leaving,
         f = e
  PROVE  CallOK(k, j, r, f)
BY DEF CallOK

LEMMA LabelStep ==
  ASSUME IInv, NEW t \in Threads, NEW k, Quiet(t, k, job[t]), JobOK(k, job[t]),
         k \notin {"search", "gm_unlock", "scan"},
         job[t].op = "keys" /\ k \in Leaving \cup {"ret"} => pc[t] \in Leaving,
         k \in Copied => nm'[t] = nm[t],
         pc[t] \in Copied <=> k \in Copied,
         k \in Holding => pc[t] \in Holding /\ m'[t] = m[t]
  PROVE  MapsInv' /\ CallInv'
<1>1. CallOK(pc[t], job[t], data[m[t]], data[map])
  BY DEF IInv, DataInv, CallInv
<1>2. CallOK(k, job[t], data[m'[t]], data[map])
  BY <1>1, CallGoesOn
<1> QED
  BY <1>2, QuietKeeps DEF IInv, DataInv

(* The same, for an action that may change data. *)
Moves(t, l, j) ==
  /\ pc' = [pc EXCEPT ![t] = l]
  /\ job'[t] = j
  /\ \A u \in Threads \ {t} : job'[u] = job[u] /\ m'[u] = m[u] /\ nm'[u] = nm[u]
  /\ UNCHANGED <<map, live>>

(* A step of t that neither offers nor deletes a map and does not end a     *)
(* walk in a replaced map.                                                  *)
LEMMA StaleMoved ==
  ASSUME BaseInv, StaleInv, NEW t \in Threads, NEW k, NEW j, Moves(t, k, j),
         mref' = mref,
         \A u \in Threads \ {t} : p'[u] = p[u] /\ old'[u] = old[u] /\ cnt'[u] = cnt[u],
         k \in Copied => pc[t] \in Copied /\ nm'[t] = nm[t],
         k = "um_delete" \/ (k = "um_unlock" /\ cnt'[t] = 0) =>
           \/ /\ pc[t] = "um_delete" \/ (pc[t] = "um_unlock" /\ cnt[t] = 0)
              /\ old'[t] = old[t]
           \/ mref[old'[t]] # 2,
         k \in Leaving /\ j.op \in {"get", "set_string"} /\ ~j.fresh =>
           pc[t] \in Leaving /\ j = job[t] /\ m'[t] = m[t] /\ (k = "rm_set" => p'[t] # m[t])
  PROVE  StaleInv'
<1>1. /\ pc'[t] = k /\ job'[t] = j
      /\ \A u \in Threads : u # t =>
           /\ pc'[u] = pc[u] /\ job'[u] = job[u] /\ m'[u] = m[u] /\ nm'[u] = nm[u]
           /\ p'[u] = p[u] /\ old'[u] = old[u] /\ cnt'[u] = cnt[u]
      /\ map' = map /\ live' = live
  BY DEF Moves, BaseInv, TypeOK
<1>2. ASSUME NEW s \in Threads, pc'[s] \in Leaving, job'[s].op \in {"get", "set_string"},
             ~job'[s].fresh
      PROVE  /\ m'[s] \in live' /\ m'[s] # map' /\ mref'[m'[s]] = 2
             /\ pc'[s] = "rm_set" => p'[s] # m'[s]
             /\ \A u \in Threads :
                  /\ pc'[u] \in Copied => nm'[u] # m'[s]
                  /\ pc'[u] = "um_delete" \/ (pc'[u] = "um_unlock" /\ cnt'[u] = 0) => old'[u] # m'[s]
  <2>1. /\ pc[s] \in Leaving /\ job[s].op \in {"get", "set_string"} /\ ~job[s].fresh
        /\ m'[s] = m[s]
    BY <1>1, <1>2
  <2>2. /\ m[s] \in live /\ m[s] # map /\ mref[m[s]] = 2
        /\ pc[s] = "rm_set" => p[s] # m[s]
        /\ \A u \in Threads :
             /\ pc[u] \in Copied => nm[u] # m[s]
             /\ pc[u] = "um_delete" \/ (pc[u] = "um_unlock" /\ cnt[u] = 0) => old[u] # m[s]
    BY <2>1 DEF StaleInv
  <2>3. pc'[s] = "rm_set" => p'[s] # m'[s]
    BY <1>1, <1>2, <2>1, <2>2
  <2>4. ASSUME NEW u \in Threads
        PROVE  /\ pc'[u] \in Copied => nm'[u] # m'[s]
               /\ pc'[u] = "um_delete" \/ (pc'[u] = "um_unlock" /\ cnt'[u] = 0) => old'[u] # m'[s]
    <3>1. CASE u = t
      BY <3>1, <1>1, <2>1, <2>2
    <3>2. CASE u # t
      BY <3>2, <1>1, <2>1, <2>2
    <3> QED BY <3>1, <3>2
  <2> QED BY <1>1, <2>1, <2>2, <2>3, <2>4
<1> QED
  BY <1>2 DEF StaleInv

LEMMA StaleKept ==
  ASSUME BaseInv, StaleInv, NEW t \in Threads, NEW k, NEW j, Quiet(t, k, j),
         mref' = mref,
         \A u \in Threads \ {t} : p'[u] = p[u] /\ old'[u] = old[u] /\ cnt'[u] = cnt[u],
         k \in Copied => pc[t] \in Copied /\ nm'[t] = nm[t],
         k = "um_delete" \/ (k = "um_unlock" /\ cnt'[t] = 0) =>
           \/ /\ pc[t] = "um_delete" \/ (pc[t] = "um_unlock" /\ cnt[t] = 0)
              /\ old'[t] = old[t]
           \/ mref[old'[t]] # 2,
         k \in Leaving /\ j.op \in {"get", "set_string"} /\ ~j.fresh =>
           pc[t] \in Leaving /\ j = job[t] /\ m'[t] = m[t] /\ (k = "rm_set" => p'[t] # m[t])
  PROVE  StaleInv'
<1>1. Moves(t, k, j)
  BY DEF Quiet, Moves
<1> QED
  BY <1>1, StaleMoved

(* _grab_map takes map_lock ... *)
LEMMA GrabLockData ==
  ASSUME IInv, NEW t \in Threads, GrabLock(t)
  PROVE  DataInv'
<1> USE DEF GrabLock, Goto
<1>1. Quiet(t, "gm_ref", job[t]) /\ pc[t] = "gm_lock"
  BY DEF Quiet
<1>2. JobOK("gm_ref", job[t])
  BY <1>1, JobGoesOn DEF IInv, DataInv, CallInv, CallOK
<1>3. MapsInv' /\ CallInv'
  BY <1>1, <1>2, LabelStep DEF Leaving, Copied, Holding
<1>4. StaleInv'
  BY <1>1, StaleKept DEF Leaving, Copied, IInv, DataInv
<1> QED
  BY <1>3, <1>4 DEF DataInv

(* ... and reads the count. *)
LEMMA GrabRefData ==
  ASSUME IInv, NEW t \in Threads, GrabRef(t)
  PROVE  DataInv'
<1> USE DEF GrabRef, Goto
<1>1. Quiet(t, "gm_set", job[t]) /\ pc[t] = "gm_ref"
  BY DEF Quiet
<1>2. JobOK("gm_set", job[t])
  BY <1>1, JobGoesOn DEF IInv, DataInv, CallInv, CallOK
<1>3. MapsInv' /\ CallInv'
  BY <1>1, <1>2, LabelStep DEF Leaving, Copied, Holding
<1>4. StaleInv'
  BY <1>1, StaleKept DEF Leaving, Copied, IInv, DataInv, BaseInv, TypeOK
<1> QED
  BY <1>3, <1>4 DEF DataInv

(* _release_map reads the count ... *)
LEMMA ReleaseReadData ==
  ASSUME IInv, NEW t \in Threads, ReleaseRead(t)
  PROVE  DataInv'
<1> USE DEF ReleaseRead, Goto
<1>1. Quiet(t, "rm_map", job[t]) /\ pc[t] = "rm_read"
  BY DEF Quiet
<1>2. JobOK("rm_map", job[t])
  BY <1>1, JobGoesOn DEF IInv, DataInv, CallInv, CallOK
<1>3. MapsInv' /\ CallInv'
  BY <1>1, <1>2, LabelStep DEF Leaving, Copied, Holding
<1>4. StaleInv'
  BY <1>1, StaleKept DEF Leaving, Copied, IInv, DataInv, BaseInv, TypeOK, StaleInv
<1> QED
  BY <1>3, <1>4 DEF DataInv

(* ... and this->map, which is not the map of a stale walk. *)
LEMMA ReleaseMapData ==
  ASSUME IInv, NEW t \in Threads, ReleaseMap(t)
  PROVE  DataInv'
<1> USE DEF ReleaseMap, Goto
<1>1. Quiet(t, "rm_set", job[t]) /\ pc[t] = "rm_map"
  BY DEF Quiet
<1>2. JobOK("rm_set", job[t])
  BY <1>1, JobGoesOn DEF IInv, DataInv, CallInv, CallOK
<1>3. MapsInv' /\ CallInv'
  BY <1>1, <1>2, LabelStep DEF Leaving, Copied, Holding
<1>4. StaleInv'
  BY <1>1, StaleKept DEF Leaving, Copied, IInv, DataInv, BaseInv, TypeOK, StaleInv
<1> QED
  BY <1>3, <1>4 DEF DataInv

(* set_string ends in the lstring. *)
LEMMA UpdateStringData ==
  ASSUME IInv, NEW t \in Threads, UpdateString(t)
  PROVE  DataInv'
<1> USE DEF UpdateString, Goto
<1>1. Quiet(t, "ret", job[t]) /\ pc[t] = "us"
  BY DEF Quiet
<1>2. JobOK("ret", job[t]) /\ job[t].op # "keys"
  BY <1>1, JobGoesOn DEF IInv, DataInv, CallInv, CallOK, JobOK
<1>3. MapsInv' /\ CallInv'
  BY <1>1, <1>2, LabelStep DEF Leaving, Copied, Holding
<1>4. StaleInv'
  BY <1>1, StaleKept DEF Leaving, Copied, IInv, DataInv, BaseInv, TypeOK, StaleInv
<1> QED
  BY <1>3, <1>4 DEF DataInv

(* _insert_table takes the table lock ... *)
LEMMA TableLockData ==
  ASSUME IInv, NEW t \in Threads, TableLock(t)
  PROVE  DataInv'
<1> USE DEF TableLock, Goto
<1>1. Quiet(t, "ins", job[t]) /\ pc[t] = "tl_lock"
  BY DEF Quiet
<1>2. JobOK("ins", job[t])
  BY <1>1, JobGoesOn DEF IInv, DataInv, CallInv, CallOK, TableHeld
<1>3. MapsInv' /\ CallInv'
  BY <1>1, <1>2, LabelStep DEF Leaving, Copied, Holding
<1>4. StaleInv'
  BY <1>1, StaleKept DEF Leaving, Copied, IInv, DataInv, BaseInv, TypeOK, StaleInv
<1> QED
  BY <1>3, <1>4 DEF DataInv

(* ... and gives it back. *)
LEMMA TableUnlockData ==
  ASSUME IInv, NEW t \in Threads, TableUnlock(t)
  PROVE  DataInv'
<1> USE DEF TableUnlock, Goto
<1>1. Quiet(t, "ret", job[t]) /\ pc[t] = "tl_unlock"
  BY DEF Quiet
<1>2. JobOK("ret", job[t]) /\ job[t].op # "keys"
  BY <1>1, JobGoesOn DEF IInv, DataInv, CallInv, CallOK, JobOK, TableHeld
<1>3. MapsInv' /\ CallInv'
  BY <1>1, <1>2, LabelStep DEF Leaving, Copied, Holding
<1>4. StaleInv'
  BY <1>1, StaleKept DEF Leaving, Copied, IInv, DataInv, BaseInv, TypeOK, StaleInv
<1> QED
  BY <1>3, <1>4 DEF DataInv

(* _update_map takes map_lock ... *)
LEMMA UpdateLockData ==
  ASSUME IInv, NEW t \in Threads, UpdateLock(t)
  PROVE  DataInv'
<1> USE DEF UpdateLock, Goto
<1>1. Quiet(t, "um_swap", job[t]) /\ pc[t] = "um_lock"
  BY DEF Quiet
<1>2. JobOK("um_swap", job[t])
  BY <1>1, JobGoesOn DEF IInv, DataInv, CallInv, CallOK, TableHeld
<1>3. MapsInv' /\ CallInv'
  BY <1>1, <1>2, LabelStep DEF Leaving, Copied, Holding
<1>4. StaleInv'
  BY <1>1, StaleKept DEF Leaving, Copied, IInv, DataInv, BaseInv, TypeOK, StaleInv
<1> QED
  BY <1>3, <1>4 DEF DataInv

(* ... reads the count of the map it replaced: 2 if a stale walk holds it *)
LEMMA UpdateRefData ==
  ASSUME IInv, NEW t \in Threads, UpdateRef(t)
  PROVE  DataInv'
<1> USE DEF UpdateRef, Goto
<1>1. Quiet(t, "um_unlock", job[t]) /\ pc[t] = "um_ref"
  BY DEF Quiet
<1>2. JobOK("um_unlock", job[t])
  BY <1>1, JobGoesOn DEF IInv, DataInv, CallInv, CallOK, TableHeld
<1>3. MapsInv' /\ CallInv'
  BY <1>1, <1>2, LabelStep DEF Leaving, Copied, Holding
<1>4. StaleInv'
  BY <1>1, StaleKept DEF Leaving, Copied, IInv, DataInv, BaseInv, TypeOK, StaleInv
<1> QED
  BY <1>3, <1>4 DEF DataInv

(* ... gives map_lock back, and goes on to delete the map or not ... *)
LEMMA UpdateUnlockData ==
  ASSUME IInv, NEW t \in Threads, UpdateUnlock(t)
  PROVE  DataInv'
<1> USE DEF UpdateUnlock, Goto
<1>1. PICK k \in {"um_delete", "tl_unlock"} :
        Quiet(t, k, job[t]) /\ (k = "um_delete" => cnt[t] = 0 /\ old' = old)
  BY DEF Quiet
<1>2. pc[t] = "um_unlock" /\ JobOK(k, job[t])
  BY <1>1, JobGoesOn DEF IInv, DataInv, CallInv, CallOK, TableHeld
<1>3. MapsInv' /\ CallInv'
  BY <1>1, <1>2, LabelStep DEF Leaving, Copied, Holding
<1>4. StaleInv'
  BY <1>1, <1>2, StaleKept DEF Leaving, Copied, IInv, DataInv, BaseInv, TypeOK, Drop, DropCount
<1> QED
  BY <1>3, <1>4 DEF DataInv

(* The loop of _search_map goes round again. *)
LEMMA SearchAgainData ==
  ASSUME IInv, NEW t \in Threads, SearchAgain(t)
  PROVE  DataInv'
<1> USE DEF SearchAgain, Goto
<1>1. Quiet(t, "gm_lock", job[t]) /\ pc[t] = "rm_return"
  BY DEF Quiet, IInv, BaseInv, TypeOK, Drop
<1>2. JobOK("gm_lock", job[t])
  BY <1>1, JobGoesOn DEF IInv, DataInv, CallInv, CallOK
<1>3. MapsInv' /\ CallInv'
  BY <1>1, <1>2, LabelStep DEF Leaving, Copied, Holding
<1>4. StaleInv'
  BY <1>1, StaleKept DEF Leaving, Copied, IInv, DataInv
<1> QED
  BY <1>3, <1>4 DEF DataInv

(* A call that walks no map is in order when its locals are. *)
LEMMA NoWalk ==
  ASSUME NEW l, NEW j, JobOK(l, j), l # "search", j.op # "keys", NEW d, NEW e
  PROVE  CallOK(l, j, d, e)
BY DEF CallOK

(* A step to a label where no map is held, with a call that walks no map. *)
LEMMA FreeStep ==
  ASSUME IInv, NEW t \in Threads, NEW l, NEW j, Quiet(t, l, j), JobOK(l, j), j.op # "keys",
         l \in {"idle", "gm_lock", "us", "tl_lock", "ret"},
         pc[t] \notin Copied,
         mref' = mref,
         \A u \in Threads \ {t} : p'[u] = p[u] /\ old'[u] = old[u] /\ cnt'[u] = cnt[u]
  PROVE  DataInv'
<1>1. CallOK(l, j, data[m'[t]], data[map])
  BY NoWalk
<1>2. l \notin Copied /\ l \notin Holding /\ l \notin Leaving /\ l # "um_delete" /\ l # "um_unlock"
  BY DEF Copied, Holding, Leaving
<1>3. MapsInv' /\ CallInv'
  BY <1>1, <1>2, QuietKeeps DEF IInv, DataInv
<1>4. StaleInv'
  BY <1>2, StaleKept DEF IInv, DataInv
<1> QED
  BY <1>3, <1>4 DEF DataInv

(* size is followed by keys, with its result as the capacity. *)
LEMMA ReleaseReturnData ==
  ASSUME IInv, NEW t \in Threads, ReleaseReturn(t)
  PROVE  DataInv'
<1>1. JobOK("rm_return", job[t]) /\ pc[t] = "rm_return" /\ job[t] \in Jobs
  BY DEF IInv, DataInv, CallInv, CallOK, JobOK, ReleaseReturn
<1>2. /\ t \in DOMAIN job
      /\ \A u \in Threads : u # t => m'[u] = m[u]
  BY DEF IInv, BaseInv, TypeOK, Drop, ReleaseReturn
<1>3. CASE job[t].op = "size"
  <2> DEFINE q == [job[t] EXCEPT !.op = "keys"]
  <2>1. Quiet(t, "gm_lock", q)
    <3>1. job' = [job EXCEPT ![t].op = "keys"] /\ Goto(t, "gm_lock")
          /\ UNCHANGED <<map, data, live, nm>>
      BY <1>3 DEF ReleaseReturn
    <3>2. job'[t] = q /\ \A u \in Threads : u # t => job'[u] = job[u]
      BY <1>2, <3>1
    <3> QED BY <1>2, <3>1, <3>2 DEF Quiet, Goto
  <2>2. /\ q \in Jobs /\ q.op = "keys" /\ q.key = job[t].key /\ q.cap = job[t].cap
        /\ q.cur = job[t].cur /\ q.out = job[t].out
    BY <1>1, JobOp
  <2> HIDE DEF q
  <2>3. /\ job[t].cap > 0 /\ job[t].cur = <<0, 1>> /\ job[t].out = <<>>
    BY <1>1, <1>3 DEF JobOK, Leaving
  <2>4. JobOK("gm_lock", q)
    BY <2>2, <2>3 DEF JobOK, Reading, TableHeld, Leaving
  <2>5. CallOK("gm_lock", q, data[m'[t]], data[map])
    <3>1. OutOK(q)
      <4>1. q.out = <<>> /\ q.cap \in Nat /\ q.cap > 0
        BY <1>1, <2>2, <2>3, JobFields
      <4> QED BY <4>1 DEF OutOK
    <3> QED BY <2>2, <2>3, <2>4, <3>1 DEF CallOK, Leaving
  <2>6. MapsInv' /\ CallInv'
    BY <1>1, <2>1, <2>5, QuietKeeps DEF IInv, DataInv, Copied, Holding
  <2>7. StaleInv'
    BY <2>1, StaleKept DEF Leaving, Copied, IInv, DataInv, ReleaseReturn
  <2> QED BY <2>6, <2>7 DEF DataInv
<1>4. CASE job[t].op = "keys"
  <2>1. Quiet(t, "ret", job[t])
    BY <1>2, <1>4 DEF Quiet, ReleaseReturn, Goto
  <2>2. JobOK("ret", job[t])
    BY <1>1, <1>4, JobGoesOn
  <2>3. MapsInv' /\ CallInv'
    BY <1>1, <2>1, <2>2, LabelStep DEF Leaving, Copied, Holding
  <2>4. StaleInv'
    BY <2>1, StaleKept DEF Leaving, Copied, IInv, DataInv, ReleaseReturn
  <2> QED BY <2>3, <2>4 DEF DataInv
<1> QED
  BY <1>3, <1>4 DEF ReleaseReturn

(* A get returns; set_string goes on by the type it found. *)
LEMMA SearchDoneData ==
  ASSUME IInv, NEW t \in Threads, SearchDone(t)
  PROVE  DataInv'
<1>1. JobOK("rm_return", job[t]) /\ pc[t] = "rm_return" /\ job[t] \in Jobs
      /\ job[t].op \in {"get", "set_string"}
  BY DEF IInv, DataInv, CallInv, CallOK, JobOK, SearchDone
<1>2. /\ t \in DOMAIN job
      /\ \A u \in Threads : u # t => m'[u] = m[u]
      /\ UNCHANGED <<map, live, mref, data, p, nm, old, cnt>>
  BY DEF IInv, BaseInv, TypeOK, Drop, SearchDone
<1>3. pc[t] \notin Copied
  BY <1>1 DEF Copied
<1>4. CASE \E l \in {"ret", "us"} :
              Goto(t, l) /\ UNCHANGED job /\ (l = "us" => job[t].op = "set_string")
  <2>1. PICK l \in {"ret", "us"} :
          Goto(t, l) /\ UNCHANGED job /\ (l = "us" => job[t].op = "set_string")
    BY <1>4
  <2>2. Quiet(t, l, job[t])
    BY <1>2, <2>1 DEF Quiet, Goto
  <2>3. JobOK(l, job[t])
    BY <1>1, <2>1, JobGoesOn
  <2> QED BY <1>1, <1>2, <1>3, <2>2, <2>3, FreeStep
<1>5. CASE /\ Goto(t, "tl_lock") /\ job[t].op = "set_string"
           /\ \E ls \in Strs :
                job' = [job EXCEPT ![t].val = [ref |-> 0, type |-> "STRING", v |-> ls]]
  <2>1. PICK ls \in Strs : job' = [job EXCEPT ![t].val = [ref |-> 0, type |-> "STRING", v |-> ls]]
    BY <1>5
  <2> DEFINE w == [ref |-> 0, type |-> "STRING", v |-> ls]
             q == [job[t] EXCEPT !.val = w]
  <2>2. w \in Held({0})
    BY DEF Held
  <2>3. Quiet(t, "tl_lock", q)
    BY <1>2, <1>5, <2>1 DEF Quiet, Goto
  <2> HIDE DEF w
  <2>4. /\ q \in Jobs /\ q.op = "set_string" /\ q.val = w /\ q.key = job[t].key /\ q.cap = job[t].cap
        /\ q.cur = job[t].cur /\ q.out = job[t].out
    BY <1>1, <1>5, <2>2, JobVal
  <2> HIDE DEF q
  <2>5. job[t].cur = <<0, 1>> /\ job[t].out = <<>> /\ job[t].key \in Keys
    BY <1>1, <1>5 DEF JobOK
  <2>6. JobOK("tl_lock", q)
    BY <2>2, <2>4, <2>5 DEF JobOK, Reading, TableHeld, Leaving
  <2> QED BY <1>1, <1>2, <1>3, <2>3, <2>4, <2>6, FreeStep
<1> QED
  BY <1>1, <1>4, <1>5 DEF SearchDone

LEMMA IdleJob == JobOK("idle", NoJob) /\ NoJob.op = "none"
<1>1. NoJob \in Jobs /\ NoJob.op = "none" /\ NoJob.cur = <<0, 1>> /\ NoJob.out = <<>>
  BY DEF NoJob, Jobs
<1> QED
  BY <1>1 DEF JobOK, Reading, TableHeld, Leaving

(* A call ends ... *)
LEMMA ReturnData ==
  ASSUME IInv, NEW t \in Threads, Return(t)
  PROVE  DataInv'
<1>1. /\ t \in DOMAIN job
      /\ pc[t] \notin Copied
      /\ UNCHANGED <<map, live, mref, data, m, p, nm, old, cnt>>
  BY DEF IInv, BaseInv, TypeOK, Return, Copied
<1>2. Quiet(t, "idle", NoJob)
  BY <1>1 DEF Quiet, Return, Goto
<1> QED
  BY <1>1, <1>2, IdleJob, FreeStep

(* ... and begins. *)
LEMMA CallData ==
  ASSUME IInv, NEW t \in Threads, NEW l, NEW j, Call(t, l, j), JobOK(l, j), j.op # "keys",
         l \in {"gm_lock", "tl_lock"}
  PROVE  DataInv'
<1>1. /\ t \in DOMAIN job
      /\ pc[t] \notin Copied
      /\ UNCHANGED <<map, live, mref, data, m, p, nm, old, cnt>>
  BY DEF IInv, BaseInv, TypeOK, Call, Copied
<1>2. Quiet(t, l, j)
  BY <1>1 DEF Quiet, Call, Goto
<1> QED
  BY <1>1, <1>2, FreeStep

(* The arguments of a call *)
LEMMA NewCall ==
  ASSUME NEW op \in {"get", "set_string", "set"}, NEW k \in Keys
  PROVE  LET j == [NoJob EXCEPT !.op = op, !.key = k]
         IN  /\ j \in Jobs /\ j.op = op /\ j.key = k /\ j.cur = <<0, 1>> /\ j.out = <<>>
             /\ op # "set" => JobOK("gm_lock", j)
<1> DEFINE q == [NoJob EXCEPT !.op = op]
           j == [q EXCEPT !.key = k]
<1>1. NoJob \in Jobs /\ NoJob.cur = <<0, 1>> /\ NoJob.out = <<>>
  BY DEF NoJob, Jobs
<1>2. q \in Jobs /\ q.op = op /\ q.cur = <<0, 1>> /\ q.out = <<>>
  BY <1>1, JobOp
<1> HIDE DEF q
<1>3. j \in Jobs /\ j.op = op /\ j.key = k /\ j.cur = <<0, 1>> /\ j.out = <<>>
  BY <1>2, JobKey
<1> HIDE DEF j
<1>4. op # "set" => JobOK("gm_lock", j)
  BY <1>3 DEF JobOK, Reading, TableHeld, Leaving
<1>5. j = [NoJob EXCEPT !.op = op, !.key = k]
  BY Zenon DEF j, q
<1> QED
  BY <1>3, <1>4, <1>5, Zenon

LEMMA CallGetData ==
  ASSUME IInv, NEW t \in Threads, CallGet(t)
  PROVE  DataInv'
<1>1. PICK k \in Keys : Call(t, "gm_lock", [NoJob EXCEPT !.op = "get", !.key = k])
  BY DEF CallGet
<1> DEFINE j == [NoJob EXCEPT !.op = "get", !.key = k]
<1>2. JobOK("gm_lock", j) /\ j.op = "get"
  BY NewCall, Zenon
<1>3. Call(t, "gm_lock", j)
  BY <1>1, Zenon
<1> HIDE DEF j
<1> QED
  BY <1>2, <1>3, CallData

LEMMA CallSetStringData ==
  ASSUME IInv, NEW t \in Threads, CallSetString(t)
  PROVE  DataInv'
<1>1. PICK k \in Keys : Call(t, "gm_lock", [NoJob EXCEPT !.op = "set_string", !.key = k])
  BY DEF CallSetString
<1> DEFINE j == [NoJob EXCEPT !.op = "set_string", !.key = k]
<1>2. JobOK("gm_lock", j) /\ j.op = "set_string"
  BY NewCall, Zenon
<1>3. Call(t, "gm_lock", j)
  BY <1>1, Zenon
<1> HIDE DEF j
<1> QED
  BY <1>2, <1>3, CallData

LEMMA CallKeysData ==
  ASSUME IInv, NEW t \in Threads, CallKeys(t)
  PROVE  DataInv'
<1> DEFINE j == [NoJob EXCEPT !.op = "size"]
<1>1. Call(t, "gm_lock", j)
  BY DEF CallKeys
<1>2. NoJob \in Jobs /\ NoJob.cur = <<0, 1>> /\ NoJob.out = <<>>
  BY DEF NoJob, Jobs
<1>3. j \in Jobs /\ j.op = "size" /\ j.cur = <<0, 1>> /\ j.out = <<>>
  BY <1>2, JobOp
<1> HIDE DEF j
<1>4. JobOK("gm_lock", j)
  BY <1>3 DEF JobOK, Reading, TableHeld, Leaving
<1> QED
  BY <1>1, <1>3, <1>4, CallData

LEMMA CallSetData ==
  ASSUME IInv, NEW t \in Threads, CallSet(t)
  PROVE  DataInv'
<1>1. PICK k \in Keys, type \in PlainTypes, b \in Bits :
        Call(t, "tl_lock", [NoJob EXCEPT !.op = "set", !.key = k,
                              !.val = [ref |-> 0, type |-> type, v |-> b]])
  BY DEF CallSet
<1> DEFINE w == [ref |-> 0, type |-> type, v |-> b]
           q == [NoJob EXCEPT !.op = "set", !.key = k]
           j == [q EXCEPT !.val = w]
<1>2. w \in Held({0})
  BY DEF Held
<1>3. Call(t, "tl_lock", j)
  BY <1>1, Zenon
<1> HIDE DEF w
<1>4. q \in Jobs /\ q.op = "set" /\ q.key = k /\ q.cur = <<0, 1>> /\ q.out = <<>>
  BY NewCall, Zenon
<1> HIDE DEF q
<1>5. /\ j \in Jobs /\ j.op = "set" /\ j.key = k /\ j.cur = <<0, 1>> /\ j.out = <<>>
      /\ j.val = w
  BY <1>2, <1>4, JobVal
<1> HIDE DEF j
<1>6. JobOK("tl_lock", j)
  BY <1>2, <1>5 DEF JobOK, Reading, TableHeld, Leaving
<1> QED
  BY <1>3, <1>5, <1>6, CallData

-----------------------------------------------------------------------------
(* Steps of the reader on the map it holds *)

(* The current map and a map the reader holds are in order. *)
LEMMA MapsUsed ==
  ASSUME IInv
  PROVE  /\ map \in live /\ MapOK(data[map], Keys, Held({1, 2}))
         /\ \A t \in Threads : pc[t] \in Holding =>
              /\ m[t] \in live /\ m[t] \in Maps /\ mref[m[t]] = 2
              /\ MapOK(data[m[t]], Keys, Held({1, 2}))
BY DEF IInv, BaseInv, LocalInv, CountInv, RefInv, DataInv, MapsInv, Holds

(* A single reader is the only thread with a walk behind it. *)
LEMMA OneStale ==
  ASSUME SingleReader, IInv, BaseInv', NEW t \in Threads, pc[t] \in Reading,
         pc'[t] \in Leaving /\ job'[t].op \in {"get", "set_string"} /\ ~job'[t].fresh =>
           /\ m'[t] \in live' /\ m'[t] # map' /\ mref'[m'[t]] = 2
           /\ pc'[t] = "rm_set" => p'[t] # m'[t]
           /\ \A u \in Threads :
                /\ pc'[u] \in Copied => nm'[u] # m'[t]
                /\ pc'[u] = "um_delete" \/ (pc'[u] = "um_unlock" /\ cnt'[u] = 0) => old'[u] # m'[t]
  PROVE  StaleInv'
<1>1. t \in Readers
  BY DEF IInv, BaseInv, LocalInv
<1>2. \A s \in Threads : pc'[s] \in Leaving => s \in Readers
  BY DEF BaseInv, LocalInv, Leaving, Reading
<1>3. \A s \in Threads : pc'[s] \in Leaving => s = t
  BY <1>1, <1>2 DEF SingleReader
<1> QED
  BY <1>3 DEF StaleInv

(* _grab_map takes the current map. *)
LEMMA GrabSetData ==
  ASSUME SingleReader, IInv, NEW t \in Threads, GrabSet(t)
  PROVE  DataInv'
<1> DEFINE S == IF job[t].op = "keys" THEN KeysIn(map) ELSE {}
           q == [job[t] EXCEPT !.snap = S]
           d == data[map]
<1>1. /\ pc[t] = "gm_set" /\ JobOK("gm_set", job[t]) /\ job[t] \in Jobs
      /\ t \in DOMAIN job /\ m'[t] = map
      /\ \A u \in Threads : u # t => m'[u] = m[u]
  BY DEF IInv, BaseInv, TypeOK, DataInv, CallInv, CallOK, JobOK, GrabSet
<1>2. MapOK(d, Keys, Held({1, 2}))
  BY MapsUsed
<1>3. KeysIn(map) = {k \in Keys : Search(d, k) # NilValue}
  BY <1>2, KeysInIs
<1>4. Quiet(t, "gm_unlock", q)
  <2>1. job' = [job EXCEPT ![t].snap = S] /\ Goto(t, "gm_unlock") /\ UNCHANGED <<map, data, live, nm>>
    BY DEF GrabSet
  <2> HIDE DEF S
  <2>2. job'[t] = q /\ \A u \in Threads : u # t => job'[u] = job[u]
    BY <1>1, <2>1
  <2> QED BY <1>1, <2>1, <2>2 DEF Quiet, Goto
<1>5. S \in SUBSET Keys
  BY <1>3
<1> HIDE DEF S
<1>6. /\ q \in Jobs /\ q.op = job[t].op /\ q.key = job[t].key /\ q.cap = job[t].cap
      /\ q.cur = job[t].cur /\ q.out = job[t].out /\ q.snap = S
  BY <1>1, <1>5, JobSnap
<1> HIDE DEF q
<1>7. q.cur = <<0, 1>> /\ q.out = <<>>
  BY <1>1, <1>6 DEF JobOK
<1>8. JobOK("gm_unlock", q)
  BY <1>1, <1>6, <1>7 DEF JobOK, Reading, TableHeld, Leaving
<1>9. ASSUME q.op = "keys" PROVE ScanOK(d, q)
  <2>1. d.size \in Nat \ {0} /\ \A h \in 0 .. d.size - 1 : d.data[h] \in Seq(NodeSet(Keys, Held({1, 2})))
    BY <1>2, KeyAssumption, Chains
  <2>2. \A h \in 0 .. d.size - 1 : \A i \in DOMAIN d.data[h] : ~Before(h, i, q.cur)
    BY <1>7, <2>1 DEF Before
  <2>3. ASSUME NEW k \in q.snap
        PROVE  \E h \in 0 .. d.size - 1 : \E i \in DOMAIN d.data[h] :
                 ~Before(h, i, q.cur) /\ NodeKey(d.data[h][i]) = k
    <3>1. k \in Keys /\ Search(d, k) # NilValue
      BY <1>3, <1>6, <1>9, <2>3 DEF S
    <3>2. PICK h \in 0 .. d.size - 1 : \E i \in DOMAIN d.data[h] : NodeKey(d.data[h][i]) = k
      BY <1>2, <3>1, KeyHasPlace
    <3> QED BY <2>2, <3>2
  <2>4. q.cur[1] = 0
    BY <1>7
  <2> QED BY <1>7, <2>1, <2>3, <2>4 DEF ScanOK
<1>10. CallOK("gm_unlock", q, d, d)
  <2>1. q.op = "keys" => OutOK(q)
    <3>1. q.op = "keys" => q.cap \in Nat /\ q.cap > 0
      BY <1>8, <1>6, JobFields DEF JobOK
    <3> QED BY <3>1, <1>7 DEF OutOK
  <2> QED BY <1>7, <1>8, <1>9, <2>1 DEF CallOK, Leaving
<1>11. MapsInv' /\ CallInv'
  BY <1>1, <1>4, <1>10, QuietKeeps DEF IInv, DataInv, Copied, Holding
<1>12. StaleInv'
  <2>1. pc'[t] = "gm_unlock"
    BY <1>1 DEF GrabSet, Goto, IInv, BaseInv, TypeOK
  <2> QED BY <1>1, <2>1, OneStale, GrabSetInv DEF IInv, Leaving, Reading
<1> QED
  BY <1>11, <1>12 DEF DataInv

(* _grab_map gives map_lock back, and the walk begins. *)
LEMMA GrabUnlockData ==
  ASSUME IInv, NEW t \in Threads, GrabUnlock(t)
  PROVE  DataInv'
<1> DEFINE j == job[t]
<1>1. /\ pc[t] = "gm_unlock" /\ JobOK("gm_unlock", j) /\ j \in Jobs
      /\ CallOK("gm_unlock", j, data[m[t]], data[map])
      /\ j.cur = <<0, 1>>
  BY DEF IInv, DataInv, CallInv, CallOK, JobOK, GrabUnlock
<1>2. PICK l \in {"search", "size", "scan"} :
        /\ Goto(t, l)
        /\ l = "search" => j.op \in {"get", "set_string"}
        /\ l = "size" => j.op = "size"
        /\ l = "scan" => j.op = "keys"
  <2>1. j.op \in {"get", "set_string", "size", "keys"}
    BY <1>1 DEF JobOK, Reading, Jobs
  <2> QED BY <2>1 DEF GrabUnlock
<1>3. Quiet(t, l, j)
  BY <1>2 DEF Quiet, GrabUnlock, Goto
<1>4. JobOK(l, j)
  BY <1>1, <1>2, JobGoesOn
<1>5. MapOK(data[m[t]], Keys, Held({1, 2}))
  BY <1>1, MapsUsed DEF Holding
<1>6. ASSUME l = "search" PROVE WalkOK(data[m[t]], j)
  <2>1. j.key \in Keys
    BY <1>2, <1>4, <1>6 DEF JobOK
  <2>2. Chain(data[m[t]], j.key) \in Seq(NodeSet(Keys, Held({1, 2})))
    BY <1>5, <2>1, KeyAssumption, Chains
  <2>3. Len(Chain(data[m[t]], j.key)) \in Nat
    BY <2>2
  <2>4. j.cur[2] = 1
    BY <1>1
  <2> QED BY <2>3, <2>4 DEF WalkOK
<1>7. CallOK(l, j, data[m[t]], data[map])
  BY <1>1, <1>2, <1>4, <1>6 DEF CallOK, Leaving
<1>8. MapsInv' /\ CallInv'
  BY <1>1, <1>2, <1>3, <1>7, QuietKeeps DEF IInv, DataInv, Copied, Holding, GrabUnlock
<1>9. StaleInv'
  BY <1>2, <1>3, StaleKept DEF Leaving, Copied, IInv, DataInv, BaseInv, TypeOK, GrabUnlock, DropCount
<1> QED
  BY <1>8, <1>9 DEF DataInv

(* The walk of a get ends with what its map has under the key. *)
WalkEnd(t, w) ==
  /\ pc[t] = "search" /\ Goto(t, "rm_read")
  /\ job' = [job EXCEPT ![t].res = w, ![t].cur = <<0, 1>>, ![t].fresh = (m[t] = map)]
  /\ UNCHANGED <<map, map_lock, lock, live, mref, data, m, p, nm, old, cnt>>

WalkOn(t) ==
  /\ pc[t] = "search" /\ UNCHANGED pc
  /\ job' = [job EXCEPT ![t].cur[2] = job[t].cur[2] + 1]
  /\ UNCHANGED <<map, map_lock, lock, live, mref, data, m, p, nm, old, cnt>>

LEMMA SearchNodeDoes ==
  ASSUME IInv, NEW t \in Threads, SearchNode(t)
  PROVE  \/ WalkEnd(t, Search(data[m[t]], job[t].key))
         \/ WalkOn(t) /\ WalkOK(data[m[t]], NextCur(job[t]))
<1> DEFINE j == job[t]
           d == data[m[t]]
           c == Chain(d, j.key)
           i == j.cur[2]
           h == hash(j.key, d.size)
<1>1. /\ pc[t] = "search" /\ JobOK("search", j) /\ j \in Jobs /\ WalkOK(d, j)
  BY DEF IInv, DataInv, CallInv, CallOK, JobOK, SearchNode
<1>2. j.key \in Keys
  BY <1>1 DEF JobOK
<1>3. MapOK(d, Keys, Held({1, 2}))
  BY <1>1, MapsUsed DEF Holding
<1>4. /\ c \in Seq(NodeSet(Keys, Held({1, 2}))) /\ c = d.data[h] /\ h \in 0 .. d.size - 1
  BY <1>2, <1>3, KeyAssumption, Chains
<1>5. /\ Len(c) \in Nat /\ DOMAIN c = 1 .. Len(c) /\ i \in Nat \ {0}
      /\ \A n \in 1 .. Len(c) : c[n] \in NodeSet(Keys, Held({1, 2}))
  <2>1. i \in Nat \ {0}
    BY <1>1, JobFields
  <2>2. c \in Seq(NodeSet(Keys, Held({1, 2})))
    BY <1>4
  <2> HIDE DEF c, i
  <2> QED BY <2>1, <2>2
<1>6. /\ i <= Len(c) + 1
      /\ \A n \in 1 .. i - 1 : NodeKey(c[n]) # j.key
  BY <1>1 DEF WalkOK
<1>7. CASE i > Len(c) /\ WalkEnd(t, NilValue)
  <2>1. \A n \in DOMAIN c : NodeKey(c[n]) # j.key
    BY <1>5, <1>6, <1>7
  <2>2. Search(d, j.key) = NilValue
    BY <1>2, <1>3, <2>1, KeyAssumption, SearchMisses
  <2> QED BY <1>7, <2>2
<1>8. CASE i <= Len(c) /\ is_in_hash(j.key, c[i]) /\ WalkEnd(t, c[i].v)
  <2>1. i \in DOMAIN c /\ c[i] \in NodeSet(Keys, Held({1, 2}))
    BY <1>5, <1>8
  <2>2. NodeKey(c[i]) = j.key
    BY <1>2, <1>8, <2>1, KeyAssumption, InHash
  <2>3. Search(d, j.key) = c[i].v
    <3>1. i \in DOMAIN d.data[h] /\ NodeKey(d.data[h][i]) = j.key /\ c[i].v = d.data[h][i].v
      <4> HIDE DEF i, c
      <4> QED BY <1>4, <2>1, <2>2, Zenon
    <3> HIDE DEF i, c, d, j
    <3> DEFINE W == Held({1, 2})
               k == j.key
    <3>2. MapOK(d, Keys, W) /\ k \in Keys /\ KeysFit(Keys)
      BY <1>2, <1>3, KeyAssumption
    <3>3. i \in DOMAIN d.data[hash(k, d.size)] /\ NodeKey(d.data[hash(k, d.size)][i]) = k
      BY <3>1
    <3> HIDE DEF W, k
    <3>4. Search(d, k) = d.data[hash(k, d.size)][i].v
      BY <3>2, <3>3, SearchIs
    <3> QED BY <3>1, <3>4, Zenon DEF k
  <2> QED BY <1>8, <2>3
<1>9. CASE i <= Len(c) /\ ~is_in_hash(j.key, c[i]) /\ WalkOn(t)
  <2>1. i \in 1 .. Len(c) /\ c[i] \in NodeSet(Keys, Held({1, 2}))
    BY <1>5, <1>9
  <2>2. NodeKey(c[i]) # j.key
    BY <1>2, <1>9, <2>1, KeyAssumption, InHash
  <2> DEFINE q == NextCur(j)
  <2>3. q.cur = <<j.cur[1], i + 1>> /\ q.key = j.key
    BY <1>1, NextCurJob
  <2> HIDE DEF q
  <2>4. q.cur[2] = i + 1
    BY <2>3
  <2>5. WalkOK(d, q)
    <3>1. \A n \in 1 .. i : NodeKey(c[n]) # j.key
      BY <1>5, <1>6, <2>2
    <3> HIDE DEF i, c
    <3>2. q.cur[2] <= Len(c) + 1 /\ \A n \in 1 .. q.cur[2] - 1 : NodeKey(c[n]) # j.key
      BY <1>5, <2>1, <2>4, <3>1
    <3> QED BY <2>3, <3>2 DEF WalkOK, c
  <2> QED BY <1>9, <2>5 DEF q
<1> QED
  BY <1>7, <1>8, <1>9 DEF SearchNode, WalkEnd, WalkOn

LEMMA SearchNodeData ==
  ASSUME SingleReader, IInv, NEW t \in Threads, SearchNode(t)
  PROVE  DataInv'
<1> DEFINE j == job[t]
           d == data[m[t]]
           w == Search(d, j.key)
<1>1. /\ pc[t] = "search" /\ JobOK("search", j) /\ j \in Jobs /\ t \in DOMAIN job
      /\ j.op \in {"get", "set_string"} /\ j.key \in Keys /\ j.out = <<>>
      /\ DOMAIN job = Threads
  BY DEF IInv, BaseInv, TypeOK, DataInv, CallInv, CallOK, JobOK, SearchNode
<1>2. MapOK(d, Keys, Held({1, 2})) /\ m[t] \in live /\ m[t] \in Maps /\ mref[m[t]] = 2
  BY <1>1, MapsUsed DEF Holding
<1>3. w \in Held({1, 2}) \cup {NilValue}
  BY <1>1, <1>2, KeyAssumption, PositionIs
<1>4. BaseInv'
  BY SearchNodeInv DEF IInv
<1>5. CASE WalkEnd(t, w)
  <2> DEFINE f == m[t] = map
             q == Ended(j, w, f)
  <2> HIDE DEF w, f
  <2>1. f \in BOOLEAN
    BY DEF f
  <2>2. job'[t] = q /\ \A u \in Threads : u # t => job'[u] = job[u]
    <3>1. EndedIn(job', job, t, w, f)
      BY <1>5, Zenon DEF WalkEnd, EndedIn, f
    <3> QED BY <1>1, <3>1, EndsWalk
  <2>3. /\ q \in Jobs /\ q.cur = <<0, 1>> /\ q.op = j.op /\ q.key = j.key /\ q.out = j.out
        /\ q.fresh = f
    BY <1>1, <1>3, <2>1, EndedJob
  <2> HIDE DEF q
  <2>4. Quiet(t, "rm_read", q)
    BY <1>5, <2>2 DEF WalkEnd, Quiet, Goto
  <2>5. JobOK("rm_read", q)
    BY <1>1, <2>3 DEF JobOK, Reading, TableHeld, Leaving
  <2>6. CallOK("rm_read", q, data[m'[t]], data[map])
    BY <1>1, <2>3, <2>5, NoWalk
  <2>7. MapsInv' /\ CallInv'
    BY <1>1, <1>5, <2>4, <2>6, QuietKeeps DEF WalkEnd, IInv, DataInv, Copied, Holding
  <2>8. StaleInv'
    <3>1. pc'[t] = "rm_read" /\ m' = m /\ map' = map /\ live' = live /\ mref' = mref
          /\ nm' = nm /\ old' = old /\ cnt' = cnt
          /\ \A u \in Threads : u # t => pc'[u] = pc[u]
      BY <1>5 DEF WalkEnd, Goto, IInv, BaseInv, TypeOK
    <3>2. job'[t].fresh = f
      BY <2>2, <2>3
    <3>3. Holds(t, m[t])
      BY <1>1 DEF Holds, Holding
    <3>4. \A u \in Threads :
            /\ pc'[u] \in Copied => nm'[u] # m'[t]
            /\ pc'[u] = "um_delete" \/ (pc'[u] = "um_unlock" /\ cnt'[u] = 0) => old'[u] # m'[t]
      BY <3>1, <3>3 DEF IInv, CountInv, UpdateInv, Copied
    <3> QED
      BY <1>1, <1>2, <1>4, <3>1, <3>2, <3>4, OneStale DEF f, Reading
  <2> QED BY <2>7, <2>8 DEF DataInv
<1>6. CASE WalkOn(t) /\ WalkOK(d, NextCur(j))
  <2> DEFINE q == NextCur(j)
  <2>1. /\ q \in Jobs /\ q.op = j.op /\ q.key = j.key /\ q.out = j.out
    BY <1>1, NextCurJob
  <2>2. job'[t] = q /\ \A u \in Threads : u # t => job'[u] = job[u]
    <3>1. job' = [job EXCEPT ![t] = q]
      BY <1>6, Zenon DEF WalkOn, NextCur
    <3> QED BY <1>1, <3>1
  <2>3. WalkOK(d, q)
    BY <1>6
  <2> HIDE DEF q
  <2>4. Quiet(t, "search", q)
    <3>1. pc' = [pc EXCEPT ![t] = "search"]
      BY <1>1, <1>6 DEF WalkOn, IInv, BaseInv, TypeOK
    <3> QED BY <1>6, <2>2, <3>1 DEF WalkOn, Quiet
  <2>5. JobOK("search", q)
    BY <1>1, <2>1 DEF JobOK, Reading, TableHeld, Leaving
  <2>6. CallOK("search", q, d, data[map])
    BY <1>1, <2>1, <2>3, <2>5 DEF CallOK
  <2>7. m' = m /\ mref' = mref /\ p' = p /\ old' = old /\ cnt' = cnt /\ nm' = nm
    BY <1>6 DEF WalkOn
  <2>8. MapsInv' /\ CallInv'
    BY <1>1, <2>4, <2>6, <2>7, QuietKeeps DEF IInv, DataInv, Copied, Holding
  <2>9. StaleInv'
    BY <2>4, <2>7, StaleKept DEF IInv, DataInv, Copied, Leaving
  <2> QED BY <2>8, <2>9 DEF DataInv
<1> QED
  BY <1>5, <1>6, SearchNodeDoes

(* size() is not 0. *)
LEMMA Product ==
  ASSUME NEW a \in Nat \ {0}, NEW b \in Nat \ {0}
  PROVE  a * b \in Nat /\ a * b > 0
OBVIOUS

LEMMA ReadSizeData ==
  ASSUME IInv, NEW t \in Threads, ReadSize(t)
  PROVE  DataInv'
<1> DEFINE j == job[t]
           x == data[m[t]].size * MAX_HASH_DEPTH
           q == [j EXCEPT !.cap = x]
<1>1. /\ pc[t] = "size" /\ JobOK("size", j) /\ j \in Jobs /\ t \in DOMAIN job
      /\ j.op = "size" /\ j.out = <<>> /\ j.cur = <<0, 1>>
  BY DEF IInv, BaseInv, TypeOK, DataInv, CallInv, CallOK, JobOK, ReadSize
<1>2. MapOK(data[m[t]], Keys, Held({1, 2}))
  BY <1>1, MapsUsed DEF Holding
<1>3. data[m[t]].size \in Nat \ {0}
  BY <1>2, KeyAssumption, Chains
<1>4. x \in Nat /\ x > 0
  BY <1>3, DepthAssumption, Product
<1>5. job' = [job EXCEPT ![t].cap = x] /\ Goto(t, "rm_read")
      /\ UNCHANGED <<map, data, live, m, nm, mref, p, old, cnt>>
  BY DEF ReadSize
<1> HIDE DEF x
<1>6. job'[t] = q /\ \A u \in Threads : u # t => job'[u] = job[u]
  BY <1>1, <1>5 DEF IInv, BaseInv, TypeOK
<1>7. Quiet(t, "rm_read", q)
  BY <1>5, <1>6 DEF Quiet, Goto
<1>8. /\ q \in Jobs /\ q.cap = x /\ q.op = j.op /\ q.key = j.key /\ q.out = j.out
      /\ q.cur = j.cur
  BY <1>1, <1>4, JobCap
<1> HIDE DEF q
<1>9. JobOK("rm_read", q)
  BY <1>1, <1>4, <1>8 DEF JobOK, Reading, TableHeld, Leaving
<1>10. CallOK("rm_read", q, data[m'[t]], data[map])
  BY <1>1, <1>8, <1>9, NoWalk
<1>11. MapsInv' /\ CallInv'
  BY <1>1, <1>5, <1>7, <1>10, QuietKeeps DEF IInv, DataInv, Copied, Holding
<1>12. StaleInv'
  BY <1>1, <1>5, <1>7, <1>8, StaleKept DEF IInv, DataInv, Copied, Leaving
<1> QED
  BY <1>11, <1>12 DEF DataInv

(* keys ends, moves to the next bucket, or takes a node. *)
ScanEnd(t) == Goto(t, "rm_read") /\ UNCHANGED job
NextBucket(t) == UNCHANGED pc /\ job' = [job EXCEPT ![t].cur = <<job[t].cur[1] + 1, 1>>]
TakeNode(t) ==
  /\ UNCHANGED pc
  /\ \E q : job' = [job EXCEPT ![t] = q] /\ Takes(q, job[t], data[m[t]])

LEMMA ScanNodeDoes ==
  ASSUME NEW t, ScanNode(t)
  PROVE  LET j == job[t]
             d == data[m[t]]
         IN  /\ pc[t] = "scan"
             /\ UNCHANGED <<map, map_lock, lock, live, mref, data, m, p, nm, old, cnt>>
             /\ \/ j.cur[1] = d.size /\ ScanEnd(t)
                \/ j.cur[1] < d.size /\ j.cur[2] > Len(d.data[j.cur[1]]) /\ NextBucket(t)
                \/ /\ j.cur[1] < d.size /\ j.cur[2] <= Len(d.data[j.cur[1]])
                   /\ Len(j.out) < j.cap - 1 /\ TakeNode(t)
                \/ Len(j.out) >= j.cap - 1 /\ ScanEnd(t)
<1>1. CASE job' = [job EXCEPT ![t].cur[2] = job[t].cur[2] + 1,
                     ![t].out = Append(@, NodeKey(data[m[t]].data[job[t].cur[1]][job[t].cur[2]]))]
  <2> DEFINE q == [job[t] EXCEPT !.cur[2] = job[t].cur[2] + 1,
                     !.out = Append(@, NodeKey(data[m[t]].data[job[t].cur[1]][job[t].cur[2]]))]
  <2>1. Takes(q, job[t], data[m[t]])
    BY Zenon DEF Takes
  <2>2. job' = [job EXCEPT ![t] = q]
    BY <1>1, Zenon
  <2>3. \E r : job' = [job EXCEPT ![t] = r] /\ Takes(r, job[t], data[m[t]])
    BY <2>1, <2>2, Zenon
  <2> QED BY <2>3, Zenon DEF ScanNode, TakeNode, ScanEnd, NextBucket
<1> QED
  BY <1>1, Zenon DEF ScanNode, TakeNode, ScanEnd, NextBucket

(* At the end of the last bucket keys has reported all it had to ... *)
LEMMA ScanEnds ==
  ASSUME NEW j \in Jobs, NEW refs, NEW d, MapOK(d, Keys, Held(refs)), ScanOK(d, j), OutOK(j),
         \/ j.cur[1] = d.size
         \/ Len(j.out) >= j.cap - 1
  PROVE  AllOut(j)
<1>1. /\ j.cur[1] \in Nat /\ j.cap \in Nat /\ Len(j.out) \in Nat
  BY JobFields
<1>2. CASE j.cur[1] = d.size
  <2>1. d.size \in Nat
    BY KeyAssumption, Chains
  <2>2. \A k \in j.snap \ ToSet(j.out) : FALSE
    <3> SUFFICES ASSUME NEW k \in j.snap \ ToSet(j.out) PROVE FALSE
      OBVIOUS
    <3>1. PICK h \in 0 .. d.size - 1 : \E i \in DOMAIN d.data[h] :
            ~Before(h, i, j.cur) /\ NodeKey(d.data[h][i]) = k
      BY DEF ScanOK
    <3>2. h < j.cur[1]
      BY <1>2, <2>1
    <3> QED BY <3>1, <3>2 DEF Before
  <2> QED BY <2>2 DEF AllOut
<1>3. CASE Len(j.out) >= j.cap - 1
  <2>1. Len(j.out) <= j.cap - 1
    BY DEF OutOK
  <2>2. Len(j.out) = j.cap - 1
    BY <1>1, <1>3, <2>1
  <2> QED BY <2>2 DEF AllOut
<1> QED
  BY <1>2, <1>3

(* ... and at the end of another it passes nothing by. *)
LEMMA ScanMoves ==
  ASSUME NEW j \in Jobs, NEW refs, NEW d, MapOK(d, Keys, Held(refs)), ScanOK(d, j),
         j.cur[1] < d.size, j.cur[2] > Len(d.data[j.cur[1]]),
         NEW q, q.cur = <<j.cur[1] + 1, 1>>, q.out = j.out, q.snap = j.snap
  PROVE  ScanOK(d, q)
<1> DEFINE b == j.cur[1]
<1>1. /\ b \in Nat /\ j.cur[2] \in Nat \ {0}
  BY JobFields
<1>2. /\ d.size \in Nat \ {0}
      /\ \A h \in 0 .. d.size - 1 :
           DOMAIN d.data[h] = 1 .. Len(d.data[h]) /\ Len(d.data[h]) \in Nat
  <2>1. d.size \in Nat \ {0} /\ \A h \in 0 .. d.size - 1 : d.data[h] \in Seq(NodeSet(Keys, Held(refs)))
    BY KeyAssumption, Chains
  <2> QED BY <2>1
<1>3. q.cur[1] = b + 1 /\ q.cur[2] = 1
  OBVIOUS
<1>4. \A h \in 0 .. d.size - 1 : \A i \in DOMAIN d.data[h] :
        Before(h, i, q.cur) <=> Before(h, i, j.cur)
  <2> SUFFICES ASSUME NEW h \in 0 .. d.size - 1, NEW i \in DOMAIN d.data[h]
               PROVE  Before(h, i, q.cur) <=> Before(h, i, j.cur)
    OBVIOUS
  <2>1. i \in Nat \ {0} /\ h \in Nat
    BY <1>2
  <2>2. h = b => i < j.cur[2]
    BY <1>1, <1>2, <2>1, SMTT(30)
  <2>3. Before(h, i, q.cur) <=> h < b + 1
    BY <1>1, <1>3, <2>1 DEF Before
  <2>4. Before(h, i, j.cur) <=> h < b \/ h = b
    BY <1>1, <2>2 DEF Before
  <2> QED BY <1>1, <2>1, <2>3, <2>4
<1>5. q.cur[1] <= d.size
  BY <1>1, <1>2, <1>3
<1> QED
  BY <1>4, <1>5 DEF ScanOK

LEMMA ScanNodeData ==
  ASSUME IInv, NEW t \in Threads, ScanNode(t)
  PROVE  DataInv'
<1> DEFINE j == job[t]
           d == data[m[t]]
           e == data[map]
<1>1. /\ pc[t] = "scan"
      /\ UNCHANGED <<map, map_lock, lock, live, mref, data, m, p, nm, old, cnt>>
  BY ScanNodeDoes
<1>2. CallOK("scan", j, d, e)
  BY <1>1 DEF IInv, DataInv, CallInv
<1>3. /\ JobOK("scan", j) /\ j \in Jobs /\ t \in DOMAIN job /\ DOMAIN job = Threads
      /\ j.op = "keys" /\ j.cap > 0
  BY <1>2 DEF IInv, BaseInv, TypeOK, CallOK, JobOK
<1>4. ScanOK(d, j) /\ OutOK(j) /\ \A n \in DOMAIN j.out : Search(e, j.out[n]) # NilValue
  BY <1>2, <1>3 DEF CallOK
<1>5. MapOK(d, Keys, Held({1, 2}))
  BY <1>1, MapsUsed DEF Holding
<1>6. pc' = [pc EXCEPT ![t] = "scan"] \/ ~UNCHANGED pc
  BY <1>1 DEF IInv, BaseInv, TypeOK
<1>7. CASE ScanEnd(t) /\ (j.cur[1] = d.size \/ Len(j.out) >= j.cap - 1)
  <2>1. Quiet(t, "rm_read", j)
    BY <1>1, <1>7 DEF Quiet, ScanEnd, Goto
  <2>2. JobOK("rm_read", j)
    BY <1>3, JobGoesOn
  <2>3. AllOut(j)
    BY <1>3, <1>4, <1>5, <1>7, ScanEnds
  <2>4. CallOK("rm_read", j, d, e)
    BY <1>4, <2>2, <2>3 DEF CallOK
  <2>5. MapsInv' /\ CallInv'
    BY <1>1, <2>1, <2>4, QuietKeeps DEF IInv, DataInv, Copied, Holding
  <2>6. StaleInv'
    BY <1>1, <1>3, <2>1, StaleKept DEF IInv, DataInv, Copied, Leaving
  <2> QED BY <2>5, <2>6 DEF DataInv
(* The other two go on at "scan". *)
<1>8. ASSUME NEW q, job' = [job EXCEPT ![t] = q], UNCHANGED pc, q \in Jobs,
             q.op = j.op, q.key = j.key, q.cap = j.cap, ScanOK(d, q), OutOK(q),
             \A n \in DOMAIN q.out : Search(e, q.out[n]) # NilValue
      PROVE  DataInv'
  <2>1. job'[t] = q /\ \A u \in Threads : u # t => job'[u] = job[u]
    BY <1>3, <1>8
  <2>2. Quiet(t, "scan", q)
    BY <1>1, <1>6, <1>8, <2>1 DEF Quiet
  <2>3. JobOK("scan", q)
    BY <1>3, <1>8 DEF JobOK, Reading, TableHeld, Leaving
  <2>4. CallOK("scan", q, d, e)
    BY <1>8, <2>3 DEF CallOK, Leaving
  <2>5. MapsInv' /\ CallInv'
    BY <1>1, <2>2, <2>4, QuietKeeps DEF IInv, DataInv, Copied, Holding
  <2>6. StaleInv'
    BY <1>1, <2>2, StaleKept DEF IInv, DataInv, Copied, Leaving
  <2> QED BY <2>5, <2>6 DEF DataInv
<1>9. CASE j.cur[1] < d.size /\ j.cur[2] > Len(d.data[j.cur[1]]) /\ NextBucket(t)
  <2> DEFINE x == <<j.cur[1] + 1, 1>>
             q == [j EXCEPT !.cur = x]
  <2>1. x \in Nat \X (Nat \ {0})
    BY <1>3, JobFields
  <2>2. job' = [job EXCEPT ![t] = q] /\ UNCHANGED pc
    BY <1>9, Zenon DEF NextBucket
  <2> HIDE DEF x
  <2>3. /\ q \in Jobs /\ q.cur = x /\ q.op = j.op /\ q.key = j.key /\ q.cap = j.cap
        /\ q.out = j.out /\ q.snap = j.snap
    BY <1>3, <2>1, JobCur
  <2> HIDE DEF q
  <2>4. ScanOK(d, q)
    BY <1>3, <1>4, <1>5, <1>9, <2>3, ScanMoves DEF x
  <2>5. OutOK(q)
    BY <1>4, <2>3 DEF OutOK
  <2> QED BY <1>4, <1>8, <2>2, <2>3, <2>4, <2>5
<1>10. CASE /\ j.cur[1] < d.size /\ j.cur[2] <= Len(d.data[j.cur[1]])
            /\ Len(j.out) < j.cap - 1 /\ TakeNode(t)
  <2> DEFINE k == NodeKey(d.data[j.cur[1]][j.cur[2]])
  <2>1. PICK q : job' = [job EXCEPT ![t] = q] /\ Takes(q, j, d)
    BY <1>10 DEF TakeNode
  <2>2. /\ q \in Jobs /\ ScanOK(d, q) /\ OutOK(q) /\ q.out = Append(j.out, k)
        /\ q.op = j.op /\ q.key = j.key /\ q.cap = j.cap
    <3>1. /\ j.cur[1] < d.size /\ j.cur[2] <= Len(d.data[j.cur[1]])
          /\ Len(j.out) < j.cap - 1 /\ Takes(q, j, d)
      BY <1>10, <2>1, Zenon
    <3> HIDE DEF d, j
    <3> QED BY <1>3, <1>4, <1>5, <3>1, ScanTakes, SMTT(30) DEF k
  <2>3. k \in Keys /\ Search(e, k) # NilValue
    <3>1. /\ j.cur[1] \in 0 .. d.size - 1 /\ j.cur[2] \in DOMAIN d.data[j.cur[1]]
      <4>1. j.cur[1] \in Nat /\ j.cur[2] \in Nat \ {0}
        BY <1>3, JobFields
      <4>2. /\ d.size \in Nat \ {0}
            /\ \A h \in 0 .. d.size - 1 : d.data[h] \in Seq(NodeSet(Keys, Held({1, 2})))
        BY <1>5, KeyAssumption, Chains
      <4>3. j.cur[1] \in 0 .. d.size - 1
        BY <1>10, <4>1, <4>2
      <4> DEFINE c == d.data[j.cur[1]]
      <4>4. c \in Seq(NodeSet(Keys, Held({1, 2})))
        BY <4>2, <4>3, Zenon
      <4>5. j.cur[2] <= Len(c)
        BY <1>10, Zenon
      <4> HIDE DEF c
      <4>6. DOMAIN c = 1 .. Len(c) /\ Len(c) \in Nat
        BY <4>4
      <4>7. j.cur[2] \in DOMAIN c
        BY <4>1, <4>5, <4>6
      <4> QED BY <4>3, <4>7, Zenon DEF c
    <3>2. k \in Keys /\ Search(d, k) # NilValue
      BY <1>5, <3>1, PlaceHasKey
    <3>3. Covers(e, d)
      BY <1>1 DEF IInv, DataInv, MapsInv, Holding
    <3> QED BY <3>2, <3>3 DEF Covers
  <2> HIDE DEF k
  <2>4. \A n \in DOMAIN q.out : Search(e, q.out[n]) # NilValue
    <3>1. j.out \in Seq(Keys)
      BY <1>3, JobFields
    <3>2. \A n \in DOMAIN q.out : (n \in DOMAIN j.out /\ q.out[n] = j.out[n]) \/ q.out[n] = k
      BY <2>2, <2>3, <3>1
    <3> QED BY <1>4, <2>3, <3>2
  <2>5. UNCHANGED pc
    BY <1>10 DEF TakeNode
  <2> QED BY <1>8, <2>1, <2>2, <2>4, <2>5
<1> QED
  BY <1>7, <1>9, <1>10, ScanNodeDoes

(* _release_map stores the count in another map than a stale walk's ... *)
LEMMA ReleaseSetData ==
  ASSUME SingleReader, IInv, NEW t \in Threads, ReleaseSet(t)
  PROVE  DataInv'
<1>1. PICK l \in {"rm_return", "rm_delete"} : Goto(t, l)
  BY DEF ReleaseSet
<1>2. /\ pc[t] = "rm_set" /\ UNCHANGED <<map, map_lock, lock, live, data, m, nm, old, job>>
      /\ mref' = [mref EXCEPT ![p[t]] = cnt[t]] /\ DropCount(t)
  BY DEF ReleaseSet
<1>3. Quiet(t, l, job[t])
  BY <1>1, <1>2 DEF Quiet, Goto
<1>4. JobOK(l, job[t])
  BY <1>2, JobGoesOn DEF IInv, DataInv, CallInv, CallOK
<1>5. MapsInv' /\ CallInv'
  BY <1>2, <1>3, <1>4, LabelStep DEF Leaving, Copied, Holding
<1>6. StaleInv'
  <2>1. BaseInv'
    BY ReleaseSetInv DEF IInv
  <2>2. /\ pc'[t] = l /\ \A u \in Threads : u # t => pc'[u] = pc[u] /\ cnt'[u] = cnt[u]
    BY <1>1, <1>2 DEF IInv, BaseInv, TypeOK, Goto, DropCount
  <2>3. ASSUME job'[t].op \in {"get", "set_string"}, ~job'[t].fresh
        PROVE  /\ m'[t] \in live' /\ m'[t] # map' /\ mref'[m'[t]] = 2
               /\ \A u \in Threads :
                    /\ pc'[u] \in Copied => nm'[u] # m'[t]
                    /\ pc'[u] = "um_delete" \/ (pc'[u] = "um_unlock" /\ cnt'[u] = 0) =>
                         old'[u] # m'[t]
    <3>1. /\ m[t] \in live /\ m[t] # map /\ mref[m[t]] = 2 /\ p[t] # m[t]
          /\ \A u \in Threads :
               /\ pc[u] \in Copied => nm[u] # m[t]
               /\ pc[u] = "um_delete" \/ (pc[u] = "um_unlock" /\ cnt[u] = 0) => old[u] # m[t]
      BY <1>2, <2>3 DEF IInv, DataInv, StaleInv, Leaving
    <3>2. mref'[m[t]] = 2
      BY <1>2, <3>1 DEF IInv, BaseInv, TypeOK
    <3>3. l \notin Copied /\ l # "um_delete" /\ l # "um_unlock"
      BY DEF Copied
    <3> QED BY <1>2, <2>2, <3>1, <3>2, <3>3
  <2>4. pc[t] \in Reading /\ pc'[t] # "rm_set"
    BY <1>2, <2>2 DEF Reading
  <2> QED BY <2>1, <2>3, <2>4, OneStale
<1> QED
  BY <1>5, <1>6 DEF DataInv

(* ... and never comes to delete. *)
LEMMA ReleaseDeleteData ==
  ASSUME IInv, NEW t \in Threads, ReleaseDelete(t)
  PROVE  DataInv'
BY DEF IInv, CountInv, CntInv, ReleaseDelete

-----------------------------------------------------------------------------
(* Steps of the setter on the maps *)

(* The owner of the table lock is the only one that may be offering a copy. *)
LEMMA OneSetter ==
  ASSUME IInv, NEW t \in Threads, pc[t] \in TableHeld
  PROVE  \A u \in Threads : u # t =>
           pc[u] \notin Copied /\ pc[u] \notin {"um_ref", "um_unlock", "um_delete"}
BY DEF IInv, BaseInv, LockInv, LocksExclude, TableHeld, Copied

(* The walks of the others go on when the maps they hold have grown and the *)
(* current one has lost no key.                                             *)
LEMMA WalksKept ==
  ASSUME IInv, NEW t \in Threads, NEW l \in TableHeld, NEW j, JobOK(l, j),
         pc'[t] = l, job'[t] = j,
         \A u \in Threads : u # t => pc'[u] = pc[u] /\ job'[u] = job[u] /\ m'[u] = m[u],
         \A u \in Threads : u # t /\ pc[u] \in Holding =>
           MapOK(data'[m[u]], Keys, Held({1, 2})) /\ Grown(data'[m[u]], data[m[u]]),
         Covers(data'[map'], data[map])
  PROVE  CallInv'
<1>1. CallOK(l, j, data'[m'[t]], data'[map'])
  <2>1. j.op # "keys" /\ l # "search"
    BY DEF JobOK, TableHeld
  <2> QED BY <2>1, NoWalk
<1>2. ASSUME NEW u \in Threads, u # t
      PROVE  CallOK(pc[u], job[u], data'[m[u]], data'[map'])
  <2>1. CallOK(pc[u], job[u], data[m[u]], data[map])
    BY DEF IInv, DataInv, CallInv
  <2>2. ASSUME pc[u] \in {"search", "gm_unlock", "scan"}
        PROVE  /\ MapOK(data[m[u]], Keys, Held({1, 2})) /\ MapOK(data'[m[u]], Keys, Held({1, 2}))
               /\ Grown(data'[m[u]], data[m[u]])
    BY <1>2, <2>2, MapsUsed DEF Holding
  <2> QED BY <2>1, <2>2, CallKept
<1> QED
  BY <1>1, <1>2 DEF CallInv

LEMMA InsertData ==
  ASSUME IInv, NEW t \in Threads, Insert(t)
  PROVE  DataInv'
<1> DEFINE j == job[t]
           d == data[map]
           r == InsertValue(d, j.key, j.val)
           q == [j EXCEPT !.fresh = FALSE]
<1>1. /\ pc[t] = "ins" /\ pc[t] \in TableHeld /\ JobOK("ins", j) /\ j \in Jobs /\ t \in DOMAIN job
      /\ j.key \in Keys /\ j.val \in Held({0})
      /\ DOMAIN job = Threads /\ DOMAIN data = Maps /\ live \in SUBSET Maps
  BY DEF IInv, BaseInv, TypeOK, DataInv, CallInv, CallOK, JobOK, Insert, TableHeld
<1>2. PICK l \in {"exp", "tl_unlock"} : Goto(t, l)
  BY DEF Insert
<1>3. /\ job' = [job EXCEPT ![t].fresh = FALSE]
      /\ UNCHANGED <<map, map_lock, lock, live, mref, m, p, nm, old, cnt>>
      /\ data' = [data EXCEPT ![map] = r]
  BY DEF Insert
<1>4. /\ job'[t] = q /\ \A u \in Threads : u # t => job'[u] = job[u]
      /\ pc'[t] = l /\ \A u \in Threads : u # t => pc'[u] = pc[u]
  BY <1>1, <1>2, <1>3 DEF IInv, BaseInv, TypeOK, Goto
<1>5. /\ map \in live
      /\ MapOK(d, Keys, Held({1, 2}))
      /\ \A u \in Threads : pc[u] \in Holding => m[u] \in live /\ MapOK(data[m[u]], Keys, Held({1, 2}))
  BY MapsUsed
<1>6. /\ data'[map] = r
      /\ \A x \in Maps : x # map => data'[x] = data[x]
  BY <1>1, <1>3, <1>5
<1>7. \A u \in Threads : pc[u] \notin Copied /\ pc'[u] \notin Copied
  BY <1>1, <1>4, OneSetter DEF Copied
<1>8. MapOK(d, Keys, Held({1}))
  BY <1>7 DEF IInv, DataInv, MapsInv
<1>9. /\ MapOK(r, Keys, Held({1, 2})) /\ Covers(r, d) /\ Grown(r, d)
  BY <1>1, <1>5, InsertKept
<1>10. MapOK(r, Keys, Held({1}))
  BY <1>1, <1>8, InsertKept
<1> HIDE DEF r, d, q
<1>11. MapsInv'
  <2>1. \A x \in live' : MapOK(data'[x], Keys, Held({1, 2}))
    BY <1>1, <1>3, <1>6, <1>9 DEF IInv, DataInv, MapsInv
  <2>2. MapOK(data'[map'], Keys, Held({1}))
    BY <1>3, <1>6, <1>10
  <2>3. \A u \in Threads : pc'[u] \in Holding => Covers(data'[map'], data'[m'[u]])
    <3> SUFFICES ASSUME NEW u \in Threads, pc'[u] \in Holding PROVE Covers(data'[map], data'[m[u]])
      BY <1>3
    <3>1. pc[u] \in Holding
      BY <1>4 DEF Holding
    <3>2. Covers(d, data[m[u]]) /\ m[u] \in Maps
      BY <1>1, <1>5, <3>1 DEF IInv, DataInv, MapsInv, d
    <3>3. CASE m[u] = map
      BY <3>3, CoversSelf
    <3>4. CASE m[u] # map
      BY <1>6, <1>9, <3>2, <3>4, CoversTrans
    <3> QED BY <3>3, <3>4
  <2> QED BY <1>7, <2>1, <2>2, <2>3 DEF MapsInv
<1>12. CallInv'
  <2>1. JobOK(l, q)
    <3>1. /\ q \in Jobs /\ q.op = j.op /\ q.key = j.key /\ q.val = j.val /\ q.cap = j.cap
          /\ q.out = j.out /\ q.cur = j.cur /\ ~q.fresh
      <4> DEFINE f == FALSE
      <4>1. f \in BOOLEAN /\ q = [j EXCEPT !.fresh = f]
        BY DEF q
      <4> HIDE DEF f
      <4>2. /\ q \in Jobs /\ q.op = j.op /\ q.key = j.key /\ q.val = j.val /\ q.cap = j.cap
            /\ q.out = j.out /\ q.cur = j.cur /\ q.fresh = f
        BY <1>1, <4>1, JobFresh
      <4> QED BY <4>2 DEF f
    <3>2. /\ j.op \in {"set", "set_string"} /\ j.out = <<>> /\ j.cur = <<0, 1>>
      BY <1>1 DEF JobOK, TableHeld
    <3> HIDE DEF j
    <3> QED BY <1>1, <1>2, <3>1, <3>2 DEF JobOK, TableHeld, Reading, Leaving
  <2>2. \A u \in Threads : u # t /\ pc[u] \in Holding =>
          MapOK(data'[m[u]], Keys, Held({1, 2})) /\ Grown(data'[m[u]], data[m[u]])
    BY <1>1, <1>5, <1>6, <1>9, GrownSelf DEF d
  <2>3. Covers(data'[map'], data[map])
    BY <1>3, <1>6, <1>9 DEF d
  <2>4. l \in TableHeld
    BY <1>2 DEF TableHeld
  <2> QED BY <1>3, <1>4, <2>1, <2>2, <2>3, <2>4, WalksKept
<1>13. StaleInv'
  <2>1. Moves(t, l, q)
    BY <1>2, <1>3, <1>4 DEF Moves, Goto
  <2>2. l \notin Leaving /\ l \notin Copied /\ l # "um_delete" /\ l # "um_unlock"
    BY DEF Leaving, Copied
  <2> QED BY <1>3, <2>1, <2>2, StaleMoved DEF IInv, DataInv
<1> QED
  BY <1>11, <1>12, <1>13 DEF DataInv

(* The new map: what the current one has, in more buckets *)
LEMMA ExpandData ==
  ASSUME IInv, NEW t \in Threads, Expand(t)
  PROVE  DataInv'
<1> DEFINE d == data[map]
           c == CopyMap(NewMap(d.size * 2), d)
           r == CopiedFrom(d)
<1>1. /\ pc[t] = "exp" /\ pc[t] \in TableHeld /\ JobOK("exp", job[t])
      /\ DOMAIN data = Maps /\ live \in SUBSET Maps /\ nm \in [Threads -> Maps \cup {NoMap}]
      /\ mref \in [Maps -> Int]
  BY DEF IInv, BaseInv, TypeOK, DataInv, CallInv, CallOK, Expand, TableHeld
<1>2. PICK x \in Maps \ live :
        /\ live' = live \cup {x}
        /\ mref' = [mref EXCEPT ![x] = 1]
        /\ data' = [data EXCEPT ![x] = c, ![map] = CopiedFrom(@)]
        /\ nm' = [nm EXCEPT ![t] = x]
  BY DEF Expand
<1>3. /\ pc' = [pc EXCEPT ![t] = "um_lock"]
      /\ UNCHANGED <<map, map_lock, lock, m, p, old, cnt, job>>
  BY DEF Expand, Goto
<1>4. /\ pc'[t] = "um_lock" /\ \A u \in Threads : u # t => pc'[u] = pc[u]
      /\ nm'[t] = x /\ \A u \in Threads : u # t => nm'[u] = nm[u]
  BY <1>1, <1>2, <1>3 DEF IInv, BaseInv, TypeOK
<1>5. /\ map \in live
      /\ MapOK(d, Keys, Held({1, 2}))
      /\ \A u \in Threads : pc[u] \in Holding => m[u] \in live /\ MapOK(data[m[u]], Keys, Held({1, 2}))
  BY MapsUsed
<1>6. x # map
  BY <1>2, <1>5
<1> HIDE DEF c
<1>7. /\ data'[x] = c /\ data'[map] = r
      /\ \A y \in Maps : y # x /\ y # map => data'[y] = data[y]
  BY <1>1, <1>2, <1>5, <1>6
<1>8. \A u \in Threads : pc[u] \notin Copied /\ (pc'[u] \in Copied => u = t)
  BY <1>1, <1>4, OneSetter DEF Copied
<1>9. MapOK(d, Keys, Held({1}))
  BY <1>8 DEF IInv, DataInv, MapsInv
<1>10. d.size * 2 \in Nat \ {0}
  <2>1. d.size \in Nat \ {0}
    BY <1>9, KeyAssumption, Chains
  <2> HIDE DEF d
  <2> QED BY <2>1
<1>11. /\ MapOK(c, Keys, Held({1})) /\ MapOK(r, Keys, Held({1, 2})) /\ Grown(r, d)
       /\ SameContents(c, r) /\ SameContents(r, d)
  BY <1>9, <1>10, CopyKept DEF c
<1>12. Covers(r, d)
  BY <1>5, <1>11, SameCovers
<1>13. MapOK(c, Keys, Held({1, 2}))
  BY <1>11, MoreValues DEF Held
<1> HIDE DEF r
<1>14. MapsInv'
  <2>1. \A y \in live' : MapOK(data'[y], Keys, Held({1, 2}))
    BY <1>1, <1>2, <1>7, <1>11, <1>13 DEF IInv, DataInv, MapsInv
  <2>2. ~(\A u \in Threads : pc'[u] \notin Copied)
    BY <1>4 DEF Copied
  <2>3. \A u \in Threads : pc'[u] \in Copied =>
          MapOK(data'[nm'[u]], Keys, Held({1})) /\ SameContents(data'[nm'[u]], data'[map'])
    BY <1>3, <1>4, <1>7, <1>8, <1>11
  <2>4. \A u \in Threads : pc'[u] \in Holding => Covers(data'[map'], data'[m'[u]])
    <3> SUFFICES ASSUME NEW u \in Threads, pc'[u] \in Holding PROVE Covers(data'[map], data'[m[u]])
      BY <1>3
    <3>1. pc[u] \in Holding
      BY <1>4 DEF Holding
    <3>2. Covers(d, data[m[u]]) /\ m[u] \in Maps /\ m[u] # x
      BY <1>1, <1>2, <1>5, <3>1 DEF IInv, DataInv, MapsInv
    <3>3. CASE m[u] = map
      BY <3>3, CoversSelf
    <3>4. CASE m[u] # map
      BY <1>7, <1>12, <3>2, <3>4, CoversTrans
    <3> QED BY <3>3, <3>4
  <2> QED BY <2>1, <2>2, <2>3, <2>4 DEF MapsInv
<1>15. CallInv'
  <2>1. JobOK("um_lock", job[t]) /\ "um_lock" \in TableHeld
    BY <1>1, JobGoesOn DEF TableHeld
  <2>2. \A u \in Threads : u # t /\ pc[u] \in Holding =>
          MapOK(data'[m[u]], Keys, Held({1, 2})) /\ Grown(data'[m[u]], data[m[u]])
    BY <1>1, <1>2, <1>5, <1>7, <1>11, GrownSelf
  <2>3. Covers(data'[map'], data[map])
    BY <1>3, <1>7, <1>12
  <2> QED BY <1>3, <1>4, <2>1, <2>2, <2>3, WalksKept
<1>16. StaleInv'
  <2> SUFFICES ASSUME NEW s \in Threads, pc'[s] \in Leaving, job'[s].op \in {"get", "set_string"},
                      ~job'[s].fresh
               PROVE  /\ m'[s] \in live' /\ m'[s] # map' /\ mref'[m'[s]] = 2
                      /\ pc'[s] = "rm_set" => p'[s] # m'[s]
                      /\ \A u \in Threads :
                           /\ pc'[u] \in Copied => nm'[u] # m'[s]
                           /\ pc'[u] = "um_delete" \/ (pc'[u] = "um_unlock" /\ cnt'[u] = 0) =>
                                old'[u] # m'[s]
    BY DEF StaleInv
  <2>1. s # t /\ pc[s] \in Leaving
    BY <1>4 DEF Leaving
  <2>2. /\ m[s] \in live /\ m[s] # map /\ mref[m[s]] = 2
        /\ pc[s] = "rm_set" => p[s] # m[s]
        /\ \A u \in Threads :
             /\ pc[u] \in Copied => nm[u] # m[s]
             /\ pc[u] = "um_delete" \/ (pc[u] = "um_unlock" /\ cnt[u] = 0) => old[u] # m[s]
    BY <1>3, <2>1 DEF IInv, DataInv, StaleInv
  <2>3. m[s] # x /\ mref'[m[s]] = 2
    BY <1>1, <1>2, <2>2
  <2> QED BY <1>2, <1>3, <1>4, <1>8, <2>1, <2>2, <2>3
<1> QED
  BY <1>14, <1>15, <1>16 DEF DataInv

(* The copy takes the place of the current map. *)
LEMMA UpdateSwapData ==
  ASSUME IInv, NEW t \in Threads, UpdateSwap(t)
  PROVE  DataInv'
<1> DEFINE d == data[map]
           c == data[nm[t]]
<1>1. /\ pc[t] = "um_swap" /\ pc[t] \in TableHeld /\ pc[t] \in Copied /\ JobOK("um_swap", job[t])
  BY DEF IInv, DataInv, CallInv, CallOK, UpdateSwap, TableHeld, Copied
<1>2. /\ pc' = [pc EXCEPT ![t] = "um_ref"]
      /\ UNCHANGED <<map_lock, lock, live, mref, data, m, p, cnt, job>>
      /\ map' = nm[t]
  BY DEF UpdateSwap, Goto
<1>3. /\ pc'[t] = "um_ref" /\ \A u \in Threads : u # t => pc'[u] = pc[u] /\ nm'[u] = nm[u] /\ old'[u] = old[u]
  BY <1>2 DEF IInv, BaseInv, TypeOK, UpdateSwap, Drop
<1>4. /\ map \in live
      /\ MapOK(d, Keys, Held({1, 2}))
      /\ \A u \in Threads : pc[u] \in Holding => m[u] \in live /\ MapOK(data[m[u]], Keys, Held({1, 2}))
  BY MapsUsed
<1>5. /\ MapOK(c, Keys, Held({1})) /\ SameContents(c, d)
  BY <1>1 DEF IInv, DataInv, MapsInv
<1>6. Covers(c, d)
  BY <1>4, <1>5, SameCovers
<1>7. \A u \in Threads : pc'[u] \notin Copied
  BY <1>1, <1>3, OneSetter DEF Copied
<1>8. MapsInv'
  <2>1. \A y \in live' : MapOK(data'[y], Keys, Held({1, 2}))
    BY <1>2 DEF IInv, DataInv, MapsInv
  <2>2. MapOK(data'[map'], Keys, Held({1}))
    BY <1>2, <1>5
  <2>3. \A u \in Threads : pc'[u] \in Holding => Covers(data'[map'], data'[m'[u]])
    <3> SUFFICES ASSUME NEW u \in Threads, pc'[u] \in Holding PROVE Covers(c, data[m[u]])
      BY <1>2
    <3>1. pc[u] \in Holding
      BY <1>3 DEF Holding
    <3>2. Covers(d, data[m[u]])
      BY <3>1 DEF IInv, DataInv, MapsInv
    <3> QED BY <1>6, <3>2, CoversTrans
  <2> QED BY <1>7, <2>1, <2>2, <2>3 DEF MapsInv
<1>9. CallInv'
  <2>1. JobOK("um_ref", job[t]) /\ "um_ref" \in TableHeld
    BY <1>1, JobGoesOn DEF TableHeld
  <2>2. \A u \in Threads : u # t /\ pc[u] \in Holding =>
          MapOK(data'[m[u]], Keys, Held({1, 2})) /\ Grown(data'[m[u]], data[m[u]])
    BY <1>2, <1>4, GrownSelf
  <2>3. Covers(data'[map'], data[map])
    BY <1>2, <1>6
  <2> QED BY <1>2, <1>3, <2>1, <2>2, <2>3, WalksKept
<1>10. StaleInv'
  <2> SUFFICES ASSUME NEW s \in Threads, pc'[s] \in Leaving, job'[s].op \in {"get", "set_string"},
                      ~job'[s].fresh
               PROVE  /\ m'[s] \in live' /\ m'[s] # map' /\ mref'[m'[s]] = 2
                      /\ pc'[s] = "rm_set" => p'[s] # m'[s]
                      /\ \A u \in Threads :
                           /\ pc'[u] \in Copied => nm'[u] # m'[s]
                           /\ pc'[u] = "um_delete" \/ (pc'[u] = "um_unlock" /\ cnt'[u] = 0) =>
                                old'[u] # m'[s]
    BY DEF StaleInv
  <2>1. s # t /\ pc[s] \in Leaving
    BY <1>3 DEF Leaving
  <2>2. /\ m[s] \in live /\ m[s] # map /\ mref[m[s]] = 2
        /\ pc[s] = "rm_set" => p[s] # m[s]
        /\ \A u \in Threads :
             /\ pc[u] \in Copied => nm[u] # m[s]
             /\ pc[u] = "um_delete" \/ (pc[u] = "um_unlock" /\ cnt[u] = 0) => old[u] # m[s]
    BY <1>2, <2>1 DEF IInv, DataInv, StaleInv
  <2>3. nm[t] # m[s]
    BY <1>1, <2>2
  <2> QED BY <1>2, <1>3, <1>7, <2>1, <2>2, <2>3
<1> QED
  BY <1>8, <1>9, <1>10 DEF DataInv

(* The replaced map goes when nobody holds it. *)
LEMMA UpdateDeleteData ==
  ASSUME IInv, NEW t \in Threads, UpdateDelete(t)
  PROVE  DataInv'
<1> DEFINE x == old[t]
<1>1. /\ pc[t] = "um_delete" /\ pc[t] \in TableHeld /\ JobOK("um_delete", job[t])
      /\ DOMAIN data = Maps /\ live \in SUBSET Maps /\ mref \in [Maps -> Int]
  BY DEF IInv, BaseInv, TypeOK, DataInv, CallInv, CallOK, UpdateDelete, TableHeld
<1>2. /\ pc' = [pc EXCEPT ![t] = "tl_unlock"]
      /\ UNCHANGED <<map, map_lock, lock, m, p, nm, cnt, job>>
      /\ live' = live \ {x} /\ mref' = [mref EXCEPT ![x] = 0]
      /\ data' = [data EXCEPT ![x] = NewMap(0)]
  BY DEF UpdateDelete, Goto, Delete
<1>3. /\ pc'[t] = "tl_unlock" /\ \A u \in Threads : u # t => pc'[u] = pc[u] /\ old'[u] = old[u]
  BY <1>2 DEF IInv, BaseInv, TypeOK, UpdateDelete, Drop
<1>4. /\ x \in live /\ x # map /\ \A u \in Threads : ~Holds(u, x)
  BY <1>1 DEF IInv, CountInv, UpdateInv
<1>5. \A y \in Maps : y # x => data'[y] = data[y]
  BY <1>1, <1>2
<1>6. /\ map \in live
      /\ \A u \in Threads : pc[u] \in Holding =>
           m[u] \in live /\ m[u] # x /\ MapOK(data[m[u]], Keys, Held({1, 2}))
  BY <1>4, MapsUsed DEF Holds
<1>7. data'[map] = data[map] /\ \A u \in Threads : pc[u] \in Holding => data'[m[u]] = data[m[u]]
  BY <1>1, <1>4, <1>5, <1>6
<1>8. \A u \in Threads : pc'[u] \notin Copied /\ pc[u] \notin Copied
  BY <1>1, <1>3, OneSetter DEF Copied
<1>9. MapsInv'
  <2>1. \A y \in live' : MapOK(data'[y], Keys, Held({1, 2}))
    BY <1>1, <1>2, <1>5 DEF IInv, DataInv, MapsInv
  <2>2. MapOK(data'[map'], Keys, Held({1}))
    BY <1>2, <1>7, <1>8 DEF IInv, DataInv, MapsInv
  <2>3. \A u \in Threads : pc'[u] \in Holding => Covers(data'[map'], data'[m'[u]])
    <3> SUFFICES ASSUME NEW u \in Threads, pc'[u] \in Holding PROVE Covers(data'[map], data'[m[u]])
      BY <1>2
    <3>1. pc[u] \in Holding
      BY <1>3 DEF Holding
    <3> QED BY <1>7, <3>1 DEF IInv, DataInv, MapsInv
  <2> QED BY <1>8, <2>1, <2>2, <2>3 DEF MapsInv
<1>10. CallInv'
  <2>1. JobOK("tl_unlock", job[t]) /\ "tl_unlock" \in TableHeld
    BY <1>1, JobGoesOn DEF TableHeld
  <2>2. \A u \in Threads : u # t /\ pc[u] \in Holding =>
          MapOK(data'[m[u]], Keys, Held({1, 2})) /\ Grown(data'[m[u]], data[m[u]])
    BY <1>6, <1>7, GrownSelf
  <2>3. Covers(data'[map'], data[map])
    BY <1>2, <1>7, CoversSelf
  <2> QED BY <1>2, <1>3, <2>1, <2>2, <2>3, WalksKept
<1>11. StaleInv'
  <2> SUFFICES ASSUME NEW s \in Threads, pc'[s] \in Leaving, job'[s].op \in {"get", "set_string"},
                      ~job'[s].fresh
               PROVE  /\ m'[s] \in live' /\ m'[s] # map' /\ mref'[m'[s]] = 2
                      /\ pc'[s] = "rm_set" => p'[s] # m'[s]
                      /\ \A u \in Threads :
                           /\ pc'[u] \in Copied => nm'[u] # m'[s]
                           /\ pc'[u] = "um_delete" \/ (pc'[u] = "um_unlock" /\ cnt'[u] = 0) =>
                                old'[u] # m'[s]
    BY DEF StaleInv
  <2>1. s # t /\ pc[s] \in Leaving
    BY <1>3 DEF Leaving
  <2>2. /\ m[s] \in live /\ m[s] # map /\ mref[m[s]] = 2
        /\ pc[s] = "rm_set" => p[s] # m[s]
        /\ \A u \in Threads :
             /\ pc[u] \in Copied => nm[u] # m[s]
             /\ pc[u] = "um_delete" \/ (pc[u] = "um_unlock" /\ cnt[u] = 0) => old[u] # m[s]
    BY <1>2, <2>1 DEF IInv, DataInv, StaleInv
  <2>3. m[s] # x
    BY <1>1, <2>2
  <2>4. mref'[m[s]] = 2
    BY <1>1, <1>2, <2>2, <2>3
  <2> QED BY <1>2, <1>3, <1>8, <2>1, <2>2, <2>3, <2>4
<1> QED
  BY <1>9, <1>10, <1>11 DEF DataInv

-----------------------------------------------------------------------------
(* The invariant *)

LEMMA InitData == Init => DataInv
<1> SUFFICES ASSUME Init PROVE DataInv
  OBVIOUS
<1>1. /\ live = {map} /\ map \in Maps /\ data[map] = NewMap(INIT_SIZE)
      /\ \A t \in Threads : pc[t] = "idle" /\ job[t] = NoJob
  BY DEF Init
<1>2. \A refs : MapOK(NewMap(INIT_SIZE), Keys, Held(refs))
  BY KeyAssumption, DepthAssumption, NewMapOK
<1>3. MapsInv
  BY <1>1, <1>2 DEF MapsInv, Copied, Holding
<1>4. CallInv
  BY <1>1, IdleJob, NoWalk DEF CallInv
<1>5. StaleInv
  BY <1>1 DEF StaleInv, Leaving
<1> QED
  BY <1>3, <1>4, <1>5 DEF DataInv

LEMMA NextData ==
  ASSUME SingleReader, IInv, [Next]_vars
  PROVE  DataInv'
<1>1. CASE \E t \in Readers : CallGet(t) \/ CallSetString(t) \/ CallKeys(t)
  BY <1>1, CallGetData, CallSetStringData, CallKeysData DEF Threads
<1>2. CASE \E t \in Writers : CallSet(t)
  BY <1>2, CallSetData DEF Threads
<1>3. CASE \E t \in Threads : Step(t)
  BY <1>3, GrabLockData, GrabRefData, GrabSetData, GrabUnlockData, SearchNodeData,
     ReadSizeData, ScanNodeData, ReleaseReadData, ReleaseMapData, ReleaseSetData,
     ReleaseDeleteData, ReleaseReturnData, SearchAgainData, SearchDoneData,
     UpdateStringData, TableLockData, InsertData, ExpandData, UpdateLockData,
     UpdateSwapData, UpdateRefData, UpdateUnlockData, UpdateDeleteData,
     TableUnlockData, ReturnData
     DEF Step
<1>4. CASE UNCHANGED vars
  <2>1. MapsInv'
    BY <1>4 DEF vars, IInv, DataInv, MapsInv
  <2>2. CallInv'
    BY <1>4 DEF vars, IInv, DataInv, CallInv
  <2>3. StaleInv'
    BY <1>4 DEF vars, IInv, DataInv, StaleInv
  <2> QED
    BY <2>1, <2>2, <2>3 DEF DataInv
<1> QED
  BY <1>1, <1>2, <1>3, <1>4 DEF Next

(* With one reader and any number of setters: the locks, the counts, the    *)
(* contents of the maps and the calls in progress are as IInv says.         *)
THEOREM IInvHolds == ASSUME SingleReader PROVE Spec => []IInv
<1>1. Init => IInv
  BY InitInv, InitData DEF IInv
<1>2. IInv /\ [Next]_vars => IInv'
  BY NextInv, NextData, SingleReader DEF IInv
<1> QED
  BY <1>1, <1>2, PTL DEF Spec

(* With one reader, keys() beside setters that add nodes and replace the    *)
(* map reports no key twice, only keys of the table, and all it found when  *)
(* it began unless its vector was full.                                     *)
THEOREM KeysConsistentHolds == ASSUME SingleReader PROVE Spec => []KeysConsistent
<1>1. IInv => KeysConsistent
  <2> SUFFICES ASSUME IInv, NEW t \in Threads, job[t].op = "keys", pc[t] = "ret"
               PROVE  LET out == job[t].out
                      IN  /\ \A i, j \in DOMAIN out : out[i] = out[j] => i = j
                          /\ ToSet(out) \subseteq KeysIn(map)
                          /\ job[t].snap \subseteq ToSet(out) \/ Len(out) = job[t].cap - 1
    BY DEF KeysConsistent
  <2>1. CallOK("ret", job[t], data[m[t]], data[map])
    BY DEF IInv, DataInv, CallInv
  <2>2. OutOK(job[t]) /\ AllOut(job[t])
    BY <2>1 DEF CallOK
  <2>3. job[t].out \in Seq(Keys)
    BY <2>1, JobFields DEF CallOK, JobOK
  <2>4. \A n \in DOMAIN job[t].out : job[t].out[n] \in Keys /\ Search(data[map], job[t].out[n]) # NilValue
    BY <2>1, <2>3 DEF CallOK
  <2>5. KeysIn(map) = {k \in Keys : Search(data[map], k) # NilValue}
    BY MapsUsed, KeysInIs
  <2>6. ToSet(job[t].out) \subseteq KeysIn(map)
    BY <2>4, <2>5 DEF ToSet
  <2> QED
    BY <2>2, <2>6 DEF OutOK, AllOut
<1> QED
  BY <1>1, IInvHolds, PTL

=============================================================================
