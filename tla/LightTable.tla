----------------------------- MODULE LightTable -----------------------------
(***************************************************************************)
(* One table shared by threads: class table's lock, map_lock and the        *)
(* reference count of the lmap it points to.                                *)
(*                                                                          *)
(* Setters insert under the table lock and replace the map by a larger copy *)
(* when a chain is long (_expand_hash, _update_map).  Readers take no table *)
(* lock: they grab the map, walk it, release it, and look again if the      *)
(* table has a different map by then (_search_map).  Every access to shared *)
(* memory is a step.  _get_ref and _set_ref are plain loads and stores of   *)
(* lmap.ref: the __sync built-ins around them work on a local copy.         *)
(*                                                                          *)
(* A thread that is to walk, extend or copy a deleted map goes no further:  *)
(* what it would do with freed memory is undefined, and NoUseAfterFree names*)
(* the state.  A count read from or stored into a deleted map is the plain  *)
(* memory access it is, on the 0 its destructor left there or what has been *)
(* stored since.  A failed assertion is the end of its thread.              *)
(***************************************************************************)
EXTENDS LMap, FiniteSets

CONSTANTS
  Readers,        \* threads that call get_*, set_string, size and keys
  Writers,        \* threads that call set_number, set_boolean, set_ud
  Ops,            \* the functions the client calls: get, set_string, keys, set
  Maps,           \* addresses new can return for an lmap
  NoMap,          \* a local pointer that has not been set
  Keys,
  PlainTypes,     \* types of the values stored by set_number, set_boolean, set_ud
  Bits,           \* their contents
  Strs,           \* lstring pointers stored by set_string
  INIT_SIZE,      \* next_prime(DEFAULT_SIZE)
  MAX_HASH_DEPTH,
  MaxSize,        \* bound: the largest hash the model grows to
  MaxRef          \* bound: no map is searched while its count is above this

Threads == Readers \cup Writers

ASSUME NoMapAssumption ==
  NoMap \notin Maps \cup [type : PlainTypes \cup {"STRING", "NIL"}, v : Bits \cup Strs \cup {0}]
ASSUME DepthAssumption ==
  INIT_SIZE \in Nat \ {0} /\ MAX_HASH_DEPTH \in Nat \ {0}
ASSUME KeyAssumption == KeysFit(Keys)
ASSUME TypeAssumption == "NIL" \notin PlainTypes

VARIABLES
  map,            \* table.map
  map_lock,       \* table.map_lock
  lock,           \* table.lock
  live,           \* lmaps allocated and not deleted
  mref,           \* lmap.ref, by address
  data,           \* the rest of each lmap (module LMap), by address
  pc,             \* the next shared access of each thread
  m,              \* local m of _search_map, size, keys
  p,              \* _release_map: the value of this->map it is about to write through
  nm,             \* local m of _expand_hash and _update_map: the new map
  old,            \* local old of _update_map
  cnt,            \* local ref of _grab_map, _release_map, _update_map
  job             \* the call in progress: its arguments and results

vars == <<map, map_lock, lock, live, mref, data, pc, m, p, nm, old, cnt, job>>

(* op: the function; key, val: its arguments; cur: position of a walk;      *)
(* res: what _search left in *result; cap, out: argument and result of keys.*)
(* fresh (history): the walk ended in the table's current map, and nothing  *)
(* has been inserted since.                                                 *)
(* snap (history): the keys in the table when keys grabbed the map.         *)
NoJob == [op |-> "none", key |-> NilValue, val |-> NilValue, cur |-> <<0, 1>>,
          res |-> NilValue, cap |-> 0, out |-> <<>>, fresh |-> FALSE, snap |-> {}]

PCs == {"idle", "gm_lock", "gm_ref", "gm_set", "gm_unlock",
        "search", "size", "scan", "rm_read", "rm_map", "rm_set", "rm_delete",
        "rm_return", "us", "tl_lock", "ins", "exp",
        "um_lock", "um_swap", "um_ref", "um_unlock", "um_delete",
        "tl_unlock", "ret"}

TypeOK ==
  /\ map \in Maps
  /\ map_lock \in {0, 1}
  /\ lock \in {0, 1}
  /\ live \in SUBSET Maps
  /\ mref \in [Maps -> Int]
  /\ pc \in [Threads -> PCs]
  /\ m \in [Threads -> Maps \cup {NoMap}]
  /\ p \in [Threads -> Maps \cup {NoMap}]
  /\ nm \in [Threads -> Maps \cup {NoMap}]
  /\ old \in [Threads -> Maps \cup {NoMap}]
  /\ cnt \in [Threads -> Int]
  /\ DOMAIN data = Maps
  /\ DOMAIN job = Threads

-----------------------------------------------------------------------------
(* The keys of the nodes of map x. *)
KeysIn(x) == {NodeKey(n) : n \in ToSet(Nodes(data[x]))}

Goto(t, label) == pc' = [pc EXCEPT ![t] = label]

(* A local pointer, or count, of thread t goes out of scope. *)
Drop(local, t) == [local EXCEPT ![t] = NoMap]
DropCount(t) == cnt' = [cnt EXCEPT ![t] = 0]

(* delete x: ~lmap leaves size 0, data NULL and ref 0 in the memory it      *)
(* gives back.                                                              *)
Delete(x) ==
  /\ live' = live \ {x}
  /\ mref' = [mref EXCEPT ![x] = 0]
  /\ data' = [data EXCEPT ![x] = NewMap(0)]

Init ==
  /\ map \in Maps
  /\ map_lock = 0
  /\ lock = 0
  /\ live = {map}
  /\ mref = [x \in Maps |-> IF x = map THEN 1 ELSE 0]
  /\ data = [x \in Maps |-> NewMap(IF x = map THEN INIT_SIZE ELSE 0)]
  /\ pc = [t \in Threads |-> "idle"]
  /\ m = [t \in Threads |-> NoMap]
  /\ p = [t \in Threads |-> NoMap]
  /\ nm = [t \in Threads |-> NoMap]
  /\ old = [t \in Threads |-> NoMap]
  /\ cnt = [t \in Threads |-> 0]
  /\ job = [t \in Threads |-> NoJob]

-----------------------------------------------------------------------------
(* Calls *)

Call(t, label, args) ==
  /\ pc[t] = "idle"
  /\ Goto(t, label)
  /\ job' = [job EXCEPT ![t] = args]
  /\ UNCHANGED <<map, map_lock, lock, live, mref, data, m, p, nm, old, cnt>>

(* get_type and the typed getters: _search_table *)
CallGet(t) ==
  /\ "get" \in Ops /\ mref[map] <= MaxRef
  /\ \E k \in Keys : Call(t, "gm_lock", [NoJob EXCEPT !.op = "get", !.key = k])

(* set_string begins with _search_table *)
CallSetString(t) ==
  /\ "set_string" \in Ops /\ mref[map] <= MaxRef
  /\ \E k \in Keys :
       Call(t, "gm_lock", [NoJob EXCEPT !.op = "set_string", !.key = k])

(* size() followed by keys(vv, size()), as _size, _pairs and _do_serialize  *)
(* call them.                                                               *)
CallKeys(t) ==
  /\ "keys" \in Ops /\ mref[map] <= MaxRef
  /\ Call(t, "gm_lock", [NoJob EXCEPT !.op = "size"])

(* set_number, set_boolean, set_ud: _insert_table *)
CallSet(t) ==
  /\ "set" \in Ops
  /\ \E k \in Keys, type \in PlainTypes, b \in Bits :
       Call(t, "tl_lock", [NoJob EXCEPT !.op = "set", !.key = k,
                             !.val = [ref |-> 0, type |-> type, v |-> b]])

Return(t) ==
  /\ pc[t] = "ret"
  /\ Goto(t, "idle")
  /\ job' = [job EXCEPT ![t] = NoJob]
  /\ UNCHANGED <<map, map_lock, lock, live, mref, data, m, p, nm, old, cnt>>

-----------------------------------------------------------------------------
(* _grab_map *)

(* Mutant: the lock counts its takers and nobody waits. *)
GrabLockCounting(t) ==
  /\ pc[t] = "gm_lock"
  /\ map_lock' = map_lock + 1
  /\ Goto(t, "gm_ref")
  /\ UNCHANGED <<map, lock, live, mref, data, m, p, nm, old, cnt, job>>

GrabLock(t) ==
  /\ pc[t] = "gm_lock"
  /\ map_lock = 0
  /\ map_lock' = 1
  /\ Goto(t, "gm_ref")
  /\ UNCHANGED <<map, lock, live, mref, data, m, p, nm, old, cnt, job>>

(* map_ref = map->_get_ref(); ref = map_ref + 1; assert(ref > 1) *)
GrabRef(t) ==
  /\ pc[t] = "gm_ref"
  /\ cnt' = [cnt EXCEPT ![t] = mref[map] + 1]
  /\ Goto(t, "gm_set")
  /\ UNCHANGED <<map, map_lock, lock, live, mref, data, m, p, nm, old, job>>

(* Mutant: the new count is not stored. *)
GrabSetUncounted(t) ==
  /\ pc[t] = "gm_set"
  /\ cnt[t] > 1
  /\ m' = [m EXCEPT ![t] = map]
  /\ Goto(t, "gm_unlock")
  /\ job' = [job EXCEPT ![t].snap = IF job[t].op = "keys" THEN KeysIn(map) ELSE {}]
  /\ UNCHANGED <<map, map_lock, lock, live, mref, data, p, nm, old, cnt>>

(* past the assertion: ret = this->map; map->_set_ref(ref) *)
GrabSet(t) ==
  /\ pc[t] = "gm_set"
  /\ cnt[t] > 1
  /\ m' = [m EXCEPT ![t] = map]
  /\ mref' = [mref EXCEPT ![map] = cnt[t]]
  /\ Goto(t, "gm_unlock")
  /\ job' = [job EXCEPT ![t].snap = IF job[t].op = "keys" THEN KeysIn(map) ELSE {}]
  /\ UNCHANGED <<map, map_lock, lock, live, data, p, nm, old, cnt>>

GrabUnlock(t) ==
  /\ pc[t] = "gm_unlock"
  /\ map_lock' = 0
  /\ Goto(t, CASE job[t].op \in {"get", "set_string"} -> "search"
               [] job[t].op = "size" -> "size"
               [] OTHER -> "scan")
  /\ DropCount(t)
  /\ UNCHANGED <<map, lock, live, mref, data, m, p, nm, old, job>>

-----------------------------------------------------------------------------
(* Walking the grabbed map *)

(* lmap::_search, one node per step; the chain may grow meanwhile. *)
SearchNode(t) ==
  LET k == job[t].key
      c == Chain(data[m[t]], k)
      i == job[t].cur[2]
      found(w) == [job EXCEPT ![t].res = w, ![t].cur = <<0, 1>>,
                              ![t].fresh = (m[t] = map)]
  IN  /\ pc[t] = "search"
      /\ m[t] \in live
      /\ \/ /\ i > Len(c)
            /\ job' = found(NilValue)
            /\ Goto(t, "rm_read")
         \/ /\ i <= Len(c) /\ is_in_hash(k, c[i])
            /\ job' = found(c[i].v)
            /\ Goto(t, "rm_read")
         \/ /\ i <= Len(c) /\ ~is_in_hash(k, c[i])
            /\ job' = [job EXCEPT ![t].cur[2] = i + 1]
            /\ UNCHANGED pc
      /\ UNCHANGED <<map, map_lock, lock, live, mref, data, m, p, nm, old, cnt>>

(* size(): buckets times MAX_HASH_DEPTH *)
ReadSize(t) ==
  /\ pc[t] = "size"
  /\ m[t] \in live
  /\ job' = [job EXCEPT ![t].cap = data[m[t]].size * MAX_HASH_DEPTH]
  /\ Goto(t, "rm_read")
  /\ UNCHANGED <<map, map_lock, lock, live, mref, data, m, p, nm, old, cnt>>

(* Mutant: keys() follows this->map instead of the map it grabbed. *)
ScanNodeCurrent(t) ==
  LET b == job[t].cur[1]
      i == job[t].cur[2]
      c == data[map].data[b]
  IN  /\ pc[t] = "scan"
      /\ \/ /\ b = data[map].size
            /\ Goto(t, "rm_read")
            /\ UNCHANGED job
         \/ /\ b < data[map].size /\ i > Len(c)
            /\ job' = [job EXCEPT ![t].cur = <<b + 1, 1>>]
            /\ UNCHANGED pc
         \/ /\ b < data[map].size /\ i <= Len(c)
            /\ job' = [job EXCEPT ![t].cur[2] = i + 1,
                                  ![t].out = Append(@, NodeKey(c[i]))]
            /\ UNCHANGED pc
      /\ UNCHANGED <<map, map_lock, lock, live, mref, data, m, p, nm, old, cnt>>

(* keys(): node cur[2] of bucket cur[1], the next bucket, or out of the loop *)
ScanNode(t) ==
  LET b == job[t].cur[1]
      i == job[t].cur[2]
      c == data[m[t]].data[b]
  IN  /\ pc[t] = "scan"
      /\ m[t] \in live
      /\ \/ /\ b = data[m[t]].size
            /\ Goto(t, "rm_read")
            /\ UNCHANGED job
         \/ /\ b < data[m[t]].size /\ i > Len(c)
            /\ job' = [job EXCEPT ![t].cur = <<b + 1, 1>>]
            /\ UNCHANGED pc
         \/ /\ b < data[m[t]].size /\ i <= Len(c)
            /\ Len(job[t].out) < job[t].cap - 1
            /\ job' = [job EXCEPT ![t].cur[2] = i + 1,
                                  ![t].out = Append(@, NodeKey(c[i]))]
            /\ UNCHANGED pc
         \/ /\ b < data[m[t]].size /\ i <= Len(c)
            /\ Len(job[t].out) >= job[t].cap - 1
            /\ Goto(t, "rm_read")
            /\ UNCHANGED job
      /\ UNCHANGED <<map, map_lock, lock, live, mref, data, m, p, nm, old, cnt>>

-----------------------------------------------------------------------------
(* _release_map *)

(* map_ref = m->_get_ref(); ref = map_ref - 1 *)
ReleaseRead(t) ==
  /\ pc[t] = "rm_read"
  /\ cnt' = [cnt EXCEPT ![t] = mref[m[t]] - 1]
  /\ Goto(t, "rm_map")
  /\ UNCHANGED <<map, map_lock, lock, live, mref, data, m, p, nm, old, job>>

(* map->_set_ref(ref): this->map is loaded, whichever map that is now ... *)
ReleaseMap(t) ==
  /\ pc[t] = "rm_map"
  /\ p' = [p EXCEPT ![t] = map]
  /\ Goto(t, "rm_set")
  /\ UNCHANGED <<map, map_lock, lock, live, mref, data, m, nm, old, cnt, job>>

(* Mutant: off by one, the map is deleted when one reference is left. *)
ReleaseSetEarly(t) ==
  /\ pc[t] = "rm_set"
  /\ mref' = [mref EXCEPT ![p[t]] = cnt[t]]
  /\ p' = Drop(p, t)
  /\ DropCount(t)
  /\ Goto(t, IF cnt[t] > 1 THEN "rm_return" ELSE "rm_delete")
  /\ UNCHANGED <<map, map_lock, lock, live, data, m, nm, old, job>>

(* ... and its ref is stored. *)
ReleaseSet(t) ==
  /\ pc[t] = "rm_set"
  /\ mref' = [mref EXCEPT ![p[t]] = cnt[t]]
  /\ p' = Drop(p, t)
  /\ DropCount(t)
  /\ Goto(t, IF cnt[t] # 0 THEN "rm_return" ELSE "rm_delete")
  /\ UNCHANGED <<map, map_lock, lock, live, data, m, nm, old, job>>

(* delete m *)
ReleaseDelete(t) ==
  /\ pc[t] = "rm_delete"
  /\ Delete(m[t])
  /\ Goto(t, "rm_return")
  /\ UNCHANGED <<map, map_lock, lock, m, p, nm, old, cnt, job>>

(* size and keys go on without m: keys is called with size's result as cap. *)
ReleaseReturn(t) ==
  /\ pc[t] = "rm_return"
  /\ \/ job[t].op = "size" /\ Goto(t, "gm_lock")
        /\ job' = [job EXCEPT ![t].op = "keys"]
     \/ job[t].op = "keys" /\ Goto(t, "ret") /\ UNCHANGED job
  /\ m' = Drop(m, t)
  /\ UNCHANGED <<map, map_lock, lock, live, mref, data, p, nm, old, cnt>>

(* The contents of the values the table and the setters hold. *)
Stored ==
  UNION {{n.v.v : n \in ToSet(Nodes(data[x]))} : x \in live}
    \cup {job[t].val.v : t \in Threads}

(* while (m != this->map) *)
SearchAgain(t) ==
  /\ pc[t] = "rm_return"
  /\ job[t].op \in {"get", "set_string"}
  /\ m[t] # map
  /\ m' = Drop(m, t)
  /\ Goto(t, "gm_lock")
  /\ UNCHANGED <<map, map_lock, lock, live, mref, data, p, nm, old, cnt, job>>

(* Mutant: the result is used although the table has another map by now. *)
SearchDoneAnyMap(t) ==
  /\ pc[t] = "rm_return"
  /\ job[t].op = "get"
  /\ Goto(t, "ret")
  /\ m' = Drop(m, t)
  /\ UNCHANGED <<map, map_lock, lock, live, mref, data, p, nm, old, cnt, job>>

(* What the caller of _search_table does with the result: a getter returns  *)
(* it; set_string updates an existing string, allocates an lstring to       *)
(* insert where nothing was found, and otherwise returns 1.                 *)
SearchDone(t) ==
  LET j == job[t]
  IN  /\ pc[t] = "rm_return"
      /\ m[t] = map
      /\ \/ j.op = "get" /\ Goto(t, "ret") /\ UNCHANGED job
         \/ /\ j.op = "set_string" /\ j.res.type = "STRING"
            /\ Goto(t, "us") /\ UNCHANGED job
         \/ /\ j.op = "set_string" /\ j.res.type = "NIL"
            /\ Goto(t, "tl_lock")
            /\ \E ls \in Strs \ Stored :
                 job' = [job EXCEPT ![t].val = [ref |-> 0, type |-> "STRING", v |-> ls]]
         \/ /\ j.op = "set_string" /\ j.res.type \in PlainTypes
            /\ Goto(t, "ret") /\ UNCHANGED job
      /\ m' = Drop(m, t)
      /\ UNCHANGED <<map, map_lock, lock, live, mref, data, p, nm, old, cnt>>

(* _update_string(tmp.v.s, ...): the text belongs to the lstring (module    *)
(* LString); nothing of the table changes.                                  *)
UpdateString(t) ==
  /\ pc[t] = "us"
  /\ Goto(t, "ret")
  /\ UNCHANGED <<map, map_lock, lock, live, mref, data, m, p, nm, old, cnt, job>>

-----------------------------------------------------------------------------
(* _insert_table *)

(* Mutant: the lock is taken without a test. *)
TableLockNoTest(t) ==
  /\ pc[t] = "tl_lock"
  /\ lock' = 1
  /\ Goto(t, "ins")
  /\ UNCHANGED <<map, map_lock, live, mref, data, m, p, nm, old, cnt, job>>

TableLock(t) ==
  /\ pc[t] = "tl_lock"
  /\ lock = 0
  /\ lock' = 1
  /\ Goto(t, "ins")
  /\ UNCHANGED <<map, map_lock, live, mref, data, m, p, nm, old, cnt, job>>

(* lmap::_insert_value.  Only the owner of the table lock changes chains,   *)
(* so the walk is stable and its one store (the union of a node, or the     *)
(* link to a finished node) is the step.                                    *)
Insert(t) ==
  /\ pc[t] = "ins"
  /\ map \in live
  /\ data' = [data EXCEPT ![map] = InsertValue(@, job[t].key, job[t].val)]
  /\ Goto(t, IF InsertDepth(data[map], job[t].key) >= MAX_HASH_DEPTH
               THEN "exp" ELSE "tl_unlock")
  /\ job' = [job EXCEPT ![t].fresh = FALSE]
  /\ UNCHANGED <<map, map_lock, lock, live, mref, m, p, nm, old, cnt>>

(* Mutant: the constructor does not count the table. *)
ExpandUncounted(t) ==
  /\ pc[t] = "exp"
  /\ data[map].size * 2 <= MaxSize
  /\ \E x \in Maps \ live :
       /\ live' = live \cup {x}
       /\ data' = [data EXCEPT ![x] = CopyMap(NewMap(data[map].size * 2), data[map]),
                               ![map] = CopiedFrom(@)]
       /\ nm' = [nm EXCEPT ![t] = x]
  /\ Goto(t, "um_lock")
  /\ UNCHANGED <<map, map_lock, lock, mref, m, p, old, cnt, job>>

(* _expand_hash up to _update_map: the new map is private, and the old one  *)
(* changes only in the counts of its values.                                *)
Expand(t) ==
  /\ pc[t] = "exp"
  /\ map \in live
  /\ data[map].size * 2 <= MaxSize
  /\ \E x \in Maps \ live :
       /\ live' = live \cup {x}
       /\ mref' = [mref EXCEPT ![x] = 1]
       /\ data' = [data EXCEPT ![x] = CopyMap(NewMap(data[map].size * 2), data[map]),
                               ![map] = CopiedFrom(@)]
       /\ nm' = [nm EXCEPT ![t] = x]
  /\ Goto(t, "um_lock")
  /\ UNCHANGED <<map, map_lock, lock, m, p, old, cnt, job>>

UpdateLock(t) ==
  /\ pc[t] = "um_lock"
  /\ map_lock = 0
  /\ map_lock' = 1
  /\ Goto(t, "um_swap")
  /\ UNCHANGED <<map, lock, live, mref, data, m, p, nm, old, cnt, job>>

(* old = map; map = m *)
UpdateSwap(t) ==
  /\ pc[t] = "um_swap"
  /\ old' = [old EXCEPT ![t] = map]
  /\ map' = nm[t]
  /\ nm' = Drop(nm, t)
  /\ Goto(t, "um_ref")
  /\ UNCHANGED <<map_lock, lock, live, mref, data, m, p, cnt, job>>

(* old_ref = old->_get_ref(); ref = old_ref - 1, in locals only *)
UpdateRef(t) ==
  /\ pc[t] = "um_ref"
  /\ cnt' = [cnt EXCEPT ![t] = mref[old[t]] - 1]
  /\ Goto(t, "um_unlock")
  /\ UNCHANGED <<map, map_lock, lock, live, mref, data, m, p, nm, old, job>>

(* Mutant: the old map is deleted whoever still walks it. *)
UpdateUnlockAlways(t) ==
  /\ pc[t] = "um_unlock"
  /\ map_lock' = 0
  /\ Goto(t, "um_delete")
  /\ DropCount(t)
  /\ UNCHANGED <<map, lock, live, mref, data, m, p, nm, old, job>>

(* Mutant: a return before the unlock when the old map is still in use. *)
UpdateUnlockSkipped(t) ==
  /\ pc[t] = "um_unlock"
  /\ IF cnt[t] = 0 THEN Goto(t, "um_delete") /\ map_lock' = 0 /\ UNCHANGED old
                   ELSE Goto(t, "tl_unlock") /\ old' = Drop(old, t) /\ UNCHANGED map_lock
  /\ DropCount(t)
  /\ UNCHANGED <<map, lock, live, mref, data, m, p, nm, job>>

UpdateUnlock(t) ==
  /\ pc[t] = "um_unlock"
  /\ map_lock' = 0
  /\ IF cnt[t] = 0 THEN Goto(t, "um_delete") /\ UNCHANGED old
                   ELSE Goto(t, "tl_unlock") /\ old' = Drop(old, t)
  /\ DropCount(t)
  /\ UNCHANGED <<map, lock, live, mref, data, m, p, nm, job>>

(* delete old *)
UpdateDelete(t) ==
  /\ pc[t] = "um_delete"
  /\ Delete(old[t])
  /\ old' = Drop(old, t)
  /\ Goto(t, "tl_unlock")
  /\ UNCHANGED <<map, map_lock, lock, m, p, nm, cnt, job>>

TableUnlock(t) ==
  /\ pc[t] = "tl_unlock"
  /\ lock' = 0
  /\ Goto(t, "ret")
  /\ UNCHANGED <<map, map_lock, live, mref, data, m, p, nm, old, cnt, job>>

-----------------------------------------------------------------------------
Step(t) ==
  \/ GrabLock(t) \/ GrabRef(t) \/ GrabSet(t) \/ GrabUnlock(t)
  \/ SearchNode(t) \/ ReadSize(t) \/ ScanNode(t)
  \/ ReleaseRead(t) \/ ReleaseMap(t) \/ ReleaseSet(t) \/ ReleaseDelete(t)
  \/ ReleaseReturn(t) \/ SearchAgain(t) \/ SearchDone(t) \/ UpdateString(t)
  \/ TableLock(t) \/ Insert(t) \/ Expand(t)
  \/ UpdateLock(t) \/ UpdateSwap(t) \/ UpdateRef(t) \/ UpdateUnlock(t)
  \/ UpdateDelete(t) \/ TableUnlock(t)
  \/ Return(t)

Next ==
  \/ \E t \in Readers : CallGet(t) \/ CallSetString(t) \/ CallKeys(t)
  \/ \E t \in Writers : CallSet(t)
  \/ \E t \in Threads : Step(t)

Spec == Init /\ [][Next]_vars

(* The scheduler runs every thread that can take a step; the spin locks     *)
(* promise nothing to a thread that keeps finding them taken.               *)
Fairness == \A t \in Threads : WF_vars(Step(t))

FairSpec == Spec /\ Fairness

-----------------------------------------------------------------------------
(* Properties *)

(* The regime in which the count is sound: at most one thread ever grabs    *)
(* maps, however many only set.                                             *)
SingleReader == \A a, b \in Readers : a = b

TableHeld == {"ins", "exp", "um_lock", "um_swap", "um_ref", "um_unlock",
              "um_delete", "tl_unlock"}

(* Inside _grab_map, or with the grabbed map. *)
Reading == {"gm_lock", "gm_ref", "gm_set", "gm_unlock", "search", "size", "scan",
            "rm_read", "rm_map", "rm_set", "rm_delete", "rm_return"}

(* The thread has counted its map and has not stored the decrement. *)
Holding == {"gm_unlock", "search", "size", "scan", "rm_read", "rm_map", "rm_set",
            "rm_delete"}

(* The walk is over, the result not yet used. *)
Leaving == {"rm_read", "rm_map", "rm_set", "rm_delete", "rm_return"}

Holds(t, x) == pc[t] \in Holding /\ m[t] = x

MapHeld == {"gm_ref", "gm_set", "gm_unlock", "um_swap", "um_ref", "um_unlock"}

(* Thread t's next step reads through a pointer to map x, or deletes it. *)
Touches(t, x) ==
  \/ pc[t] \in {"search", "size", "scan", "rm_read", "rm_delete"} /\ m[t] = x
  \/ pc[t] \in {"gm_ref", "gm_set", "ins", "exp"} /\ map = x
  \/ pc[t] \in {"um_ref", "um_delete"} /\ old[t] = x

(* No thread reads, extends, or deletes an lmap that has been deleted: not  *)
(* a reader in the middle of a chain while a setter replaces the map, and   *)
(* not a setter through this->map.                                          *)
NoUseAfterFree ==
  \A t \in Threads, x \in Maps : Touches(t, x) => x \in live

(* The table lock and map_lock exclude: at most one thread changes chains,  *)
(* and at most one counts or replaces the map, with any number of readers.  *)
LocksExclude ==
  \A t, u \in Threads : t # u =>
    /\ ~(pc[t] \in TableHeld /\ pc[u] \in TableHeld)
    /\ ~(pc[t] \in MapHeld /\ pc[u] \in MapHeld)

(* assert(ref > 1) in _grab_map. *)
GrabAssertHolds == \A t \in Threads : pc[t] = "gm_set" => cnt[t] > 1

(* keys(), running beside setters that add nodes and replace the map,       *)
(* reports a key once, only keys that are in the table, and, unless it      *)
(* stopped at its capacity, every key that was there when it began.         *)
KeysConsistent ==
  \A t \in Threads :
    job[t].op = "keys" /\ pc[t] = "ret" =>
      LET out == job[t].out
      IN  /\ \A i, j \in DOMAIN out : out[i] = out[j] => i = j
          /\ ToSet(out) \subseteq KeysIn(map)
          /\ job[t].snap \subseteq ToSet(out) \/ Len(out) = job[t].cap - 1

(* A getter returns: each retry of the _search_map loop needs a new map, and*)
(* _update_map holds map_lock only for a few steps of a running thread.     *)
ReadsReturn ==
  \A t \in Readers :
    pc[t] \notin {"idle", "tl_lock"} /\ job[t].op # "set" ~>
      pc[t] \in {"idle", "tl_lock"}

-----------------------------------------------------------------------------
(* The inductive invariants: LockInv with LocalInv for any readers, and     *)
(* CountInv on top of them when there is only one.                          *)

LockInv ==
  /\ \A t \in Threads : pc[t] \in TableHeld => lock = 1
  /\ \A t \in Threads : pc[t] \in MapHeld => map_lock = 1
  /\ LocksExclude

LocalInv ==
  \A t \in Threads :
    /\ pc[t] \in Holding \cup {"rm_return"} => m[t] \in Maps
    /\ pc[t] = "rm_set" => p[t] \in Maps
    /\ pc[t] \in {"um_lock", "um_swap"} => nm[t] \in Maps
    /\ pc[t] \in {"um_ref", "um_unlock", "um_delete"} => old[t] \in Maps
    /\ pc[t] \in Reading => t \in Readers

(* The current map counts the table and the reader that holds it; a map the *)
(* reader holds keeps its count of 2 after it has been replaced.            *)
RefInv ==
  /\ map \in live
  /\ (\A t \in Threads : ~Holds(t, map)) => mref[map] = 1
  /\ \A t \in Threads, x \in Maps : Holds(t, x) => x \in live /\ mref[x] = 2

(* What the locals of a call in progress hold. *)
CntInv ==
  \A t \in Threads :
    /\ pc[t] = "gm_set" => cnt[t] = 2
    /\ pc[t] \in {"rm_map", "rm_set"} => cnt[t] = 1
    /\ pc[t] = "rm_set" /\ m[t] = map => p[t] = map
    /\ pc[t] # "rm_delete"

(* The new map is private until the swap; the old one is not current, and   *)
(* nobody holds it once the decision to delete it is taken.                 *)
UpdateInv ==
  \A t \in Threads :
    /\ pc[t] \in {"um_lock", "um_swap"} =>
         /\ nm[t] \in live /\ nm[t] # map /\ mref[nm[t]] = 1
         /\ \A u \in Threads : ~Holds(u, nm[t])
    /\ pc[t] \in {"um_ref", "um_unlock", "um_delete"} =>
         old[t] \in live /\ old[t] # map
    /\ pc[t] = "um_delete" \/ (pc[t] = "um_unlock" /\ cnt[t] = 0) =>
         \A u \in Threads : ~Holds(u, old[t])

BaseInv == TypeOK /\ LockInv /\ LocalInv

CountInv == RefInv /\ CntInv /\ UpdateInv

(* Values with counts of refs, and a value as callers see it. *)
Held(refs) == [ref : refs, type : PlainTypes \cup {"STRING"}, v : Bits \cup Strs]
Plain(w) == [type |-> w.type, v |-> w.v]

Copied == {"um_lock", "um_swap"}

SameContents(d, e) == \A k \in Keys : Plain(Search(d, k)) = Plain(Search(e, k))

(* Map d has every key of e. *)
Covers(d, e) == \A k \in Keys : Search(e, k) # NilValue => Search(d, k) # NilValue

(* The allocated maps are in order, and each value of the current one       *)
(* counts 1 until a copy shares it.  The new map of a growing setter has    *)
(* what the current one has, and a replaced map has no key that the current *)
(* one lacks.                                                               *)
MapsInv ==
  /\ \A x \in live : MapOK(data[x], Keys, Held({1, 2}))
  /\ (\A t \in Threads : pc[t] \notin Copied) => MapOK(data[map], Keys, Held({1}))
  /\ \A t \in Threads : pc[t] \in Copied =>
       MapOK(data[nm[t]], Keys, Held({1})) /\ SameContents(data[nm[t]], data[map])
  /\ \A t \in Threads : pc[t] \in Holding => Covers(data[map], data[m[t]])

Jobs == [op : {"none", "get", "set_string", "size", "keys", "set"},
         key : Keys \cup {NilValue}, val : Held({0}) \cup {NilValue},
         cur : Nat \X (Nat \ {0}), res : Held({1, 2}) \cup {NilValue}, cap : Nat,
         out : Seq(Keys), fresh : BOOLEAN, snap : SUBSET Keys]

(* The call in progress j of a thread at label l. *)
JobOK(l, j) ==
  /\ j \in Jobs
  /\ IF l = "idle" THEN j = NoJob ELSE j.op # "none"
  /\ j.op \in {"get", "set_string", "set"} => j.key \in Keys
  /\ l \in Reading => j.op # "set"
  /\ l = "search" => j.op \in {"get", "set_string"}
  /\ l = "size" => j.op = "size"
  /\ l = "scan" => j.op = "keys"
  /\ l = "us" => j.op = "set_string"
  /\ l \in TableHeld \cup {"tl_lock"} => j.op \in {"set", "set_string"} /\ j.val \in Held({0})
  /\ l \in TableHeld \ {"ins"} => ~j.fresh
  /\ j.op = "size" => l \in Reading
  /\ j.op = "keys" => l \in Reading \cup {"ret"} /\ j.cap > 0
  /\ j.op = "size" /\ l \in Leaving => j.cap > 0
  /\ j.op # "keys" \/ l \in {"gm_lock", "gm_ref", "gm_set", "gm_unlock"} => j.out = <<>>
  /\ (j.op # "keys" /\ l # "search") \/ l \in {"gm_lock", "gm_ref", "gm_set", "gm_unlock"} =>
       j.cur = <<0, 1>>

(* A get that walks map d has passed no node of its key. *)
WalkOK(d, j) ==
  LET c == Chain(d, j.key)
  IN  /\ j.cur[2] <= Len(c) + 1
      /\ \A i \in 1 .. j.cur[2] - 1 : NodeKey(c[i]) # j.key

(* Node i of bucket h comes before cur, the position of keys. *)
Before(h, i, cur) == h < cur[1] \/ (h = cur[1] /\ i < cur[2])

(* keys has reported keys it has passed, and will come to those it found    *)
(* when it began and has not reported.                                      *)
ScanOK(d, j) ==
  /\ j.cur[1] <= d.size
  /\ \A n \in DOMAIN j.out : \E h \in 0 .. d.size - 1 : \E i \in DOMAIN d.data[h] :
       Before(h, i, j.cur) /\ NodeKey(d.data[h][i]) = j.out[n]
  /\ \A k \in j.snap \ ToSet(j.out) : \E h \in 0 .. d.size - 1 : \E i \in DOMAIN d.data[h] :
       ~Before(h, i, j.cur) /\ NodeKey(d.data[h][i]) = k

(* What keys has reported so far. *)
OutOK(j) ==
  /\ \A i, n \in DOMAIN j.out : j.out[i] = j.out[n] => i = n
  /\ Len(j.out) <= j.cap - 1

(* ... and when it is through. *)
AllOut(j) == j.snap \subseteq ToSet(j.out) \/ Len(j.out) = j.cap - 1

(* The call j of a thread at label l that walks map d of a table whose      *)
(* current map is e.                                                        *)
CallOK(l, j, d, e) ==
  /\ JobOK(l, j)
  /\ l = "search" => WalkOK(d, j)
  /\ j.op = "keys" =>
       /\ l \in {"gm_unlock", "scan"} => ScanOK(d, j)
       /\ l \in Leaving \cup {"ret"} => AllOut(j)
       /\ OutOK(j)
       /\ \A n \in DOMAIN j.out : Search(e, j.out[n]) # NilValue

CallInv == \A t \in Threads : CallOK(pc[t], job[t], data[m[t]], data[map])

(* A map that was not current when a get's walk in it ended stays allocated *)
(* and is not current when the get compares it with this->map: its count of *)
(* 2 is never given back, so no new map takes its address.                  *)
StaleInv ==
  \A t \in Threads :
    pc[t] \in Leaving /\ job[t].op \in {"get", "set_string"} /\ ~job[t].fresh =>
      /\ m[t] \in live /\ m[t] # map /\ mref[m[t]] = 2
      /\ pc[t] = "rm_set" => p[t] # m[t]
      /\ \A u \in Threads :
           /\ pc[u] \in Copied => nm[u] # m[t]
           /\ pc[u] = "um_delete" \/ (pc[u] = "um_unlock" /\ cnt[u] = 0) => old[u] # m[t]

DataInv == MapsInv /\ CallInv /\ StaleInv

(* The invariant of the single-reader regime. *)
IInv == BaseInv /\ CountInv /\ DataInv

-----------------------------------------------------------------------------
(* Refinement of AtomicTable *)

(* A get has seen a value once its walk has ended in the current map. *)
absCall(t) ==
  LET j == job[t]
  IN  IF j.op \in {"none", "size", "keys"} THEN [st |-> "idle"]
      ELSE CASE pc[t] \in Reading ->
                  [st |-> "get", key |-> j.key,
                   seen |-> IF j.fresh THEN Plain(j.res) ELSE NoMap]
             [] pc[t] \in {"tl_lock", "ins"} ->
                  [st |-> "set", key |-> j.key, val |-> Plain(j.val)]
             [] pc[t] \in {"us", "ret"} /\ j.op # "set" /\ j.fresh ->
                  [st |-> "got", key |-> j.key, val |-> Plain(j.res)]
             [] OTHER -> [st |-> "done"]

absDict == [k \in Keys |-> Plain(Search(data[map], k))]

Abstract == INSTANCE AtomicTable WITH
  Values <- [type : PlainTypes, v : Bits] \cup [type : {"STRING"}, v : Strs],
  Unseen <- NoMap,
  dict <- absDict,
  call <- [t \in Threads |-> absCall(t)]

(* The shared table is an atomic dictionary: every get, however many maps   *)
(* it grabbed, returns a value the key held during the call, and a set is   *)
(* seen by all at one instant, across any growth of the hash.               *)
IsAtomicTable == Abstract!AbsSpec
=============================================================================
