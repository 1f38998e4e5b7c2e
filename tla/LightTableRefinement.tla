------------------------ MODULE LightTableRefinement ------------------------
(* With one reader and any number of setters the shared table is an atomic  *)
(* dictionary: every step of LightTable is a step of AtomicTable or leaves  *)
(* what the callers see as it is, under the mapping absDict, absCall.       *)
(*                                                                          *)
(* The end of a walk in the current map is the instant of a get, the store  *)
(* of _insert_value that of a set; growing the hash shows nothing.          *)
EXTENDS LightTableDataProofs

-----------------------------------------------------------------------------
(* The mapping *)

(* absCall for a thread at label l with call j *)
View(l, j) ==
  IF j.op \in {"none", "size", "keys"} THEN [st |-> "idle"]
  ELSE CASE l \in Reading ->
              [st |-> "get", key |-> j.key, seen |-> IF j.fresh THEN Plain(j.res) ELSE NoMap]
         [] l \in {"tl_lock", "ins"} ->
              [st |-> "set", key |-> j.key, val |-> Plain(j.val)]
         [] l \in {"us", "ret"} /\ j.op # "set" /\ j.fresh ->
              [st |-> "got", key |-> j.key, val |-> Plain(j.res)]
         [] OTHER -> [st |-> "done"]

Views == [u \in Threads |-> View(pc[u], job[u])]

LEMMA ViewsAre ==
  /\ Views = [u \in Threads |-> absCall(u)]
  /\ Views' = [u \in Threads |-> absCall(u)']
<1>1. \A u \in Threads : absCall(u) = View(pc[u], job[u])
  BY Zenon DEF absCall, View
<1>2. \A u \in Threads : absCall(u)' = View(pc'[u], job'[u])
  BY Zenon DEF absCall, View
<1> QED
  BY <1>1, <1>2, Zenon DEF Views

(* The calls as they look when thread t's looks like c *)
Shows(t, c) == Views' = [Views EXCEPT ![t] = c]

LEMMA ToStutter ==
  ASSUME Views' = Views, absDict' = absDict
  PROVE  UNCHANGED Abstract!absVars
BY ViewsAre DEF Abstract!absVars

LEMMA ToLook ==
  ASSUME NEW t \in Threads, Views[t].st = "get", absDict' = absDict,
         Shows(t, [st |-> "get", key |-> Views[t].key, seen |-> absDict[Views[t].key]])
  PROVE  Abstract!AbsNext
<1>1. Abstract!Look(t)
  BY ViewsAre DEF Abstract!Look, Abstract!Become, Abstract!Getting, Shows
<1> QED
  BY <1>1 DEF Abstract!AbsNext

LEMMA ToInvokeGet ==
  ASSUME NEW t \in Threads, Views[t].st = "idle", absDict' = absDict, NEW k \in Keys,
         Shows(t, [st |-> "get", key |-> k, seen |-> NoMap])
  PROVE  Abstract!AbsNext
<1>1. Abstract!InvokeGet(t)
  BY ViewsAre DEF Abstract!InvokeGet, Abstract!Become, Abstract!Getting, Shows
<1> QED
  BY <1>1 DEF Abstract!AbsNext

LEMMA ToForget ==
  ASSUME NEW t \in Threads, Views[t].st = "get", absDict' = absDict,
         Shows(t, [st |-> "get", key |-> Views[t].key, seen |-> NoMap])
  PROVE  Abstract!AbsNext
<1>1. Abstract!Forget(t)
  BY ViewsAre DEF Abstract!Forget, Abstract!Become, Abstract!Getting, Shows
<1> QED
  BY <1>1 DEF Abstract!AbsNext

LEMMA ToReturnGet ==
  ASSUME NEW t \in Threads, Views[t].st = "get", Views[t].seen # NoMap, absDict' = absDict,
         Shows(t, [st |-> "got", key |-> Views[t].key, val |-> Views[t].seen])
  PROVE  Abstract!AbsNext
<1>1. Abstract!ReturnGet(t)
  BY ViewsAre DEF Abstract!ReturnGet, Abstract!Become, Abstract!Got, Shows
<1> QED
  BY <1>1 DEF Abstract!AbsNext

(* What a caller may store *)
Storable == [type : PlainTypes, v : Bits] \cup [type : {"STRING"}, v : Strs]

LEMMA ToSetUnseenKey ==
  ASSUME NEW t \in Threads, Views[t].st = "get", Views[t].seen = [type |-> "NIL", v |-> 0],
         absDict' = absDict, NEW val \in Storable,
         Shows(t, [st |-> "set", key |-> Views[t].key, val |-> val])
  PROVE  Abstract!AbsNext
<1>1. Abstract!SetUnseenKey(t)
  BY ViewsAre DEF Abstract!SetUnseenKey, Abstract!Become, Abstract!Setting, Abstract!Nothing, Shows, Storable
<1> QED
  BY <1>1 DEF Abstract!AbsNext

LEMMA ToInvokeSet ==
  ASSUME NEW t \in Threads, Views[t].st = "idle", absDict' = absDict, NEW k \in Keys, NEW val \in Storable,
         Shows(t, [st |-> "set", key |-> k, val |-> val])
  PROVE  Abstract!AbsNext
<1>1. Abstract!InvokeSet(t)
  BY ViewsAre DEF Abstract!InvokeSet, Abstract!Become, Abstract!Setting, Shows, Storable
<1> QED
  BY <1>1 DEF Abstract!AbsNext

LEMMA ToPut ==
  ASSUME NEW t \in Threads, Views[t].st = "set",
         absDict' = [absDict EXCEPT ![Views[t].key] =
           [type |-> IF absDict[Views[t].key] = [type |-> "NIL", v |-> 0]
                       THEN Views[t].val.type ELSE absDict[Views[t].key].type,
            v |-> Views[t].val.v]],
         Shows(t, [st |-> "done"])
  PROVE  Abstract!AbsNext
<1>1. Abstract!Put(t)
  BY ViewsAre DEF Abstract!Put, Abstract!Become, Abstract!Done, Abstract!Nothing, Shows
<1> QED
  BY <1>1 DEF Abstract!AbsNext

LEMMA ToReturn ==
  ASSUME NEW t \in Threads, Views[t].st \in {"got", "done"}, absDict' = absDict,
         Shows(t, [st |-> "idle"])
  PROVE  Abstract!AbsNext
<1>1. Abstract!Return(t)
  BY ViewsAre DEF Abstract!Return, Abstract!Become, Abstract!Idle, Shows
<1> QED
  BY <1>1 DEF Abstract!AbsNext

-----------------------------------------------------------------------------
(* Steps that show nothing *)

LEMMA OneView ==
  ASSUME NEW t \in Threads, NEW l, NEW j, pc'[t] = l, job'[t] = j,
         \A u \in Threads : u # t => pc'[u] = pc[u] /\ job'[u] = job[u]
  PROVE  /\ Shows(t, View(l, j))
         /\ Views[t] = View(pc[t], job[t])
         /\ View(l, j) = View(pc[t], job[t]) => Views' = Views
<1>1. Views' = [u \in Threads |-> View(pc'[u], job'[u])]
  BY Zenon DEF Views, View
<1> QED
  BY <1>1, Zenon DEF Views, Shows

(* Calls that look alike *)
LEMMA SameView ==
  ASSUME NEW l, NEW k, NEW j,
         \/ l \in Reading /\ k \in Reading
         \/ l \in {"tl_lock", "ins"} /\ k \in {"tl_lock", "ins"}
         \/ l \in {"us", "ret"} /\ k \in {"us", "ret"}
         \/ j.op \in {"none", "size", "keys"}
         \/ l \in TableHeld \ {"ins"} /\ k \in TableHeld \ {"ins"}
         \/ l = "tl_unlock" /\ k = "ret" /\ ~j.fresh
  PROVE  View(l, j) = View(k, j)
BY DEF View, Reading, TableHeld

(* Thread t goes on with the same call and contents. *)
LEMMA ShowsNothing ==
  ASSUME BaseInv, NEW t \in Threads, NEW k, Goto(t, k), UNCHANGED job,
         View(k, job[t]) = View(pc[t], job[t]), absDict' = absDict
  PROVE  UNCHANGED Abstract!absVars
<1>1. pc'[t] = k /\ \A u \in Threads : u # t => pc'[u] = pc[u] /\ job'[u] = job[u]
  BY DEF BaseInv, TypeOK, Goto
<1>2. Views' = Views
  BY <1>1, OneView
<1> QED
  BY <1>2, ToStutter

LEMMA SameDict ==
  ASSUME UNCHANGED <<map, data>>
  PROVE  absDict' = absDict
BY DEF absDict

(* Taking and releasing locks, counts and pointers *)
LEMMA CountingRefines ==
  ASSUME IInv, NEW t \in Threads,
         \/ GrabLock(t) \/ GrabRef(t) \/ GrabUnlock(t)
         \/ ReleaseRead(t) \/ ReleaseMap(t) \/ ReleaseSet(t) \/ SearchAgain(t)
         \/ UpdateString(t) \/ TableLock(t)
         \/ UpdateLock(t) \/ UpdateRef(t) \/ UpdateUnlock(t) \/ TableUnlock(t)
  PROVE  UNCHANGED Abstract!absVars
<1>1. BaseInv /\ JobOK(pc[t], job[t])
  BY DEF IInv, DataInv, CallInv, CallOK
<1>2. UNCHANGED job /\ UNCHANGED <<map, data>>
  BY DEF GrabLock, GrabRef, GrabUnlock, ReleaseRead, ReleaseMap, ReleaseSet, SearchAgain,
         UpdateString, TableLock, UpdateLock, UpdateRef, UpdateUnlock, TableUnlock
<1>3. \E k : /\ Goto(t, k)
             /\ \/ pc[t] \in Reading /\ k \in Reading
                \/ pc[t] = "us" /\ k = "ret"
                \/ pc[t] = "tl_lock" /\ k = "ins"
                \/ pc[t] \in TableHeld \ {"ins"} /\ k \in TableHeld \ {"ins"}
                \/ pc[t] = "tl_unlock" /\ k = "ret"
  BY DEF GrabLock, GrabRef, GrabUnlock, ReleaseRead, ReleaseMap, ReleaseSet, SearchAgain,
         UpdateString, TableLock, UpdateLock, UpdateRef, UpdateUnlock, TableUnlock,
         Reading, TableHeld
<1>4. pc[t] = "tl_unlock" => ~job[t].fresh
  BY <1>1 DEF JobOK, TableHeld
<1>5. PICK k : Goto(t, k) /\ View(k, job[t]) = View(pc[t], job[t])
  BY <1>3, <1>4, SameView
<1> QED
  BY <1>1, <1>2, <1>5, ShowsNothing, SameDict

(* Growing the hash *)
LEMMA GrowingRefines ==
  ASSUME IInv, NEW t \in Threads, Expand(t) \/ UpdateSwap(t) \/ UpdateDelete(t)
  PROVE  UNCHANGED Abstract!absVars
<1>1. BaseInv /\ map \in live /\ DOMAIN data = Maps /\ live \in SUBSET Maps
  BY MapsUsed DEF IInv, BaseInv, TypeOK
<1>2. \E k : Goto(t, k) /\ pc[t] \in TableHeld \ {"ins"} /\ k \in TableHeld \ {"ins"}
  BY DEF Expand, UpdateSwap, UpdateDelete, TableHeld
<1>3. PICK k : Goto(t, k) /\ View(k, job[t]) = View(pc[t], job[t])
  BY <1>2, SameView
<1>4. SameContents(data'[map'], data[map])
  <2>1. CASE Expand(t)
    <3>1. PICK x \in Maps \ live :
            data' = [data EXCEPT ![x] = CopyMap(NewMap(data[map].size * 2), data[map]),
                                 ![map] = CopiedFrom(@)]
      BY <2>1 DEF Expand
    <3>2. map' = map /\ data'[map] = CopiedFrom(data[map])
      BY <1>1, <2>1, <3>1 DEF Expand
    <3>3. MapOK(data[map], Keys, Held({1}))
      <4>1. \A u \in Threads : pc[u] \notin Copied
        BY <2>1, OneSetter DEF Expand, Copied, TableHeld
      <4> QED BY <4>1 DEF IInv, DataInv, MapsInv
    <3>4. SameContents(CopiedFrom(data[map]), data[map])
      BY <3>3, CopyKept
    <3> QED BY <3>2, <3>4
  <2>2. CASE UpdateSwap(t)
    BY <2>2 DEF UpdateSwap, IInv, DataInv, MapsInv, Copied
  <2>3. CASE UpdateDelete(t)
    <3>1. old[t] # map /\ old[t] \in Maps
      BY <1>1, <2>3 DEF UpdateDelete, IInv, CountInv, UpdateInv
    <3>2. map' = map /\ data'[map] = data[map]
      BY <1>1, <2>3, <3>1 DEF UpdateDelete, Delete
    <3> QED BY <3>2 DEF SameContents
  <2> QED BY <2>1, <2>2, <2>3
<1>5. absDict' = absDict
  BY <1>4, Zenon DEF SameContents, absDict
<1>6. UNCHANGED job
  BY DEF Expand, UpdateSwap, UpdateDelete
<1> QED
  BY <1>1, <1>3, <1>5, <1>6, ShowsNothing

(* size and keys, and the snapshot of _grab_map *)
LEMMA KeysRefines ==
  ASSUME IInv, NEW t \in Threads,
         GrabSet(t) \/ ReadSize(t) \/ ScanNode(t) \/ ReleaseReturn(t) \/ CallKeys(t)
  PROVE  UNCHANGED Abstract!absVars
<1>1. /\ BaseInv /\ JobOK(pc[t], job[t]) /\ t \in DOMAIN job /\ DOMAIN job = Threads
      /\ job[t] \in Jobs
  BY DEF IInv, BaseInv, TypeOK, DataInv, CallInv, CallOK, JobOK
<1>2. absDict' = absDict
  BY SameDict DEF GrabSet, ReadSize, ScanNode, ReleaseReturn, CallKeys, Call
<1>3. \A u \in Threads : u # t => pc'[u] = pc[u] /\ job'[u] = job[u]
  BY <1>1 DEF BaseInv, TypeOK, GrabSet, ReadSize, ScanNode, ReleaseReturn, CallKeys, Call, Goto
<1>4. CASE GrabSet(t)
  <2> DEFINE S == IF job[t].op = "keys" THEN KeysIn(map) ELSE {}
             q == [job[t] EXCEPT !.snap = S]
  <2>1. job'[t] = q /\ pc'[t] = "gm_unlock" /\ pc[t] = "gm_set"
    BY <1>1, <1>4 DEF GrabSet, Goto, BaseInv, TypeOK
  <2>2. S \in SUBSET Keys
    <3>1. KeysIn(map) \subseteq Keys
      BY MapsUsed, KeysInIs
    <3> QED BY <3>1
  <2> HIDE DEF S
  <2>3. q.op = job[t].op /\ q.key = job[t].key /\ q.res = job[t].res /\ q.fresh = job[t].fresh
        /\ q.val = job[t].val
    BY <1>1, <2>2, JobSnap
  <2> HIDE DEF q
  <2>4. View("gm_unlock", q) = View("gm_set", job[t])
    BY <2>3 DEF View, Reading
  <2> QED BY <1>2, <1>3, <2>1, <2>4, OneView, ToStutter
<1>5. CASE ~GrabSet(t)
  <2>1. /\ job[t].op \in {"none", "size", "keys"}
        /\ job'[t].op \in {"none", "size", "keys"}
    <3>1. CASE ReadSize(t)
      <4>1. job[t].op = "size"
        BY <1>1, <3>1 DEF JobOK, ReadSize
      <4>2. job' = [job EXCEPT ![t].cap = data[m[t]].size * MAX_HASH_DEPTH]
        BY <3>1 DEF ReadSize
      <4>3. job'[t].op = job[t].op
        BY <1>1, <4>2 DEF Jobs
      <4> QED BY <4>1, <4>3
    <3>2. CASE ScanNode(t)
      <4>1. job[t].op = "keys"
        BY <1>1, <3>2 DEF JobOK, ScanNode
      <4>2. CASE ScanEnd(t)
        BY <4>1, <4>2 DEF ScanEnd
      <4>3. CASE NextBucket(t)
        <5>1. job' = [job EXCEPT ![t].cur = <<job[t].cur[1] + 1, 1>>]
          BY <4>3 DEF NextBucket
        <5>2. job'[t].op = job[t].op
          BY <1>1, <5>1 DEF Jobs
        <5> QED BY <4>1, <5>2
      <4>4. CASE TakeNode(t)
        <5>1. PICK q : job' = [job EXCEPT ![t] = q] /\ Takes(q, job[t], data[m[t]])
          BY <4>4 DEF TakeNode
        <5>2. job'[t] = q
          BY <1>1, <5>1
        <5>3. q.op = job[t].op
          BY <1>1, <5>1 DEF Takes, Jobs
        <5> QED BY <4>1, <5>2, <5>3
      <4> QED BY <3>2, <4>2, <4>3, <4>4, ScanNodeDoes
    <3>3. CASE ReleaseReturn(t)
      BY <1>1, <3>3 DEF ReleaseReturn, Jobs
    <3>4. CASE CallKeys(t)
      <4>1. pc[t] = "idle" /\ job' = [job EXCEPT ![t] = [NoJob EXCEPT !.op = "size"]]
        BY <3>4 DEF CallKeys, Call
      <4>2. job[t] = NoJob
        BY <1>1, <4>1 DEF JobOK
      <4>3. job'[t] = [NoJob EXCEPT !.op = "size"]
        BY <1>1, <4>1
      <4> QED BY <4>2, <4>3 DEF NoJob
    <3> QED BY <1>5, <3>1, <3>2, <3>3, <3>4
  <2>2. View(pc[t], job[t]) = [st |-> "idle"]
    BY <2>1 DEF View
  <2>3. View(pc'[t], job'[t]) = [st |-> "idle"]
    BY <2>1 DEF View
  <2> QED BY <1>2, <1>3, <2>2, <2>3, OneView, ToStutter
<1> QED
  BY <1>4, <1>5

-----------------------------------------------------------------------------
(* Steps callers see *)

(* A thread that is idle has no call; others have. *)
LEMMA IdleView ==
  ASSUME IInv, NEW t \in Threads, pc[t] = "idle"
  PROVE  Views[t] = [st |-> "idle"]
<1>1. job[t] = NoJob
  BY DEF IInv, DataInv, CallInv, CallOK, JobOK
<1> QED
  BY <1>1 DEF Views, View, NoJob

LEMMA GetStarts ==
  ASSUME IInv, NEW t \in Threads, CallGet(t) \/ CallSetString(t)
  PROVE  Abstract!AbsNext
<1>1. PICK op \in {"get", "set_string"}, k \in Keys :
        Call(t, "gm_lock", [NoJob EXCEPT !.op = op, !.key = k])
  BY Zenon DEF CallGet, CallSetString
<1> DEFINE j == [NoJob EXCEPT !.op = op, !.key = k]
<1>2. pc[t] = "idle" /\ Goto(t, "gm_lock") /\ job' = [job EXCEPT ![t] = j] /\ UNCHANGED <<map, data>>
  BY <1>1, Zenon DEF Call
<1>3. j.op = op /\ j.key = k /\ ~j.fresh
  <2> DEFINE q == [NoJob EXCEPT !.op = op]
  <2>1. NoJob \in Jobs /\ ~NoJob.fresh
    BY DEF NoJob, Jobs
  <2>2. q \in Jobs /\ q.op = op /\ q.fresh = NoJob.fresh
    BY <2>1, JobOp
  <2> HIDE DEF q
  <2> DEFINE r == [q EXCEPT !.key = k]
  <2>3. r.key = k /\ r.op = op /\ r.fresh = q.fresh
    BY <2>2, JobKey
  <2>4. j = r
    BY Zenon DEF q
  <2> HIDE DEF r, j
  <2> QED BY <2>1, <2>2, <2>3, <2>4
<1> HIDE DEF j
<1>4. /\ pc'[t] = "gm_lock" /\ job'[t] = j
      /\ \A u \in Threads : u # t => pc'[u] = pc[u] /\ job'[u] = job[u]
  BY <1>2 DEF IInv, BaseInv, TypeOK, Goto
<1>5. View("gm_lock", j) = [st |-> "get", key |-> k, seen |-> NoMap]
  BY <1>3 DEF View, Reading
<1>6. Shows(t, [st |-> "get", key |-> k, seen |-> NoMap])
  BY <1>4, <1>5, OneView
<1>7. Views[t].st = "idle"
  BY <1>2, IdleView
<1> QED
  BY <1>2, <1>6, <1>7, SameDict, ToInvokeGet

LEMMA SetStarts ==
  ASSUME IInv, NEW t \in Threads, CallSet(t)
  PROVE  Abstract!AbsNext
<1>1. PICK k \in Keys, type \in PlainTypes, b \in Bits :
        Call(t, "tl_lock", [NoJob EXCEPT !.op = "set", !.key = k,
                              !.val = [ref |-> 0, type |-> type, v |-> b]])
  BY DEF CallSet
<1> DEFINE w == [ref |-> 0, type |-> type, v |-> b]
           q == [NoJob EXCEPT !.op = "set", !.key = k]
           j == [q EXCEPT !.val = w]
<1>2. w \in Held({0}) /\ Plain(w) = [type |-> type, v |-> b]
  BY DEF Held, Plain
<1>3. Call(t, "tl_lock", j)
  BY <1>1, Zenon
<1> HIDE DEF w
<1>4. q \in Jobs /\ q.op = "set" /\ q.key = k
  BY NewCall, Zenon
<1> HIDE DEF q
<1>5. j.op = "set" /\ j.key = k /\ j.val = w
  BY <1>2, <1>4, JobVal
<1> HIDE DEF j
<1>6. pc[t] = "idle" /\ Goto(t, "tl_lock") /\ job' = [job EXCEPT ![t] = j] /\ UNCHANGED <<map, data>>
  BY <1>3 DEF Call
<1>7. /\ pc'[t] = "tl_lock" /\ job'[t] = j
      /\ \A u \in Threads : u # t => pc'[u] = pc[u] /\ job'[u] = job[u]
  BY <1>6 DEF IInv, BaseInv, TypeOK, Goto
<1>8. View("tl_lock", j) = [st |-> "set", key |-> k, val |-> [type |-> type, v |-> b]]
  BY <1>2, <1>5 DEF View, Reading
<1>9. Shows(t, [st |-> "set", key |-> k, val |-> [type |-> type, v |-> b]])
  BY <1>7, <1>8, OneView
<1>10. Views[t].st = "idle"
  BY <1>6, IdleView
<1>11. [type |-> type, v |-> b] \in Storable
  BY DEF Storable
<1> QED
  BY <1>6, <1>9, <1>10, <1>11, SameDict, ToInvokeSet

LEMMA ReturnRefines ==
  ASSUME IInv, NEW t \in Threads, Return(t)
  PROVE  Abstract!AbsNext \/ UNCHANGED Abstract!absVars
<1>1. /\ pc[t] = "ret" /\ JobOK("ret", job[t]) /\ job[t] \in Jobs
      /\ UNCHANGED <<map, data>>
  BY DEF IInv, DataInv, CallInv, CallOK, JobOK, Return
<1>2. /\ pc'[t] = "idle" /\ job'[t] = NoJob
      /\ \A u \in Threads : u # t => pc'[u] = pc[u] /\ job'[u] = job[u]
  BY DEF IInv, BaseInv, TypeOK, Return, Goto
<1>3. View("idle", NoJob) = [st |-> "idle"]
  BY DEF View, NoJob
<1>4. Shows(t, [st |-> "idle"]) /\ Views[t] = View("ret", job[t])
  BY <1>1, <1>2, <1>3, OneView
<1>5. CASE job[t].op \in {"none", "size", "keys"}
  <2>1. View("ret", job[t]) = [st |-> "idle"]
    BY <1>5 DEF View
  <2> QED BY <1>1, <1>2, <1>3, <2>1, OneView, SameDict, ToStutter
<1>6. CASE job[t].op \notin {"none", "size", "keys"}
  <2>1. View("ret", job[t]).st \in {"got", "done"}
    BY <1>6 DEF View, Reading
  <2> QED BY <1>1, <1>4, <2>1, SameDict, ToReturn
<1> QED
  BY <1>5, <1>6

(* The end of a walk is the instant of a get, if its map is still current. *)
LEMMA SearchNodeRefines ==
  ASSUME IInv, NEW t \in Threads, SearchNode(t)
  PROVE  Abstract!AbsNext \/ UNCHANGED Abstract!absVars
<1> DEFINE j == job[t]
           d == data[m[t]]
           w == Search(d, j.key)
<1>1. /\ pc[t] = "search" /\ j \in Jobs /\ t \in DOMAIN job /\ DOMAIN job = Threads
      /\ j.op \in {"get", "set_string"} /\ j.key \in Keys
  BY DEF IInv, BaseInv, TypeOK, DataInv, CallInv, CallOK, JobOK, SearchNode
<1>2. w \in Held({1, 2}) \cup {NilValue}
  <2>1. MapOK(d, Keys, Held({1, 2}))
    BY <1>1, MapsUsed DEF Holding
  <2> QED BY <1>1, <2>1, KeyAssumption, PositionIs
<1>3. absDict' = absDict
  BY SameDict DEF SearchNode
<1>4. CASE WalkEnd(t, w)
  <2> DEFINE f == m[t] = map
             q == Ended(j, w, f)
  <2>1. m[t] = map => absDict[j.key] = Plain(w)
    BY <1>1 DEF absDict
  <2> HIDE DEF w, f
  <2>2. f \in BOOLEAN
    BY DEF f
  <2>3. job'[t] = q /\ \A u \in Threads : u # t => job'[u] = job[u]
    <3>1. EndedIn(job', job, t, w, f)
      BY <1>4, Zenon DEF WalkEnd, EndedIn, f
    <3> QED BY <1>1, <3>1, EndsWalk
  <2>4. q.op = j.op /\ q.key = j.key /\ q.res = w /\ q.fresh = f
    BY <1>1, <1>2, <2>2, EndedJob
  <2> HIDE DEF q
  <2>5. pc'[t] = "rm_read" /\ \A u \in Threads : u # t => pc'[u] = pc[u]
    BY <1>4 DEF WalkEnd, Goto, IInv, BaseInv, TypeOK
  <2>6. View("rm_read", q) = [st |-> "get", key |-> j.key, seen |-> IF f THEN Plain(w) ELSE NoMap]
    BY <1>1, <2>4 DEF View, Reading
  <2>7. View("search", j).st = "get" /\ View("search", j).key = j.key
    BY <1>1 DEF View, Reading
  <2>8. Shows(t, View("rm_read", q)) /\ Views[t] = View("search", j)
    BY <1>1, <2>3, <2>5, OneView
  <2> HIDE DEF j
  <2>9. CASE f
    BY <1>3, <2>1, <2>6, <2>7, <2>8, <2>9, ToLook DEF f
  <2>10. CASE ~f
    BY <1>3, <2>6, <2>7, <2>8, <2>10, ToForget
  <2> QED BY <2>9, <2>10
<1>5. CASE WalkOn(t)
  <2> DEFINE q == NextCur(j)
  <2>1. q.op = j.op /\ q.key = j.key /\ q.res = j.res /\ q.fresh = j.fresh
    BY <1>1, NextCurJob
  <2>2. job'[t] = q /\ \A u \in Threads : u # t => job'[u] = job[u]
    <3>1. job' = [job EXCEPT ![t] = q]
      BY <1>5, Zenon DEF WalkOn, NextCur
    <3> QED BY <1>1, <3>1
  <2> HIDE DEF q
  <2>3. pc' = pc /\ pc'[t] = "search"
    BY <1>1, <1>5 DEF WalkOn
  <2>4. View("search", q) = View("search", j)
    BY <1>1, <2>1 DEF View, Reading
  <2> QED BY <1>1, <1>3, <2>2, <2>3, <2>4, OneView, ToStutter
<1> QED
  BY <1>4, <1>5, SearchNodeDoes

(* A get that has seen a value in the map that is still current returns it; *)
(* set_string, having seen nothing, goes on to insert.                      *)
LEMMA SearchDoneRefines ==
  ASSUME IInv, NEW t \in Threads, SearchDone(t)
  PROVE  Abstract!AbsNext
<1> DEFINE j == job[t]
<1>1. /\ pc[t] = "rm_return" /\ m[t] = map /\ j \in Jobs /\ t \in DOMAIN job
      /\ j.op \in {"get", "set_string"} /\ j.res \in Held({1, 2}) \cup {NilValue}
      /\ DOMAIN job = Threads
  BY DEF IInv, BaseInv, TypeOK, DataInv, CallInv, CallOK, JobOK, Jobs, SearchDone
<1>2. j.fresh
  BY <1>1 DEF IInv, DataInv, StaleInv, Leaving
<1>3. absDict' = absDict
  BY SameDict DEF SearchDone
<1>4. View("rm_return", j) = [st |-> "get", key |-> j.key, seen |-> Plain(j.res)]
  BY <1>1, <1>2 DEF View, Reading
<1>5. Views[t] = View("rm_return", j)
  BY <1>1 DEF Views
<1>6. \A u \in Threads : u # t => pc'[u] = pc[u] /\ job'[u] = job[u]
  BY DEF SearchDone, Goto, IInv, BaseInv, TypeOK
<1>7. CASE \E l \in {"ret", "us"} : Goto(t, l) /\ UNCHANGED job
  <2>1. PICK l \in {"ret", "us"} : Goto(t, l) /\ UNCHANGED job
    BY <1>7
  <2>2. pc'[t] = l /\ job'[t] = j
    BY <1>1, <2>1 DEF Goto, IInv, BaseInv, TypeOK
  <2>3. View(l, j) = [st |-> "got", key |-> j.key, val |-> Plain(j.res)]
    BY <1>1, <1>2 DEF View, Reading
  <2>4. Plain(j.res) # NoMap
    <3>1. Plain(j.res) \in [type : PlainTypes \cup {"STRING", "NIL"}, v : Bits \cup Strs \cup {0}]
      BY <1>1 DEF Plain, Held, NilValue
    <3> QED BY <3>1, NoMapAssumption
  <2>5. Shows(t, View(l, j))
    BY <1>6, <2>2, OneView
  <2> HIDE DEF j
  <2> QED BY <1>3, <1>4, <1>5, <2>3, <2>4, <2>5, ToReturnGet
<1>8. CASE /\ Goto(t, "tl_lock") /\ j.op = "set_string" /\ j.res.type = "NIL"
           /\ \E ls \in Strs :
                job' = [job EXCEPT ![t].val = [ref |-> 0, type |-> "STRING", v |-> ls]]
  <2>1. PICK ls \in Strs : job' = [job EXCEPT ![t].val = [ref |-> 0, type |-> "STRING", v |-> ls]]
    BY <1>8
  <2> DEFINE w == [ref |-> 0, type |-> "STRING", v |-> ls]
             q == [j EXCEPT !.val = w]
  <2>2. w \in Held({0}) /\ Plain(w) = [type |-> "STRING", v |-> ls]
    BY DEF Held, Plain
  <2>3. pc'[t] = "tl_lock" /\ job'[t] = q
    BY <1>1, <1>8, <2>1 DEF Goto, IInv, BaseInv, TypeOK
  <2> HIDE DEF w
  <2>4. q.op = "set_string" /\ q.val = w /\ q.key = j.key
    BY <1>1, <1>8, <2>2, JobVal
  <2> HIDE DEF q
  <2>5. View("tl_lock", q) = [st |-> "set", key |-> j.key, val |-> [type |-> "STRING", v |-> ls]]
    BY <2>2, <2>4 DEF View, Reading
  <2>6. Plain(j.res) = [type |-> "NIL", v |-> 0]
    BY <1>1, <1>8, TypeAssumption DEF Plain, Held, NilValue
  <2>7. Shows(t, View("tl_lock", q))
    BY <1>6, <2>3, OneView
  <2>8. [type |-> "STRING", v |-> ls] \in Storable
    BY DEF Storable
  <2> HIDE DEF j
  <2> QED BY <1>3, <1>4, <1>5, <2>5, <2>6, <2>7, <2>8, ToSetUnseenKey
<1> QED
  BY <1>1, <1>7, <1>8 DEF SearchDone

(* The store of _insert_value is the instant of a set. *)
LEMMA InsertRefines ==
  ASSUME IInv, NEW t \in Threads, Insert(t)
  PROVE  Abstract!AbsNext
<1> DEFINE j == job[t]
           d == data[map]
           r == InsertValue(d, j.key, j.val)
           q == [j EXCEPT !.fresh = FALSE]
           w == Search(d, j.key)
<1>1. /\ pc[t] = "ins" /\ j \in Jobs /\ t \in DOMAIN job
      /\ j.key \in Keys /\ j.val \in Held({0}) /\ j.op \in {"set", "set_string"}
      /\ DOMAIN data = Maps
  BY DEF IInv, BaseInv, TypeOK, DataInv, CallInv, CallOK, JobOK, Insert, TableHeld
<1>2. PICK l \in {"exp", "tl_unlock"} : Goto(t, l)
  BY DEF Insert
<1>3. /\ job'[t] = q /\ \A u \in Threads : u # t => job'[u] = job[u]
      /\ pc'[t] = l /\ \A u \in Threads : u # t => pc'[u] = pc[u]
  BY <1>1, <1>2 DEF IInv, BaseInv, TypeOK, Goto, Insert
<1>4. MapOK(d, Keys, Held({1, 2})) /\ map \in Maps
  BY MapsUsed DEF IInv, BaseInv, TypeOK
<1>5. map' = map /\ data'[map'] = r
  BY <1>1, <1>4 DEF Insert
<1>6. /\ Search(r, j.key) = Written(w, j.val)
      /\ \A other \in Keys : other # j.key => Search(r, other) = Search(d, other)
  BY <1>1, <1>4, InsertKept
<1>7. w \in Held({1, 2}) \cup {NilValue}
  BY <1>1, <1>4, KeyAssumption, PositionIs
<1>8. q.op = j.op /\ ~q.fresh
  <2> DEFINE f == FALSE
  <2>1. f \in BOOLEAN /\ q = [j EXCEPT !.fresh = f]
    BY Zenon
  <2> HIDE DEF f, q
  <2>2. q.op = j.op /\ q.fresh = f
    BY <1>1, <2>1, JobFresh
  <2> QED BY <2>2 DEF f
<1> HIDE DEF q
<1>9. View(l, q) = [st |-> "done"]
  BY <1>1, <1>2, <1>8 DEF View, Reading
<1>10. View("ins", j) = [st |-> "set", key |-> j.key, val |-> Plain(j.val)]
  BY <1>1 DEF View, Reading
<1>11. Shows(t, [st |-> "done"]) /\ Views[t] = View("ins", j)
  BY <1>1, <1>3, <1>9, OneView
<1>12. Plain(Written(w, j.val)) =
         [type |-> IF Plain(w) = [type |-> "NIL", v |-> 0] THEN Plain(j.val).type ELSE Plain(w).type,
          v |-> Plain(j.val).v]
  <2> HIDE DEF w, j
  <2>1. CASE w = NilValue
    BY <2>1 DEF Plain, Written, NilValue
  <2>2. CASE w # NilValue
    <3>1. w.type # "NIL"
      BY <1>7, <2>2, TypeAssumption DEF Held
    <3> QED BY <2>2, <3>1 DEF Plain, Written
  <2> QED BY <2>1, <2>2
<1> HIDE DEF r, w
<1> DEFINE new == [type |-> IF Plain(w) = [type |-> "NIL", v |-> 0] THEN Plain(j.val).type
                                                                  ELSE Plain(w).type,
                   v |-> Plain(j.val).v]
<1>13. absDict' = [absDict EXCEPT ![j.key] = new]
  <2>1. absDict' = [k \in Keys |-> Plain(Search(r, k))]
    BY <1>5 DEF absDict
  <2>2. \A k \in Keys : Plain(Search(r, k)) = IF k = j.key THEN new ELSE absDict[k]
    BY <1>6, <1>12 DEF absDict
  <2> HIDE DEF new, j
  <2>3. absDict = [k \in Keys |-> absDict[k]]
    BY DEF absDict
  <2> HIDE DEF d
  <2> QED BY <1>1, <2>1, <2>2, <2>3
<1>14. absDict[j.key] = Plain(w)
  BY <1>1 DEF absDict, w
<1> HIDE DEF j
<1>15. Views[t].st = "set" /\ Views[t].key = j.key /\ Views[t].val = Plain(j.val)
  BY <1>10, <1>11
<1>16. absDict' = [absDict EXCEPT ![Views[t].key] =
         [type |-> IF absDict[Views[t].key] = [type |-> "NIL", v |-> 0]
                     THEN Views[t].val.type ELSE absDict[Views[t].key].type,
          v |-> Views[t].val.v]]
  BY <1>13, <1>14, <1>15, Zenon
<1> QED
  BY <1>11, <1>15, <1>16, ToPut

-----------------------------------------------------------------------------
(* The refinement *)

LEMMA InitRefines == Init => Abstract!AbsInit
<1> SUFFICES ASSUME Init PROVE Abstract!AbsInit
  OBVIOUS
<1>1. /\ data[map] = NewMap(INIT_SIZE)
      /\ \A t \in Threads : pc[t] = "idle" /\ job[t] = NoJob
  BY DEF Init
<1>2. \A k \in Keys : Search(data[map], k) = NilValue
  BY <1>1, KeyAssumption, DepthAssumption, NewMapOK
<1>3. Plain(NilValue) = [type |-> "NIL", v |-> 0]
  BY DEF Plain, NilValue
<1>4. absDict = [k \in Keys |-> [type |-> "NIL", v |-> 0]]
  BY <1>2, <1>3, Zenon DEF absDict
<1>5. \A t \in Threads : absCall(t) = [st |-> "idle"]
  BY <1>1 DEF absCall, NoJob
<1> QED
  BY <1>4, <1>5, Zenon DEF Abstract!AbsInit, Abstract!Nothing, Abstract!Idle

LEMMA NextRefines ==
  ASSUME IInv, [Next]_vars
  PROVE  Abstract!AbsNext \/ UNCHANGED Abstract!absVars
<1>1. CASE \E t \in Readers : CallGet(t) \/ CallSetString(t) \/ CallKeys(t)
  BY <1>1, GetStarts, KeysRefines DEF Threads
<1>2. CASE \E t \in Writers : CallSet(t)
  BY <1>2, SetStarts DEF Threads
<1>3. CASE \E t \in Threads : Step(t)
  <2> SUFFICES ASSUME NEW t \in Threads, Step(t)
               PROVE  Abstract!AbsNext \/ UNCHANGED Abstract!absVars
    BY <1>3
  <2>1. ~ReleaseDelete(t)
    BY DEF IInv, CountInv, CntInv, ReleaseDelete
  <2> QED
    BY <2>1, CountingRefines, GrowingRefines, KeysRefines, SearchNodeRefines,
       SearchDoneRefines, InsertRefines, ReturnRefines DEF Step
<1>4. CASE UNCHANGED vars
  <2>1. Views' = Views /\ absDict' = absDict
    BY <1>4 DEF vars, Views, View, absDict
  <2> QED BY <2>1, ToStutter
<1> QED
  BY <1>1, <1>2, <1>3, <1>4 DEF Next

(* With one reader and any number of setters the shared table is the atomic *)
(* dictionary of AtomicTable, across any growth of its hash.                *)
THEOREM IsAtomicTableHolds == ASSUME SingleReader PROVE Spec => IsAtomicTable
<1>1. Init => Abstract!AbsInit
  BY InitRefines
<1>2. IInv /\ [Next]_vars => [Abstract!AbsNext]_(Abstract!absVars)
  BY NextRefines
<1> QED
  BY <1>1, <1>2, IInvHolds, PTL DEF Spec, IsAtomicTable, Abstract!AbsSpec

=============================================================================
