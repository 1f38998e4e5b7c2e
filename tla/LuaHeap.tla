------------------------------ MODULE LuaHeap ------------------------------
(***************************************************************************)
(* The heap of the Lua 5.1.4 runtime the program links: the incremental     *)
(* collector of lgc.c against the operations of the C API and the VM that   *)
(* create objects and change references (lapi.c, lfunc.c, lstring.c).       *)
(*                                                                          *)
(* The heap is one record g, and every function of the source an operator   *)
(* on it.  A collector step runs between two calls of the API, which is     *)
(* where luaC_checkGC and lua_gc run it; a finalizer is a stretch of calls  *)
(* during which g.tm is set.  Prototypes, the array part and the sizes of   *)
(* tables, the string table's size and all byte counts are left out.        *)
(***************************************************************************)
EXTENDS Integers, Sequences, FiniteSets, SequencesExt

CONSTANTS
  Addr,         \* addresses the allocator can return
  Main, Glob,   \* the main thread and its table of globals (also the registry)
  Texts,        \* contents of strings
  Bucket,       \* the bucket of the string table each of them hashes to
  Buckets,      \* size of the string table
  GCSWEEPMAX,   \* objects swept in one step
  Start,        \* the heaps a behaviour starts from
  ApiSetsLua,   \* lua_setupvalue is called on Lua functions too
  MaxStack,     \* bound: values on a stack
  MaxEntries,   \* bound: entries of Glob; other tables have one
  MaxOps        \* bound: operations of the script in a behaviour, pops apart

VARIABLES
  heap,
  ops           \* operations so far

vars == <<heap, ops>>

(* Values that are not collectable; metamethod names and modes are strings  *)
(* the collector never frees.                                               *)
Nil == "nil"
Atoms == {Nil, "a", "__gc", "__mode", "k", "v", "kv"}
Dead == "deadkey"
NoTM == -1          \* no finalizer is running
Head0 == "rootgc"   \* the pointer to the head of the list itself

Objects == Addr \cup {Main, Glob}

-----------------------------------------------------------------------------
(* Objects.  Every record has its type and colour. *)

Free == [tt |-> "free", col |-> "none"]
Table(c) == [tt |-> "table", col |-> c, meta |-> Nil, ent |-> <<>>, weak |-> {}]
Udata(c) == [tt |-> "udata", col |-> c, meta |-> Nil, env |-> Glob, fin |-> FALSE]
CClosure(c, v) == [tt |-> "cclosure", col |-> c, env |-> Glob, up |-> v]
LClosure(c, uv) == [tt |-> "lclosure", col |-> c, env |-> Glob, uv |-> uv]
UpVal(c, th, lev) ==
  [tt |-> "upval", col |-> c, open |-> TRUE, th |-> th, lev |-> lev, v |-> Nil]
Thread(c) == [tt |-> "thread", col |-> c, gt |-> Glob, stack |-> <<>>, open |-> <<>>]
String(c, s) == [tt |-> "string", col |-> c, text |-> s]

luaC_white(g) == g.currentwhite
otherwhite(g) == IF g.currentwhite = "w0" THEN "w1" ELSE "w0"

IsObject(v) == v \in Objects
iswhite(g, v) == IsObject(v) /\ g.obj[v].col \in {"w0", "w1"}
isblack(g, o) == g.obj[o].col = "black"
isgray(g, o) == g.obj[o].col = "gray"
isdead(g, o) == g.obj[o].col = otherwhite(g)

SetCol(g, o, c) == [g EXCEPT !.obj[o].col = c]
makewhite(g, o) == SetCol(g, o, luaC_white(g))

(* The value of an upvalue: a stack slot while it is open. *)
UpValue(g, uv) ==
  LET u == g.obj[uv] IN IF u.open THEN g.obj[u.th].stack[u.lev] ELSE u.v

(* The value of key k in a table, nil if there is none. *)
luaH_get(g, t, k) ==
  LET i == SelectInSeq(g.obj[t].ent, LAMBDA e : e.k = k)
  IN  IF i = 0 THEN Nil ELSE g.obj[t].ent[i].v

fasttm(g, mt, event) == IF mt = Nil THEN Nil ELSE luaH_get(g, mt, event)

-----------------------------------------------------------------------------
(* Marking *)

(* reallymarkobject for the types that go on the gray list, and strings. *)
MarkGray(g, v) ==
  IF ~iswhite(g, v) THEN g
  ELSE IF g.obj[v].tt = "string" THEN SetCol(g, v, "gray")
  ELSE [SetCol(g, v, "gray") EXCEPT !.gray = <<v>> \o @]

(* Userdata are never gray: metatable and environment are marked at once. *)
MarkUdata(g, u) ==
  MarkGray(MarkGray(SetCol(g, u, "black"), g.obj[u].meta), g.obj[u].env)

markvalue(g, v) ==
  IF iswhite(g, v) /\ g.obj[v].tt = "udata" THEN MarkUdata(g, v) ELSE MarkGray(g, v)

(* Open upvalues are never black. *)
markupval(g, uv) ==
  IF ~iswhite(g, uv) THEN g
  ELSE LET h == markvalue(SetCol(g, uv, "gray"), UpValue(g, uv))
       IN  IF g.obj[uv].open THEN h ELSE SetCol(h, uv, "black")

MarkAll(g, vs) == FoldLeft(markvalue, g, vs)

Weakness(mode) ==
  CASE mode = "k" -> {"k"} [] mode = "v" -> {"v"} [] mode = "kv" -> {"k", "v"}
    [] OTHER -> {}

(* traversetable: an entry without a value gives up its key. *)
traversetable(g, h) ==
  LET weak == Weakness(fasttm(g, g.obj[h].meta, "__mode"))
      listed == [MarkGray(g, g.obj[h].meta) EXCEPT
                   !.weak = IF weak = {} THEN @ ELSE <<h>> \o @,
                   !.obj[h].weak = IF weak = {} THEN @ ELSE weak,
                   !.obj[h].col = IF weak = {} THEN @ ELSE "gray"]
      node(e) == IF e.v = Nil /\ IsObject(e.k) THEN [e EXCEPT !.k = Dead] ELSE e
      strong(e) == IF e.v = Nil THEN <<>>
                   ELSE (IF "k" \in weak THEN <<>> ELSE <<e.k>>)
                          \o (IF "v" \in weak THEN <<>> ELSE <<e.v>>)
      ends == FoldLeft(LAMBDA vs, e : vs \o strong(e), <<>>, g.obj[h].ent)
  IN  IF weak = {"k", "v"} THEN listed
      ELSE [MarkAll(listed, ends) EXCEPT
              !.obj[h].ent = [i \in DOMAIN @ |-> node(@[i])]]

traverseclosure(g, cl) ==
  LET h == MarkGray(g, g.obj[cl].env)
  IN  IF g.obj[cl].tt = "cclosure" THEN markvalue(h, g.obj[cl].up)
                                   ELSE markupval(h, g.obj[cl].uv)

(* traversestack, with what lies above top cleared *)
traversestack(g, th) == MarkAll(MarkGray(g, g.obj[th].gt), g.obj[th].stack)

(* One gray object turns black; a thread stays gray, to be visited again in *)
(* the atomic phase, and so does a weak table.                              *)
propagatemark(g) ==
  LET o == Head(g.gray)
      h == [SetCol(g, o, "black") EXCEPT !.gray = Tail(@)]
  IN  CASE g.obj[o].tt = "table" -> traversetable(h, o)
        [] g.obj[o].tt \in {"cclosure", "lclosure"} -> traverseclosure(h, o)
        [] g.obj[o].tt = "thread" ->
             traversestack([SetCol(h, o, "gray") EXCEPT !.grayagain = <<o>> \o @], o)

RECURSIVE propagateall(_)
propagateall(g) == IF g.gray = <<>> THEN g ELSE propagateall(propagatemark(g))

markmt(g) == MarkGray(g, g.mt)

markroot(g) ==
  [markmt(MarkGray(MarkGray([g EXCEPT !.gray = <<>>, !.grayagain = <<>>, !.weak = <<>>],
                            Main), Glob))
     EXCEPT !.gcstate = "propagate"]

(* Upvalues of threads that may be dead by now. *)
remarkupvals(g) ==
  FoldLeft(LAMBDA h, uv : IF isgray(h, uv) THEN markvalue(h, UpValue(h, uv)) ELSE h,
           g, g.uvhead)

(* Mutant: whatever has a finalizer is taken for dead. *)
SeparateLive(g, all) ==
  LET visit(h, u) ==
        IF h.obj[u].fin THEN h
        ELSE IF fasttm(h, h.obj[u].meta, "__gc") = Nil THEN [h EXCEPT !.obj[u].fin = TRUE]
        ELSE [h EXCEPT !.obj[u].fin = TRUE, !.tmudata = Append(@, u),
                       !.rootgc = Remove(@, u)]
  IN  FoldLeft(visit, g, SelectSeq(g.rootgc, LAMBDA o : g.obj[o].tt = "udata"))

(* Dead userdata with a finalizer move to tmudata, all of them at the end.  *)
luaC_separateudata(g, all) ==
  LET visit(h, u) ==
        IF (~iswhite(h, u) /\ ~all) \/ h.obj[u].fin THEN h
        ELSE IF fasttm(h, h.obj[u].meta, "__gc") = Nil THEN [h EXCEPT !.obj[u].fin = TRUE]
        ELSE [h EXCEPT !.obj[u].fin = TRUE, !.tmudata = Append(@, u),
                       !.rootgc = Remove(@, u)]
  IN  FoldLeft(visit, g, SelectSeq(g.rootgc, LAMBDA o : g.obj[o].tt = "udata"))

marktmu(g) == FoldLeft(LAMBDA h, u : MarkUdata(makewhite(h, u), u), g, g.tmudata)

(* A string is never cleared, and is marked by the test. *)
iscleared(g, v, iskey) ==
  /\ IsObject(v) /\ g.obj[v].tt # "string"
  /\ iswhite(g, v) \/ (g.obj[v].tt = "udata" /\ ~iskey /\ g.obj[v].fin)

MarkIfString(g, v) ==
  IF IsObject(v) /\ g.obj[v].tt = "string" THEN SetCol(g, v, "gray") ELSE g

(* Mutant: weak tables keep their entries. *)
ClearNothing(g) == g

cleartable(g) ==
  LET gone(h, e) == e.v # Nil /\ (iscleared(h, e.k, TRUE) \/ iscleared(h, e.v, FALSE))
      clear(h, e) ==
        IF gone(h, e) THEN [k |-> IF IsObject(e.k) THEN Dead ELSE e.k, v |-> Nil] ELSE e
      mark(h, e) ==
        IF e.v = Nil THEN h
        ELSE IF iscleared(h, e.k, TRUE) THEN h
        ELSE MarkIfString(MarkIfString(h, e.k), e.v)
      one(h, t) ==
        [FoldLeft(mark, h, h.obj[t].ent) EXCEPT
           !.obj[t].ent = [i \in DOMAIN @ |-> clear(h, @[i])]]
  IN  FoldLeft(one, g, g.weak)

WeakAgain(g) == [g EXCEPT !.gray = g.weak, !.weak = <<>>]
GrayAgain(g) == [g EXCEPT !.gray = g.grayagain, !.grayagain = <<>>]

atomic(g) ==
  LET upvals == propagateall(remarkupvals(g))
      weak == propagateall(markmt(WeakAgain(upvals)))
      again == propagateall(GrayAgain(weak))
      kept == propagateall(marktmu(luaC_separateudata(again, FALSE)))
  IN  [cleartable(kept) EXCEPT !.currentwhite = otherwhite(g), !.sweepstrgc = 0,
                               !.sweepgc = Head0, !.gcstate = "sweepstring"]

-----------------------------------------------------------------------------
(* Upvalues and barriers *)

(* luaC_barrierf restores the invariant while marking, and spares later     *)
(* barriers while sweeping; luaC_barrierback sends the table round again.   *)
luaC_barrier(g, o, v) ==
  IF ~(iswhite(g, v) /\ isblack(g, o)) THEN g
  ELSE IF g.gcstate = "propagate" THEN markvalue(g, v)
  ELSE makewhite(g, o)

(* Mutant: no barrier for tables. *)
NoBarrier(g, t, v) == g

luaC_barriert(g, t, v) ==
  IF ~(iswhite(g, v) /\ isblack(g, t)) THEN g
  ELSE [SetCol(g, t, "gray") EXCEPT !.grayagain = <<t>> \o @]

luaF_freeupval(g, uv) ==
  [g EXCEPT !.obj[uv] = Free, !.uvhead = Remove(@, uv)]

(* Mutant: the upvalue is not linked. *)
LinkUpvalLost(g, uv) == IF isgray(g, uv) THEN makewhite(g, uv) ELSE g

(* A closed upvalue joins the list of all objects. *)
luaC_linkupval(g, uv) ==
  LET h == [g EXCEPT !.rootgc = <<uv>> \o @]
  IN  IF ~isgray(h, uv) THEN h
      ELSE IF h.gcstate = "propagate"
        THEN luaC_barrier(SetCol(h, uv, "black"), uv, UpValue(h, uv))
        ELSE makewhite(h, uv)

CloseUpval(g, uv) ==
  LET th == g.obj[uv].th
      h == [g EXCEPT !.obj[th].open = Tail(@)]
  IN  IF isdead(h, uv) THEN luaF_freeupval(h, uv)
      ELSE luaC_linkupval([h EXCEPT !.uvhead = Remove(@, uv),
                                    !.obj[uv].v = UpValue(h, uv), !.obj[uv].open = FALSE],
                          uv)

(* luaF_close: the open upvalues at or above the level, from the top down. *)
luaF_close(g, th, level) ==
  FoldLeft(CloseUpval, g,
           SelectSeq(g.obj[th].open, LAMBDA uv : g.obj[uv].lev >= level))

(* luaF_findupval for slot lev: an upvalue that is there may be dead and is *)
(* then brought back; a new one takes address a.                            *)
FindUpval(g, th, lev) ==
  {uv \in ToSet(g.obj[th].open) : g.obj[uv].lev = lev}

luaF_findupval(g, th, lev, a) ==
  IF FindUpval(g, th, lev) # {}
    THEN LET uv == CHOOSE u \in FindUpval(g, th, lev) : TRUE
         IN  [uv |-> uv, g |-> IF isdead(g, uv) THEN makewhite(g, uv) ELSE g]
    ELSE LET above == SelectSeq(g.obj[th].open, LAMBDA uv : g.obj[uv].lev > lev)
             below == SelectSeq(g.obj[th].open, LAMBDA uv : g.obj[uv].lev < lev)
         IN  [uv |-> a,
              g |-> [g EXCEPT !.obj[a] = UpVal(luaC_white(g), th, lev),
                              !.obj[th].open = above \o <<a>> \o below,
                              !.uvhead = <<a>> \o @]]

-----------------------------------------------------------------------------
(* Sweeping *)

(* The element *p points to: the head of the list or the one after p. *)
NextIn(g, p) ==
  LET i == IF p = Head0 THEN 1 ELSE SelectInSeq(g.rootgc, LAMBDA o : o = p) + 1
  IN  IF i > Len(g.rootgc) THEN Nil ELSE g.rootgc[i]

(* An open upvalue of a swept thread. *)
SweepUpval(g, uv) ==
  IF isdead(g, uv)
    THEN luaF_freeupval([g EXCEPT !.obj[g.obj[uv].th].open = Remove(@, uv)], uv)
    ELSE makewhite(g, uv)

(* freeobj; luaE_freethread closes the thread's upvalues first. *)
freeobj(g, o) ==
  LET h == [g EXCEPT !.rootgc = Remove(@, o)]
  IN  IF g.obj[o].tt = "thread" THEN [luaF_close(h, o, 1) EXCEPT !.obj[o] = Free]
                                ELSE [h EXCEPT !.obj[o] = Free]

(* One turn of sweeplist. *)
SweepUpvals(g, o) ==
  IF g.obj[o].tt = "thread" THEN FoldLeft(SweepUpval, g, g.obj[o].open) ELSE g
SweepObject(g, o) ==
  IF isdead(g, o) THEN freeobj(g, o) ELSE [makewhite(g, o) EXCEPT !.sweepgc = o]
SweepNext(g, o) == SweepObject(SweepUpvals(g, o), o)
SweepOne(g) == SweepNext(g, NextIn(g, g.sweepgc))

RECURSIVE sweeplist(_, _)
sweeplist(g, count) ==
  IF count = 0 \/ NextIn(g, g.sweepgc) = Nil THEN g ELSE sweeplist(SweepOne(g), count - 1)

SweepString(g, s) ==
  IF isdead(g, s)
    THEN [g EXCEPT !.obj[s] = Free, !.strt = [b \in DOMAIN @ |-> Remove(@[b], s)]]
    ELSE makewhite(g, s)

-----------------------------------------------------------------------------
(* The collector *)

(* The first userdata of tmudata goes back to the list after the main       *)
(* thread, and its finalizer is called with it: both are on the stack.      *)
GCTM(g) ==
  LET u == Head(g.tmudata)
      i == SelectInSeq(g.rootgc, LAMBDA o : o = Main)
      h == makewhite([g EXCEPT !.tmudata = Tail(@),
                               !.rootgc = InsertAt(@, i + 1, u)], u)
      tm == fasttm(h, h.obj[u].meta, "__gc")
  IN  IF tm = Nil THEN h
      ELSE [h EXCEPT !.tm = Len(g.obj[Main].stack), !.called = Append(@, u),
                     !.obj[Main].stack = @ \o <<tm, u>>]

(* The end of the list of all objects is reached. *)
Swept(g) == IF NextIn(g, g.sweepgc) = Nil THEN [g EXCEPT !.gcstate = "finalize"] ELSE g

(* g and whether the step had a cost *)
singlestep(g) ==
  CASE g.gcstate = "pause" -> [g |-> markroot(g), cost |-> FALSE]
    [] g.gcstate = "propagate" ->
         IF g.gray # <<>> THEN [g |-> propagatemark(g), cost |-> TRUE]
                          ELSE [g |-> atomic(g), cost |-> FALSE]
    [] g.gcstate = "sweepstring" ->
         LET h == FoldLeft(SweepString, g, g.strt[g.sweepstrgc])
         IN  [g |-> [h EXCEPT !.sweepstrgc = @ + 1,
                              !.gcstate = IF g.sweepstrgc + 1 >= Buckets THEN "sweep" ELSE @],
              cost |-> TRUE]
    [] g.gcstate = "sweep" ->
         [g |-> Swept(sweeplist(g, GCSWEEPMAX)), cost |-> TRUE]
    [] g.gcstate = "finalize" ->
         IF g.tmudata # <<>> THEN [g |-> GCTM(g), cost |-> TRUE]
                             ELSE [g |-> [g EXCEPT !.gcstate = "pause"], cost |-> FALSE]

(* luaC_step goes on at least until a step has a cost or a cycle ends. *)
RECURSIVE luaC_step(_)
AfterStep(s) == IF s.cost \/ s.g.gcstate = "pause" THEN s.g ELSE luaC_step(s.g)
luaC_step(g) == AfterStep(singlestep(g))

(* Steps up to the end of the cycle or the call of a finalizer. *)
RECURSIVE RunCycle(_)
RunCycle(g) ==
  IF g.gcstate = "pause" THEN [g EXCEPT !.full = FALSE]
  ELSE IF g.tm # NoTM THEN g
  ELSE RunCycle(singlestep(g).g)

RECURSIVE FinishSweep(_)
FinishSweep(g) == IF g.gcstate = "finalize" THEN g ELSE FinishSweep(singlestep(g).g)

(* Mutant: a cycle under way is only finished. *)
FullgcNoReset(g) ==
  RunCycle([(IF g.gcstate = "pause" THEN markroot(g) ELSE g) EXCEPT !.full = TRUE])

(* A cycle that has not reached its atomic step is dropped: everything is   *)
(* swept to white, and a whole cycle follows.                               *)
luaC_fullgc(g) ==
  LET reset == [g EXCEPT !.sweepstrgc = 0, !.sweepgc = Head0, !.gray = <<>>,
                         !.grayagain = <<>>, !.weak = <<>>, !.gcstate = "sweepstring"]
      swept == FinishSweep(IF g.gcstate \in {"pause", "propagate"} THEN reset ELSE g)
  IN  RunCycle([markroot(swept) EXCEPT !.full = TRUE])

-----------------------------------------------------------------------------
(* The operations of a script, through the API or the VM *)

NewState ==
  [obj |-> [o \in Objects |-> CASE o = Main -> Thread("w0") [] o = Glob -> Table("w0")
                                [] OTHER -> Free],
   rootgc |-> <<Glob, Main>>, strt |-> [b \in 0 .. Buckets - 1 |-> <<>>],
   tmudata |-> <<>>, uvhead |-> <<>>, mt |-> Nil,
   gray |-> <<>>, grayagain |-> <<>>, weak |-> <<>>,
   gcstate |-> "pause", currentwhite |-> "w0", sweepstrgc |-> 0, sweepgc |-> Head0,
   full |-> FALSE, state |-> "open", tm |-> NoTM, called |-> <<>>]

Frees(g) == {a \in Addr : g.obj[a].tt = "free"}
Malloc(g) == CHOOSE a \in Frees(g) : TRUE

push(g, v) == [g EXCEPT !.obj[Main].stack = Append(@, v)]
top(g) == Last(g.obj[Main].stack)

(* A new object at address a; the list of calls forgets an earlier one. *)
Put(g, a, o) == [g EXCEPT !.obj[a] = o, !.called = Remove(@, a)]

(* luaC_link *)
luaC_link(g, a, o) == [Put(g, a, o) EXCEPT !.rootgc = <<a>> \o @]

lua_createtable(g, a) == push(luaC_link(g, a, Table(luaC_white(g))), a)

lua_newthread(g, a) == push(luaC_link(g, a, Thread(luaC_white(g))), a)

(* One upvalue, popped from the stack. *)
lua_pushcclosure(g, a) ==
  LET h == luaC_link(g, a, CClosure(luaC_white(g), top(g)))
  IN  push([h EXCEPT !.obj[Main].stack = Front(@)], a)

(* Userdata are chained after the main thread. *)
lua_newuserdata(g, a) ==
  LET i == SelectInSeq(g.rootgc, LAMBDA o : o = Main)
  IN  push([Put(g, a, Udata(luaC_white(g))) EXCEPT !.rootgc = InsertAt(@, i + 1, a)], a)

(* luaS_newlstr: a string that is there may be dead and is then brought     *)
(* back; a new one takes address a.                                         *)
lua_pushlstring(g, s, a) ==
  LET b == Bucket[s]
      i == SelectInSeq(g.strt[b], LAMBDA o : g.obj[o].text = s)
  IN  IF i # 0
        THEN LET o == g.strt[b][i]
             IN  push(IF isdead(g, o) THEN makewhite(g, o) ELSE g, o)
        ELSE push([Put(g, a, String(luaC_white(g), s)) EXCEPT !.strt[b] = <<a>> \o @], a)

(* OP_CLOSURE in a function on thread th whose local is in the top slot;    *)
(* the closure ends up on the main stack.                                   *)
OP_CLOSURE(g, th, a, b) ==
  LET f == luaF_findupval(g, th, Len(g.obj[th].stack), b)
  IN  push(luaC_link(f.g, a, LClosure(luaC_white(g), f.uv)), a)

(* The top slot of a thread goes out of scope: OP_CLOSE or OP_RETURN, then  *)
(* the new top.                                                             *)
lua_pop(g, th) ==
  LET n == Len(g.obj[th].stack)
  IN  [luaF_close(g, th, n) EXCEPT !.obj[th].stack = Front(@)]

lua_xmove(g, to) ==
  [g EXCEPT !.obj[to].stack = Append(@, top(g)), !.obj[Main].stack = Front(@)]

(* luaH_set: the node of the key, or a new one whose key needs a barrier.   *)
(* A node without a value is used again.                                    *)
Slot(g, t, k) ==
  LET ent == g.obj[t].ent
      has == SelectInSeq(ent, LAMBDA e : e.k = k)
      empty == SelectInSeq(ent, LAMBDA e : e.v = Nil)
  IN  IF has # 0 THEN has ELSE IF empty # 0 THEN empty ELSE Len(ent) + 1

lua_rawset(g, t, k, v) ==
  LET i == Slot(g, t, k)
      ent == g.obj[t].ent
      h == [g EXCEPT !.obj[t].ent = [j \in 1 .. (IF i > Len(ent) THEN i ELSE Len(ent)) |->
                                       IF j = i THEN [k |-> k, v |-> v] ELSE ent[j]]]
  IN  luaC_barriert(luaC_barriert(h, t, k), t, v)

(* Tables and userdata have a metatable each; other types share g.mt. *)
lua_setmetatable(g, o, mt) ==
  IF IsObject(o) /\ g.obj[o].tt = "table"
    THEN luaC_barriert([g EXCEPT !.obj[o].meta = mt], o, mt)
  ELSE IF IsObject(o) /\ g.obj[o].tt = "udata"
    THEN luaC_barrier([g EXCEPT !.obj[o].meta = mt], o, mt)
  ELSE [g EXCEPT !.mt = mt]

lua_setfenv(g, o, t) ==
  luaC_barrier(IF g.obj[o].tt = "thread" THEN [g EXCEPT !.obj[o].gt = t]
                                         ELSE [g EXCEPT !.obj[o].env = t], o, t)

(* The assignment to an upvalue of a Lua closure. *)
SetUpval(g, uv, v) ==
  LET u == g.obj[uv]
  IN  IF u.open THEN [g EXCEPT !.obj[u.th].stack[u.lev] = v] ELSE [g EXCEPT !.obj[uv].v = v]

OP_SETUPVAL(g, cl, v) == luaC_barrier(SetUpval(g, g.obj[cl].uv, v), g.obj[cl].uv, v)

(* The API puts the barrier at the closure, for an upvalue of either kind. *)
lua_setupvalue(g, cl, v) ==
  luaC_barrier(IF g.obj[cl].tt = "cclosure" THEN [g EXCEPT !.obj[cl].up = v]
                                            ELSE SetUpval(g, g.obj[cl].uv, v), cl, v)

(* lua_rawget, lua_next, lua_getmetatable, lua_getfenv, lua_getupvalue and  *)
(* lua_xmove from a thread: what can be pushed from an object.              *)
Readable(g, o) ==
  LET r == g.obj[o]
  IN  CASE r.tt = "table" ->
             {r.meta} \cup UNION {{e.k, e.v} : e \in {e \in ToSet(r.ent) : e.v # Nil}}
        [] r.tt = "udata" -> {r.meta, r.env}
        [] r.tt = "cclosure" -> {r.env, r.up}
        [] r.tt = "lclosure" -> {r.env, UpValue(g, r.uv)}
        [] OTHER -> {}

(* A finalizer returns: its frame is left, and what called it goes on. *)
RECURSIVE CallGCTM(_)
CallGCTM(g) ==
  IF g.tm # NoTM THEN g
  ELSE IF g.tmudata # <<>> THEN CallGCTM(GCTM(g))
  ELSE [g EXCEPT !.state = "closed",
                 !.obj = [o \in Objects |-> IF o = Main THEN Thread(g.obj[Main].col) ELSE Free],
                 !.rootgc = <<Main>>, !.strt = [b \in DOMAIN @ |-> <<>>], !.uvhead = <<>>]

LeaveFinalizer(g) ==
  [luaF_close(g, Main, g.tm + 1) EXCEPT !.obj[Main].stack = SubSeq(@, 1, g.tm), !.tm = NoTM]
GoOn(g) == IF g.state = "closing" THEN CallGCTM(g) ELSE IF g.full THEN RunCycle(g) ELSE g
EndFinalizer(g) == GoOn(LeaveFinalizer(g))

lua_close(g) ==
  CallGCTM([luaC_separateudata(luaF_close(g, Main, 1), TRUE) EXCEPT
              !.obj[Main].stack = <<>>, !.state = "closing"])

-----------------------------------------------------------------------------
(* Values the running function can name: its part of the stack, and Glob. *)
Base(g) == IF g.tm = NoTM THEN 0 ELSE g.tm
Acc(g) ==
  {g.obj[Main].stack[i] : i \in Base(g) + 1 .. Len(g.obj[Main].stack)} \cup {Glob}
AccOf(g, types) == {o \in Acc(g) : IsObject(o) /\ g.obj[o].tt \in types}

Room(g) == Len(g.obj[Main].stack) < MaxStack + Base(g)

Do(g) == heap' = g /\ ops' = ops + 1
CanDo == ops < MaxOps /\ heap.state # "closed"

TypeNames == {"free", "table", "udata", "cclosure", "lclosure", "upval", "thread", "string"}

Init == heap \in Start /\ ops = 0

NewObject ==
  /\ CanDo /\ Room(heap) /\ Frees(heap) # {}
  /\ LET a == Malloc(heap)
     IN  \/ Do(lua_createtable(heap, a))
         \/ Do(lua_newuserdata(heap, a))
         \/ Do(lua_newthread(heap, a))
         \/ /\ Len(heap.obj[Main].stack) > Base(heap)
            /\ Do(lua_pushcclosure(heap, a))

NewString(s) ==
  /\ CanDo /\ Room(heap) /\ Frees(heap) # {}
  /\ Do(lua_pushlstring(heap, s, Malloc(heap)))

NewClosure(th) ==
  /\ CanDo /\ Room(heap) /\ Cardinality(Frees(heap)) > 1
  /\ Len(heap.obj[th].stack) > IF th = Main THEN Base(heap) ELSE 0
  /\ LET a == Malloc(heap)
     IN  Do(OP_CLOSURE(heap, th, a, CHOOSE b \in Frees(heap) : b # a))

Pop(th) ==
  /\ heap.state # "closed"
  /\ Len(heap.obj[th].stack) > IF th = Main THEN Base(heap) ELSE 0
  /\ heap' = lua_pop(heap, th) /\ UNCHANGED ops

Move(th) ==
  /\ CanDo
  /\ Len(heap.obj[Main].stack) > Base(heap) /\ Len(heap.obj[th].stack) < MaxStack
  /\ top(heap) # th
  /\ ~\E uv \in ToSet(heap.obj[Main].open) : heap.obj[uv].lev = Len(heap.obj[Main].stack)
  /\ Do(lua_xmove(heap, th))

(* Bound: a value the stack holds already is not fetched again. *)
Get(o) ==
  /\ CanDo /\ Room(heap)
  /\ \E v \in Readable(heap, o) \ (Atoms \cup Acc(heap)) : Do(push(heap, v))

(* Metamethod fields take the values that mean something. *)
SetArgs(g) ==
  (AccOf(g, TypeNames) \cup {"a"}) \X (Acc(g) \cup {Nil})
    \cup {"__gc"} \X (AccOf(g, {"cclosure"}) \cup {Nil})
    \cup {"__mode"} \X {"k", "v", "kv"}

Set(t) ==
  /\ CanDo
  /\ \E kv \in SetArgs(heap) :
       /\ kv[2] = Nil => luaH_get(heap, t, kv[1]) # Nil
       /\ Slot(heap, t, kv[1]) <= IF t = Glob THEN MaxEntries ELSE 1
       /\ Do(lua_rawset(heap, t, kv[1], kv[2]))

SetMetatable(o, mt) == CanDo /\ Do(lua_setmetatable(heap, o, mt))
SetFenv(o, t) == CanDo /\ Do(lua_setfenv(heap, o, t))
SetUpvalue(cl, v) ==
  /\ CanDo
  /\ \/ /\ heap.obj[cl].tt = "cclosure" \/ ApiSetsLua
        /\ Do(lua_setupvalue(heap, cl, v))
     \/ heap.obj[cl].tt = "lclosure" /\ Do(OP_SETUPVAL(heap, cl, v))

Return == heap.tm # NoTM /\ heap' = EndFinalizer(heap) /\ UNCHANGED ops

Close ==
  /\ CanDo /\ heap.state = "open" /\ heap.tm = NoTM
  /\ Do(lua_close(heap))

(* luaC_checkGC or lua_gc(LUA_GCSTEP); not in a finalizer, where the        *)
(* threshold is doubled.                                                    *)
Step ==
  /\ heap.state = "open" /\ heap.tm = NoTM
  /\ heap' = luaC_step(heap) /\ UNCHANGED ops

(* lua_gc(LUA_GCCOLLECT) *)
Collect ==
  /\ CanDo /\ heap.state = "open" /\ heap.tm = NoTM
  /\ Do(luaC_fullgc(heap))

Next ==
  \/ NewObject \/ Return \/ Close \/ Step \/ Collect
  \/ \E s \in Texts : NewString(s)
  \/ \E th \in AccOf(heap, {"thread"}) \cup {Main} : NewClosure(th) \/ Pop(th)
  \/ \E th \in AccOf(heap, {"thread"}) : Move(th)
  \/ \E o \in AccOf(heap, TypeNames) : Get(o)
  \/ \E t \in AccOf(heap, {"table"}) :
       \/ Set(t)
       \/ \E o \in AccOf(heap, {"table", "udata", "string"}) : SetMetatable(o, t)
       \/ \E o \in AccOf(heap, {"udata", "cclosure", "lclosure", "thread"}) : SetFenv(o, t)
  \/ \E o \in AccOf(heap, {"table", "udata"}) : SetMetatable(o, Nil)
  \/ \E cl \in AccOf(heap, {"cclosure", "lclosure"}), v \in Acc(heap) : SetUpvalue(cl, v)

Spec == Init /\ [][Next]_vars

-----------------------------------------------------------------------------
(* Properties *)

(* What an object refers to, and what of it keeps the other end alive.  An  *)
(* entry without a value has no key: nobody marks or clears the key left    *)
(* there in a table with weak keys and values, and nobody reads it.         *)
Entries(g, o) == {e \in ToSet(g.obj[o].ent) : e.v # Nil}
Refs(g, o) ==
  LET r == g.obj[o]
  IN  Objects \cap
        CASE r.tt = "table" -> {r.meta} \cup UNION {{e.k, e.v} : e \in Entries(g, o)}
          [] r.tt = "udata" -> {r.meta, r.env}
          [] r.tt = "cclosure" -> {r.env, r.up}
          [] r.tt = "lclosure" -> {r.env, r.uv}
          [] r.tt = "upval" -> IF r.open THEN {} ELSE {r.v}
          [] r.tt = "thread" -> {r.gt} \cup ToSet(r.stack)
          [] OTHER -> {}

(* A weak entry keeps a weak end only if it is a string; an open upvalue    *)
(* keeps the slot it stands for.                                            *)
StrongRefs(g, o) ==
  LET r == g.obj[o]
      weak == Weakness(fasttm(g, r.meta, "__mode"))
      string(v) == IsObject(v) /\ g.obj[v].tt = "string"
      ends(e) == {v \in {e.k} : "k" \notin weak \/ string(v)}
                   \cup {v \in {e.v} : "v" \notin weak \/ string(v)}
  IN  CASE r.tt = "table" ->
             Objects \cap ({r.meta} \cup UNION {ends(e) : e \in Entries(g, o)})
        [] r.tt = "upval" -> Objects \cap {UpValue(g, o)}
        [] OTHER -> Refs(g, o)

RECURSIVE Closure(_, _)
Closure(g, S) ==
  LET more == S \cup UNION {StrongRefs(g, o) : o \in S}
  IN  IF more = S THEN S ELSE Closure(g, more)

Roots(g) == {Main, Glob} \cup ({g.mt} \cap Objects)
Reachable(g) == Closure(g, Roots(g) \cup ToSet(g.tmudata))
Allocated(g) == {o \in Objects : g.obj[o].tt # "free"}

(* Every object is on the one list that will free it, and the gray lists    *)
(* hold gray objects.                                                       *)
ListsOK ==
  heap.state # "closed" =>
    LET lists == heap.rootgc \o heap.uvhead \o heap.tmudata \o FlattenSeq(
                   [b \in 1 .. Buckets |-> heap.strt[b - 1]])
    IN  /\ IsInjective(lists)
        /\ ToSet(lists) = Allocated(heap)
        /\ heap.sweepgc \in ToSet(heap.rootgc) \cup {Head0}
        /\ heap.gcstate = "propagate" =>
             \A o \in ToSet(heap.gray \o heap.grayagain \o heap.weak) : isgray(heap, o)

(* Nothing a script can reach has been freed: whatever a reachable object   *)
(* refers to is still allocated, also through an upvalue, and also what     *)
(* only weak entries that still have a value refer to.                      *)
NoDangling ==
  \A o \in Reachable(heap) :
    heap.state # "closed" => o \in Allocated(heap) /\ Refs(heap, o) \subseteq Allocated(heap)

(* While the collector marks, a black object refers to no white one: what   *)
(* every barrier is for.  lua_close ends that: GCTM makes the userdata      *)
(* white that it finalizes, and by then some of them are still referred to. *)
BlackNotToWhite ==
  heap.state = "open" /\ heap.gcstate = "propagate" =>
    \A o \in Allocated(heap) : isblack(heap, o) =>
      \A r \in StrongRefs(heap, o) : ~iswhite(heap, r)

(* The collector hands over for finalization only what nothing refers to,   *)
(* and calls a finalizer once.                                              *)
FinalizedWhenDead ==
  [][/\ heap.state = "open" /\ heap'.state = "open" =>
          \A u \in ToSet(heap'.tmudata) \ ToSet(heap.tmudata) : u \notin Reachable(heap)
     /\ IsInjective(heap'.called)]_vars

(* A full collection that meets no finalizer frees everything unreachable.  *)
FullCollects ==
  [][Collect /\ heap.tmudata = <<>> /\ heap'.called = heap.called =>
       Allocated(heap') = Reachable(heap')]_vars
=============================================================================
