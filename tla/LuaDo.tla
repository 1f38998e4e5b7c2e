-------------------------------- MODULE LuaDo --------------------------------
(* Calls, errors and coroutines (ldo.c), upvalues (lfunc.c), metamethods      *)
(* (ltm.c, the parts of lvm.c that call them) and the base library functions  *)
(* that need them (lbaselib.c).  The interpreter is a record m:               *)
(*   tab, ref  the tables, and for each the plain function it should be       *)
(*   clo, uv   closures, upvalues [th, at, val] (at = 0 once closed)          *)
(*   thr       threads: the stack (top is the first free slot), CallInfos,    *)
(*             pc of the running function, status, C-call counters, error     *)
(*             function, and the open upvalues from the top of the stack down *)
(*   cs        the C stack: the activations of luaV_execute ("exec" with      *)
(*             nexeccalls), luaD_call ("call", what its caller does next in   *)
(*             after), lua_pcall and lua_resume, which catch errors           *)
(*   next      what the C code does next, [k |-> "exec"] when luaV_execute    *)
(*             goes on with the next instruction                              *)
(*   out       what the host got from its lua_pcall, <<>> before that         *)
(* The running thread is the one of the last activation.                      *)
EXTENDS LuaTabLib, LuaStrLib, LuaParser

CONSTANTS LUAI_MAXCALLS,    \* nested calls
          BASIC_CI_SIZE,    \* CallInfos a thread starts with
          MAXTAGLOOP        \* metamethod tables followed in one access

Tab(i) == <<"table", i>>
Fun(i) == <<"function", i>>
Thr(i) == <<"thread", i>>
ErrorMsg == Str("error")    \* the text of a message is left out

Cur(m) == Last(m.cs).th
L(m) == m.thr[Cur(m)]
CI(m) == Last(L(m).ci)
SetL(m, l) == [m EXCEPT !.thr[Cur(m)] = l]

Get(m, i) == L(m).stack[i]
(* vs from slot i on; slots never written hold nil.                           *)
PutAll(m, i, vs) ==
    [m EXCEPT !.thr[Cur(m)].stack =
        SubSeq(@, 1, i - 1) \o Fill(i - 1 - Len(@), Nil) \o vs \o SubSeq(@, i + Len(vs), Len(@))]
Put(m, i, v) ==
    IF i <= Len(L(m).stack) THEN [m EXCEPT !.thr[Cur(m)].stack[i] = v] ELSE PutAll(m, i, <<v>>)
SetTop(m, i) == [m EXCEPT !.thr[Cur(m)].top = i]
Push(m, v) == SetTop(Put(m, L(m).top, v), L(m).top + 1)
PushAll(m, vs) == SetTop(PutAll(m, L(m).top, vs), L(m).top + Len(vs))
Slots(m, from, to) == SubSeq(L(m).stack, from, to - 1)

ClosureAt(m, func) == m.clo[Get(m, func)[2]]

-----------------------------------------------------------------------------
(* Upvalues (lfunc.c).                                                        *)

luaF_findupval(m, level) ==
    LET open == L(m).open
        found == {i \in DOMAIN open : m.uv[open[i]].at = level}
        above == {i \in DOMAIN open : m.uv[open[i]].at > level}
        n == Len(m.uv) + 1
    IN IF found # {} THEN [m |-> m, u |-> open[Min(found)]]
       ELSE [m |-> [m EXCEPT !.uv = Append(@, [th |-> Cur(m), at |-> level, val |-> Nil]),
                             !.thr[Cur(m)].open = InsertAt(@, Cardinality(above) + 1, n)],
             u |-> n]

luaF_close(m, level) ==
    LET shut == {u \in ToSet(L(m).open) : m.uv[u].at >= level} IN
    [m EXCEPT !.uv = [u \in DOMAIN @ |->
                        IF u \in shut THEN [@[u] EXCEPT !.at = 0, !.val = Get(m, m.uv[u].at)]
                        ELSE @[u]],
              !.thr[Cur(m)].open = SelectSeq(@, LAMBDA u : u \notin shut)]

UpGet(m, u) == IF m.uv[u].at = 0 THEN m.uv[u].val ELSE m.thr[m.uv[u].th].stack[m.uv[u].at]
UpSet(m, u, v) ==
    IF m.uv[u].at = 0 THEN [m EXCEPT !.uv[u].val = v]
    ELSE [m EXCEPT !.thr[m.uv[u].th].stack[m.uv[u].at] = v]

-----------------------------------------------------------------------------
(* Metamethods (ltm.c) and raw table access.                                  *)

luaT_gettmbyobj(m, v, event) ==
    IF TypeOf(v) = "table" /\ m.tab[v[2]].mt # 0
    THEN luaH_get(m.tab[m.tab[v[2]].mt], Str(event)) ELSE Nil

(* fasttm remembers in flags that a metatable has no such field.              *)
CachedAbsent(m, mt, event) == mt = 0 \/ event \in m.tab[mt].flags
fasttm(m, mt, event) ==
    IF CachedAbsent(m, mt, event) THEN Nil ELSE luaH_get(m.tab[mt], Str(event))
Cached(m, mt, event) ==
    IF CachedAbsent(m, mt, event) \/ fasttm(m, mt, event) # Nil THEN m
    ELSE [m EXCEPT !.tab[mt].flags = @ \cup {event}]

StoreIn(m, h, key, v) ==
    [m EXCEPT !.tab[h] = SetVal(@, key, v), !.ref[h] = RefSet(@, key, v)]
RawSet(m, h, key, v) == StoreIn([m EXCEPT !.tab[h] = luaH_set(@, key)], h, key, v)
NewTable(m, narray, nhash) ==
    [m EXCEPT !.tab = Append(@, luaH_new(narray, nhash)), !.ref = Append(@, <<>>)]

-----------------------------------------------------------------------------
(* Errors.                                                                    *)

(* The C code goes on in a step of its own.                                   *)
CStep(m, next) == [m EXCEPT !.next = next]

restore_stack_limit(l) ==
    IF l.size_ci > LUAI_MAXCALLS /\ Len(l.ci) < LUAI_MAXCALLS
    THEN [l EXCEPT !.size_ci = LUAI_MAXCALLS] ELSE l

ErrorObj(m, status) == IF status = "ERRERR" THEN ErrorMsg ELSE Get(m, L(m).top - 1)

(* What luaD_pcall puts back in the thread after an error.                    *)
RestoredCalls(l, fr) ==         \* a fault: the activations that are gone still count
    LET ci == SubSeq(l.ci, 1, fr.old_ci) IN
    restore_stack_limit([l EXCEPT !.top = fr.old_top + 1, !.ci = ci, !.base = Last(ci).base,
                                  !.pc = Last(ci).pc])
Restored(l, fr) ==
    LET ci == SubSeq(l.ci, 1, fr.old_ci) IN
    restore_stack_limit([l EXCEPT !.top = fr.old_top + 1, !.ci = ci, !.base = Last(ci).base,
                                  !.pc = Last(ci).pc, !.nCcalls = fr.oldnCcalls])

(* An error: luaG_errormsg goes on with the value on the top of the stack.    *)
RaiseError(m) == CStep(m, [k |-> "error"])
luaG_runerror(m) == RaiseError(Push(m, ErrorMsg))
luaD_throw(m, status) == CStep(m, [k |-> "throw", status |-> status])

-----------------------------------------------------------------------------
(* Calls.                                                                     *)

(* Old-style varargs: a function that never says ... gets them in arg.        *)
Stored(m, id, key, set, v) == [m EXCEPT !.tab[id] = set, !.ref[id] = RefSet(@, key, v)]
FillArg(m, id, vars) ==
    LET filled == FoldLeft(LAMBDA r, i : Stored(r, id, Num(i), luaH_setnum(r.tab[id], i, vars[i]), vars[i]),
                           m, [i \in 1..Len(vars) |-> i])
        n == Num(Len(vars))
    IN Stored(filled, id, Str("n"), luaH_setstr(filled.tab[id], "n", n), n)
PushArg(m, vars) ==
    Push(FillArg(NewTable(m, Len(vars), 1), Len(m.tab) + 1, vars), Tab(Len(m.tab) + 1))
(* The fixed parameters move above the n arguments, under the first local.    *)
MoveFixed(m, p, n) ==
    LET top == L(m).top
        fixed == Slots(m, top - n, top - n + p.numparams)
        moved == PutAll(PushAll(m, fixed), top - n, Fill(p.numparams, Nil))
    IN [m |-> IF "NEEDSARG" \in p.is_vararg
              THEN PushArg(moved, Slots(m, top - n + p.numparams, top)) ELSE moved,
        base |-> top]
adjust_varargs(m, p, actual) ==
    MoveFixed(PushAll(m, Fill(p.numparams - actual, Nil)), p,
              IF actual < p.numparams THEN p.numparams ELSE actual)

PushCI(m, ci) == [m EXCEPT !.thr[Cur(m)].ci = Append(@, ci), !.thr[Cur(m)].base = ci.base]

(* growCI: the array of CallInfos doubles; past the limit the call fails, and *)
(* past the room left for handling that it fails without a message.           *)
GrowCI(m) ==
    IF Len(L(m).ci) < L(m).size_ci THEN m ELSE [m EXCEPT !.thr[Cur(m)].size_ci = 2 * @]

(* The new Lua frame takes the place of the caller's.                         *)
TailMove(m) ==
    LET new == CI(m)
        prev == L(m).ci[Len(L(m).ci) - 1]
        c == luaF_close(m, prev.base)
        n == L(m).top - new.func
        moved == PutAll(c, prev.func, Slots(c, new.func, L(m).top))
        ci == [prev EXCEPT !.base = prev.func + (new.base - new.func), !.top = prev.func + n]
    IN SetL(moved, [L(moved) EXCEPT !.ci = Append(SubSeq(@, 1, Len(@) - 2), ci),
                                    !.base = ci.base, !.top = ci.top])

(* how: who calls, that is, what follows when a Lua function was entered.     *)
Started(run, how) ==
    CASE how = "OP_CALL" -> [run EXCEPT !.cs[Len(run.cs)].nexec = @ + 1]
      [] how = "OP_TAILCALL" -> TailMove(run)
      [] OTHER -> [run EXCEPT !.cs = Append(@, [k |-> "exec", th |-> Cur(run), nexec |-> 1])]
NewFrame(m, top, ci) ==         \* the registers above the arguments hold nil
    [SetTop(PushCI(PutAll(m, top, Fill(ci.top - top, Nil)), ci), ci.top)
        EXCEPT !.thr[Cur(m)].pc = 0]
Frame(func, base, top, nresults) ==
    [func |-> func, base |-> base, top |-> top, nresults |-> nresults, pc |-> 0]
FixedArgs(m, func, p) ==        \* what is more than the parameters is cut off
    LET cut == func + 1 + p.numparams IN
    [m |-> IF L(m).top > cut THEN SetTop(m, cut) ELSE m, base |-> func + 1]
EnterOn(args, p, func, nresults, how) ==
    Started(NewFrame(args.m, L(args.m).top,
                     Frame(func, args.base, args.base + p.maxstacksize, nresults)), how)
EnterLua(m, p, func, nresults, how) ==
    EnterOn(IF p.is_vararg = {} THEN FixedArgs(m, func, p)
            ELSE adjust_varargs(m, p, L(m).top - func - 1), p, func, nresults, how)

LUA_MINSTACK == 20

(* tryfuncTM: a value that is no function is called through __call.           *)
tryfuncTM(m, func, tm) ==
    IF TypeOf(tm) # "function" THEN m
    ELSE PushAll(SetTop(m, func), <<tm>> \o Slots(m, func, L(m).top))
EnterC(m, func, nresults) ==
    CStep(PushCI(m, Frame(func, func + 1, L(m).top + LUA_MINSTACK, nresults)), [k |-> "C"])
Entered(m, func, nresults, how) ==
    IF ClosureAt(m, func).fn = "Lua" THEN EnterLua(m, ClosureAt(m, func).p, func, nresults, how)
    ELSE EnterC(m, func, nresults)
SavedPc(m) == [m EXCEPT !.thr[Cur(m)].ci[Len(L(m).ci)].pc = L(m).pc]
CalledOn(m, func, nresults, how) ==
    LET full == Len(L(m).ci) = L(m).size_ci IN
    IF TypeOf(Get(m, func)) # "function" THEN luaG_runerror(m)
    ELSE IF full /\ L(m).size_ci > LUAI_MAXCALLS THEN luaD_throw(m, "ERRERR")
    ELSE IF full /\ 2 * L(m).size_ci > LUAI_MAXCALLS THEN luaG_runerror(GrowCI(m))
    ELSE Entered(GrowCI(SavedPc(m)), func, nresults, how)
luaD_precall(m, func, nresults, how) ==
    CalledOn(tryfuncTM(m, func, luaT_gettmbyobj(m, Get(m, func), "__call")), func, nresults, how)
(* The call is a step of its own.                                             *)
Call(m, func, nresults, how) ==
    CStep(m, [k |-> "precall", func |-> func, nresults |-> nresults, how |-> how])

(* luaD_poscall: results go where the function was, as many as were wanted.   *)
luaD_poscall(m, first) ==
    LET ci == CI(m)
        prev == L(m).ci[Len(L(m).ci) - 1]
        have == Slots(m, first, L(m).top)
        n == IF ci.nresults = MULTRET THEN Len(have) ELSE ci.nresults
        moved == PutAll(m, ci.func, SubSeq(have \o Fill(n - Len(have), Nil), 1, n))
    IN SetL(moved, [L(moved) EXCEPT !.ci = Front(@), !.base = prev.base, !.pc = prev.pc,
                                    !.top = ci.func + n])

luaD_call(m0, func, nresults, after) ==
    LET n == L(m0).nCcalls + 1
        m == [m0 EXCEPT !.thr[Cur(m0)].nCcalls = n,
                        !.cs = Append(@, [k |-> "call", th |-> Cur(m0), after |-> after])]
    IN IF n = LUAI_MAXCCALLS THEN luaG_runerror(m)
       ELSE IF n >= LUAI_MAXCCALLS + LUAI_MAXCCALLS \div 8 THEN luaD_throw(m, "ERRERR")
       ELSE Call(m, func, nresults, "luaD_call")

(* A C function returns its n results; the caller of luaD_call, lua_pcall or  *)
(* auxresume does what is left.                                               *)
CReturn(m, n) == CStep(m, [k |-> "return", n |-> n])
Continue(m, after) == CStep(m, [k |-> "after", after |-> after])

(* lua_pcall of the function at func; what its caller does next is in after.  *)
lua_pcall(m, func, errfunc, after) ==
    LET fr == [k |-> "pcall", th |-> Cur(m), old_top |-> func, old_ci |-> Len(L(m).ci),
               oldnCcalls |-> L(m).nCcalls, old_errfunc |-> L(m).errfunc, after |-> after]
        p == [m EXCEPT !.cs = Append(@, fr), !.thr[Cur(m)].errfunc = errfunc]
    IN luaD_call(p, func, MULTRET, [k |-> "pcall"])

(* End of luaD_pcall and lua_pcall, then of luaB_pcall, luaB_xpcall or of the *)
(* host's call.                                                               *)
PcallDone(m0, fr, ok) ==
    LET m == [m0 EXCEPT !.cs = Front(@), !.thr[fr.th].errfunc = fr.old_errfunc]
        l == m.thr[fr.th]
        base == l.base
        values == SubSeq(l.stack, fr.old_top, l.top - 1)
    IN CASE fr.after = "host" -> [m EXCEPT !.out = <<ok, values>>]
         [] fr.after = "pcall" ->
              CReturn(PushAll(SetTop(m, base), <<Bool(ok)>> \o Slots(m, base, l.top)),
                      l.top - base + 1)
         [] fr.after = "xpcall" -> CReturn(Put(m, base, Bool(ok)), l.top - base)

-----------------------------------------------------------------------------
(* Coroutines.                                                                *)

costatus(m, co) ==
    LET l == m.thr[co] IN
    CASE co = Cur(m) -> "running"
      [] l.status = "YIELD" -> "suspended"
      [] l.status = "" -> IF Len(l.ci) > 1 THEN "normal"
                          ELSE IF l.top = l.base THEN "dead" ELSE "suspended"
      [] OTHER -> "dead"

(* auxresume up to and including lua_resume; the n arguments are on top.      *)
auxresume(m, co, n, after) ==
    LET args == Slots(m, L(m).top - n, L(m).top)
        fr == [k |-> "resume", th |-> co, after |-> after]
        r == [SetTop(m, L(m).top - n) EXCEPT !.cs = Append(@, fr),
                                             !.thr[co].nCcalls = L(m).nCcalls + 1,
                                             !.thr[co].baseCcalls = L(m).nCcalls + 1]
        moved == PushAll(r, args)
        again == [moved EXCEPT !.thr[co].status = ""]
        done == luaD_poscall(again, L(again).top - n)
        wanted == CI(again).nresults
        cont == IF wanted = MULTRET THEN done ELSE SetTop(done, CI(done).top)
    IN IF costatus(m, co) # "suspended" THEN Continue(Push(m, ErrorMsg), [k |-> after, n |-> -1])
       ELSE IF L(m).nCcalls >= LUAI_MAXCCALLS
       THEN Continue(Push([SetTop(m, L(m).top - n) EXCEPT !.thr[co].top = Last(m.thr[co].ci).base,
                                                           !.thr[co].nCcalls = L(m).nCcalls], ErrorMsg),
                     [k |-> after, n |-> -1])
       ELSE IF m.thr[co].status = ""
       THEN Call(moved, L(moved).top - n - 1, MULTRET, "resume")
       ELSE [cont EXCEPT !.cs = Append(@, [k |-> "exec", th |-> co,
                                           nexec |-> Len(L(cont).ci) - 1])]

(* lua_resume returns: the values of co go to the thread that resumed it.     *)
ResumeDone(m, ok) ==
    LET fr == Last(m.cs)
        co == fr.th
        l == m.thr[co]
        n == IF ok THEN l.top - l.base ELSE 1
        back == [m EXCEPT !.cs = Front(@), !.thr[co].nCcalls = @ - 1, !.thr[co].top = @ - n]
    IN Continue(PushAll(back, Slots(m, l.top - n, l.top)),
                [k |-> fr.after, n |-> IF ok THEN n ELSE -1])

lua_yield(m, n) ==
    LET y == [m EXCEPT !.thr[Cur(m)].base = L(m).top - n, !.thr[Cur(m)].status = "YIELD",
                       !.cs = Front(@)]
    IN IF L(m).nCcalls > L(m).baseCcalls THEN luaG_runerror(m) ELSE ResumeDone(y, TRUE)

-----------------------------------------------------------------------------
(* Returns and errors reach the activation below.                             *)

(* luaV_execute or a C function returned to the activation now at the end.    *)
ReturnedTop(m, wanted) ==       \* a fault: top stays at the results
    LET fr == Last(m.cs)
        popped == [m EXCEPT !.cs = Front(@)]
    IN CASE fr.k = "exec" -> m
         [] fr.k = "call" -> Continue([popped EXCEPT !.thr[fr.th].nCcalls = @ - 1], fr.after)
         [] fr.k = "resume" -> ResumeDone(m, TRUE)
Returned(m, wanted) ==
    LET fr == Last(m.cs)
        popped == [m EXCEPT !.cs = Front(@)]
    IN CASE fr.k = "exec" -> IF wanted = MULTRET THEN m ELSE SetTop(m, CI(m).top)
         [] fr.k = "call" -> Continue([popped EXCEPT !.thr[fr.th].nCcalls = @ - 1], fr.after)
         [] fr.k = "resume" -> ResumeDone(m, TRUE)

luaD_precallEnd(m, n) == Returned(luaD_poscall(m, L(m).top - n), CI(m).nresults)

(* The longjmp of luaD_throw: the activations above the last lua_pcall or     *)
(* lua_resume are gone, and luaD_pcall puts the thread back as it found it.   *)
Unwind(m0, status) ==
    LET at == Max({i \in DOMAIN m0.cs : m0.cs[i].k \in {"pcall", "resume"}})
        fr == m0.cs[at]
        m == [m0 EXCEPT !.cs = SubSeq(@, 1, at)]
        obj == ErrorObj(m, status)
        closed == Put(luaF_close(m, fr.old_top), fr.old_top, obj)
        dead == Push([m EXCEPT !.thr[fr.th].status = status], obj)
    IN IF fr.k = "pcall" THEN PcallDone(SetL(closed, Restored(L(closed), fr)), fr, FALSE)
       ELSE ResumeDone([dead EXCEPT !.thr[fr.th].ci[Len(L(m).ci)].top = L(dead).top], FALSE)

(* luaG_errormsg: the error value is on the top of the stack.                 *)
luaG_errormsg(m) ==
    LET h == L(m).errfunc
        v == Get(m, L(m).top - 1)
    IN IF h = 0 THEN luaD_throw(m, "ERRRUN")
       ELSE IF TypeOf(Get(m, h)) # "function" THEN luaD_throw(m, "ERRERR")
       ELSE luaD_call(Push(Put(m, L(m).top - 1, Get(m, h)), v), L(m).top - 1, 1,
                      [k |-> "throw"])

-----------------------------------------------------------------------------
(* Operations that may call a metamethod (lvm.c).  What is left to do when it *)
(* returns is the record after of its activation, done by After.              *)

callTMres(m, tm, p1, p2, after) == luaD_call(PushAll(m, <<tm, p1, p2>>), L(m).top, 1, after)
callTM(m, tm, p1, p2, p3) ==
    luaD_call(PushAll(m, <<tm, p1, p2, p3>>), L(m).top, 0, [k |-> "TM"])

RECURSIVE luaV_gettable(_, _, _, _, _)
luaV_gettable(m, t, key, res, loop) ==
    LET h == t[2]
        isT == TypeOf(t) = "table"
        raw == luaH_get(m.tab[h], key)
        tm == IF isT THEN fasttm(m, m.tab[h].mt, "__index") ELSE luaT_gettmbyobj(m, t, "__index")
        c == IF isT THEN Cached(m, m.tab[h].mt, "__index") ELSE m
    IN IF loop = MAXTAGLOOP THEN luaG_runerror(m)
       ELSE IF isT /\ ~IsNil(raw) THEN Put(m, res, raw)
       ELSE IF IsNil(tm) THEN IF isT THEN Put(c, res, Nil) ELSE luaG_runerror(m)
       ELSE IF TypeOf(tm) = "function"
       THEN callTMres(m, tm, t, key, [k |-> "TMres", res |-> res])
       ELSE luaV_gettable(m, tm, key, res, loop + 1)

RECURSIVE luaV_settable(_, _, _, _, _)
luaV_settable(m0, t, key, val, loop) ==
    LET h == t[2]
        isT == TypeOf(t) = "table"
        m == IF isT /\ ~IsNil(key) THEN [m0 EXCEPT !.tab[h] = luaH_set(@, key)] ELSE m0
        old == luaH_get(m.tab[h], key)
        tm == IF isT THEN fasttm(m, m.tab[h].mt, "__newindex")
              ELSE luaT_gettmbyobj(m, t, "__newindex")
    IN IF loop = MAXTAGLOOP \/ (isT /\ IsNil(key)) THEN luaG_runerror(m)
       ELSE IF isT /\ ~IsNil(old) THEN StoreIn(m, h, key, val)
       ELSE IF IsNil(tm)
       THEN IF isT THEN StoreIn(Cached(m, m.tab[h].mt, "__newindex"), h, key, val)
            ELSE luaG_runerror(m)
       ELSE IF TypeOf(tm) = "function" THEN callTM(m, tm, t, key, val)
       ELSE luaV_settable(m, tm, key, val, loop + 1)

call_binTM(m, p1, p2, event, after) ==
    LET tm1 == luaT_gettmbyobj(m, p1, event)
        tm == IF IsNil(tm1) THEN luaT_gettmbyobj(m, p2, event) ELSE tm1
    IN IF IsNil(tm) THEN luaG_runerror(m) ELSE callTMres(m, tm, p1, p2, after)

TMName == [op \in {"ADD", "SUB", "MUL", "DIV", "MOD", "POW", "UNM"} |->
    CASE op = "ADD" -> "__add" [] op = "SUB" -> "__sub" [] op = "MUL" -> "__mul"
      [] op = "DIV" -> "__div" [] op = "MOD" -> "__mod" [] op = "POW" -> "__pow"
      [] op = "UNM" -> "__unm"]
Arith(m, ra, rb, rc, op) ==
    IF IsNumber(rb) /\ IsNumber(rc)
    THEN Put(m, ra, Num(numop(op, tonumber(rb)[2], tonumber(rc)[2])))
    ELSE call_binTM(m, rb, rc, TMName[op], [k |-> "TMres", res |-> ra])

(* The end of a comparison: the next instruction is the jump it decides.      *)
CondJump(m, taken) ==
    LET code == ClosureAt(m, CI(m).func).p.code
        pc == L(m).pc
    IN [m EXCEPT !.thr[Cur(m)].pc = pc + 1 + (IF taken THEN code[pc + 1].b ELSE 0)]

(* A comparison that yields value b when the instruction asks for want.       *)
get_compTM(m, mt1, mt2) ==
    LET tm1 == fasttm(m, mt1, "__eq")
        tm2 == fasttm(m, mt2, "__eq")
    IN IF mt1 = mt2 \/ tm1 = tm2 THEN tm1 ELSE Nil

Cond(want) == [k |-> "cond", neg |-> FALSE, want |-> want]
equalobj(m, l, r, want) ==
    LET tm == get_compTM(m, m.tab[l[2]].mt, m.tab[r[2]].mt)
        c1 == Cached(m, m.tab[l[2]].mt, "__eq")
        c == IF IsNil(fasttm(m, m.tab[l[2]].mt, "__eq")) THEN c1
             ELSE Cached(c1, m.tab[r[2]].mt, "__eq")
    IN IF l = r \/ TypeOf(l) # "table" \/ TypeOf(r) # "table" THEN CondJump(m, (l = r) = want)
       ELSE IF IsNil(tm) THEN CondJump(c, ~want)
       ELSE callTMres(m, tm, l, r, Cond(want))

(* A comparison gave b: a jump depends on it, or the sort that asked for it.  *)
Decided(m, after, b) ==
    IF after.k = "sort" THEN CStep(m, [k |-> "compared", st |-> after.st, b |-> b])
    ELSE CondJump(m, (b # after.neg) = after.want)

(* The metamethod both operands share, or nil.                                *)
OrderTM(m, p1, p2, event) ==
    LET tm == luaT_gettmbyobj(m, p1, event) IN
    IF tm = luaT_gettmbyobj(m, p2, event) THEN tm ELSE Nil

luaV_lessthan(m, l, r, after) ==
    LET tm == OrderTM(m, l, r, "__lt") IN
    CASE TypeOf(l) # TypeOf(r) -> luaG_runerror(m)
      [] TypeOf(l) = "number" -> Decided(m, after, l[2] < r[2])
      [] TypeOf(l) = "string" -> Decided(m, after, Collate(l[2]) < Collate(r[2]))
      [] OTHER -> IF IsNil(tm) THEN luaG_runerror(m) ELSE callTMres(m, tm, l, r, after)

lessequal(m, l, r, want) ==
    LET le == OrderTM(m, l, r, "__le")
        lt == OrderTM(m, r, l, "__lt")
    IN CASE TypeOf(l) # TypeOf(r) -> luaG_runerror(m)
         [] TypeOf(l) = "number" -> CondJump(m, (l[2] <= r[2]) = want)
         [] TypeOf(l) = "string" -> CondJump(m, (Collate(l[2]) <= Collate(r[2])) = want)
         [] OTHER -> IF ~IsNil(le)
                     THEN callTMres(m, le, l, r, Cond(want))
                     ELSE IF IsNil(lt) THEN luaG_runerror(m)
                     ELSE callTMres(m, lt, r, l, [k |-> "cond", neg |-> TRUE, want |-> want])

(* luaV_concat of the total values that end at register last, then the move   *)
(* of the result from register b to register a.                               *)
RECURSIVE luaV_concat(_, _, _, _, _)
luaV_concat(m, total, last, a, b) ==
    LET base == L(m).base
        top == base + last + 1
        x == Get(m, top - 2)
        y == Get(m, top - 1)
        strings == {n \in 2..total : \A i \in 1..n : IsString(Get(m, top - i))}
        n == IF tostring(y) = Str("") THEN 2 ELSE Max(strings)
        joined == FoldLeft(LAMBDA s, i : s \o tostring(Get(m, top - n + i - 1))[2], "",
                           [i \in 1..n |-> i])
    IN IF total <= 1 THEN Put(m, base + a, Get(m, base + b))
       ELSE IF ~IsString(x) \/ ~IsString(y)
       THEN call_binTM(m, x, y, "__concat",
                       [k |-> "concat", total |-> total - 1, last |-> last - 1, a |-> a, b |-> b])
       ELSE luaV_concat(Put(m, top - n, Str(joined)), total - n + 1, last - n + 1, a, b)

-----------------------------------------------------------------------------
(* The base library.                                                          *)

NArgs(m) == L(m).top - L(m).base
Arg(m, i) == IF i <= NArgs(m) THEN Get(m, L(m).base + i - 1) ELSE Nil
Args(m, from) == Slots(m, L(m).base + from - 1, L(m).top)
IsTab(v) == TypeOf(v) = "table"
Metafield(m, v, name) == luaT_gettmbyobj(m, v, name)    \* luaL_getmetafield
Results(m, vs) == CReturn(PushAll(m, vs), Len(vs))
luaL_check(ok, m, res) == IF ok THEN res ELSE luaG_runerror(m)

(* A message that is a string gets its position, unless the level is 0.       *)
luaB_error(m) ==
    LET where == IsString(Arg(m, 1)) /\ Arg(m, 2) # Num(0) IN
    RaiseError(Push(m, IF where THEN ErrorMsg ELSE Arg(m, 1)))

luaB_getmetatable(m) ==
    LET v == Arg(m, 1)
        shown == Metafield(m, v, "__metatable")
    IN luaL_check(NArgs(m) > 0, m,
         Results(m, <<IF ~IsTab(v) \/ m.tab[v[2]].mt = 0 THEN Nil
                      ELSE IF IsNil(shown) THEN Tab(m.tab[v[2]].mt) ELSE shown>>))

luaB_setmetatable(m) ==
    LET t == Arg(m, 1)
        mt == Arg(m, 2)
        set == [m EXCEPT !.tab[t[2]].mt = IF IsTab(mt) THEN mt[2] ELSE 0]
    IN luaL_check(/\ IsTab(t) /\ (IsTab(mt) \/ (IsNil(mt) /\ NArgs(m) > 1))
                  /\ IsNil(Metafield(m, t, "__metatable")), m, Results(set, <<t>>))

luaB_rawequal(m) == luaL_check(NArgs(m) > 1, m, Results(m, <<Bool(Arg(m, 1) = Arg(m, 2))>>))
luaB_rawget(m) ==
    luaL_check(IsTab(Arg(m, 1)), m, Results(m, <<luaH_get(m.tab[Arg(m, 1)[2]], Arg(m, 2))>>))
luaB_rawset(m) ==
    luaL_check(IsTab(Arg(m, 1)) /\ NArgs(m) > 2 /\ ~IsNil(Arg(m, 2)), m,
         Results(RawSet(m, Arg(m, 1)[2], Arg(m, 2), Arg(m, 3)), <<Arg(m, 1)>>))

luaB_type(m) == luaL_check(NArgs(m) > 0, m, Results(m, <<Str(TypeOf(Arg(m, 1)))>>))

luaB_next(m) ==
    LET kv == luaH_next(m.tab[Arg(m, 1)[2]], Arg(m, 2)) IN
    luaL_check(IsTab(Arg(m, 1)) /\ kv # BadKey, m, Results(m, IF kv = <<>> THEN <<Nil>> ELSE kv))

(* pairs and ipairs return their generator, kept as an upvalue.               *)
Generate(m, first) ==
    luaL_check(IsTab(Arg(m, 1)), m, Results(m, <<ClosureAt(m, CI(m).func).up, Arg(m, 1), first>>))
luaB_pairs(m) == Generate(m, Nil)
luaB_ipairs(m) == Generate(m, Num(0))
ipairsaux(m) ==
    LET i == Arg(m, 2)[2] + 1
        v == luaH_getnum(m.tab[Arg(m, 1)[2]], i)
    IN luaL_check(IsTab(Arg(m, 1)) /\ IsNumber(Arg(m, 2)), m,
                  Results(m, IF IsNil(v) THEN <<>> ELSE <<Num(i), v>>))

luaB_assert(m) ==
    IF NArgs(m) = 0 \/ l_isfalse(Arg(m, 1)) THEN luaG_runerror(m) ELSE CReturn(m, NArgs(m))

luaB_unpack(m) ==
    LET t == m.tab[Arg(m, 1)[2]]
        i == IF IsNil(Arg(m, 2)) THEN 1 ELSE Arg(m, 2)[2]
        e == IF IsNil(Arg(m, 3)) THEN luaH_getn(t) ELSE Arg(m, 3)[2]
    IN luaL_check(IsTab(Arg(m, 1)), m, Results(m, [j \in 1..(e - i + 1) |-> luaH_getnum(t, i + j - 1)]))

luaB_select(m) ==
    LET n == NArgs(m)
        i0 == Arg(m, 1)[2]
        i == IF i0 < 0 THEN n + i0 ELSE IF i0 > n THEN n ELSE i0
    IN IF Arg(m, 1) = Str("#") THEN Results(m, <<Num(n - 1)>>)
       ELSE luaL_check(IsNumber(Arg(m, 1)) /\ i >= 1, m, CReturn(m, n - i))

luaB_pcall(m) == luaL_check(NArgs(m) > 0, m, lua_pcall(m, L(m).base, 0, "pcall"))
luaB_xpcall(m) ==
    LET base == L(m).base IN
    luaL_check(NArgs(m) > 1, m,
         lua_pcall(SetTop(Put(Put(m, base, Arg(m, 2)), base + 1, Arg(m, 1)), base + 2),
                   base + 1, base, "xpcall"))

NewThread == [stack |-> <<Nil>>, top |-> 2, base |-> 2, pc |-> 0, status |-> "",
              ci |-> <<[func |-> 1, base |-> 2, top |-> 2 + LUA_MINSTACK, nresults |-> 0, pc |-> 0]>>,
              nCcalls |-> 0, baseCcalls |-> 0, errfunc |-> 0, size_ci |-> BASIC_CI_SIZE, open |-> <<>>]
IsLuaFunction(m, v) == TypeOf(v) = "function" /\ m.clo[v[2]].fn = "Lua"
Created(m) ==
    [m EXCEPT !.thr = Append(@, [NewThread EXCEPT !.stack = <<Nil, Arg(m, 1)>>, !.top = 3])]
CFun(fn, up) == [fn |-> fn, p |-> <<>>, upvals |-> <<>>, env |-> 0, up |-> up]
luaB_cocreate(m) ==
    luaL_check(IsLuaFunction(m, Arg(m, 1)), m, Results(Created(m), <<Thr(Len(m.thr) + 1)>>))
luaB_cowrap(m) ==
    luaL_check(IsLuaFunction(m, Arg(m, 1)), m,
         Results([Created(m) EXCEPT !.clo = Append(@, CFun("auxwrap", Thr(Len(m.thr) + 1)))],
                 <<Fun(Len(m.clo) + 1)>>))
IsThread(v) == TypeOf(v) = "thread"
luaB_coresume(m) ==
    luaL_check(IsThread(Arg(m, 1)), m, auxresume(m, Arg(m, 1)[2], NArgs(m) - 1, "coresume"))
luaB_auxwrap(m) == auxresume(m, ClosureAt(m, CI(m).func).up[2], NArgs(m), "auxwrap")
luaB_costatus(m) ==
    luaL_check(IsThread(Arg(m, 1)), m, Results(m, <<Str(costatus(m, Arg(m, 1)[2]))>>))
luaB_yield(m) == lua_yield(m, NArgs(m))

-----------------------------------------------------------------------------
(* The table library: a function works on the table that is its argument 1.   *)

Arg1(m) == LET h == Arg(m, 1)[2] IN [t |-> m.tab[h], r |-> m.ref[h]]
SetArg1(m, T) == LET h == Arg(m, 1)[2] IN [m EXCEPT !.tab[h] = T.t, !.ref[h] = T.r]
IsFun(v) == TypeOf(v) = "function"
optint(m, i, default) == IF IsNil(Arg(m, i)) THEN default ELSE tonumber(Arg(m, i))[2]
IsOptInt(m, i) == IsNil(Arg(m, i)) \/ IsNumber(Arg(m, i))

foreachi(m, i, n) ==
    IF i > n THEN CReturn(m, 0)
    ELSE luaD_call(PushAll(m, <<Arg(m, 2), Num(i), rawgeti(Arg1(m), i)>>), L(m).top, 1,
                   [k |-> "foreachi", i |-> i, n |-> n])
foreach(m, key) ==
    LET kv == luaH_next(Arg1(m).t, key) IN
    IF kv = BadKey THEN luaG_runerror(m) ELSE IF kv = <<>> THEN CReturn(m, 0)
    ELSE luaD_call(PushAll(m, <<Arg(m, 2)>> \o kv), L(m).top, 1, [k |-> "foreach", key |-> kv[1]])
(* The table is written back before the order function or __lt can see it.    *)
sort_comp(m0, st0) ==
    LET m == SetArg1(m0, st0.T)
        ab == Compared(st0)
        after == [k |-> "sort", st |-> st0]
    IN CASE st0.at = "done" -> CReturn(m, 0)
         [] st0.at = "invalid" -> luaG_runerror(m)
         [] OTHER -> IF IsNil(Arg(m, 2)) THEN luaV_lessthan(m, ab[1], ab[2], after)
                     ELSE luaD_call(PushAll(m, <<Arg(m, 2)>> \o ab), L(m).top, 1, after)

tab_funcs(m, fn) ==
    LET T == Arg1(m)
        n == getn(T)
        j == optint(m, 4, n)
        pos == IF NArgs(m) = 2 THEN n + 1 ELSE tonumber(Arg(m, 2))[2]
        at == optint(m, 2, n)
        i == optint(m, 3, 1)
        sep == IF IsNil(Arg(m, 2)) THEN "" ELSE tostring(Arg(m, 2))[2]
    IN CASE ~IsTab(Arg(m, 1)) -> luaG_runerror(m)
         [] fn = "insert" ->
              luaL_check(NArgs(m) = 2 \/ (NArgs(m) = 3 /\ IsNumber(Arg(m, 2))), m,
                         Results(SetArg1(m, tinsert(T, pos, Arg(m, NArgs(m)))), <<>>))
         [] fn = "remove" ->
              luaL_check(IsOptInt(m, 2), m,
                         IF at \notin 1..n THEN Results(m, <<>>)
                         ELSE Results(SetArg1(m, tremove(T, at)), <<rawgeti(T, at)>>))
         [] fn = "concat" ->
              luaL_check(/\ IsNil(Arg(m, 2)) \/ IsString(Arg(m, 2))
                         /\ IsOptInt(m, 3) /\ IsOptInt(m, 4)
                         /\ Concatenable(T, i, j), m, Results(m, <<Str(tconcat(T, sep, i, j))>>))
         [] fn = "maxn" -> Results(m, <<Num(maxn(T))>>)
         [] fn = "getn" -> Results(m, <<Num(n)>>)
         [] fn = "foreachi" -> luaL_check(IsFun(Arg(m, 2)), m, foreachi(m, 1, n))
         [] fn = "foreach" -> luaL_check(IsFun(Arg(m, 2)), m, foreach(m, Nil))
         [] fn = "sort" ->
              luaL_check(IsNil(Arg(m, 2)) \/ IsFun(Arg(m, 2)), m,
                         sort_comp(SetTop(Put(m, L(m).base + 1, Arg(m, 2)), L(m).base + 2), auxsort(T)))

-----------------------------------------------------------------------------
(* The string library.                                                        *)

ArgText(m, i) == tostring(Arg(m, i))[2]
PushValues(m, vs) == luaL_check(~Bad(vs), m, Results(m, vs))

(* gsub with what its loop keeps: position src, n replacements so far, and    *)
(* the text b built from them.                                                *)
RECURSIVE str_gsub(_, _)
GsubDone(m, g) == Results(m, <<Str(g.b \o SubSeq(ArgText(m, 1), g.src, Len(ArgText(m, 1)))), Num(g.n)>>)
GsubNext(m, g, e) ==
    LET s == ArgText(m, 1)
        next == IF e > g.src THEN [g EXCEPT !.src = e]
                ELSE [g EXCEPT !.src = @ + 1, !.b = @ \o At(s, g.src)]
    IN IF e <= g.src /\ g.src > Len(s) THEN GsubDone(m, g)
       ELSE IF Anchored(ArgText(m, 2)) THEN GsubDone(m, next) ELSE str_gsub(m, next)
(* The end of add_value: nil and false keep the original text.                *)
add_value(m, g, e, v) ==
    LET keep == Str(SubSeq(ArgText(m, 1), g.src, e - 1))
        text == IF l_isfalse(v) THEN keep ELSE v
    IN luaL_check(IsString(text), m,
                  GsubNext(m, [g EXCEPT !.n = @ + 1, !.b = @ \o tostring(text)[2]], e))
str_gsub(m, g) ==
    LET p == ArgText(m, 2)
        ms == match(MatchState(ArgText(m, 1), p), g.src, IF Anchored(p) THEN 2 ELSE 1)
        repl == Arg(m, 3)
        caps == push_captures(ms, g.src, TRUE)
    IN IF g.n >= optint(m, 4, Len(ArgText(m, 1)) + 1) THEN GsubDone(m, g)
       ELSE IF ms.err THEN luaG_runerror(m)
       ELSE IF ms.e = 0 THEN GsubNext(m, g, 0)
       ELSE CASE IsString(repl) -> add_value(m, g, ms.e, add_s(ms, tostring(repl)[2], g.src))
              [] Bad(caps) -> luaG_runerror(m)
              [] IsFun(repl) -> luaD_call(PushAll(m, <<repl>> \o caps), L(m).top, 1,
                                          [k |-> "gsub", g |-> g, e |-> ms.e])
              [] OTHER ->       \* a table, in the programs without a metatable
                   add_value(m, g, ms.e, luaH_get(m.tab[repl[2]], caps[1]))

(* gmatch keeps the string, the pattern and the position as upvalues.         *)
gmatch(m) ==
    Results([m EXCEPT !.clo = Append(@, CFun("gmatch_aux", <<ArgText(m, 1), ArgText(m, 2), 1>>))],
            <<Fun(Len(m.clo) + 1)>>)
GmatchNext(m) ==
    LET up == ClosureAt(m, CI(m).func).up
        r == gmatch_aux(up[1], up[2], up[3])
    IN PushValues([m EXCEPT !.clo[Get(m, CI(m).func)[2]].up[3] = r.at], r.vs)

strlib(m, fn) ==
    LET s == ArgText(m, 1)
        i == optint(m, 2, 1)
    IN CASE fn = "gmatch_aux" -> GmatchNext(m)
         [] ~IsString(Arg(m, 1)) -> luaG_runerror(m)
         [] fn = "len" -> Results(m, <<Num(Len(s))>>)
         [] fn = "lower" -> Results(m, <<Str(str_lower(s))>>)
         [] fn = "upper" -> Results(m, <<Str(str_upper(s))>>)
         [] fn = "reverse" -> Results(m, <<Str(str_reverse(s))>>)
         [] fn \in {"sub", "rep", "byte"} ->
              luaL_check(IsNumber(Arg(m, 2)) \/ (fn = "byte" /\ IsNil(Arg(m, 2))), m,
                CASE fn = "sub" -> Results(m, <<Str(str_sub(s, i, optint(m, 3, -1)))>>)
                  [] fn = "rep" -> Results(m, <<Str(str_rep(s, i))>>)
                  [] fn = "byte" -> Results(m, str_byte(s, i, optint(m, 3, posrelat(i, Len(s))))))
         [] ~IsString(Arg(m, 2)) -> luaG_runerror(m)
         [] fn \in {"find", "match"} ->
              luaL_check(IsOptInt(m, 3), m,
                PushValues(m, str_find_aux(s, ArgText(m, 2), optint(m, 3, 1), ~l_isfalse(Arg(m, 4)),
                                       fn = "find")))
         [] fn = "gmatch" -> gmatch(m)
         [] fn = "gsub" ->
              luaL_check(/\ TypeOf(Arg(m, 3)) \in {"string", "number", "function", "table"}
                         /\ IsOptInt(m, 4), m,
                str_gsub(m, [src |-> 1, n |-> 0, b |-> ""]))

(* The C function of the last CallInfo runs.                                  *)
RunC(m) ==
    LET fn == ClosureAt(m, CI(m).func).fn IN
    CASE fn = "error" -> luaB_error(m)
      [] fn = "getmetatable" -> luaB_getmetatable(m)
      [] fn = "setmetatable" -> luaB_setmetatable(m)
      [] fn = "rawequal" -> luaB_rawequal(m)
      [] fn = "rawget" -> luaB_rawget(m)
      [] fn = "rawset" -> luaB_rawset(m)
      [] fn = "type" -> luaB_type(m)
      [] fn = "next" -> luaB_next(m)
      [] fn = "pairs" -> luaB_pairs(m)
      [] fn = "ipairs" -> luaB_ipairs(m)
      [] fn = "ipairsaux" -> ipairsaux(m)
      [] fn = "assert" -> luaB_assert(m)
      [] fn = "unpack" -> luaB_unpack(m)
      [] fn = "select" -> luaB_select(m)
      [] fn = "pcall" -> luaB_pcall(m)
      [] fn = "xpcall" -> luaB_xpcall(m)
      [] fn = "create" -> luaB_cocreate(m)
      [] fn = "wrap" -> luaB_cowrap(m)
      [] fn = "resume" -> luaB_coresume(m)
      [] fn = "auxwrap" -> luaB_auxwrap(m)
      [] fn = "status" -> luaB_costatus(m)
      [] fn = "yield" -> luaB_yield(m)
      [] fn \in {"insert", "remove", "concat", "maxn", "getn", "foreach", "foreachi", "sort"} ->
           tab_funcs(m, fn)
      [] OTHER -> strlib(m, fn)

(* What the caller of luaD_call, lua_pcall or auxresume does next.            *)
After(m, k) ==
    LET l == L(m)
        popped == SetTop(m, l.top - 1)
        v == Get(m, l.top - 1)
        full == SetTop(m, CI(m).top)
    IN CASE k.k = "TM" -> m
         [] k.k = "TMres" -> Put(popped, k.res, v)
         [] k.k \in {"cond", "sort"} -> Decided(popped, k, ~l_isfalse(v))
         [] k.k = "gsub" -> add_value(popped, k.g, k.e, v)
         [] k.k = "foreachi" ->
              IF IsNil(v) THEN foreachi(popped, k.i + 1, k.n) ELSE CReturn(m, 1)
         [] k.k = "foreach" -> IF IsNil(v) THEN foreach(popped, k.key) ELSE CReturn(m, 1)
         [] k.k = "concat" ->
              luaV_concat(Put(popped, l.base + k.last, v), k.total, k.last, k.a, k.b)
         [] k.k = "tforloop" ->
              IF IsNil(Get(m, k.cb)) THEN CondJump(full, FALSE)
              ELSE CondJump(Put(full, k.cb - 1, Get(m, k.cb)), TRUE)
         [] k.k = "throw" -> luaD_throw(m, "ERRRUN")
         [] k.k = "pcall" -> PcallDone(m, Last(m.cs), TRUE)
         [] k.k = "coresume" ->
              IF k.n < 0 THEN CReturn(PushAll(popped, <<Bool(FALSE), v>>), 2)
              ELSE CReturn(PushAll(SetTop(m, l.top - k.n), <<Bool(TRUE)>> \o Slots(m, l.top - k.n, l.top)),
                           k.n + 1)
         [] k.k = "auxwrap" ->
              IF k.n < 0 THEN RaiseError(IF IsString(v) THEN Put(m, l.top - 1, ErrorMsg) ELSE m)
              ELSE CReturn(m, k.n)
=============================================================================
