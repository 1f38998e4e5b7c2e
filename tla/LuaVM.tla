-------------------------------- MODULE LuaVM --------------------------------
(* The interpreter (lvm.c, luaV_execute): one action per opcode, on the code  *)
(* the compiler of LuaParser makes of a program, and one per step of the C    *)
(* code between two instructions.  A program is its tokens and expect, what   *)
(* the host's lua_pcall of it should give: <<ok, values>>, or <<"syntax">>    *)
(* when luaL_loadbuffer should refuse it.                                     *)
EXTENDS LuaDo

CONSTANTS Programs,
          Compile(_)    \* the compiler, luaY_parser

VARIABLES prog,     \* the program being run
          m,        \* the interpreter, see LuaDo
          bad       \* an assertion of the compiler failed

vars == <<prog, m, bad>>

-----------------------------------------------------------------------------
(* A new state and its library: table 1 holds the globals.                    *)

Library == <<"ipairs", "pairs", "assert", "error", "getmetatable", "next", "pcall", "rawequal",
             "rawget", "rawset", "select", "setmetatable", "type", "unpack", "xpcall",
             "create", "resume", "status", "wrap", "yield", "concat", "foreach", "foreachi",
             "getn", "maxn", "insert", "remove", "sort", "byte", "find", "gmatch", "gsub", "len",
             "lower", "match", "rep", "reverse", "sub", "upper">>
Empty == [tab |-> <<luaH_new(0, 2)>>, ref |-> <<<<>>>>, clo |-> <<>>, uv |-> <<>>,
          thr |-> <<NewThread>>, cs |-> <<[k |-> "host", th |-> 1]>>,
          next |-> [k |-> "exec"], out |-> <<>>]
Register(x, name, up) ==
    RawSet([x EXCEPT !.clo = Append(@, CFun(name, up))], 1, Str(name), Fun(Len(x.clo) + 1))
auxopen(x, name, gen) ==
    Register([x EXCEPT !.clo = Append(@, CFun(gen, Nil))], name, Fun(Len(x.clo) + 1))
luaopen_base(x) ==      \* what the program does not name is left out
    FoldLeft(LAMBDA r, name : CASE name = "pairs" -> auxopen(r, name, "next")
                                [] name = "ipairs" -> auxopen(r, name, "ipairsaux")
                                [] OTHER -> Register(r, name, Nil),
             x, SelectSeq(Library, LAMBDA name : name \in ToSet(prog.toks)))

Init ==
    /\ prog \in Programs
    /\ m = Empty
    /\ bad = FALSE

(* The host opens the library, compiles the program and calls what it got.    *)
Main(x, p) ==
    LET cl == [fn |-> "Lua", p |-> p, upvals |-> <<>>, env |-> 1, up |-> Nil] IN
    Push([x EXCEPT !.clo = Append(@, cl)], Fun(Len(x.clo) + 1))
Load ==
    /\ Len(m.cs) = 1
    /\ m.out = <<>>
    /\ LET c == Compile(prog.toks)
           x == luaopen_base(m)
       IN /\ bad' = c.bad
          /\ m' = IF c.err THEN [x EXCEPT !.out = <<"syntax">>]
                  ELSE lua_pcall(Main(x, c.proto), L(m).top, 0, "host")
    /\ UNCHANGED prog

-----------------------------------------------------------------------------
(* Operands.                                                                  *)

Closure(x) == ClosureAt(x, CI(x).func)
RA(x, i) == L(x).base + i.a
RB(x, i) == L(x).base + i.b
K(x, n) == Closure(x).p.k[n + 1]
RK_(x, r) == IF ISK(r) THEN K(x, r - BITRK) ELSE Get(x, L(x).base + r)
RKB(x, i) == RK_(x, i.b)
RKC(x, i) == RK_(x, i.c)
Skip(x, n) == [x EXCEPT !.thr[Cur(x)].pc = @ + n]
Env(x) == Tab(Closure(x).env)

Running == m.out = <<>> /\ m.next.k = "exec" /\ Last(m.cs).k = "exec"
Fetched == Closure(m).p.code[L(m).pc + 1]
Exec(o, Do(_, _)) ==
    /\ Running
    /\ Fetched.o = o
    /\ m' = Do(Skip(m, 1), Fetched)
    /\ UNCHANGED <<prog, bad>>

-----------------------------------------------------------------------------
(* The C code between two instructions.                                       *)

Pending(k, Do(_, _)) ==
    /\ m.out = <<>>
    /\ m.next.k = k
    /\ m' = Do(CStep(m, [k |-> "exec"]), m.next)
    /\ UNCHANGED <<prog, bad>>
FunctionCalled ==
    Pending("precall", LAMBDA x, c : luaD_precall(x, c.func, c.nresults, c.how))
CFunction == Pending("C", LAMBDA x, c : RunC(x))
CFunctionReturns == Pending("return", LAMBDA x, c : luaD_precallEnd(x, c.n))
CallerContinues == Pending("after", LAMBDA x, c : After(x, c.after))
SortContinues == Pending("compared", LAMBDA x, c : sort_comp(x, Answered(c.st, c.b)))
ErrorRaised == Pending("error", LAMBDA x, c : luaG_errormsg(x))
ErrorThrown == Pending("throw", LAMBDA x, c : Unwind(x, c.status))

-----------------------------------------------------------------------------
(* The opcodes.                                                               *)

OP_MOVE == Exec("MOVE", LAMBDA x, i : Put(x, RA(x, i), Get(x, RB(x, i))))
OP_LOADK == Exec("LOADK", LAMBDA x, i : Put(x, RA(x, i), K(x, i.b)))
OP_LOADBOOL == Exec("LOADBOOL", LAMBDA x, i : Skip(Put(x, RA(x, i), Bool(i.b = 1)), i.c))
OP_LOADNIL ==
    Exec("LOADNIL", LAMBDA x, i :
        PutAll(x, RA(x, i), Fill(i.b - i.a + 1, Nil)))

OP_GETUPVAL ==
    Exec("GETUPVAL", LAMBDA x, i : Put(x, RA(x, i), UpGet(x, Closure(x).upvals[i.b + 1])))
OP_SETUPVAL ==
    Exec("SETUPVAL", LAMBDA x, i : UpSet(x, Closure(x).upvals[i.b + 1], Get(x, RA(x, i))))
OP_GETGLOBAL ==
    Exec("GETGLOBAL", LAMBDA x, i : luaV_gettable(x, Env(x), K(x, i.b), RA(x, i), 0))
OP_SETGLOBAL ==
    Exec("SETGLOBAL", LAMBDA x, i : luaV_settable(x, Env(x), K(x, i.b), Get(x, RA(x, i)), 0))
OP_GETTABLE ==
    Exec("GETTABLE", LAMBDA x, i : luaV_gettable(x, Get(x, RB(x, i)), RKC(x, i), RA(x, i), 0))
OP_SETTABLE ==
    Exec("SETTABLE", LAMBDA x, i : luaV_settable(x, Get(x, RA(x, i)), RKB(x, i), RKC(x, i), 0))
OP_SELF ==
    Exec("SELF", LAMBDA x, i :
        LET rb == Get(x, RB(x, i)) IN
        luaV_gettable(Put(x, RA(x, i) + 1, rb), rb, RKC(x, i), RA(x, i), 0))
OP_NEWTABLE ==
    Exec("NEWTABLE", LAMBDA x, i :
        Put(NewTable(x, luaO_fb2int(i.b), luaO_fb2int(i.c)), RA(x, i), Tab(Len(x.tab) + 1)))

arith_op(op) == Exec(op, LAMBDA x, i : Arith(x, RA(x, i), RKB(x, i), RKC(x, i), op))
OP_ADD == arith_op("ADD")
OP_SUB == arith_op("SUB")
OP_MUL == arith_op("MUL")
OP_DIV == arith_op("DIV")
OP_MOD == arith_op("MOD")
OP_POW == arith_op("POW")
OP_UNM ==
    Exec("UNM", LAMBDA x, i :
        LET rb == Get(x, RB(x, i)) IN Arith(x, RA(x, i), rb, rb, "UNM"))
OP_NOT == Exec("NOT", LAMBDA x, i : Put(x, RA(x, i), Bool(l_isfalse(Get(x, RB(x, i))))))
OP_LEN ==
    Exec("LEN", LAMBDA x, i :
        LET rb == Get(x, RB(x, i)) IN
        CASE TypeOf(rb) = "table" -> Put(x, RA(x, i), Num(luaH_getn(x.tab[rb[2]])))
          [] TypeOf(rb) = "string" -> Put(x, RA(x, i), Num(Len(rb[2])))
          [] OTHER -> call_binTM(x, rb, Nil, "__len", [k |-> "TMres", res |-> RA(x, i)]))
OP_CONCAT ==
    Exec("CONCAT", LAMBDA x, i : luaV_concat(x, i.c - i.b + 1, i.c, i.a, i.b))

OP_JMP == Exec("JMP", LAMBDA x, i : Skip(x, i.b))
OP_EQ == Exec("EQ", LAMBDA x, i : equalobj(x, RKB(x, i), RKC(x, i), i.a = 1))
OP_LT == Exec("LT", LAMBDA x, i : luaV_lessthan(x, RKB(x, i), RKC(x, i), Cond(i.a = 1)))
OP_LE == Exec("LE", LAMBDA x, i : lessequal(x, RKB(x, i), RKC(x, i), i.a = 1))
OP_TEST ==
    Exec("TEST", LAMBDA x, i : CondJump(x, l_isfalse(Get(x, RA(x, i))) # (i.c = 1)))
OP_TESTSET ==
    Exec("TESTSET", LAMBDA x, i :
        LET rb == Get(x, RB(x, i))
            taken == l_isfalse(rb) # (i.c = 1)
        IN CondJump(IF taken THEN Put(x, RA(x, i), rb) ELSE x, taken))

Callee(x, i) == IF i.b = 0 THEN x ELSE SetTop(x, RA(x, i) + i.b)
OP_CALL ==
    Exec("CALL", LAMBDA x, i : Call(Callee(x, i), RA(x, i), i.c - 1, "OP_CALL"))
OP_TAILCALL ==
    Exec("TAILCALL", LAMBDA x, i : Call(Callee(x, i), RA(x, i), MULTRET, "OP_TAILCALL"))
(* The last function of this luaV_execute returns to whoever called it.       *)
OP_RETURN ==
    Exec("RETURN", LAMBDA x, i :
        LET r == IF i.b = 0 THEN x ELSE SetTop(x, RA(x, i) + i.b - 1)
            p == luaD_poscall(luaF_close(r, L(r).base), RA(x, i))
            n == Last(x.cs).nexec - 1
        IN IF n = 0 THEN Returned([p EXCEPT !.cs = Front(@)], CI(x).nresults)
           ELSE Returned([p EXCEPT !.cs[Len(p.cs)].nexec = n], CI(x).nresults))

OP_FORPREP ==
    Exec("FORPREP", LAMBDA x, i :
        LET V(j) == Get(x, RA(x, i) + j)
            conv == [j \in 0..2 |-> tonumber(V(j))]
            c == PutAll(x, RA(x, i), <<conv[0], conv[1], conv[2]>>)
        IN IF \A j \in 0..2 : IsNumber(V(j))
           THEN Skip(Put(c, RA(x, i), Num(conv[0][2] - conv[2][2])), i.b)
           ELSE luaG_runerror(x))
OP_FORLOOP ==
    Exec("FORLOOP", LAMBDA x, i :
        LET step == Get(x, RA(x, i) + 2)[2]
            idx == Get(x, RA(x, i))[2] + step
            limit == Get(x, RA(x, i) + 1)[2]
        IN IF IF 0 < step THEN idx <= limit ELSE limit <= idx
           THEN Skip(Put(Put(x, RA(x, i), Num(idx)), RA(x, i) + 3, Num(idx)), i.b)
           ELSE x)
OP_TFORLOOP ==
    Exec("TFORLOOP", LAMBDA x, i :
        LET cb == RA(x, i) + 3
            y == PutAll(x, cb, Slots(x, RA(x, i), cb))
        IN luaD_call(SetTop(y, cb + 3), cb, i.c, [k |-> "tforloop", cb |-> cb]))

SetItems(x, h, first, vals) ==
    FoldLeft(LAMBDA r, j :
                Stored(r, h, Num(first + j), luaH_setnum(r.tab[h], first + j, vals[j]), vals[j]),
             x, Reverse([j \in 1..Len(vals) |-> j]))
OP_SETLIST ==
    Exec("SETLIST", LAMBDA x, i :
        LET ra == RA(x, i)
            n == IF i.b = 0 THEN L(x).top - ra - 1 ELSE i.b
            c == IF i.c = 0 THEN Closure(x).p.code[L(x).pc + 1].b ELSE i.c
            h == Get(x, ra)[2]
            first == (c - 1) * LFIELDS_PER_FLUSH
            y == Skip(IF i.b = 0 THEN SetTop(x, CI(x).top) ELSE x, IF i.c = 0 THEN 1 ELSE 0)
            room == IF first + n > Len(x.tab[h].array)
                    THEN [y EXCEPT !.tab[h] = luaH_resizearray(@, first + n)] ELSE y
        IN SetItems(room, h, first, [j \in 1..n |-> Get(x, ra + j)]))

OP_CLOSE == Exec("CLOSE", LAMBDA x, i : luaF_close(x, RA(x, i)))
Capture1(r, ins) ==     \* r: the machine and the upvalues captured so far
    LET found == luaF_findupval(r.m, L(r.m).base + ins.b) IN
    IF ins.o = "GETUPVAL" THEN [r EXCEPT !.ups = Append(@, Closure(r.m).upvals[ins.b + 1])]
    ELSE [m |-> found.m, ups |-> Append(r.ups, found.u)]
OP_CLOSURE ==
    Exec("CLOSURE", LAMBDA x, i :
        LET p == Closure(x).p.p[i.b + 1]
            pc == L(x).pc
            r == FoldLeft(Capture1, [m |-> x, ups |-> <<>>],
                          SubSeq(Closure(x).p.code, pc + 1, pc + p.nups))
            cl == [fn |-> "Lua", p |-> p, upvals |-> r.ups, env |-> Closure(x).env, up |-> Nil]
        IN Skip(Put([r.m EXCEPT !.clo = Append(@, cl)], RA(x, i), Fun(Len(x.clo) + 1)), p.nups))
OP_VARARG ==
    Exec("VARARG", LAMBDA x, i :
        LET n == CI(x).base - CI(x).func - Closure(x).p.numparams - 1
            b == IF i.b = 0 THEN n ELSE i.b - 1
            extra == Slots(x, CI(x).base - n, CI(x).base)
            y == IF i.b = 0 THEN SetTop(x, RA(x, i) + n) ELSE x
        IN PutAll(y, RA(x, i), SubSeq(extra \o Fill(b - n, Nil), 1, b)))

Next ==
    \/ Load
    \/ FunctionCalled \/ CFunction \/ CFunctionReturns \/ CallerContinues \/ SortContinues
    \/ ErrorRaised \/ ErrorThrown
    \/ OP_MOVE \/ OP_LOADK \/ OP_LOADBOOL \/ OP_LOADNIL
    \/ OP_GETUPVAL \/ OP_SETUPVAL \/ OP_GETGLOBAL \/ OP_SETGLOBAL
    \/ OP_GETTABLE \/ OP_SETTABLE \/ OP_SELF \/ OP_NEWTABLE
    \/ OP_ADD \/ OP_SUB \/ OP_MUL \/ OP_DIV \/ OP_MOD \/ OP_POW
    \/ OP_UNM \/ OP_NOT \/ OP_LEN \/ OP_CONCAT
    \/ OP_JMP \/ OP_EQ \/ OP_LT \/ OP_LE \/ OP_TEST \/ OP_TESTSET
    \/ OP_CALL \/ OP_TAILCALL \/ OP_RETURN
    \/ OP_FORPREP \/ OP_FORLOOP \/ OP_TFORLOOP
    \/ OP_SETLIST \/ OP_CLOSE \/ OP_CLOSURE \/ OP_VARARG

Spec == Init /\ [][Next]_vars

-----------------------------------------------------------------------------
(* Properties.                                                                *)

(* A program that ends gives the host what the reference manual says it does: *)
(* the values of its expressions, whatever jump lists, registers and folding  *)
(* the one-pass compiler used, its results after errors and coroutine         *)
(* switches, and a refusal exactly for what is no program.  Not so for a      *)
(* literal true or false as the left operand of and or or after an operand    *)
(* that leaves value jumps pending, nor once a __newindex has been stored in  *)
(* a table that is its own metatable: no program of the run has these.        *)
Agrees == m.out # <<>> => m.out = prog.expect

(* No assertion of the compiler fails: close_func finds that luaG_checkcode   *)
(* accepts the code (every register below maxstacksize, jumps inside the      *)
(* function, a jump after each test) and registers are freed in stack order.  *)
CompilerAsserts == ~bad

(* The assertions at the head of luaV_execute's loop and at its returns: base *)
(* and top are those of the running CallInfo unless an open instruction reads *)
(* top, and the Lua functions it has to return to were left at an OP_CALL.    *)
LeftAt(x, l, i) == x.clo[l.stack[l.ci[i].func][2]].p.code[l.ci[i].pc].o
IsLuaCI(x, l, i) == i > 1 /\ x.clo[l.stack[l.ci[i].func][2]].fn = "Lua"
ExecAsserts ==
    /\ Running => /\ L(m).base = CI(m).base /\ L(m).base <= L(m).top
                  /\ L(m).top = CI(m).top \/ luaG_checkopenop(Fetched)
                  /\ \A i \in (Len(L(m).ci) - Last(m.cs).nexec + 1)..(Len(L(m).ci) - 1) :
                       IsLuaCI(m, L(m), i) /\ LeftAt(m, L(m), i) = "CALL"
    /\ \A t \in DOMAIN m.thr : m.thr[t].status = "YIELD" =>
         LeftAt(m, m.thr[t], Len(m.thr[t].ci) - 1) \in {"CALL", "TAILCALL"}

(* The C stack and the Lua stacks agree after any mix of errors, yields and   *)
(* tail calls: nCcalls of a thread counts the luaD_call and lua_resume        *)
(* activations below it, the Lua functions of its CallInfos are those its     *)
(* luaV_execute activations still have to return from, and its open upvalues  *)
(* are distinct, sorted and below the top of its stack.                       *)
Frames(th, kinds, n) == {i \in 1..n : m.cs[i].k \in kinds /\ m.cs[i].th \in th}
Active == {m.cs[i].th : i \in 1..Len(m.cs)}
CallsBalanced ==
    \A t \in Active :
        LET l == m.thr[t]
            last == Max({i \in DOMAIN m.cs : m.cs[i].th = t})
            execs == Frames({t}, {"exec"}, Len(m.cs))
        IN /\ l.nCcalls = Cardinality(Frames(Active, {"call", "resume"}, last))
           /\ Cardinality({i \in DOMAIN l.ci : IsLuaCI(m, l, i)})
                = MapThenSumSet(LAMBDA i : m.cs[i].nexec, execs)
           /\ \A i \in DOMAIN l.open :
                /\ m.uv[l.open[i]].th = t /\ m.uv[l.open[i]].at \in 1..(l.top - 1)
                /\ i > 1 => m.uv[l.open[i]].at < m.uv[l.open[i - 1]].at

(* A table is the function its stores made of it, through collisions, moved   *)
(* nodes, rehashes and dead keys: every key reads what was last stored, next  *)
(* visits each key that is not nil exactly once, and # is a border.           *)
RECURSIVE Visited(_, _)
Visited(t, key) ==
    LET kv == luaH_next(t, key) IN IF kv = <<>> THEN <<>> ELSE <<kv[1]>> \o Visited(t, kv[1])
IsBorder(r, n) == (n = 0 \/ Num(n) \in DOMAIN r) /\ Num(n + 1) \notin DOMAIN r
TableAgrees ==
    \A h \in DOMAIN m.tab :
        LET t == m.tab[h]
            r == m.ref[h]
            order == Visited(t, Nil)
        IN /\ \A key \in DOMAIN r : luaH_get(t, key) = r[key]
           /\ ToSet(order) = DOMAIN r /\ Len(order) = Cardinality(DOMAIN r)
           /\ IsBorder(r, luaH_getn(t))
=============================================================================
