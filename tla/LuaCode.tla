------------------------------- MODULE LuaCode -------------------------------
(* The code generator (lcode.c).  The compiler state is a record s whose      *)
(* field f is the FuncState of the function being compiled and whose field e  *)
(* is the expression at hand; every operator maps such a state to the next    *)
(* one, and other fields pass through it untouched.  Instructions are         *)
(* [o, a, b, c] with Bx and sBx in b; a program counter counts from 0.        *)
EXTENDS LuaObject, SequencesExt, FiniteSetsExt

CONSTANTS MAXSTACK,           \* registers a function may use
          MAXINDEXRK,         \* last constant an RK operand can name
          MAXARG_C,           \* last value of a C operand
          LFIELDS_PER_FLUSH   \* list items stored by one SETLIST

NO_JUMP == -1
NO_REG == 255
BITRK == 256
MULTRET == -1
RKASK(i) == i + BITRK
ISK(r) == r >= BITRK

(* luaP_opmodes: the instructions that test and are followed by a jump.       *)
TMode == {"EQ", "LT", "LE", "TEST", "TESTSET", "TFORLOOP"}

PC(s) == Len(s.f.code)
Instr(s, pc) == s.f.code[pc + 1]
getcode(s) == Instr(s, s.e.info)
hasjumps(e) == e.t # e.f
hasmultret(k) == k \in {"VCALL", "VVARARG"}
isnumeral(e) == e.k = "VKNUM" /\ e.t = NO_JUMP /\ e.f = NO_JUMP

(* luaX_syntaxerror and luaX_lexerror: compilation is over; what is left of   *)
(* the input is dropped, so every rule of the grammar returns at once.        *)
Raise(s) == [s EXCEPT !.err = TRUE, !.toks = <<>>, !.e.k = "VVOID"]
lua_assert(s, c) == IF c \/ s.err THEN s ELSE [s EXCEPT !.bad = TRUE]

-----------------------------------------------------------------------------
(* Jump lists: a list is the pc of a jump whose offset leads to the next one. *)

getjump(s, pc) ==
    LET offset == Instr(s, pc).b IN
    IF offset = NO_JUMP THEN NO_JUMP ELSE pc + 1 + offset

RECURSIVE JumpList(_, _)
JumpList(s, list) ==
    IF list = NO_JUMP THEN <<>> ELSE <<list>> \o JumpList(s, getjump(s, list))

fixjump(s, pc, dest) == [s EXCEPT !.f.code[pc + 1].b = dest - (pc + 1)]

getjumpcontrol(s, pc) ==
    IF pc >= 1 /\ Instr(s, pc - 1).o \in TMode THEN pc - 1 ELSE pc

IsTestset(s, node) == Instr(s, getjumpcontrol(s, node)).o = "TESTSET"
need_value(s, list) == \E j \in ToSet(JumpList(s, list)) : ~IsTestset(s, j)

patchtestreg(s, node, reg) ==
    LET at == getjumpcontrol(s, node) i == Instr(s, at) IN
    IF i.o # "TESTSET" THEN s
    ELSE IF reg # NO_REG /\ reg # i.b THEN [s EXCEPT !.f.code[at + 1].a = reg]
    ELSE [s EXCEPT !.f.code[at + 1] = [o |-> "TEST", a |-> i.b, b |-> 0, c |-> i.c]]

removevalues(s, list) ==
    FoldLeft(LAMBDA r, j : patchtestreg(r, j, NO_REG), s, JumpList(s, list))

patchlistaux(s, list, vtarget, reg, dtarget) ==
    FoldLeft(LAMBDA r, j : fixjump(patchtestreg(r, j, reg), j,
                                   IF IsTestset(r, j) THEN vtarget ELSE dtarget),
             s, JumpList(s, list))

(* luaK_concat(fs, &l1, l2) changes the list l1 and, to append to it, code.   *)
Concat(l1, l2) == IF l1 = NO_JUMP THEN l2 ELSE l1
LinkCode(s, l1, l2) ==
    IF NO_JUMP \in {l1, l2} THEN s ELSE fixjump(s, Last(JumpList(s, l1)), l2)
ConcatT(s, l) == [LinkCode(s, s.e.t, l) EXCEPT !.e.t = Concat(@, l)]
ConcatF(s, l) == [LinkCode(s, s.e.f, l) EXCEPT !.e.f = Concat(@, l)]

luaK_getlabel(s) == [s EXCEPT !.f.lasttarget = PC(s)]

luaK_patchtohere(s, list) ==
    [LinkCode(luaK_getlabel(s), s.f.jpc, list) EXCEPT !.f.jpc = Concat(@, list)]

luaK_patchlist(s, list, target) ==
    IF target = PC(s) THEN luaK_patchtohere(s, list)
    ELSE patchlistaux(s, list, target, NO_REG, target)

dischargejpc(s) ==
    [patchlistaux(s, s.f.jpc, PC(s), NO_REG, PC(s)) EXCEPT !.f.jpc = NO_JUMP]

-----------------------------------------------------------------------------
(* Emitting instructions.                                                     *)

luaK_code(s, i) == [dischargejpc(s) EXCEPT !.f.code = Append(@, i)]
luaK_codeABC(s, o, a, b, c) == luaK_code(s, [o |-> o, a |-> a, b |-> b, c |-> c])

(* The pc of the new jump is PC(luaK_jump(s)) - 1.                            *)
luaK_jump(s) ==
    LET n == luaK_codeABC([s EXCEPT !.f.jpc = NO_JUMP], "JMP", 0, NO_JUMP, 0)
    IN LinkCode(n, PC(n) - 1, s.f.jpc)

condjump(s, o, a, b, c) == luaK_jump(luaK_codeABC(s, o, a, b, c))
luaK_ret(s, first, nret) == luaK_codeABC(s, "RETURN", first, nret + 1, 0)

(* Two adjacent LOADNILs become one unless a jump lands between them.         *)
NilMerged(s, from, n) ==        \* a fault: merges across a jump target
    LET last == Instr(s, PC(s) - 1) IN
    IF PC(s) > 0 /\ last.o = "LOADNIL" /\ last.a <= from /\ from <= last.b + 1
    THEN [s EXCEPT !.f.code[PC(s)].b = Max({@, from + n - 1})]
    ELSE luaK_codeABC(s, "LOADNIL", from, from + n - 1, 0)
luaK_nil(s, from, n) ==
    LET plain == luaK_codeABC(s, "LOADNIL", from, from + n - 1, 0)
        last == Instr(s, PC(s) - 1)
    IN IF PC(s) <= s.f.lasttarget THEN plain
       ELSE IF PC(s) = 0 THEN IF from >= s.f.nactvar THEN s ELSE plain
       ELSE IF last.o = "LOADNIL" /\ last.a <= from /\ from <= last.b + 1
            THEN IF from + n - 1 > last.b
                 THEN [s EXCEPT !.f.code[PC(s)].b = from + n - 1] ELSE s
       ELSE plain

luaK_setlist(s, base, nelems, tostore) ==
    LET c == (nelems - 1) \div LFIELDS_PER_FLUSH + 1
        b == IF tostore = MULTRET THEN 0 ELSE tostore
        n == IF c <= MAXARG_C THEN luaK_codeABC(s, "SETLIST", base, b, c)
             ELSE luaK_codeABC(luaK_codeABC(s, "SETLIST", base, b, 0), "COUNT", 0, c, 0)
    IN [n EXCEPT !.f.freereg = base + 1]

-----------------------------------------------------------------------------
(* Registers and constants.                                                   *)

CheckstackLess(s, n) ==         \* a fault: one register too few
    IF s.f.freereg + n >= MAXSTACK THEN Raise(s)
    ELSE [s EXCEPT !.f.maxstacksize = Max({@, s.f.freereg + n - 1})]
luaK_checkstack(s, n) ==
    LET newstack == s.f.freereg + n IN
    IF newstack <= s.f.maxstacksize THEN s
    ELSE IF newstack >= MAXSTACK THEN Raise(s)
    ELSE [s EXCEPT !.f.maxstacksize = newstack]

luaK_reserveregs(s, n) == [luaK_checkstack(s, n) EXCEPT !.f.freereg = @ + n]

freereg(s, reg) ==
    IF ISK(reg) \/ reg < s.f.nactvar THEN s
    ELSE lua_assert([s EXCEPT !.f.freereg = @ - 1], reg = s.f.freereg - 1)

freeexp(s, e) == IF e.k = "VNONRELOC" THEN freereg(s, e.info) ELSE s

(* addk: the constant gets one entry in k however often it occurs.            *)
addk(s, v) == IF v \in ToSet(s.f.k) THEN s ELSE [s EXCEPT !.f.k = Append(@, v)]
KIndex(s, v) == (CHOOSE i \in 1..Len(s.f.k) : s.f.k[i] = v) - 1

-----------------------------------------------------------------------------
(* From an expression to a register, a constant or a jump.                    *)

ToExp(s, k, info) == [s EXCEPT !.e.k = k, !.e.info = info]
ToCode(s, k) == ToExp(s, k, PC(s) - 1)
ToK(s, v) == LET n == addk(s, v) IN ToExp(n, "VK", KIndex(n, v))

luaK_setreturns(s, nresults) ==
    IF s.e.k = "VCALL" THEN [s EXCEPT !.f.code[s.e.info + 1].c = nresults + 1]
    ELSE IF s.e.k = "VVARARG"
         THEN luaK_reserveregs([s EXCEPT !.f.code[s.e.info + 1].b = nresults + 1,
                                         !.f.code[s.e.info + 1].a = s.f.freereg], 1)
    ELSE s

luaK_setoneret(s) ==
    IF s.e.k = "VCALL" THEN ToExp(s, "VNONRELOC", getcode(s).a)
    ELSE IF s.e.k = "VVARARG"
         THEN [s EXCEPT !.f.code[s.e.info + 1].b = 2, !.e.k = "VRELOCABLE"]
    ELSE s

luaK_dischargevars(s) ==
    LET e == s.e IN
    CASE e.k = "VLOCAL" -> [s EXCEPT !.e.k = "VNONRELOC"]
      [] e.k = "VUPVAL" -> ToCode(luaK_codeABC(s, "GETUPVAL", 0, e.info, 0), "VRELOCABLE")
      [] e.k = "VGLOBAL" -> ToCode(luaK_codeABC(s, "GETGLOBAL", 0, e.info, 0), "VRELOCABLE")
      [] e.k = "VINDEXED" ->
           ToCode(luaK_codeABC(freereg(freereg(s, e.aux), e.info),
                               "GETTABLE", 0, e.info, e.aux), "VRELOCABLE")
      [] hasmultret(e.k) -> luaK_setoneret(s)
      [] OTHER -> s

code_label(s, a, b, jump) == luaK_codeABC(luaK_getlabel(s), "LOADBOOL", a, b, jump)

discharge2reg(s0, reg) ==
    LET s == luaK_dischargevars(s0)
        e == s.e
        LoadK(r) == luaK_codeABC(r, "LOADK", reg, r.e.info, 0)
        Done(r) == ToExp(r, "VNONRELOC", reg)
    IN CASE e.k = "VNIL" -> Done(luaK_nil(s, reg, 1))
         [] e.k \in {"VFALSE", "VTRUE"} ->
              Done(luaK_codeABC(s, "LOADBOOL", reg, IF e.k = "VTRUE" THEN 1 ELSE 0, 0))
         [] e.k = "VK" -> Done(LoadK(s))
         [] e.k = "VKNUM" -> Done(LoadK(ToK(s, Num(e.nval))))
         [] e.k = "VRELOCABLE" -> Done([s EXCEPT !.f.code[e.info + 1].a = reg])
         [] e.k = "VNONRELOC" ->
              Done(IF reg # e.info THEN luaK_codeABC(s, "MOVE", reg, e.info, 0) ELSE s)
         [] OTHER -> s

discharge2anyreg(s) ==
    IF s.e.k = "VNONRELOC" THEN s
    ELSE LET r == luaK_reserveregs(s, 1) IN discharge2reg(r, r.f.freereg - 1)

(* The value of an expression with jumps: the jumps of its lists that carry a *)
(* value (TESTSET) go to the end, the others to a LOADBOOL emitted for them.  *)
exp2reg(s0, reg) ==
    LET d == discharge2reg(s0, reg)
        isjmp == d.e.k = "VJMP"
        s == IF isjmp THEN ConcatT(d, d.e.info) ELSE d
        fj == IF isjmp THEN s ELSE luaK_jump(s)
        p_f == PC(fj)
        loads == code_label(code_label(fj, reg, 0, 1), reg, 1, 0)
        n == luaK_getlabel(IF need_value(s, s.e.t) \/ need_value(s, s.e.f)
                           THEN luaK_patchtohere(loads, IF isjmp THEN NO_JUMP ELSE p_f - 1)
                           ELSE s)
        patched == patchlistaux(patchlistaux(n, s.e.f, PC(n), reg, p_f),
                                s.e.t, PC(n), reg, p_f + 1)
    IN [ToExp(IF hasjumps(s.e) THEN patched ELSE s, "VNONRELOC", reg)
        EXCEPT !.e.t = NO_JUMP, !.e.f = NO_JUMP]

luaK_exp2nextreg(s) ==
    LET d == luaK_dischargevars(s)
        r == luaK_reserveregs(freeexp(d, d.e), 1)
    IN exp2reg(r, r.f.freereg - 1)

luaK_exp2anyreg(s) ==
    LET d == luaK_dischargevars(s) IN
    IF d.e.k = "VNONRELOC" /\ ~hasjumps(d.e) THEN d
    ELSE IF d.e.k = "VNONRELOC" /\ d.e.info >= d.f.nactvar THEN exp2reg(d, d.e.info)
    ELSE luaK_exp2nextreg(d)

luaK_exp2val(s) == IF hasjumps(s.e) THEN luaK_exp2anyreg(s) ELSE luaK_dischargevars(s)

ConstantOf(e) ==
    CASE e.k = "VKNUM" -> Num(e.nval) [] e.k = "VTRUE" -> Bool(TRUE)
      [] e.k = "VFALSE" -> Bool(FALSE) [] e.k = "VNIL" -> Nil

(* luaK_exp2RK returns the operand RK of the expression it leaves.            *)
luaK_exp2RK(s) ==
    LET v == luaK_exp2val(s) IN
    IF v.e.k \in {"VKNUM", "VTRUE", "VFALSE", "VNIL"} /\ Len(v.f.k) <= MAXINDEXRK
    THEN ToK(v, ConstantOf(v.e))
    ELSE IF v.e.k = "VK" /\ v.e.info <= MAXINDEXRK THEN v
    ELSE luaK_exp2anyreg(v)
RK(e) == IF e.k = "VK" THEN RKASK(e.info) ELSE e.info

(* luaK_storevar(fs, var, ex) with ex the expression of s.                    *)
luaK_storevar(s, var) ==
    LET any == luaK_exp2anyreg(s)
        rk == luaK_exp2RK(s)
    IN CASE var.k = "VLOCAL" -> exp2reg(freeexp(s, s.e), var.info)
         [] var.k = "VUPVAL" ->
              freeexp(luaK_codeABC(any, "SETUPVAL", any.e.info, var.info, 0), any.e)
         [] var.k = "VGLOBAL" ->
              freeexp(luaK_codeABC(any, "SETGLOBAL", any.e.info, var.info, 0), any.e)
         [] var.k = "VINDEXED" ->
              freeexp(luaK_codeABC(rk, "SETTABLE", var.info, var.aux, RK(rk.e)), rk.e)
         [] OTHER -> lua_assert(s, s.err)

luaK_self(s, key) ==
    LET o == luaK_exp2anyreg(s)
        r == luaK_reserveregs(freeexp(o, o.e), 2)
        func == r.f.freereg - 2
        k == luaK_exp2RK([r EXCEPT !.e = key])
        c == freeexp(luaK_codeABC(k, "SELF", func, o.e.info, RK(k.e)), k.e)
    IN ToExp([c EXCEPT !.e = o.e], "VNONRELOC", func)

luaK_indexed(s, t) ==
    LET k == luaK_exp2RK(s) IN
    [k EXCEPT !.e = [t EXCEPT !.aux = RK(k.e), !.k = "VINDEXED"]]

-----------------------------------------------------------------------------
(* Conditions.                                                                *)

invertjump(s) ==
    LET at == getjumpcontrol(s, s.e.info) IN
    lua_assert([s EXCEPT !.f.code[at + 1].a = 1 - @],
               Instr(s, at).o \in TMode \ {"TESTSET", "TEST"})

(* The jump emitted is at PC - 1.  A NOT just emitted is taken back.          *)
jumponcond(s, cond) ==
    IF s.e.k = "VRELOCABLE" /\ getcode(s).o = "NOT"
    THEN condjump([s EXCEPT !.f.code = Front(@)], "TEST", getcode(s).b, 0, 1 - cond)
    ELSE LET r == discharge2anyreg(s) IN
         condjump(freeexp(r, r.e), "TESTSET", NO_REG, r.e.info, cond)

luaK_goiftrue(s) ==
    LET d == luaK_dischargevars(s)
        Exit(r, pc) ==
            LET c == ConcatF(r, pc) IN [luaK_patchtohere(c, c.e.t) EXCEPT !.e.t = NO_JUMP]
        Emitted(r) == Exit(r, PC(r) - 1)
    IN CASE d.e.k \in {"VK", "VKNUM", "VTRUE"} -> Exit(d, NO_JUMP)
         [] d.e.k = "VFALSE" -> Emitted(luaK_jump(d))
         [] d.e.k = "VJMP" -> Exit(invertjump(d), d.e.info)
         [] OTHER -> Emitted(jumponcond(d, 0))

luaK_goiffalse(s) ==
    LET d == luaK_dischargevars(s)
        Exit(r, pc) ==
            LET c == ConcatT(r, pc) IN [luaK_patchtohere(c, c.e.f) EXCEPT !.e.f = NO_JUMP]
        Emitted(r) == Exit(r, PC(r) - 1)
    IN CASE d.e.k \in {"VNIL", "VFALSE"} -> Exit(d, NO_JUMP)
         [] d.e.k = "VTRUE" -> Emitted(luaK_jump(d))
         [] d.e.k = "VJMP" -> Exit(d, d.e.info)
         [] OTHER -> Emitted(jumponcond(d, 1))

codenot(s) ==
    LET d == luaK_dischargevars(s)
        r == discharge2anyreg(d)
        n == CASE d.e.k \in {"VNIL", "VFALSE"} -> [d EXCEPT !.e.k = "VTRUE"]
               [] d.e.k \in {"VK", "VKNUM", "VTRUE"} -> [d EXCEPT !.e.k = "VFALSE"]
               [] d.e.k = "VJMP" -> invertjump(d)
               [] OTHER -> ToCode(luaK_codeABC(freeexp(r, r.e), "NOT", 0, r.e.info, 0),
                                  "VRELOCABLE")
        x == [n EXCEPT !.e.t = n.e.f, !.e.f = n.e.t]
    IN removevalues(removevalues(x, x.e.f), x.e.t)

-----------------------------------------------------------------------------
(* Operators.  e1 is the left operand, the expression of s the right one.     *)

constfolding(op, e1, e2) ==
    /\ isnumeral(e1) /\ isnumeral(e2)
    /\ op \in {"ADD", "SUB", "MUL", "DIV", "MOD", "POW", "UNM"}
    /\ op \in {"DIV", "MOD"} => e2.nval # 0

codearith(s, op, e1) ==
    LET s2 == IF op \in {"UNM", "LEN"} THEN s ELSE luaK_exp2RK(s)
        o2 == IF op \in {"UNM", "LEN"} THEN 0 ELSE RK(s2.e)
        s1 == luaK_exp2RK([s2 EXCEPT !.e = e1])
        o1 == RK(s1.e)
        freed == IF o1 > o2 THEN freeexp(freeexp(s1, s1.e), s2.e)
                 ELSE freeexp(freeexp(s1, s2.e), s1.e)
    IN IF constfolding(op, e1, s.e)
       THEN [s EXCEPT !.e = [e1 EXCEPT !.nval = numop(op, e1.nval, s.e.nval)]]
       ELSE ToCode(luaK_codeABC(freed, op, 0, o1, o2), "VRELOCABLE")

codecomp(s, op, cond, e1) ==
    LET s1 == luaK_exp2RK([s EXCEPT !.e = e1])
        s2 == luaK_exp2RK([s1 EXCEPT !.e = s.e])
        freed == [freeexp(freeexp(s2, s2.e), s1.e) EXCEPT !.e = s1.e]
        swap == cond = 0 /\ op # "EQ"
        o1 == RK(IF swap THEN s2.e ELSE s1.e)
        o2 == RK(IF swap THEN s1.e ELSE s2.e)
    IN ToCode(condjump(freed, op, IF swap THEN 1 ELSE cond, o1, o2), "VJMP")

Zero == [k |-> "VKNUM", info |-> 0, aux |-> 0, nval |-> 0, t |-> NO_JUMP, f |-> NO_JUMP]

luaK_prefix(s, op) ==
    LET any == luaK_exp2anyreg(s)
        Unary(r, o) == codearith([r EXCEPT !.e = Zero], o, r.e)
    IN CASE op = "-" -> Unary(IF isnumeral(s.e) THEN s ELSE any, "UNM")
         [] op = "not" -> codenot(s)
         [] op = "#" -> Unary(any, "LEN")

ArithOp == ("+" :> "ADD") @@ ("-" :> "SUB") @@ ("*" :> "MUL") @@ ("/" :> "DIV")
           @@ ("%" :> "MOD") @@ ("^" :> "POW")
CompOp == ("==" :> <<"EQ", 1>>) @@ ("~=" :> <<"EQ", 0>>) @@ ("<" :> <<"LT", 1>>)
          @@ ("<=" :> <<"LE", 1>>) @@ (">" :> <<"LT", 0>>) @@ (">=" :> <<"LE", 0>>)

luaK_infix(s, op) ==
    CASE op = "and" -> luaK_goiftrue(s)
      [] op = "or" -> luaK_goiffalse(s)
      [] op = ".." -> luaK_exp2nextreg(s)
      [] op \in DOMAIN ArithOp -> IF isnumeral(s.e) THEN s ELSE luaK_exp2RK(s)
      [] OTHER -> luaK_exp2RK(s)

luaK_posfix(s, op, e1) ==
    LET d == luaK_dischargevars(s)
        v == luaK_exp2val(s)
    IN CASE op = "and" -> lua_assert(ConcatF(d, e1.f), e1.t = NO_JUMP)
         [] op = "or" -> lua_assert(ConcatT(d, e1.t), e1.f = NO_JUMP)
         [] op = ".." ->
              IF v.e.k = "VRELOCABLE" /\ getcode(v).o = "CONCAT"
              THEN LET r == [freeexp(v, e1) EXCEPT !.f.code[v.e.info + 1].b = e1.info]
                   IN [lua_assert(r, e1.info = getcode(v).b - 1)
                       EXCEPT !.e = [e1 EXCEPT !.k = "VRELOCABLE", !.info = v.e.info]]
              ELSE codearith(luaK_exp2nextreg(v), "CONCAT", e1)
         [] op \in DOMAIN ArithOp -> codearith(s, ArithOp[op], e1)
         [] op \in DOMAIN CompOp -> codecomp(s, CompOp[op][1], CompOp[op][2], e1)
=============================================================================
