------------------------------ MODULE LuaParser ------------------------------
(* The one-pass compiler (lparser.c): recursive descent over the tokens of a  *)
(* chunk, calling the code generator as it goes.  The lexer is abstracted: a  *)
(* token is a string, and what is no keyword, symbol, numeral or quoted       *)
(* string is a name.  The state is the record of LuaCode with                 *)
(*   toks  the tokens left           prev  FuncStates of the enclosing ones   *)
(*   lev   syntax levels (nCcalls)   err, bad  a syntax error, a failed assert*)
(*   n     the length of the last expression list                             *)
(* A rule that sets an expression leaves it in field e.                       *)
EXTENDS LuaDebug

CONSTANTS LUAI_MAXCCALLS,     \* nested C calls and syntax levels
          LUAI_MAXVARS,       \* local variables of a function
          LUAI_MAXUPVALUES    \* upvalues of a function

Reserved ==
    {"and", "break", "do", "else", "elseif", "end", "false", "for", "function", "if",
     "in", "local", "nil", "not", "or", "repeat", "return", "then", "true", "until",
     "while", "+", "-", "*", "/", "%", "^", "#", "==", "~=", "<=", ">=", "<", ">", "=",
     "(", ")", "{", "}", "[", "]", ";", ":", ",", ".", "..", "..."}
Numeral == str2d
IsQuoted(t) == SubSeq(t, 1, 1) = "'"
Quoted(t) == SubSeq(t, 2, Len(t) - 1)

Token(s) ==
    IF s.toks = <<>> THEN "TK_EOS"
    ELSE LET t == Head(s.toks) IN
         CASE t \in Reserved -> t
           [] t \in DOMAIN Numeral -> "TK_NUMBER"
           [] IsQuoted(t) -> "TK_STRING"
           [] OTHER -> "TK_NAME"
Text(s) == IF s.toks = <<>> THEN "?" ELSE Head(s.toks)

luaX_next(s) == [s EXCEPT !.toks = IF @ = <<>> THEN @ ELSE Tail(@)]
testnext(s, c) == IF Token(s) = c THEN luaX_next(s) ELSE s
checknext(s, c) == IF Token(s) = c THEN luaX_next(s) ELSE Raise(s)
check_condition(s, c) == IF c THEN s ELSE Raise(s)

-----------------------------------------------------------------------------
(* Expressions and variables.                                                 *)

init_exp(s, k, info) == [s EXCEPT !.e = [Zero EXCEPT !.k = k, !.info = info]]
Void(s) == init_exp(s, "VVOID", 0)
Coded(s, k) == init_exp(s, k, PC(s) - 1)
codestring(s, str) == LET n == addk(s, Str(str)) IN init_exp(n, "VK", KIndex(n, Str(str)))
checkname(s) == codestring(checknext(s, "TK_NAME"), Text(s))

new_localvar(s, name, n) ==
    IF s.f.nactvar + n + 1 > LUAI_MAXVARS THEN Raise(s)
    ELSE [s EXCEPT !.f.actvar = Append(SubSeq(@, 1, s.f.nactvar + n), name)]
adjustlocalvars(s, nvars) == [s EXCEPT !.f.nactvar = @ + nvars]
removevars(s, tolevel) == [s EXCEPT !.f.nactvar = tolevel]

searchvar(f, n) ==
    LET at == {i \in 1..f.nactvar : f.actvar[i] = n} IN
    IF at = {} THEN -1 ELSE Max(at) - 1

(* The innermost block that declares the variable will have to close it.      *)
markupval(f, level) ==
    LET at == {i \in DOMAIN f.bl : f.bl[i].nactvar <= level} IN
    IF at = {} THEN f ELSE [f EXCEPT !.bl[Max(at)].upval = TRUE]

indexupvalue(f, v) == IF v \in ToSet(f.upvals) THEN f ELSE [f EXCEPT !.upvals = Append(@, v)]

(* Looks n up in fs[i] and, when it is not there, in the functions around it; *)
(* every function between the declaration and the use gets an upvalue.        *)
RECURSIVE singlevaraux(_, _, _, _)
singlevaraux(fs, n, i, base) ==
    IF i = 0 THEN [fs |-> fs, k |-> "VGLOBAL", info |-> NO_REG]
    ELSE LET v == searchvar(fs[i], n)
             up == singlevaraux(fs, n, i - 1, FALSE)
             uv == [k |-> up.k, info |-> up.info]
             g == indexupvalue(up.fs[i], uv)
         IN IF v >= 0
            THEN [fs |-> IF base THEN fs ELSE [fs EXCEPT ![i] = markupval(@, v)],
                  k |-> "VLOCAL", info |-> v]
            ELSE IF up.k = "VGLOBAL" THEN up
            ELSE [fs |-> [up.fs EXCEPT ![i] = g], k |-> "VUPVAL",
                  info |-> (CHOOSE j \in DOMAIN g.upvals : g.upvals[j] = uv) - 1]

singlevar(s0) ==
    LET s == checknext(s0, "TK_NAME")
        v == singlevaraux(Append(s.prev, s.f), Text(s0), Len(s.prev) + 1, TRUE)
        n == init_exp([s EXCEPT !.f = Last(v.fs), !.prev = Front(v.fs)], v.k, v.info)
        g == addk(n, Str(Text(s0)))
    IN IF s.err THEN s
       ELSE IF \E i \in DOMAIN v.fs : Len(v.fs[i].upvals) > LUAI_MAXUPVALUES THEN Raise(s)
       ELSE IF v.k = "VGLOBAL" THEN init_exp(g, v.k, KIndex(g, Str(Text(s0)))) ELSE n

adjust_assign(s, nvars, nexps) ==
    LET extra == nvars - nexps
        want == IF extra + 1 < 0 THEN 0 ELSE extra + 1
        open == luaK_setreturns(s, want)
        closed == IF s.e.k = "VVOID" THEN s ELSE luaK_exp2nextreg(s)
    IN IF hasmultret(s.e.k)
       THEN IF want > 1 THEN luaK_reserveregs(open, want - 1) ELSE open
       ELSE IF extra > 0
            THEN luaK_nil(luaK_reserveregs(closed, extra), closed.f.freereg, extra)
            ELSE closed

enterlevel(s) == IF s.lev + 1 > LUAI_MAXCCALLS THEN Raise(s) ELSE [s EXCEPT !.lev = @ + 1]
leavelevel(s, lev) == [s EXCEPT !.lev = lev]

-----------------------------------------------------------------------------
(* Blocks and functions.                                                      *)

enterblock(s, isbreakable) ==
    lua_assert([s EXCEPT !.f.bl = Append(@, [breaklist |-> NO_JUMP, upval |-> FALSE,
                                             isbreakable |-> isbreakable,
                                             nactvar |-> s.f.nactvar])],
               s.f.freereg = s.f.nactvar)

leaveblock(s) ==
    LET bl == Last(s.f.bl)
        out == removevars([s EXCEPT !.f.bl = Front(@)], bl.nactvar)
        closed == IF bl.upval THEN luaK_codeABC(out, "CLOSE", bl.nactvar, 0, 0) ELSE out
    IN luaK_patchtohere([lua_assert(closed, ~(bl.isbreakable /\ bl.upval))
                         EXCEPT !.f.freereg = bl.nactvar], bl.breaklist)

open_func(s) ==
    [s EXCEPT !.prev = Append(@, s.f),
              !.f = [code |-> <<>>, k |-> <<>>, p |-> <<>>, upvals |-> <<>>, bl |-> <<>>,
                     jpc |-> NO_JUMP, lasttarget |-> -1, freereg |-> 0, nactvar |-> 0,
                     actvar |-> <<>>, maxstacksize |-> 2, numparams |-> 0,
                     is_vararg |-> {}]]

Proto(f) ==
    [code |-> f.code, k |-> f.k, p |-> f.p, nups |-> Len(f.upvals),
     numparams |-> f.numparams, is_vararg |-> f.is_vararg,
     maxstacksize |-> f.maxstacksize]

(* The function stays in field f until pushclosure, or luaY_parser, takes it. *)
close_func(s) ==
    LET r == luaK_ret(removevars(s, 0), 0, 0) IN
    lua_assert(r, luaG_checkcode(Proto(r.f)) /\ r.f.bl = <<>>)

pushclosure(s) ==
    LET func == s.f
        out == [s EXCEPT !.f = [Last(s.prev) EXCEPT !.p = Append(@, Proto(func))],
                         !.prev = Front(@)]
        cl == luaK_codeABC(out, "CLOSURE", 0, Len(out.f.p) - 1, 0)
        Capture(r, u) ==
            luaK_codeABC(r, IF u.k = "VLOCAL" THEN "MOVE" ELSE "GETUPVAL", 0, u.info, 0)
    IN FoldLeft(Capture, Coded(cl, "VRELOCABLE"), func.upvals)

-----------------------------------------------------------------------------
(* Grammar rules for expressions.                                             *)

RECURSIVE expr(_)
RECURSIVE chunk(_)

field(s) == LET t == luaK_exp2anyreg(s) IN luaK_indexed(checkname(luaX_next(t)), t.e)
yindex(s) == checknext(luaK_exp2val(expr(luaX_next(s))), "]")

(* cc: the last list item v, the table t, and the counts nh, na and tostore.  *)
recfield(s, cc) ==
    LET named == Token(s) = "TK_NAME"
        key == luaK_exp2RK(checknext(IF named THEN checkname(s) ELSE yindex(s), "="))
        val == luaK_exp2RK(expr(key))
    IN [luaK_codeABC(val, "SETTABLE", cc.t.info, RK(key.e), RK(val.e))
        EXCEPT !.f.freereg = s.f.freereg]

closelistfield(s, cc) ==
    LET r == luaK_exp2nextreg([s EXCEPT !.e = cc.v]) IN
    IF cc.v.k = "VVOID" THEN s
    ELSE IF cc.tostore = LFIELDS_PER_FLUSH THEN luaK_setlist(r, cc.t.info, cc.na, cc.tostore)
    ELSE r
Flushed(cc) ==
    [cc EXCEPT !.v.k = "VVOID",
               !.tostore = IF cc.v.k # "VVOID" /\ @ = LFIELDS_PER_FLUSH THEN 0 ELSE @]

lastlistfield(s0, cc) ==
    LET s == [s0 EXCEPT !.e = cc.v] IN
    IF cc.tostore = 0 THEN s
    ELSE IF hasmultret(cc.v.k)
    THEN luaK_setlist(luaK_setreturns(s, MULTRET), cc.t.info, cc.na, MULTRET)
    ELSE luaK_setlist(IF cc.v.k = "VVOID" THEN s ELSE luaK_exp2nextreg(s),
                      cc.t.info, cc.na, cc.tostore)

RECURSIVE ConsItems(_, _)
ConsItems(s0, cc0) ==
    LET s == closelistfield(s0, cc0)
        cc == Flushed(cc0)
        isrec == \/ Token(s) = "["
                 \/ Token(s) = "TK_NAME" /\ Token(luaX_next(s)) = "="
        n == IF isrec THEN recfield(s, cc) ELSE expr(s)
        cn == IF isrec THEN [cc EXCEPT !.nh = @ + 1]
              ELSE [cc EXCEPT !.v = n.e, !.na = @ + 1, !.tostore = @ + 1]
    IN IF Token(s0) = "}" THEN [s |-> s0, cc |-> cc0]
       ELSE IF Token(n) \in {",", ";"} THEN ConsItems(luaX_next(n), cn)
       ELSE [s |-> n, cc |-> cn]

constructor(s) ==
    LET t == luaK_exp2nextreg(Coded(luaK_codeABC(s, "NEWTABLE", 0, 0, 0), "VRELOCABLE"))
        pc == PC(t) - 1
        r == ConsItems(checknext(t, "{"),
                       [v |-> Void(s).e, t |-> t.e, nh |-> 0, na |-> 0, tostore |-> 0])
        open == r.cc.tostore > 0 /\ hasmultret(r.cc.v.k)
    IN [lastlistfield(checknext(r.s, "}"), r.cc)
        EXCEPT !.f.code[pc + 1].b = luaO_int2fb(IF open THEN r.cc.na - 1 ELSE r.cc.na),
               !.f.code[pc + 1].c = luaO_int2fb(r.cc.nh),
               !.e = t.e]

RECURSIVE Params(_, _)
Params(s, n) ==
    IF Token(s) = "TK_NAME"
    THEN LET p == new_localvar(luaX_next(s), Text(s), n) IN
         IF Token(p) = "," THEN Params(luaX_next(p), n + 1) ELSE adjustlocalvars(p, n + 1)
    ELSE IF Token(s) = "..."
    THEN [adjustlocalvars(new_localvar(luaX_next(s), "arg", n), n + 1)
          EXCEPT !.f.is_vararg = {"HASARG", "NEEDSARG", "ISVARARG"}]
    ELSE Raise(s)

parlist(s) ==
    LET p == IF Token(s) = ")" THEN s ELSE Params(s, 0) IN
    luaK_reserveregs([p EXCEPT !.f.numparams =
                        p.f.nactvar - (IF "HASARG" \in p.f.is_vararg THEN 1 ELSE 0)],
                     p.f.nactvar)

body(s, needself) ==
    LET o == checknext(open_func(s), "(")
        m == IF needself THEN adjustlocalvars(new_localvar(o, "self", 0), 1) ELSE o
    IN pushclosure(close_func(checknext(chunk(checknext(parlist(m), ")")), "end")))

(* Field n of the result counts the expressions.                              *)
RECURSIVE explist1_(_, _)
explist1_(s, n) ==
    LET e == expr(s) IN
    IF Token(e) = "," THEN explist1_(luaK_exp2nextreg(luaX_next(e)), n + 1)
    ELSE [e EXCEPT !.n = n]
explist1(s) == explist1_(s, 1)

funcargs(s) ==
    LET base == s.e.info
        p == luaX_next(s)
        args == CASE Token(s) = "(" ->
                       checknext(IF Token(p) = ")" THEN Void(p)
                                 ELSE LET l == explist1(p) IN luaK_setreturns(l, MULTRET), ")")
                  [] Token(s) = "{" -> constructor(s)
                  [] Token(s) = "TK_STRING" -> codestring(p, Quoted(Text(s)))
                  [] OTHER -> Raise(s)
        closed == IF args.e.k = "VVOID" THEN args ELSE luaK_exp2nextreg(args)
        call == IF hasmultret(args.e.k)
                THEN luaK_codeABC(args, "CALL", base, MULTRET + 1, 2)
                ELSE luaK_codeABC(closed, "CALL", base, closed.f.freereg - base, 2)
    IN [lua_assert(Coded(call, "VCALL"), s.e.k = "VNONRELOC") EXCEPT !.f.freereg = base + 1]

prefixexp(s) ==
    CASE Token(s) = "(" -> luaK_dischargevars(checknext(expr(luaX_next(s)), ")"))
      [] Token(s) = "TK_NAME" -> singlevar(s)
      [] OTHER -> Raise(s)

RECURSIVE SuffixedExp(_)
SuffixedExp(s) ==
    LET t == luaK_exp2anyreg(s)
        key == checkname(luaX_next(s))
    IN CASE Token(s) = "." -> SuffixedExp(field(s))
         [] Token(s) = "[" -> SuffixedExp(luaK_indexed(yindex(t), t.e))
         [] Token(s) = ":" -> SuffixedExp(funcargs(luaK_self([key EXCEPT !.e = s.e], key.e)))
         [] Token(s) \in {"(", "TK_STRING", "{"} -> SuffixedExp(funcargs(luaK_exp2nextreg(s)))
         [] OTHER -> s
primaryexp(s) == SuffixedExp(prefixexp(s))

simpleexp(s) ==
    LET p == luaX_next(s) IN
    CASE Token(s) = "TK_NUMBER" ->
           [init_exp(p, "VKNUM", 0) EXCEPT !.e.nval = Numeral[Text(s)]]
      [] Token(s) = "TK_STRING" -> codestring(p, Quoted(Text(s)))
      [] Token(s) = "nil" -> init_exp(p, "VNIL", 0)
      [] Token(s) = "true" -> init_exp(p, "VTRUE", 0)
      [] Token(s) = "false" -> init_exp(p, "VFALSE", 0)
      [] Token(s) = "..." ->
           check_condition(Coded(luaK_codeABC([p EXCEPT !.f.is_vararg = @ \ {"NEEDSARG"}],
                                              "VARARG", 0, 1, 0), "VVARARG"),
                           s.f.is_vararg # {})
      [] Token(s) = "{" -> constructor(s)
      [] Token(s) = "function" -> body(p, FALSE)
      [] OTHER -> primaryexp(s)

Priority(op) ==     \* <<left, right>>
    CASE op \in {"+", "-"} -> <<6, 6>>
      [] op \in {"*", "/", "%"} -> <<7, 7>>
      [] op = "^" -> <<10, 9>>
      [] op = ".." -> <<5, 4>>
      [] op \in DOMAIN CompOp -> <<3, 3>>
      [] op = "and" -> <<2, 2>>
      [] op = "or" -> <<1, 1>>
      [] OTHER -> <<0, 0>>
UNARY_PRIORITY == 8

(* The loop ends at the first operator that does not bind tighter than limit. *)
RECURSIVE subexpr(_, _)
RECURSIVE Operators(_, _)
Operators(v, limit) ==
    LET op == Token(v)
        left == luaK_infix(luaX_next(v), op)
        v2 == subexpr(left, Priority(op)[2])
    IN IF Priority(op)[1] > limit THEN Operators(luaK_posfix(v2, op, left.e), limit) ELSE v

subexpr(s0, limit) ==
    LET s == enterlevel(s0)
        uop == Token(s)
        v == IF uop \in {"not", "-", "#"}
             THEN luaK_prefix(subexpr(luaX_next(s), UNARY_PRIORITY), uop)
             ELSE simpleexp(s)
    IN leavelevel(Operators(v, limit), s0.lev)

expr(s) == subexpr(s, 0)

-----------------------------------------------------------------------------
(* Grammar rules for statements.                                              *)

block_follow(token) == token \in {"else", "elseif", "end", "until", "TK_EOS"}

block(s) ==
    LET c == chunk(enterblock(s, FALSE)) IN
    leaveblock(lua_assert(c, Last(c.f.bl).breaklist = NO_JUMP))

(* A local assigned after it was used as table or key of a variable on the    *)
(* left is first copied, and those variables use the copy.                    *)
ConflictIn(lhs, v) ==
    \E i \in DOMAIN lhs : lhs[i].k = "VINDEXED" /\ v.info \in {lhs[i].info, lhs[i].aux}
SafeCopies(lhs, v, extra) ==
    [i \in DOMAIN lhs |->
        IF lhs[i].k # "VINDEXED" THEN lhs[i]
        ELSE [lhs[i] EXCEPT !.info = IF @ = v.info THEN extra ELSE @,
                            !.aux = IF @ = v.info THEN extra ELSE @]]
check_conflict(s, lhs, v) ==
    IF v.k = "VLOCAL" /\ ConflictIn(lhs, v)
    THEN luaK_reserveregs(luaK_codeABC(s, "MOVE", s.f.freereg, v.info, 0), 1) ELSE s

Default(s, v) == luaK_storevar(init_exp(s, "VNONRELOC", s.f.freereg - 1), v)

(* All the variables on the left: their descriptors are in field lhs.         *)
RECURSIVE Targets(_, _)
Targets(s0, lhs) ==
    LET s == check_condition(s0, Last(lhs).k \in {"VLOCAL", "VUPVAL", "VGLOBAL", "VINDEXED"})
        v == primaryexp(luaX_next(s))
        safe == IF v.e.k = "VLOCAL" THEN SafeCopies(lhs, v.e, v.f.freereg) ELSE lhs
    IN IF Token(s) = ","
       THEN Targets(check_condition(check_conflict(v, lhs, v.e),
                                    Len(lhs) <= LUAI_MAXCCALLS - v.lev),
                    Append(safe, v.e))
       ELSE [s |-> s, lhs |-> lhs]

assignment(s, v) ==
    LET r == Targets(s, <<v>>)
        nvars == Len(r.lhs)
        es == explist1(checknext(r.s, "="))
        adj == adjust_assign(es, nvars, es.n)
        trim == IF es.n > nvars THEN [adj EXCEPT !.f.freereg = @ - (es.n - nvars)] ELSE adj
        first == IF es.n = nvars THEN luaK_storevar(luaK_setoneret(es), Last(r.lhs))
                 ELSE Default(trim, Last(r.lhs))
    IN IF r.s.err THEN r.s ELSE FoldLeft(Default, first, Reverse(Front(r.lhs)))

(* The exit list of a condition is field f of the expression it leaves.       *)
cond(s) ==
    LET v == expr(s) IN
    luaK_goiftrue(IF v.e.k = "VNIL" THEN [v EXCEPT !.e.k = "VFALSE"] ELSE v)

breakstat(s) ==
    LET loops == {i \in DOMAIN s.f.bl : s.f.bl[i].isbreakable}
        at == Max(loops)
        bl == s.f.bl[at]
        upval == \E i \in DOMAIN s.f.bl : i > at /\ s.f.bl[i].upval
        j == luaK_jump(IF upval THEN luaK_codeABC(s, "CLOSE", bl.nactvar, 0, 0) ELSE s)
        jmp == PC(j) - 1
    IN IF loops = {} THEN Raise(s)
       ELSE [LinkCode(j, bl.breaklist, jmp) EXCEPT !.f.bl[at].breaklist = Concat(@, jmp)]

JumpBack(s, target) == LET j == luaK_jump(s) IN luaK_patchlist(j, PC(j) - 1, target)

whilestat(s) ==
    LET c == cond(luaK_getlabel(luaX_next(s)))
        b == block(checknext(enterblock(c, TRUE), "do"))
        l == leaveblock(checknext(JumpBack(b, PC(s)), "end"))
    IN luaK_patchtohere(l, c.e.f)

repeatstat(s) ==
    LET b == chunk(luaX_next(enterblock(enterblock(luaK_getlabel(s), TRUE), FALSE)))
        c == cond(checknext(b, "until"))
        simple == luaK_patchlist(leaveblock(c), c.e.f, PC(s))
        closing == JumpBack(leaveblock(luaK_patchtohere(breakstat(c), c.e.f)), PC(s))
    IN leaveblock(IF Last(c.f.bl).upval THEN closing ELSE simple)

exp1(s) == luaK_exp2nextreg(expr(s))

forbody(s, base, nvars, isnum) ==
    LET d == checknext(adjustlocalvars(s, 3), "do")
        p == IF isnum THEN luaK_codeABC(d, "FORPREP", base, NO_JUMP, 0) ELSE luaK_jump(d)
        prep == PC(p) - 1
        b == block(luaK_reserveregs(adjustlocalvars(enterblock(p, FALSE), nvars), nvars))
        l == luaK_patchtohere(leaveblock(b), prep)
        n == luaK_codeABC(l, "FORLOOP", base, NO_JUMP, 0)
        t == luaK_codeABC(l, "TFORLOOP", base, 0, nvars)
    IN IF isnum THEN luaK_patchlist(n, PC(n) - 1, prep + 1) ELSE JumpBack(t, prep + 1)

NewLocals(s, names) ==
    FoldLeft(LAMBDA r, i : new_localvar(r, names[i], i - 1), s, [i \in DOMAIN names |-> i])

fornum(s, varname) ==
    LET v == checknext(NewLocals(s, <<"(for index)", "(for limit)", "(for step)", varname>>), "=")
        l == exp1(checknext(exp1(v), ","))
        one == addk(l, Num(1))
        d == luaK_reserveregs(luaK_codeABC(one, "LOADK", one.f.freereg,
                                           KIndex(one, Num(1)), 0), 1)
    IN forbody(IF Token(l) = "," THEN exp1(luaX_next(l)) ELSE d, s.f.freereg, 1, TRUE)

RECURSIVE Names(_, _)       \* NAME {, NAME}, the n-th on
Names(s, n) ==
    LET v == new_localvar(checknext(s, "TK_NAME"), Text(s), n) IN
    IF Token(v) = "," THEN Names(luaX_next(v), n + 1) ELSE [v EXCEPT !.n = n + 1]

forlist(s, indexname) ==
    LET c == NewLocals(s, <<"(for generator)", "(for state)", "(for control)", indexname>>)
        v == IF Token(c) = "," THEN Names(luaX_next(c), 4) ELSE [c EXCEPT !.n = 4]
        es == explist1(checknext(v, "in"))
    IN forbody(luaK_checkstack(adjust_assign(es, 3, es.n), 3), s.f.freereg, v.n - 3, FALSE)

forstat(s) ==
    LET v == luaX_next(enterblock(s, TRUE))
        b == checknext(v, "TK_NAME")
        l == CASE Token(b) = "=" -> fornum(b, Text(v))
               [] Token(b) \in {",", "in"} -> forlist(b, Text(v))
               [] OTHER -> Raise(b)
    IN leaveblock(checknext(l, "end"))

(* flist: jumps of the false condition; escapes: jumps out of earlier blocks. *)
test_then_block(s) ==
    LET c == cond(luaX_next(s)) IN
    [s |-> block(checknext(c, "then")), flist |-> c.e.f]

RECURSIVE ElseParts(_, _)
ElseParts(r, escapes) ==
    LET j == luaK_jump(r.s)
        out == PC(j) - 1
        e == luaK_patchtohere(LinkCode(j, escapes, out), r.flist)
    IN CASE Token(r.s) = "elseif" -> ElseParts(test_then_block(e), Concat(escapes, out))
         [] Token(r.s) = "else" ->
              luaK_patchtohere(block(luaX_next(e)), Concat(escapes, out))
         [] OTHER -> luaK_patchtohere(LinkCode(r.s, escapes, r.flist), Concat(escapes, r.flist))

ifstat(s) == checknext(ElseParts(test_then_block(s), NO_JUMP), "end")

localfunc(s) ==
    LET v == new_localvar(checknext(s, "TK_NAME"), Text(s), 0)
        r == adjustlocalvars(luaK_reserveregs(init_exp(v, "VLOCAL", v.f.freereg), 1), 1)
    IN luaK_storevar(body(r, FALSE), r.e)

localstat(s) ==
    LET v == Names(s, 0)
        es == IF Token(v) = "=" THEN explist1(luaX_next(v)) ELSE [Void(v) EXCEPT !.n = 0]
    IN adjustlocalvars(adjust_assign(es, v.n, es.n), v.n)

RECURSIVE Fields(_)
Fields(s) == IF Token(s) = "." THEN Fields(field(s)) ELSE s

funcstat(s) ==
    LET v == Fields(singlevar(luaX_next(s)))
        method == Token(v) = ":"
        f == IF method THEN field(v) ELSE v
    IN luaK_storevar(body(f, method), f.e)

exprstat(s) ==
    LET v == primaryexp(s) IN
    IF v.e.k = "VCALL" THEN [v EXCEPT !.f.code[v.e.info + 1].c = 1]
    ELSE assignment(v, v.e)

retstat(s0) ==
    LET s == luaX_next(s0)
        es == explist1(s)
        open == luaK_setreturns(es, MULTRET)
        tail == lua_assert([open EXCEPT !.f.code[es.e.info + 1].o = "TAILCALL"],
                           getcode(open).a = s.f.nactvar)
        any == luaK_exp2anyreg(es)
        next == luaK_exp2nextreg(es)
    IN IF block_follow(Token(s)) \/ Token(s) = ";" THEN luaK_ret(s, 0, 0)
       ELSE IF es.err THEN es
       ELSE IF hasmultret(es.e.k)
       THEN luaK_ret(IF es.e.k = "VCALL" /\ es.n = 1 THEN tail ELSE open, s.f.nactvar, MULTRET)
       ELSE IF es.n = 1 THEN luaK_ret(any, any.e.info, 1)
       ELSE luaK_ret(lua_assert(next, es.n = next.f.freereg - s.f.nactvar), s.f.nactvar, es.n)

statement(s) ==
    LET p == luaX_next(s) IN
    CASE Token(s) = "if" -> ifstat(s)
      [] Token(s) = "while" -> whilestat(s)
      [] Token(s) = "do" -> checknext(block(p), "end")
      [] Token(s) = "for" -> forstat(s)
      [] Token(s) = "repeat" -> repeatstat(s)
      [] Token(s) = "function" -> funcstat(s)
      [] Token(s) = "local" ->
           IF Token(p) = "function" THEN localfunc(luaX_next(p)) ELSE localstat(p)
      [] Token(s) = "return" -> retstat(s)
      [] Token(s) = "break" -> breakstat(p)
      [] OTHER -> exprstat(s)

RECURSIVE Statements(_)
Statements(s) ==
    LET n == testnext(statement(s), ";")
        r == [lua_assert(n, /\ n.f.maxstacksize >= n.f.freereg
                            /\ n.f.freereg >= n.f.nactvar)
              EXCEPT !.f.freereg = n.f.nactvar]
    IN IF block_follow(Token(s)) THEN s
       ELSE IF Token(s) \in {"return", "break"} THEN r ELSE Statements(r)

chunk(s) == leavelevel(Statements(enterlevel(s)), s.lev)

luaY_parser(toks) ==
    LET empty == [toks |-> toks, f |-> <<>>, e |-> Zero, prev |-> <<>>, lev |-> 0, n |-> 0,
                  err |-> FALSE, bad |-> FALSE]
        main == [open_func(empty) EXCEPT !.prev = <<>>, !.f.is_vararg = {"ISVARARG"}]
        c == chunk(main)
        s == close_func(check_condition(c, Token(c) = "TK_EOS"))
    IN [proto |-> Proto(s.f), err |-> s.err, bad |-> s.bad \/ s.f.upvals # <<>>]
=============================================================================
