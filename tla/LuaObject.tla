------------------------------ MODULE LuaObject ------------------------------
(* Values of the interpreter (lobject.c, luaconf.h).  A value is a tuple of   *)
(* its type and what identifies it, so two values are raw-equal exactly when  *)
(* they are the same tuple.  Numbers are integers: programs divide exactly.   *)
EXTENDS Integers, Sequences, TLC

Nil == <<"nil">>
Bool(b) == <<"boolean", b>>
Num(n) == <<"number", n>>
Str(s) == <<"string", s>>
TypeOf(v) == v[1]
IsNil(v) == v = Nil
l_isfalse(v) == v \in {Nil, Bool(FALSE)}

Fill(n, v) == IF n <= 0 THEN <<>> ELSE SubSeq([i \in 1..n |-> v], 1, n)      \* n times v

RECURSIVE Power(_, _)
Power(x, n) == IF n = 0 THEN 1 ELSE x * Power(x, n - 1)

(* The luai_num* macros, by opcode.                                           *)
numop(op, a, b) ==
    CASE op = "ADD" -> a + b
      [] op = "SUB" -> a - b
      [] op = "MUL" -> a * b
      [] op = "DIV" -> a \div b
      [] op = "MOD" -> a - (a \div b) * b
      [] op = "POW" -> Power(a, b)
      [] op = "UNM" -> -a

(* Numerals a string of the programs may hold (luaO_str2d).                   *)
str2d == [s \in {ToString(n) : n \in 0..20} |-> CHOOSE n \in 0..20 : ToString(n) = s]

tonumber(v) ==
    IF TypeOf(v) = "string" /\ v[2] \in DOMAIN str2d THEN Num(str2d[v[2]]) ELSE v
IsNumber(v) == TypeOf(tonumber(v)) = "number"

(* tostring: a number becomes the string that prints it.                      *)
tostring(v) == IF TypeOf(v) = "number" THEN Str(ToString(v[2])) ELSE v
IsString(v) == TypeOf(v) \in {"string", "number"}

(* strcoll on the strings the programs compare: their rank in the locale.     *)
Collate(s) == CHOOSE i \in 1..7 : <<"", "1", "2", "a", "ab", "b", "z">>[i] = s

RECURSIVE luaO_int2fb_(_, _)
luaO_int2fb_(x, e) ==
    IF x >= 16 THEN luaO_int2fb_((x + 1) \div 2, e + 1)
    ELSE IF x < 8 THEN x ELSE (e + 1) * 8 + (x - 8)
luaO_int2fb(x) == luaO_int2fb_(x, 0)

luaO_fb2int(x) ==
    LET e == (x \div 8) % 32 IN
    IF e = 0 THEN x ELSE ((x % 8) + 8) * Power(2, e - 1)

RECURSIVE ceillog2(_)
ceillog2(x) == IF x <= 1 THEN 0 ELSE 1 + ceillog2((x + 1) \div 2)

(* The size a table is created with is never below the size the constructor   *)
(* counted, and less than 1/8 above it: luaO_int2fb rounds up.                *)
ASSUME FloatingByte ==
    \A x \in 0..600 : LET y == luaO_fb2int(luaO_int2fb(x)) IN
        /\ x <= y
        /\ 8 * (y - x) <= x + 8
=============================================================================
