------------------------------- MODULE MCLuaVM -------------------------------
(* The programs LuaVM is checked on: expressions generated with the value the *)
(* reference manual gives them, sequences of table stores, and programs for   *)
(* the statements, calls, metamethods, errors and coroutines.                 *)
EXTENDS LuaVM

(* A token is a word of the program's text.                                   *)
RECURSIVE Words(_)      \* what is between the spaces
Words(s) ==
    LET half == Len(s) \div 2
        l == Words(SubSeq(s, 1, half))
        r == Words(SubSeq(s, half + 1, Len(s)))
    IN IF Len(s) <= 1 THEN IF s = " " THEN <<"", "">> ELSE <<s>>
       ELSE Front(l) \o <<Last(l) \o Head(r)>> \o Tail(r)
W(text) == SelectSeq(Words(text), LAMBDA word : word # "")

Program(toks, expect) == [toks |-> toks, expect |-> expect]
Gives(text, values) == Program(W(text), <<TRUE, values>>)
Fails(text, value) == Program(W(text), <<FALSE, <<value>>>>)
Refused(text) == Program(W(text), <<"syntax">>)

True == Bool(TRUE)
False == Bool(FALSE)
N(ns) == [i \in DOMAIN ns |-> Num(ns[i])]
S(ss) == [i \in DOMAIN ss |-> Str(ss[i])]

MCStrHash(s) == 3 * Len(s)      \* names of one length collide

-----------------------------------------------------------------------------
(* Expressions: <<value, tokens>> leaves under <<op, left, right>> nodes.     *)

Prec == [or |-> 1, and |-> 2, lt |-> 3, eq |-> 3, cat |-> 4, add |-> 5, not |-> 6, pow |-> 7]
Sign == [or |-> "or", and |-> "and", lt |-> "<", eq |-> "==", cat |-> "..", add |-> "+", pow |-> "^"]
Right == {"cat", "pow"}

Leaf(v, text) == <<"leaf", v, text>>
IsLeaf(e) == e[1] = "leaf"

RECURSIVE Toks(_)
Paren(e, p) ==
    IF IsLeaf(e) \/ Prec[e[1]] > p THEN Toks(e) ELSE <<"(">> \o Toks(e) \o <<")">>
Toks(e) ==
    CASE IsLeaf(e) -> W(e[3])
      [] e[1] = "not" -> <<"not">> \o Paren(e[2], 5)
      [] OTHER -> LET p == Prec[e[1]] IN
                  Paren(e[2], IF e[1] \in Right THEN p ELSE p - 1) \o <<Sign[e[1]]>>
                  \o Paren(e[3], IF e[1] \in Right THEN p - 1 ELSE p)

RECURSIVE Value(_)      \* section 2.5 of the manual; <<"error">> for an error
Value(e) ==
    LET l == Value(e[2])
        r == Value(e[3])
        nums == IsNumber(l) /\ IsNumber(r)
        failed == "error" \in {TypeOf(l), TypeOf(r)}
    IN CASE IsLeaf(e) -> e[2]
         [] e[1] = "not" -> IF TypeOf(l) = "error" THEN l ELSE Bool(l \in {Nil, False})
         [] e[1] = "and" -> IF l \in {Nil, False, <<"error">>} THEN l ELSE r
         [] e[1] = "or" -> IF l \in {Nil, False} THEN r ELSE l
         [] failed -> <<"error">>
         [] e[1] = "eq" -> Bool(l = r)
         [] e[1] = "lt" /\ TypeOf(l) = "number" /\ TypeOf(r) = "number" -> Bool(l[2] < r[2])
         [] e[1] = "cat" /\ IsString(l) /\ IsString(r) -> Str(tostring(l)[2] \o tostring(r)[2])
         [] e[1] = "add" /\ nums -> Num(tonumber(l)[2] + tonumber(r)[2])
         [] e[1] = "pow" /\ nums -> Num(Power(tonumber(l)[2], tonumber(r)[2]))
         [] OTHER -> <<"error">>

(* An expression is returned, stored in a new and in an old local, tested by  *)
(* an if and by a while.                                                      *)
Outcome(v) == IF v = <<"error">> THEN <<FALSE, <<ErrorMsg>>>> ELSE <<TRUE, <<v>>>>
Start == W("local x , y = 1")
ReturnOf(e) == Program(Start \o <<"return">> \o Toks(e), Outcome(Value(e)))
InContexts(e) ==
    LET v == Value(e)
        branch == IF v = <<"error">> THEN v ELSE Num(IF v \in {Nil, False} THEN 2 ELSE 1)
    IN {ReturnOf(e),
        Program(Start \o W("local r =") \o Toks(e) \o W("return r"), Outcome(v)),
        Program(Start \o W("y =") \o Toks(e) \o W("return y"), Outcome(v)),
        Program(Start \o <<"while">> \o Toks(e) \o W("do return 1 end return 2"),
                Outcome(branch)),
        Program(Start \o <<"if">> \o Toks(e) \o W("then return 1 end return 2"),
                Outcome(branch))}

Leaves == {Leaf(Num(1), "x"), Leaf(Nil, "y"), Leaf(True, "x == 1"), Leaf(False, "x < 1"),
           Leaf(False, "not x"), Leaf(Num(2), "2"), Leaf(Nil, "nil")}
LogicLeaves == {Leaf(Num(1), "x"), Leaf(Nil, "y"), Leaf(True, "x == 1")}
Locals == {Leaf(Num(1), "x"), Leaf(Nil, "y")}
Values == {Leaf(Num(2), "2"), Leaf(Nil, "y"), Leaf(Str("1"), "'1'")}
Logic == {"and", "or"}
Ops == {"eq", "cat", "add", "pow"}
Binary(ops, ls) == {<<o, l, r>> : o \in ops, l \in ls, r \in ls}
Negated(es) == {<<"not", e>> : e \in es}

LogicExpressions ==
    {<<o, e, l>> : o \in Logic, e \in Binary(Logic, Leaves), l \in LogicLeaves}
    \cup {<<o, l, e>> : o \in Logic, l \in LogicLeaves,
            e \in Binary(Logic, LogicLeaves) \cup Negated(Binary(Logic, LogicLeaves))}
    \cup {<<o, e, f>> : o \in Logic \cup {"eq"}, e \in Negated(Binary(Logic, Locals)),
            f \in Binary(Logic, Locals)}
(* The literals true and false are operands where no jump that carries a      *)
(* value is pending: for one that is a left operand luaK_goiftrue and         *)
(* luaK_goiffalse emit a plain jump that takes such jumps along, so           *)
(* "nil and 1 or true or nil" gives nil.                                      *)
Literals == {Leaf(True, "true"), Leaf(False, "false")}
LiteralExpressions ==
    {<<o, e, f>> : o \in Logic, f \in Literals,
        e \in Binary(Logic, Locals) \cup Negated(Binary(Logic, Locals))}
    \cup {<<o, <<p, f, x>>, y>> : o \in Logic, p \in Logic, f \in Literals, x \in Locals, y \in Locals}
    \cup {<<o, x, <<p, f, y>>>> : o \in Logic, p \in Logic, f \in Literals, x \in Locals, y \in Locals}
ValueExpressions ==
    {<<o, e, l>> : o \in Ops \cup Logic, e \in Binary(Ops, Values), l \in Values}
    \cup {<<o, l, e>> : o \in Ops, l \in Values,
            e \in Binary(Ops, Values) \cup Binary(Logic, LogicLeaves)}

-----------------------------------------------------------------------------
(* Statements, scopes and assignments.                                        *)

Statements1 == {
  Gives("local s = 0 for i = 1 , 3 do s = s + i end return s", N(<<6>>)),
  Gives("local s = 0 for i = 5 , 1 , - 2 do s = s * 10 + i end return s", N(<<531>>)),
  Gives("local s = 0 for i = '1' , '2' do s = s + i end for i = 2 , 1 do s = 0 end "
        \o "return s", N(<<3>>)),
  Gives("local i , f = 1 while i < 5 do local j = i if j == 3 then break end local "
        \o "function g ( ) return j end f = f or g i = i + 1 end return i , f ( )", N(<<3, 1>>)),
  Gives("local i , f = 0 repeat local j = i i = i + 1 f = function ( ) return j end "
        \o "until j >= 2 return i , f ( )", N(<<3, 2>>)),
  Gives("local i = 0 repeat i = i + 1 if i == 2 then break end until i == 4 return i", N(<<2>>)),
  Gives("local a = { 1 } local b = a a [ 1 ] , a = 2 , 3 return b [ 1 ] , a", N(<<2, 3>>)),
  Gives("local i , t = 1 , { } i , t [ i ] = i + 1 , 20 return i , t [ 1 ] , t [ 2 ]",
        <<Num(2), Num(20), Nil>>),
  Gives("local x , y = 1 , 2 x , y = y , x return x , y", N(<<2, 1>>)),
  Gives("local a , b , c = ( function ( ) return 1 , 2 end ) ( ) a , b , c = 0 , a "
        \o "return a , b , c", <<Num(0), Num(1), Nil>>),
  Gives("local x = 1 do local y = 2 end local z return z , x", <<Nil, Num(1)>>),
  Gives("local x = 1 do local y = 2 end if x == 2 then local y end local z return z", <<Nil>>),
  Gives("local r for i = 1 , 2 do local z r = z z = i end return r", <<Nil>>),
  Gives("local x = 1 if x == 2 then return 1 elseif x == 1 then return 2 else return 3 "
        \o "end", N(<<2>>)),
  Gives("local x if x then x = 1 else x = 2 end ; return x , ( not x ) , not not x",
        <<Num(2), False, True>>),
  Gives("x = 1 do local x = 2 y = x end return x , y , z", <<Num(1), Num(2), Nil>>),
  Gives("local i = 3 while i > 0 do i = i - 1 end return i", N(<<0>>)),
  Gives("local t = { } for i = 1 , 2 do t [ i ] = function ( ) i = i + 10 return i end "
        \o "end return t [ 1 ] ( ) , t [ 1 ] ( ) , t [ 2 ] ( )", N(<<11, 21, 12>>)),
  Gives("local a = 10 % 3 + 10 / 5 - 2 * 3 ^ 2 ^ 0 return a , - a , - - a , 2 + - 3",
        N(<<-3, 3, -3, -1>>)),
  Gives("local a , b = 7 , 2 return a % b , a - b , a * b , - a % b , b ^ a , ( a - 1 ) "
        \o "/ b", N(<<1, 5, 14, 1, 128, 3>>)),
  Fails("for i = { } , 1 do end", ErrorMsg),
  Fails("local x = 1 x . y = 2", ErrorMsg),
  Fails("return { } < 1", ErrorMsg), Fails("return { } < { }", ErrorMsg), Fails("return # nil", ErrorMsg),
  Fails("return 'a' .. { }", ErrorMsg), Fails("return - { }", ErrorMsg), Fails("f ( )", ErrorMsg),
  Fails("local t = { } t [ nil ] = 1", ErrorMsg),
  Gives("return 'a' < 'b' , 'b' <= 'a' , 'a' >= 'a' , 1 > 2 , 1 ~= '1' , # 'ab' , '10' + "
        \o "1 , 10 .. 20", <<True, False, True, False, True, Num(2), Num(11), Str("1020")>>),
  Gives("local a = '' return a .. 1 .. 2 , 'a' .. a , a .. a", S(<<"12", "a", "">>))}

Functions1 == {
  Gives("local function f ( ... ) local a , b = ... return select ( '#' , ... ) , b , "
        \o "... end return f ( 1 , nil )", <<Num(2), Nil, Num(1), Nil>>),
  Gives("local function f ( a , ... ) return arg . n , arg [ 1 ] , a end return f ( 1 , "
        \o "2 , 3 )", N(<<2, 2, 1>>)),
  Gives("local function f ( a , b , ... ) local c = ( ... ) return a , b , c , ... end "
        \o "return f ( 1 )", <<Num(1), Nil, Nil>>),
  Gives("local o = { n = 1 } function o : add ( x ) self . n = self . n + x return self "
        \o "end return o : add ( 2 ) : add ( 3 ) . n", N(<<6>>)),
  Gives("local t = { a = { } } function t . a . f ( x ) return x end function t . a : g "
        \o "( ) return self == t . a end return t . a . f ( 4 ) , t . a : g ( )",
        <<Num(4), True>>),
  Gives("local function f ( ) return 5 , 6 end local t = { 1 , 2 , 3 , f ( ) } return # "
        \o "t , t [ 5 ] , t [ 4 ]", N(<<5, 6, 5>>)),
  Gives("local function f ( ) return 5 , 6 end local t = { f ( ) , ( f ( ) ) ; x = 1 , [ "
        \o "4 ] = 2 , } return # t , t [ 2 ] , t . x , t [ 4 ] , ( f ( ) )",
        N(<<2, 5, 1, 2, 5>>)),
  Gives("local t = { 1 , 2 , 3 , 4 , 5 , 6 , 7 , 8 , 9 } return # t , t [ 8 ] , t [ 9 ]",
        N(<<9, 8, 9>>)),
  Gives("local function f ( ... ) return { 0 , 0 , ... } end return unpack ( f ( 1 , 2 , "
        \o "3 ) , 3 )", N(<<1, 2, 3>>)),
  Gives("local function mk ( ) local n = 0 return function ( ) n = n + 1 return n end , "
        \o "function ( ) return n end end local inc , get = mk ( ) inc ( ) inc ( ) local i2 "
        \o "= mk ( ) return get ( ) , i2 ( )", N(<<2, 1>>)),
  Gives("local a , b = 1 , 2 return ( function ( ) return ( function ( ) b = a + b "
        \o "return b end ) ( ) + a end ) ( ) , b", N(<<4, 3>>)),
  Gives("local function loop ( n ) if n == 0 then return 'a' end return loop ( n - 1 ) "
        \o "end return loop ( 20 )", S(<<"a">>)),
  Gives("local function f ( n ) local g = function ( ) return n end if n == 0 then "
        \o "return g ( ) end return f ( n - 1 , g ) end return f ( 3 )", N(<<0>>)),
  Gives("local function f ( n , g ) if n == 0 then return g ( ) end local x = n return f "
        \o "( n - 1 , g or function ( ) x = x + 1 return x end ) end return f ( 3 )", N(<<4>>)),
  Gives("local function fac ( n ) if n < 2 then return 1 end return n * fac ( n - 1 ) "
        \o "end return fac ( 5 )", N(<<120>>)),
  Gives("local function f ( ) return 1 , 2 , 3 end local a , b = f ( ) return a , b , f "
        \o "( ) , ( f ( ) )", N(<<1, 2, 1, 1>>)),
  Gives("return select ( 2 , 1 , 2 , 3 )", N(<<2, 3>>)), Gives("return select ( - 1 , 1 , 2 )", N(<<2>>)),
  Fails("return select ( 0 )", ErrorMsg), Fails("return unpack ( 1 )", ErrorMsg),
  Gives("return assert ( 1 , 2 ) , type ( nil ) , unpack ( { 1 , 2 } )",
        <<Num(1), Str("nil"), Num(1), Num(2)>>),
  Gives("local s , n = 0 , 0 for k , v in pairs ( { 1 , 2 , a = 3 } ) do s = s + v n = n "
        \o "+ 1 end return s , n", N(<<6, 3>>)),
  Gives("local s = '' for i , v in ipairs ( { 'a' , 'b' , nil , 'z' } ) do s = s .. i .. "
        \o "v end return s", S(<<"1a2b">>)),
  Gives("local t = { a = 1 , b = 2 , c = 3 , 4 } for k in next , t do t [ k ] = nil end "
        \o "return next ( t )", <<Nil>>),
  Gives("local t = { a = 1 , b = 2 } local n = 0 for k in pairs ( t ) do n = n + 1 if n "
        \o "== 1 then for j in pairs ( { 1 , 2 , 3 } ) do t [ k ] = j end end end return n",
        N(<<2>>)),
  Gives("local fs = { } for k , v in pairs ( { 7 , 8 } ) do fs [ k ] = function ( ) "
        \o "return v end if k == 2 then break end end return fs [ 1 ] ( ) , fs [ 2 ] ( )",
        N(<<7, 8>>)),
  Fails("return next ( { } , 1 )", ErrorMsg), Fails("for k in 1 do end", ErrorMsg)}

(* What the compiler refuses, its own limits included.                        *)
Refusals == {
  Refused("break"), Refused("return 1 2"), Refused("local x = = 1"), Refused("for i do end"),
  Refused("f ( ) = 1"), Refused("x"), Refused("function f ( ) return ... end"),
  Refused("if x then"), Refused("local t = { 1 , , }"), Refused("x , y ( ) = 1"),
  Refused("return f ( 1"), Refused("a . 1 = 2"), Refused("local function f ( a . b ) end"),
  Refused("for a , b = 1 , 2 do end"), Refused("do while true do end function f ( ) break end end"),
  Refused("local a , b , c , d , e , f , g , h , i , j , k"),
  Refused("local a , b , c , d function f ( ) return a , b , c , d end"),
  Refused("return ( ( ( ( ( ( ( ( ( ( ( ( ( 1 ) ) ) ) ) ) ) ) ) ) ) ) )"),
  Refused("f ( 1 , 2 , 3 , 4 , 5 , 6 , 7 , 8 , 9 , 10 , 11 , 12 , 13 , 14 , 15 , 16 , 17 , "
          \o "18 , 19 )")}

-----------------------------------------------------------------------------
(* Metamethods.                                                               *)

Metamethods == {
  Gives("local t = setmetatable ( { } , { __add = function ( ) return 'a' end , __unm = "
        \o "function ( a , b ) return a == b end } ) return 1 + t , t + 1 , - t",
        <<Str("a"), Str("a"), True>>),
  Gives("local t = setmetatable ( { } , { __concat = function ( a , b ) if type ( a ) == "
        \o "'table' then return 'a' .. b end return a .. 'b' end } ) return 'z' .. t .. 1 "
        \o ".. 2 , 1 .. t .. 'a' .. t", S(<<"za12", "1aab">>)),
  Gives("local mt = { __eq = function ( ) return 1 end } local a , b = setmetatable ( { "
        \o "} , mt ) , setmetatable ( { } , mt ) return a == b , a ~= b , a == { } , { } == "
        \o "a , rawequal ( a , b ) , a == 1", <<True, False, False, False, False, False>>),
  Gives("local mt = { __lt = function ( a , b ) return a . v < b . v end } local a , b = "
        \o "setmetatable ( { v = 1 } , mt ) , setmetatable ( { v = 2 } , mt ) return a < b "
        \o ", a <= b , b <= a , a > b", <<True, True, False, False>>),
  Gives("local mt = { __le = function ( ) return nil end } local a = setmetatable ( { } "
        \o ", mt ) if a <= a then return 1 end return a >= a", <<False>>),
  Gives("local t = setmetatable ( { } , { __call = function ( self , x , y ) return y , "
        \o "x end } ) local a , b = t ( 1 , 2 ) return a , b , t ( 3 , 4 )", N(<<2, 1, 4, 3>>)),
  Gives("local t = setmetatable ( { } , { __call = function ( self , x ) return x end } "
        \o ") return t ( 5 )", N(<<5>>)),
  Gives("local u = { } local t = setmetatable ( { } , { __newindex = u , __index = u } ) "
        \o "t . x = 1 return rawget ( t , 'x' ) , u . x , t . x , t . y",
        <<Nil, Num(1), Num(1), Nil>>),
  Gives("local log = '' local t = setmetatable ( { } , { __newindex = function ( t , k , "
        \o "v ) log = log .. k rawset ( t , k , v ) end } ) t . a = 1 t . a = 2 t . b = 3 "
        \o "return log , t . a", <<Str("ab"), Num(2)>>),
  Gives("local t = setmetatable ( { } , { __index = function ( t , k ) return k end } ) "
        \o "return t . a , t [ 1 ] , pcall ( t . x )", <<Str("a"), Num(1), False, ErrorMsg>>),
  Gives("local t = { } t . __index = t setmetatable ( t , t ) return pcall ( function ( "
        \o ") return t . x end )", <<False, ErrorMsg>>),
  Gives("local t = { } local mt = { } setmetatable ( t , mt ) local a = t . x mt . "
        \o "__index = { x = 1 } local b = t . x mt . __index = nil return a , b , t . x",
        <<Nil, Num(1), Nil>>),
  Gives("local t = setmetatable ( { } , { __metatable = 1 } ) return getmetatable ( t ) "
        \o ", getmetatable ( { } ) , pcall ( setmetatable , t , { } )",
        <<Num(1), Nil, False, ErrorMsg>>),
  Gives("local mt = { } return getmetatable ( setmetatable ( { } , mt ) ) == mt , "
        \o "getmetatable ( setmetatable ( setmetatable ( { } , mt ) , nil ) )", <<True, Nil>>)}

(* Errors: what lua_pcall puts back, and overflow of the two stacks.          *)
Errors == {
  Gives("local e = { } local ok , v = pcall ( error , e ) return ok , v == e", <<False, True>>),
  Gives("return pcall ( error , 'a' , 0 )", <<False, Str("a")>>),
  Gives("return pcall ( pcall , error , 'a' )", <<True, False, ErrorMsg>>),
  Fails("local t = { } error ( 1 , 0 )", Num(1)), Fails("error ( )", Nil), Fails("pcall ( )", ErrorMsg),
  Gives("return xpcall ( function ( ) error ( 1 , 0 ) end , function ( e ) return e + 1 "
        \o "end )", <<False, Num(2)>>),
  Gives("return xpcall ( function ( ) return 1 , 2 end , error )", <<True, Num(1), Num(2)>>),
  Gives("return xpcall ( error , 1 )", <<False, ErrorMsg>>),
  Gives("return xpcall ( function ( ) error ( 1 , 0 ) end , function ( e ) return e . x "
        \o "end )", <<False, ErrorMsg>>),
  Gives("local f pcall ( function ( ) local x = 1 f = function ( ) x = x + 1 return x "
        \o "end error ( ) end ) local y , z = 8 , 9 return f ( ) , f ( )", N(<<2, 3>>)),
  Gives("local n = 0 local function f ( ) n = n + 1 return 1 + f ( ) end local a = pcall "
        \o "( f ) local k = n n = 0 local b = pcall ( f ) return a , b , k > 12 and n >= k",
        <<False, False, True>>),
  Gives("local function f ( ) return 1 + f ( ) end return xpcall ( f , function ( e ) "
        \o "return f ( ) end )", <<False, ErrorMsg>>),
  Gives("local function f ( ) return 1 + f ( ) end return xpcall ( f , function ( e ) "
        \o "return 7 end )", <<False, Num(7)>>),
  Gives("local t t = setmetatable ( { } , { __index = function ( s , k ) return t [ k ] "
        \o "end } ) local ok = pcall ( function ( ) return t . x end ) return ok , pcall ( "
        \o "function ( ) return t . y end )", <<False, False, ErrorMsg>>),
  Gives("local function p ( n ) if n == 0 then return error ( 3 , 0 ) end return pcall ( "
        \o "p , n - 1 ) end return p ( 3 )", <<True, True, False, Num(3)>>),
  Gives("local function p ( ) return pcall ( p ) end local a = p ( ) return a", <<True>>)}

Coroutines == {
  Gives("local f = wrap ( function ( a ) while true do a = yield ( a * 2 ) end end ) "
        \o "return f ( 1 ) , f ( 2 ) , f ( 3 )", N(<<2, 4, 6>>)),
  Gives("local co = create ( function ( a , b ) local c , d = yield ( b , a ) return d "
        \o "end ) local _ , x , y = resume ( co , 1 , 2 ) return x , y , resume ( co , 3 , "
        \o "4 )", <<Num(2), Num(1), True, Num(4)>>),
  Gives("local co co = create ( function ( ) yield ( status ( co ) ) end ) local s = "
        \o "status ( co ) local ok , r = resume ( co ) local u = status ( co ) resume ( co "
        \o ") return s , r , u , status ( co ) , resume ( co )",
        S(<<"suspended", "running", "suspended", "dead">>) \o <<False, ErrorMsg>>),
  Gives("local co = create ( function ( ) local x = 1 error ( x , 0 ) end ) local ok , e "
        \o "= resume ( co ) return ok , e , status ( co ) , resume ( co )",
        <<False, Num(1), Str("dead"), False, ErrorMsg>>),
  Gives("local co = create ( function ( ) return pcall ( yield , 1 ) end ) return resume "
        \o "( co )", <<True, False, ErrorMsg>>),
  Gives("local co = create ( function ( ) local t = setmetatable ( { } , { __index = "
        \o "function ( ) yield ( 1 ) end } ) return t . x end ) return resume ( co )",
        <<False, ErrorMsg>>),
  Gives("return pcall ( yield )", <<False, ErrorMsg>>),
  Gives("local co co = create ( function ( ) return resume ( create ( function ( ) "
        \o "return status ( co ) , resume ( co ) end ) ) end ) return resume ( co )",
        <<True, True, Str("normal"), False, ErrorMsg>>),
  Gives("local n = 1 local f = wrap ( function ( ) n = n + 1 yield ( ) n = n + 1 end ) f "
        \o "( ) f ( ) return n", N(<<3>>)),
  Gives("local g local co = create ( function ( ) local x = 5 g = function ( ) x = x + 1 "
        \o "return x end error ( ) end ) resume ( co ) return g ( ) , g ( )", N(<<6, 7>>)),
  Gives("local g local co = create ( function ( ) local x = 5 g = function ( ) x = x + 1 "
        \o "return x end yield ( ) return x end ) resume ( co ) local a = g ( ) local _ , b "
        \o "= resume ( co ) return a , b , g ( )", N(<<6, 6, 7>>)),
  Gives("local s = 0 for v in wrap ( function ( ) for i = 1 , 3 do yield ( i ) end end ) "
        \o "do s = s * 10 + v end return s", N(<<123>>)),
  Gives("local co = create ( function ( ) local function f ( n ) if n == 0 then return "
        \o "yield ( 1 ) end return 1 + f ( n - 1 ) end return f ( 2 ) end ) resume ( co ) "
        \o "return resume ( co , 5 )", <<True, Num(7)>>),
  Gives("local function f ( ) return resume ( create ( f ) ) end return f ( )",
        [i \in 1..11 |-> True] \o <<False, ErrorMsg>>),
  Gives("local f = wrap ( function ( ) error ( 2 , 0 ) end ) return pcall ( f )",
        <<False, ErrorMsg>>),
  Gives("local f = wrap ( function ( ) end ) f ( ) return pcall ( f )", <<False, ErrorMsg>>),
  Gives("return pcall ( create , pcall )", <<False, ErrorMsg>>), Gives("return pcall ( resume , 1 )", <<False, ErrorMsg>>)}

-----------------------------------------------------------------------------
(* The table library.  An array is sorted by the order of numbers whatever    *)
(* its length and its repetitions, and by a function that calls back.         *)

Arrays == UNION {[1..n -> 1..3] : n \in 2..4} \cup [1..6 -> 1..2]
Sorted(a) ==
    CHOOSE b \in [DOMAIN a -> ToSet(a)] :
        /\ \A i \in 2..Len(a) : b[i - 1] <= b[i]
        /\ \A v \in ToSet(a) : Cardinality({i \in DOMAIN a : b[i] = v})
                               = Cardinality({i \in DOMAIN a : a[i] = v})
ArrayToks(a) ==
    <<"{">> \o FlattenSeq([i \in DOMAIN a |-> <<ToString(a[i]), ",">>]) \o <<"}">>
SortProgram(a) ==
    Program(W("local t =") \o ArrayToks(a) \o W("sort ( t ) return unpack ( t )"),
                <<TRUE, N(Sorted(a))>>)

TableLibrary == {SortProgram(a) : a \in Arrays} \cup {
  Gives("local t = { 3 , 1 , 5 , 2 , 4 , 6 , 7 } sort ( t , function ( a , b ) return a > "
        \o "b end ) return unpack ( t )", N(<<7, 6, 5, 4, 3, 2, 1>>)),
  Gives("local mt = { __lt = function ( a , b ) return a . v < b . v end } local t = { } for i = "
        \o "1 , 4 do t [ i ] = setmetatable ( { v = i * 3 % 5 } , mt ) end sort ( t ) return "
        \o "t [ 1 ] . v , t [ 2 ] . v , t [ 3 ] . v , t [ 4 ] . v", N(<<1, 2, 3, 4>>)),
  Gives("local t = { 'b' , 'z' , 'a' } sort ( t ) return concat ( t ) , concat ( t , '1' , 2 "
        \o ") , concat ( { } , 'a' ) , concat ( t , 'z' , 2 , 2 )", S(<<"abz", "b1z", "", "b">>)),
  Gives("local t = { 1 , 2 , 3 , 4 , 5 } return pcall ( sort , t , function ( ) return true "
        \o "end )", <<False, ErrorMsg>>),
  Gives("local t = { 1 , 2 , 3 , 4 } sort ( t , function ( ) return false end ) local n = 0 "
        \o "foreachi ( t , function ( i , v ) n = n + v end ) return n", N(<<10>>)),
  Gives("local t = { 2 , 1 } local ok = pcall ( sort , t , function ( ) error ( ) end ) return "
        \o "ok , # t , pcall ( sort , { 1 , 'a' } )", <<False, Num(2), False, ErrorMsg>>),
  Gives("return resume ( create ( function ( ) sort ( { 1 , 2 } , yield ) end ) )",
        <<False, ErrorMsg>>),
  Gives("local t = { } insert ( t , 1 ) insert ( t , 1 , 2 ) insert ( t , 2 , 3 ) insert ( t , "
        \o "4 , 4 ) return concat ( t , '' ) , # t , remove ( t , 1 ) , remove ( t ) , remove "
        \o "( t , 5 ) , concat ( t )",
        <<Str("2314"), Num(4), Num(2), Num(4), Nil, Str("31")>>),
  Gives("local t = { } insert ( t , 3 , 1 ) insert ( t , 0 , 2 ) return t [ 3 ] , t [ 0 ] , "
        \o "remove ( { } ) , maxn ( t ) , maxn ( { a = 1 } ) , getn ( { 1 , 2 } )",
        <<Num(1), Num(2), Nil, Num(3), Num(0), Num(2)>>),
  Gives("return foreach ( { 1 , 2 , a = 3 } , function ( k , v ) if v == 3 then return k end "
        \o "end ) , foreachi ( { 4 , 5 } , function ( i , v ) if i == 2 then return v end end "
        \o ")", <<Str("a"), Num(5)>>),
  Gives("local n = 0 foreach ( { 1 , 2 , a = 3 } , function ( k , v ) n = n + v end ) return n",
        N(<<6>>)),
  Fails("insert ( { } )", ErrorMsg), Fails("insert ( 1 , 1 )", ErrorMsg),
  Fails("concat ( { 1 , { } } )", ErrorMsg), Fails("sort ( { } , 1 )", ErrorMsg),
  Fails("foreach ( { } )", ErrorMsg),
  Fails("local t = { 1 , 2 , 3 } foreach ( t , function ( k ) t [ k ] = nil for i = 4 , 9 do t "
        \o "[ i ] = 1 end for i = 1 , 9 do t [ i ] = nil end for i = 1 , 3 do t [ i .. 'a' ] "
        \o "= 1 end end )", ErrorMsg)}

-----------------------------------------------------------------------------
(* The string library.                                                        *)

StringLibrary == {
  Gives("return sub ( 'abc' , 2 ) , sub ( 'abc' , - 2 , - 1 ) , sub ( 'abc' , - 9 , 2 ) , sub "
        \o "( 'abc' , 3 , 2 ) , sub ( 'abc' , 0 , 9 ) , len ( 'abc' )",
        S(<<"bc", "bc", "ab", "", "abc">>) \o N(<<3>>)),
  Gives("return rep ( 'ab' , 2 ) , rep ( 'a' , 0 ) , reverse ( 'abc' ) , upper ( 'a1Z' ) , "
        \o "lower ( 'A_z' ) , byte ( 'AB' ) , byte ( 'abc' , - 2 , - 1 )",
        S(<<"abab", "", "cba", "A1Z", "a_z">>) \o N(<<65, 98, 99>>)),
  Gives("return find ( 'a.b.c' , '.' , 3 , true ) , find ( 'abc' , 'bc' ) , find ( 'abc' , '' , "
        \o "9 )", N(<<4, 2, 4, 3>>)),
  Gives("return find ( 'abc' , '(b)()' )", N(<<2, 2>>) \o <<Str("b"), Num(3)>>),
  Gives("return find ( 'x=12;' , '(%a+)=(%d+)' ) ", N(<<1, 4>>) \o S(<<"x", "12">>)),
  Gives("return match ( 'abab' , '(a-)(b)%2' ) , match ( 'xabba' , '(.)(.)%2%1' ) , match ( "
        \o "'aab' , '^a-b' ) , match ( 'ba' , '^a' )",
        <<Nil, Str("a"), Str("aab"), Nil>>),
  Gives("return match ( 'f(a(b)c)d' , '%b()' ) , match ( 'THE-end' , '%f[%a]%a+' , 2 ) , match ( "
        \o "'THE-end' , '%f[%l]%a+%f[%z]' ) , match ( 'a]b' , '[]]' ) , match ( 'a-b' , '[^a-z]' )",
        S(<<"(a(b)c)", "end", "end", "]", "-">>)),
  Gives("return match ( '0x1F' , '^0[xX](%x+)$' ) , match ( 'a.b' , '%.(%w)' ) , match ( 'a$' , "
        \o "'$' ) , match ( 'a$b' , '$b' ) , match ( 'key=' , '(%w+)=(%w*)' )",
        S(<<"1F", "b", "", "$b", "key", "">>)),
  Gives("local s = '' for k , v in gmatch ( 'a=1,b=2' , '(%w)=(%w)' ) do s = s .. v .. k end "
        \o "for w in gmatch ( 'ab' , '.-' ) do s = s .. '/' .. w end return s", S(<<"1a2b///">>)),
  Gives("return gsub ( 'abc' , '%w' , '%0%0' , 2 )", <<Str("aabbc"), Num(2)>>),
  Gives("return gsub ( 'abc' , '' , '-' )", <<Str("-a-b-c-"), Num(4)>>),
  Gives("return gsub ( 'hello' , '(l)(.)' , '%2%1%%' )", <<Str("hell%o"), Num(1)>>),
  Gives("return gsub ( 'aab' , '^a' , 'x' )", <<Str("xab"), Num(1)>>),
  Gives("return gsub ( 'abc' , '%w' , { a = 1 , b = false } )", <<Str("1bc"), Num(3)>>),
  Gives("return gsub ( 'abc' , '()(.)' , function ( i , c ) if i ~= 2 then return c .. i end end "
        \o ")", <<Str("a1bc3"), Num(3)>>),
  Gives("local ok = pcall ( gsub , 'ab' , '.' , function ( ) error ( ) end ) return ok , gsub ( "
        \o "'ab' , 'b*$' , 'z' )", <<False, Str("azz"), Num(2)>>),
  Fails("return find ( 'a' , '(a' )", ErrorMsg), Fails("return match ( 'a' , 'a)' )", ErrorMsg),
  Fails("return match ( 'a' , '[a' )", ErrorMsg), Fails("return match ( 'a' , '%' )", ErrorMsg),
  Fails("return match ( 'a' , '%b(' )", ErrorMsg), Fails("return match ( 'a' , '%f' )", ErrorMsg),
  Fails("return match ( 'aa' , '%1' )", ErrorMsg), Fails("return match ( 'aa' , '(a%1)' )", ErrorMsg),
  Fails("return match ( 'abcd' , '(.)(.)(.)(.)' )", ErrorMsg),
  Fails("return gsub ( 'a' , 'a' , '%2' )", ErrorMsg),
  Fails("return gsub ( 'a' , 'a' , function ( ) return { } end )", ErrorMsg),
  Fails("return gsub ( 'a' , 'a' )", ErrorMsg), Fails("return sub ( 'a' )", ErrorMsg)}

(* A pattern of items <<char, suffix>>, Open and Close: the ways it matches   *)
(* text at i, <<end, captures>> in the order of the manual, "*", "+" and "?"  *)
(* the longest first, "-" the shortest first.                                 *)
Open == <<"(", "">>
Close == <<")", "">>
RECURSIVE Ways(_, _, _, _)
Ways(items, text, i, caps) ==
    LET it == Head(items)
        rest == Tail(items)
        run == Max({k \in 0..(Len(text) - i + 1) :
                      \A j \in i..(i + k - 1) : it[1] \in {".", At(text, j)}})
        From(ks) == FlattenSeq([n \in DOMAIN ks |-> Ways(rest, text, i + ks[n], caps)])
        one == IF run > 0 THEN <<1>> ELSE <<>>
    IN CASE items = <<>> -> <<<<i, caps>>>>
         [] it = Open -> Ways(rest, text, i, Append(caps, <<i, 0>>))
         [] it = Close -> LET l == Max({n \in DOMAIN caps : caps[n][2] = 0})
                          IN Ways(rest, text, i, [caps EXCEPT ![l] = <<caps[l][1], i>>])
         [] OTHER -> From(CASE it[2] = "*" -> DownTo(run, 0)
                            [] it[2] = "-" -> UpTo(0, run)
                            [] it[2] = "+" -> DownTo(run, 1)
                            [] it[2] = "?" -> one \o <<0>>
                            [] it[2] = "" -> one)
PatternText(items) ==
    FoldLeft(LAMBDA b, it : b \o it[1] \o it[2], "", items)
Expected(items, text) ==
    LET starts == {i \in 1..(Len(text) + 1) : Ways(items, text, i, <<>>) # <<>>}
        s == Min(starts)
        way == Head(Ways(items, text, s, <<>>))
    IN IF starts = {} THEN <<Nil>>
       ELSE N(<<s, way[1] - 1>>)
            \o [n \in DOMAIN way[2] |-> Str(SubSeq(text, way[2][n][1], way[2][n][2] - 1))]

Repeats == {"", "*", "+", "-", "?"}
Items == {"a", "."} \X Repeats
Patterns ==
    {<<Open, a, Close, b, Open, c, Close>> :
        a \in Items, b \in Items, c \in {<<"b", "?">>, <<"b", "">>}}
    \cup {<<Open, a, Open, b, Close, Close, c>> :
            a \in Items, b \in Items, c \in {<<"b", "*">>, <<".", "-">>}}
Texts == {"", "ab", "bba", "aab", "abab"}

(* find gives the leftmost match, the first of its ways and its captures,     *)
(* whatever captures the matcher had opened and undone before, and an attempt *)
(* that fails leaves the captures as it found them.                           *)
ASSUME PatternMatching ==
    \A pat \in Patterns, text \in Texts :
        /\ str_find_aux(text, PatternText(pat), 1, FALSE, TRUE) = Expected(pat, text)
        /\ \A i \in 1..(Len(text) + 1) :
             LET ms == [MatchState(text, PatternText(pat)) EXCEPT !.cap = <<[init |-> i, len |-> -2]>>]
                 r == match(ms, i, 1)
             IN Failed(r) => r.cap = ms.cap

-----------------------------------------------------------------------------
(* Table stores: each is a key and whether the value is nil.                  *)

Keys == {"1", "2", "3", "5", "'a'", "'b'", "true"}
Stores == Keys \X {"1", "nil"}
StoreToks(st) == <<"t", "[", st[1], "]", "=", st[2]>>
StoreProgram(init, sts) ==
    Program(W("local t =") \o W(init) \o FlattenSeq([i \in DOMAIN sts |-> StoreToks(sts[i])]),
                <<TRUE, <<>>>>)
TableStores ==
    {StoreProgram(i, <<a, b>>) : i \in {"{ }", "{ 1 , 2 , b = 1 }"}, a \in Stores, b \in Stores}
    \cup {StoreProgram("{ }", sts) : sts \in [1..3 -> Keys \X {"1"}]}
    \cup {StoreProgram("{ 1 , nil , 2 , a = 1 , c = 2 }", <<<<k, "nil">>, b, <<l, "1">>>>) :
            k \in Keys, b \in Stores, l \in Keys}

MCPrograms ==
    Statements1 \cup Functions1 \cup Refusals \cup Metamethods \cup Errors \cup Coroutines \cup TableLibrary \cup StringLibrary
    \cup TableStores \cup UNION {InContexts(e) : e \in LogicExpressions \cup LiteralExpressions}
    \cup {ReturnOf(e) : e \in ValueExpressions}
=============================================================================
