------------------------------ MODULE LuaTabLib ------------------------------
(* The table library (ltablib.c) apart from its calls of Lua functions, which *)
(* LuaDo makes.  T is a table with its reference: t the table of LuaTable, r  *)
(* the function it stands for.                                                *)
EXTENDS LuaTable

RefSet(r, key, v) ==
    IF IsNil(v) THEN Restrict(r, DOMAIN r \ {key}) ELSE (key :> v) @@ r

rawgeti(T, i) == luaH_getnum(T.t, i)
rawseti(T, i, v) == [t |-> luaH_setnum(T.t, i, v), r |-> RefSet(T.r, Num(i), v)]
getn(T) == luaH_getn(T.t)

UpTo(i, j) == [n \in 1..(j - i + 1) |-> i + n - 1]
DownTo(j, i) == [n \in 1..(j - i + 1) |-> j - n + 1]

(* t[to] = t[from] for each to in turn, where from is to + by.                *)
Shift(T, order, by) == FoldLeft(LAMBDA X, to : rawseti(X, to, rawgeti(X, to + by)), T, order)

(* insert(t, v) and insert(t, pos, v): a position past the end leaves a hole. *)
tinsert(T, pos, v) ==
    LET n == getn(T) + 1
        e == IF pos > n THEN pos ELSE n
    IN rawseti(Shift(T, DownTo(e, pos + 1), -1), pos, v)

tremove(T, pos) ==
    LET e == getn(T) IN rawseti(Shift(T, UpTo(pos, e - 1), 1), e, Nil)

(* The values from i to j as one string; an element that is none fails.       *)
addfield(T, b, i) == b \o tostring(rawgeti(T, i))[2]
tconcat(T, sep, i, j) ==
    FoldLeft(LAMBDA b, n : addfield(T, IF n = i THEN b ELSE b \o sep, n), "", UpTo(i, j))
Concatenable(T, i, j) == \A n \in i..j : IsString(rawgeti(T, n))

(* The largest number among the keys next visits, or 0.                       *)
RECURSIVE MaxFrom(_, _, _)
MaxFrom(T, key, max) ==
    LET kv == luaH_next(T.t, key)
        up == kv # <<>> /\ TypeOf(kv[1]) = "number" /\ kv[1][2] > max
    IN IF kv = <<>> THEN max ELSE MaxFrom(T, kv[1], IF up THEN kv[1][2] ELSE max)
maxn(T) == MaxFrom(T, Nil, 0)

-----------------------------------------------------------------------------
(* auxsort, stopped at each comparison: [T, at, l, u, i, j, P, x, y, todo],   *)
(* where at says which one comes next ("done", "invalid": none), P is the     *)
(* pivot, x and y the elements auxsort holds on its stack while a comparison  *)
(* runs, todo the ranges left to the callers and to the next turn of the loop.*)

RECURSIVE NextRange(_, _)
NextRange(st, todo) ==             \* while (l < u)
    LET l == Head(todo)[1]
        u == Head(todo)[2]
    IN IF todo = <<>> THEN [st EXCEPT !.at = "done"]
       ELSE IF l >= u THEN NextRange(st, Tail(todo))
       ELSE [st EXCEPT !.at = "ends", !.l = l, !.u = u, !.todo = Tail(todo),
                       !.x = rawgeti(st.T, l), !.y = rawgeti(st.T, u)]
auxsort(T) ==
    NextRange([T |-> T, at |-> "", l |-> 1, u |-> 0, i |-> 0, j |-> 0, P |-> Nil, x |-> Nil,
            y |-> Nil, todo |-> <<>>], <<<<1, getn(T)>>>>)

(* The values whose order the next comparison asks for.                       *)
Compared(st) ==
    CASE st.at \in {"ends", "right"} -> <<st.y, st.x>>
      [] st.at = "left" -> <<st.x, st.y>>
      [] st.at = "up" -> <<st.x, st.P>>
      [] st.at = "down" -> <<st.P, st.y>>

set2(st, i, j) == [st EXCEPT !.T = rawseti(rawseti(@, i, st.y), j, st.x)]
Swap(st, i, j) == set2([st EXCEPT !.x = rawgeti(st.T, i), !.y = rawgeti(st.T, j)], i, j)
Up(st) == [st EXCEPT !.at = "up", !.i = @ + 1, !.x = rawgeti(st.T, st.i + 1)]
Down(st) == [st EXCEPT !.at = "down", !.j = @ - 1, !.y = rawgeti(st.T, st.j - 1)]

Middle(st) ==
    LET i == (st.l + st.u) \div 2 IN
    IF st.u - st.l = 1 THEN NextRange(st, st.todo)
    ELSE [st EXCEPT !.at = "left", !.i = i, !.x = rawgeti(st.T, i), !.y = rawgeti(st.T, st.l)]
Pivot(st) ==
    LET s == Swap(st, st.i, st.u - 1) IN
    IF st.u - st.l = 2 THEN NextRange(st, st.todo)
    ELSE Up([s EXCEPT !.P = rawgeti(st.T, st.i), !.i = st.l, !.j = st.u - 1])
(* The pivot goes to its place; the smaller part is sorted first.             *)
Split(st) ==
    LET s == Swap(st, st.u - 1, st.i)
        low == <<st.l, st.i - 1>>
        high == <<st.i + 1, st.u>>
    IN NextRange(s, (IF st.i - st.l < st.u - st.i THEN <<low, high>> ELSE <<high, low>>) \o st.todo)

(* What auxsort does with the answer of a comparison.                         *)
Answered(st, yes) ==
    CASE st.at = "ends" -> Middle(IF yes THEN set2(st, st.l, st.u) ELSE st)
      [] st.at = "left" -> IF yes THEN Pivot(set2(st, st.i, st.l))
                           ELSE [st EXCEPT !.at = "right", !.y = rawgeti(st.T, st.u)]
      [] st.at = "right" -> Pivot(IF yes THEN set2(st, st.i, st.u) ELSE st)
      [] st.at = "up" -> IF ~yes THEN Down(st)
                         ELSE IF st.i > st.u THEN [st EXCEPT !.at = "invalid"] ELSE Up(st)
      [] st.at = "down" -> IF yes
                           THEN IF st.j < st.l THEN [st EXCEPT !.at = "invalid"] ELSE Down(st)
                           ELSE IF st.j < st.i THEN Split(st) ELSE Up(set2(st, st.i, st.j))
=============================================================================
