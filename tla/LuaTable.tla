------------------------------- MODULE LuaTable -------------------------------
(* Lua tables (ltable.c): an array part and a hash part of chained nodes with *)
(* Brent's variation.  A table is a record                                    *)
(*   array, node  the two parts; a node is [key, val, next], next 0 is NULL   *)
(*   dummy        the hash part is the shared dummynode                       *)
(*   lastfree     every node at or after this position has been taken         *)
(*   mt, flags    the metatable (0 for none), the metamethods cached as absent*)
(* Nodes count from 1 here.  Values that end up in no variable of a table     *)
(* (luaO_nilobject) read as nil.                                              *)
EXTENDS LuaObject, SequencesExt, FiniteSetsExt

CONSTANT StrHash(_),    \* the hash of a string, fixed when it is created
         MAX_INT        \* the largest int

FastEvents == {"__index", "__newindex", "__gc", "__mode", "__eq"}

-----------------------------------------------------------------------------
(* Hashing.  hashnum adds the two words of the double: for an integer below   *)
(* 2^20 the low word is 0 and the high one holds sign, exponent and mantissa. *)

Log2(n) == CHOOSE e \in 0..20 : Power(2, e) <= n /\ n < Power(2, e + 1)
HighWord(n) == LET e == Log2(n) IN (1023 + e) * Power(2, 20) + (n - Power(2, e)) * Power(2, 20 - e)

hashnum(n, size) ==
    LET m == IF size = 1 THEN 1 ELSE size - 1       \* (size - 1) | 1
        sign == IF n < 0 THEN 2 * (Power(2, 30) % m) ELSE 0
    IN IF n = 0 THEN 1 ELSE 1 + ((sign + (HighWord(IF n < 0 THEN -n ELSE n) % m)) % m)

mainposition(t, key) ==
    LET size == Len(t.node) IN
    CASE TypeOf(key) = "number" -> hashnum(key[2], size)
      [] TypeOf(key) = "string" -> 1 + (StrHash(key[2]) % size)
      [] TypeOf(key) = "boolean" -> 1 + ((IF key[2] THEN 1 ELSE 0) % size)
      [] OTHER -> 1 + (key[2] % (IF size = 1 THEN 1 ELSE size - 1))

(* The node of key in the chain that starts at n, or 0.                       *)
RECURSIVE InChain(_, _, _)
InChain(t, key, n) ==
    IF n = 0 THEN 0
    ELSE IF t.node[n].key = key THEN n ELSE InChain(t, key, t.node[n].next)
FindNode(t, key) == InChain(t, key, mainposition(t, key))

arrayindex(key) == IF TypeOf(key) = "number" THEN key[2] ELSE -1
InArray(t, key) == arrayindex(key) \in 1..Len(t.array)

luaH_get(t, key) ==
    IF IsNil(key) THEN Nil
    ELSE IF InArray(t, key) THEN t.array[key[2]]
    ELSE LET n == FindNode(t, key) IN IF n = 0 THEN Nil ELSE t.node[n].val
luaH_getnum(t, i) == luaH_get(t, Num(i))

Present(t, key) == InArray(t, key) \/ FindNode(t, key) # 0
SetVal(t, key, v) ==
    IF InArray(t, key) THEN [t EXCEPT !.array[key[2]] = v]
    ELSE [t EXCEPT !.node[FindNode(t, key)].val = v]

-----------------------------------------------------------------------------
(* Traversal.  next(t, key) is <<k, v>>, <<>> at the end; an unknown key is   *)
(* the error "invalid key to 'next'", BadKey.                                 *)

BadKey == <<"invalid key">>

findindex(t, key) ==
    IF IsNil(key) THEN 0
    ELSE IF InArray(t, key) THEN key[2]
    ELSE LET n == FindNode(t, key) IN IF n = 0 THEN -1 ELSE Len(t.array) + n

luaH_next(t, key) ==
    LET i == findindex(t, key)
        ValueAt(j) == IF j <= Len(t.array) THEN t.array[j] ELSE t.node[j - Len(t.array)].val
        KeyAt(j) == IF j <= Len(t.array) THEN Num(j) ELSE t.node[j - Len(t.array)].key
        rest == {j \in (i + 1)..(Len(t.array) + Len(t.node)) : ~IsNil(ValueAt(j))}
    IN IF i < 0 THEN BadKey
       ELSE IF rest = {} THEN <<>> ELSE <<KeyAt(Min(rest)), ValueAt(Min(rest))>>

-----------------------------------------------------------------------------
(* Sizes.                                                                     *)

setarrayvector(t, size) ==
    [t EXCEPT !.array = SubSeq(@, 1, Min({size, Len(@)})) \o Fill(size - Len(@), Nil)]

setnodevector(t, size) ==
    LET n == IF size = 0 THEN 1 ELSE Power(2, ceillog2(size)) IN
    [t EXCEPT !.node = Fill(n, [key |-> Nil, val |-> Nil, next |-> 0]),
              !.dummy = size = 0,
              !.lastfree = IF size = 0 THEN 1 ELSE n + 1]

luaH_new(narray, nhash) ==
    setnodevector(setarrayvector([array |-> <<>>, node |-> <<>>, dummy |-> TRUE,
                                  lastfree |-> 1, mt |-> 0, flags |-> FastEvents],
                                 narray), nhash)

(* The positive integer keys in use, and how many of them the best array part *)
(* holds: the largest power of two more than half of whose slots are used.    *)
UsedInts(t) ==
    {i \in DOMAIN t.array : ~IsNil(t.array[i])}
    \cup {arrayindex(t.node[n].key) : n \in {m \in DOMAIN t.node : ~IsNil(t.node[m].val)}}
IntKeys(t, extra) == {i \in UsedInts(t) \cup {arrayindex(extra)} : i > 0}
Below(keys, n) == Cardinality({i \in keys : i <= n})

computesizes(keys) ==
    LET narray == Cardinality(keys)
        fits == {Power(2, i) : i \in {j \in 0..20 : /\ Power(2, j) \div 2 < narray
                                                    /\ Below(keys, Power(2, j)) > Power(2, j) \div 2}}
    IN IF fits = {} THEN 0 ELSE Max(fits)

TotalUse(t) ==
    Cardinality({i \in DOMAIN t.array : ~IsNil(t.array[i])})
    + Cardinality({n \in DOMAIN t.node : ~IsNil(t.node[n].val)})

RECURSIVE luaH_set(_, _)

(* Re-inserts the elements that no longer fit the array part, upwards, then   *)
(* those of the old hash part, downwards.                                     *)
resize(t, nasize, nhsize) ==
    LET fresh == setnodevector(setarrayvector(t, nasize), nhsize)
        slice == SelectSeq([i \in 1..Len(t.array) |-> [key |-> Num(i), val |-> t.array[i]]],
                           LAMBDA n : n.key[2] > nasize)
        moved == SelectSeq(slice \o Reverse(t.node), LAMBDA n : ~IsNil(n.val))
    IN FoldLeft(LAMBDA r, n : SetVal(luaH_set(r, n.key), n.key, n.val), fresh, moved)

luaH_resizearray(t, nasize) == resize(t, nasize, IF t.dummy THEN 0 ELSE Len(t.node))

rehash(t, ek) ==
    LET keys == IntKeys(t, ek)
        n == computesizes(keys)
    IN resize(t, n, TotalUse(t) + 1 - Below(keys, n))

-----------------------------------------------------------------------------
(* Insertion.                                                                 *)

getfreepos(t) ==
    LET free == {n \in DOMAIN t.node : n < t.lastfree /\ IsNil(t.node[n].key)} IN
    IF free = {} \/ t.dummy THEN 0 ELSE Max(free)

RECURSIVE Previous(_, _, _)     \* the node before mp in the chain from n
Previous(t, n, mp) == IF t.node[n].next = mp THEN n ELSE Previous(t, t.node[n].next, mp)

NewkeyUnchained(t0, key) ==     \* a fault: the moved node is not linked in its own chain
    LET mp == mainposition(t0, key)
        n == getfreepos(t0)
        t == [t0 EXCEPT !.lastfree = n]
        othern == mainposition(t, t.node[mp].key)
    IN IF IsNil(t0.node[mp].val) /\ ~t0.dummy THEN [t0 EXCEPT !.node[mp].key = key]
       ELSE IF n = 0 THEN luaH_set(rehash(t, key), key)
       ELSE IF othern # mp
       THEN [t EXCEPT !.node[n] = t.node[mp],
                      !.node[mp] = [key |-> key, val |-> Nil, next |-> 0]]
       ELSE [t EXCEPT !.node[n] = [key |-> key, val |-> Nil, next |-> t.node[mp].next],
                      !.node[mp].next = n]
newkey(t0, key) ==
    LET mp == mainposition(t0, key)
        n == getfreepos(t0)
        t == [t0 EXCEPT !.lastfree = n]
        othern == mainposition(t, t.node[mp].key)
        taken == ~IsNil(t0.node[mp].val) \/ t0.dummy
    IN IF ~taken THEN [t0 EXCEPT !.node[mp].key = key]
       ELSE IF n = 0 THEN luaH_set(rehash(t, key), key)
       ELSE IF othern # mp      \* the colliding node is not at home: it moves
       THEN [t EXCEPT !.node[Previous(t, othern, mp)].next = n,
                      !.node[n] = t.node[mp],
                      !.node[mp] = [key |-> key, val |-> Nil, next |-> 0]]
       ELSE [t EXCEPT !.node[n] = [key |-> key, val |-> Nil, next |-> t.node[mp].next],
                      !.node[mp].next = n]

(* luaH_set makes room for key; the caller stores through SetVal.             *)
luaH_set(t, key) ==
    LET c == [t EXCEPT !.flags = {}] IN IF Present(t, key) THEN c ELSE newkey(c, key)
luaH_setnum(t, i, v) ==
    LET r == IF Present(t, Num(i)) THEN t ELSE newkey(t, Num(i)) IN SetVal(r, Num(i), v)
luaH_setstr(t, s, v) ==
    LET r == IF Present(t, Str(s)) THEN t ELSE newkey(t, Str(s)) IN SetVal(r, Str(s), v)

-----------------------------------------------------------------------------
(* The length: some n with t[n] set and t[n + 1] nil, by binary search.       *)

RECURSIVE Bisect(_, _, _)
Bisect(t, i, j) ==
    LET m == (i + j) \div 2 IN
    IF j - i <= 1 THEN i
    ELSE IF IsNil(luaH_getnum(t, m)) THEN Bisect(t, i, m) ELSE Bisect(t, m, j)

RECURSIVE Linear(_, _)
Linear(t, i) == IF IsNil(luaH_getnum(t, i)) THEN i - 1 ELSE Linear(t, i + 1)

RECURSIVE unbound_search(_, _, _)
unbound_search(t, i, j) ==
    IF IsNil(luaH_getnum(t, j)) THEN Bisect(t, i, j)
    ELSE IF 2 * j > MAX_INT THEN Linear(t, 1)
    ELSE unbound_search(t, j, 2 * j)

luaH_getn(t) ==
    LET j == Len(t.array) IN
    IF j > 0 /\ IsNil(t.array[j]) THEN Bisect(t, 0, j)
    ELSE IF t.dummy THEN j
    ELSE unbound_search(t, j, j + 1)
=============================================================================
