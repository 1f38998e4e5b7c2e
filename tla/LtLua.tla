------------------------------- MODULE LtLua -------------------------------
(***************************************************************************)
(* The Lua binding (ltlua.cpp) with what lies behind it: tables that hold   *)
(* tables (set_ud, _release, _clear_value), the conversion of Lua tables,   *)
(* traversal and serialisation, as one script uses them.  Each call of the  *)
(* script is one step.                                                      *)
(*                                                                          *)
(* A Lua value is [t, x]: its type and its contents.  A table value keeps   *)
(* in v the Lua value last written to the union, whatever its type says;    *)
(* reading the union as something else is undefined, and a pointer read     *)
(* that way, one to freed memory, or a write past the end of a buffer, ends *)
(* the process (status "crashed").  misuse records what the script did that *)
(* no document of the repository rules out and the code does not survive.   *)
(* Memory does not run out, and the C stack only when a recursion never     *)
(* ends.                                                                    *)
(***************************************************************************)
EXTENDS LMap, FiniteSets

CONSTANTS
  Tables,         \* addresses new can return for a table
  SetArgs,        \* <<key, value>> pairs the script passes to __newindex
  GetKeys,        \* keys the script passes to __index
  StrLen,         \* characters of each string, up to the first NUL
  LuaTables,      \* its Lua tables, those in others too: sequences of <<key, value>>
  INIT_SIZE,      \* next_prime(DEFAULT_SIZE)
  MAX_HASH_DEPTH,
  BUF_SIZE,       \* capacity of the serialisation buffer, in pieces of text
  TEMP_SIZE,      \* the array temp of _do_serialize (1000)
  LUA_MINSTACK,   \* slots of the Lua stack a C function may use (20)
  MaxSize,        \* bound: the largest hash the model grows to
  MaxSteps,       \* bound: turns of the loops of a delete, convert or serialize
  NoIter          \* no traversal under way

VARIABLES
  tab,            \* the tables: live, ref and map of each address
  mt,             \* light userdata have the metatable ltmeta
  it,             \* the closure of pairs in use: its table, keys and position
  serialed,       \* the global buffer: what serialize() last wrote up to cur
  status,         \* "up" or "crashed"
  misuse,
  dict            \* reference: what the script has stored where

vars == <<tab, mt, it, serialed, status, misuse, dict>>

-----------------------------------------------------------------------------
(* Lua values *)

LNil == [t |-> "nil", x |-> 0]
LNum(n) == [t |-> "number", x |-> n, frac |-> FALSE]
LUd(a) == [t |-> "lightuserdata", x |-> a]

LTypes == [number |-> "NUMBER", boolean |-> "BOOLEAN", string |-> "STRING",
           lightuserdata |-> "UD"]

(* lua_tointeger drops the fraction; the result becomes a size_t. *)
tointeger(key) == ToSize(key.x)

(* _get_key takes numbers and strings only. *)
KeyOK(key) == key.t \in {"number", "string"}
get_key(key) ==
  IF key.t = "number" THEN [type |-> "NUMBER", k |-> tointeger(key)]
                      ELSE [type |-> "STRING", k |-> key.x]

(* What the script has: keys no two of which are equal in a Lua table, none *)
(* of them nil, and values.  Numbers are lua_Integers once their fraction is*)
(* dropped.  Number keys it stores are not negative and no wider than the   *)
(* int of a node; the code does not check that.  Those it reads are any.  A *)
(* Lua table to convert holds no table of the binding.                      *)
ScriptKeys == {arg[1] : arg \in SetArgs} \cup UNION {{e[1] : e \in ToSet(lt)} : lt \in LuaTables}

ASSUME KeyAssumption ==
  /\ \A key \in ScriptKeys :
       /\ key.t # "nil"
       /\ key.t = "string" => key = [t |-> "string", x |-> key.x]
       /\ key.t = "number" =>
            /\ key.x \in 0 .. 2^(IntBits - 1) - 1
            /\ key.frac \in BOOLEAN
            /\ ~key.frac => key = LNum(key.x)
  /\ KeysFit({get_key(key) : key \in {k \in ScriptKeys : KeyOK(k)}})

ASSUME SetArgsAssumption ==
  \A arg \in SetArgs :
    /\ arg = <<arg[1], arg[2]>>
    /\ arg[2].t = "lightuserdata" => arg[2] = LUd(arg[2].x) /\ arg[2].x \in Tables

ASSUME GetKeysAssumption ==
  \A key \in GetKeys :
    /\ key.t = "string" => key.x \in DOMAIN StrHash
    /\ key.t = "number" => key.x \in -(2^(SizeBits - 1)) .. 2^(SizeBits - 1) - 1

ASSUME LuaTablesAssumption ==
  \A lt \in LuaTables :
    /\ lt \in Seq(ToSet(lt))
    /\ \A i, j \in DOMAIN lt : lt[i][1] = lt[j][1] => i = j
    /\ \A e \in ToSet(lt) :
         /\ e = <<e[1], e[2]>>
         /\ e[2].t # "lightuserdata"
         /\ e[2].t = "table" => e[2] = [t |-> "table", x |-> e[2].x] /\ e[2].x \in LuaTables

ASSUME SizeAssumption ==
  /\ INIT_SIZE \in Nat \ {0}
  /\ MAX_HASH_DEPTH \in Nat \ {0}
  /\ MaxSteps \in Nat

ASSUME TextAssumption ==
  /\ TEMP_SIZE \in Nat
  /\ LUA_MINSTACK \in Nat
  /\ \A s \in DOMAIN StrLen : StrLen[s] \in Nat

(* Laws of the powers in use, which the provers do not know. *)
ASSUME PowerAssumption ==
  /\ 2^(IntBits - 1) \in Nat \ {0}
  /\ 2^IntBits = 2 * 2^(IntBits - 1)
  /\ 2^SizeBits \in Int /\ 2^IntBits <= 2^SizeBits

-----------------------------------------------------------------------------
(* Tables *)

NoTable == [live |-> FALSE, ref |-> 0, map |-> NewMap(0)]

(* Mutant: the constructor leaves the count at 0. *)
NewTableUncounted == [live |-> TRUE, ref |-> 0, map |-> NewMap(INIT_SIZE)]

NewTable == [live |-> TRUE, ref |-> 1, map |-> NewMap(INIT_SIZE)]

Live(h) == {a \in Tables : h[a].live}

(* The union holds what the type says. *)
Intact(w) == LTypes[w.v.t] = w.type

(* delete goes down the tree of tables by recursion.  h is the heap in the  *)
(* middle of that: h.tab, whether nothing has crashed, and h.calls, the     *)
(* destructors under way with the position each has reached in its loop.    *)

(* ~table starts: the count is 0, and ~lmap begins with the first node. *)
Destroy(h, a) == [h EXCEPT !.tab[a].ref = 0, !.calls = Append(@, [t |-> a, i |-> 1])]

(* table::_release *)
release(h, a) ==
  IF ~h.tab[a].live THEN [h EXCEPT !.ok = FALSE]
  ELSE IF h.tab[a].ref - 1 # 0 THEN [h EXCEPT !.tab[a].ref = @ - 1]
  ELSE Destroy(h, a)

(* Mutant: sub-tables are left alone. *)
ClearValueString(h, w) == IF w.type = "STRING" /\ ~Intact(w) THEN [h EXCEPT !.ok = FALSE] ELSE h

(* _clear_value: the lstring is freed or the sub-table released. *)
clear_value(h, w) ==
  CASE w.type \in {"STRING", "UD"} /\ ~Intact(w) -> [h EXCEPT !.ok = FALSE]
    [] w.type = "UD" /\ Intact(w) -> release(h, w.v.x)
    [] OTHER -> h

(* Mutant: a node stays in the chain until its value is cleared twice. *)
AdvanceNot(calls) == calls

(* The innermost call goes on to the next node or key. *)
Advance(calls) == [calls EXCEPT ![Len(calls)].i = @ + 1]

(* A turn of the loop of the innermost ~lmap, in bucket order: values with  *)
(* count 1 are cleared, and after the last the table is gone.               *)
DeleteStep(h) ==
  LET c == Last(h.calls)
      nodes == Nodes(h.tab[c.t].map)
      next == [h EXCEPT !.calls = Advance(@)]
  IN  IF h.calls = <<>> \/ ~h.ok THEN h
      ELSE IF c.i > Len(nodes) THEN [h EXCEPT !.tab[c.t] = NoTable, !.calls = Front(@)]
      ELSE IF nodes[c.i].v.ref = 1 THEN clear_value(next, nodes[c.i].v)
      ELSE next

DeleteRun(h, a) ==
  LET run[n \in 0 .. MaxSteps] == IF n = 0 THEN Destroy(h, a) ELSE DeleteStep(run[n - 1])
  IN  run

DeleteTable(a) == DeleteRun([tab |-> tab, ok |-> TRUE, calls |-> <<>>], a)[MaxSteps]

(* _insert_table: the union is written, and a long walk doubles the hash. *)
Grows(m, key) == InsertDepth(m, key) >= MAX_HASH_DEPTH

(* Mutant: the map as it was before the insertion is copied. *)
InsertTableOld(m, key, val) ==
  LET ins == InsertValue(m, key, [ref |-> 0, type |-> LTypes[val.t], v |-> val])
  IN  IF Grows(m, key) THEN CopyMap(NewMap(ins.size * 2), m) ELSE ins

insert_table(m, key, val) ==
  LET ins == InsertValue(m, key, [ref |-> 0, type |-> LTypes[val.t], v |-> val])
  IN  IF Grows(m, key) THEN CopyMap(NewMap(ins.size * 2), ins) ELSE ins

(* set_number, set_boolean and set_ud insert and compare the type           *)
(* afterwards.  set_string looks first: it updates an lstring in place, and *)
(* leaves a key of another type as it is.                                   *)
Setter(m, key, val) ==
  LET old == Search(m, key)
      put == InsertValue(m, key, [ref |-> 0, type |-> LTypes[val.t], v |-> val])
  IN  CASE val.t = "string" /\ old.type = "STRING" ->
             [map |-> put, ret |-> 0, ok |-> Intact(old)]
        [] val.t = "string" /\ old.type \notin {"NIL", "STRING"} ->
             [map |-> m, ret |-> 1, ok |-> TRUE]
        [] OTHER ->
             [map |-> insert_table(m, key, val),
              ret |-> IF old.type \in {"NIL", LTypes[val.t]} THEN 0 ELSE 1,
              ok |-> TRUE]

(* size() *)
Capacity(m) == m.size * MAX_HASH_DEPTH

(* keys(vv, size()) *)
KeysOf(m) == FirstKeys(m, Capacity(m))

-----------------------------------------------------------------------------
(* Reading *)

(* get_type and _get_value: what is pushed for the key; Junk for a number,  *)
(* boolean or pointer made of other bits, Fault where an lstring is         *)
(* dereferenced that is none.                                               *)
Junk == [t |-> "junk", x |-> 0]
Fault == [t |-> "fault", x |-> 0]
get_value(m, key) ==
  LET w == Search(m, key)
  IN  CASE w.type = "NIL" -> LNil
        [] w.type # "NIL" /\ Intact(w) -> w.v
        [] w.type = "STRING" /\ ~Intact(w) -> Fault
        [] OTHER -> Junk

Err == [t |-> "error", x |-> 0]

(* __index (_get): a number is cut to an int and looked up one place lower. *)
(* The type of any other key is not looked at and an uninitialised one is   *)
(* used: Fault stands for whatever that does.                               *)
get(m, key) ==
  CASE key.t = "number" ->
         IF ToInt(key.x) <= 0 THEN Err
         ELSE get_value(m, [type |-> "NUMBER", k |-> ToSize(ToInt(key.x) - 1)])
    [] key.t = "string" -> get_value(m, [type |-> "STRING", k |-> key.x])
    [] OTHER -> Fault

(* _ipairsaux: the next index, an int, with its value, or nothing. *)
ipairsaux(m, i) ==
  LET next == ToInt(i + 1)
      v == get_value(m, [type |-> "NUMBER", k |-> ToSize(next)])
  IN  IF v = LNil THEN <<>> ELSE <<LNum(next), v>>

(* The Lua key _next_map pushes for a key of the array. *)
PushKey(key) ==
  IF key.type = "STRING" THEN [t |-> "string", x |-> key.k] ELSE LNum(key.k)

-----------------------------------------------------------------------------
(* do_convert recurses over nested Lua tables.  L is the Lua stack L.st, the *)
(* heap L.tab, the tables under construction L.calls, from the outermost    *)
(* call in, and whether an error was raised; L.full is what has run out:    *)
(* addresses for tables, or slots of the stack, which no call checks.       *)
(* L.src (history) remembers which Lua table each new table is made from,   *)
(* and for which key of which table.                                        *)

lua_pop(st, n) == SubSeq(st, 1, Len(st) - n)
index2adr(st, idx) == st[Len(st) + idx + 1]
lua_pushvalue(st, idx) == Append(st, index2adr(st, idx))

(* The key on top is replaced by the next key and its value pushed, or it   *)
(* is popped after the last.                                                *)
lua_next(st, idx) ==
  LET entries == index2adr(st, idx).x
      key == index2adr(st, -1)
      i == IF key = LNil THEN 1 ELSE SelectInSeq(entries, LAMBDA e : e[1] = key) + 1
  IN  IF i > Len(entries) THEN [more |-> FALSE, st |-> lua_pop(st, 1)]
      ELSE [more |-> TRUE, st |-> lua_pop(st, 1) \o entries[i]]

FreeTable(h) == CHOOSE a \in Tables : ~h[a].live

NotNew == [new |-> FALSE, lt |-> <<>>, at |-> <<>>]

(* The argument is not among the slots a function may use. *)
Overflows(st) == Len(st) > 1 + LUA_MINSTACK

(* do_convert is called with the Lua table on top of the stack. *)
Call(L) ==
  LET a == FreeTable(L.tab)
      at == IF L.calls = <<>> THEN <<>> ELSE <<Last(L.calls), index2adr(L.st, -2)>>
  IN  IF Overflows(Append(L.st, LNil)) THEN [L EXCEPT !.full = {"slots"}]
      ELSE IF Live(L.tab) = Tables THEN [L EXCEPT !.full = {"tables"}]
      ELSE [L EXCEPT !.tab[a] = NewTable, !.calls = Append(@, a), !.st = Append(@, LNil),
                     !.src[a] = [new |-> TRUE, lt |-> index2adr(L.st, -1).x, at |-> at]]

(* Mutant: the sub-table is deleted once it is stored. *)
ReturnFrees(L) ==
  LET a == Last(L.calls)
      outer == Front(L.calls)
      key == get_key(index2adr(L.st, -2))
  IN  IF outer = <<>> THEN [L EXCEPT !.calls = outer]
      ELSE [L EXCEPT !.tab[Last(outer)].map = Setter(@, key, LUd(a)).map, !.tab[a] = NoTable,
                     !.calls = outer, !.st = lua_pop(@, 3)]

(* Its caller stores the table, whatever set_ud returns. *)
Return(L) ==
  LET a == Last(L.calls)
      outer == Front(L.calls)
      key == get_key(index2adr(L.st, -2))
  IN  IF outer = <<>> THEN [L EXCEPT !.calls = outer]
      ELSE [L EXCEPT !.tab[Last(outer)].map = Setter(@, key, LUd(a)).map,
                     !.calls = outer, !.st = lua_pop(@, 3)]

(* A turn of the loop of the innermost call. *)
ConvertStep(L) ==
  LET a == Last(L.calls)
      nx == lua_next(L.st, -2)
      st == lua_pushvalue(nx.st, -2)
      key == index2adr(st, -1)
      val == index2adr(st, -2)
      S == Setter(L.tab[a].map, get_key(key), val)
  IN  IF L.calls = <<>> \/ L.err \/ L.full # {} THEN L
      ELSE IF ~nx.more THEN Return([L EXCEPT !.st = nx.st])
      ELSE IF Overflows(st) THEN [L EXCEPT !.full = {"slots"}]
      ELSE IF ~KeyOK(key) THEN [L EXCEPT !.err = TRUE]
      ELSE IF val.t = "table" THEN Call([L EXCEPT !.st = lua_pushvalue(st, -2)])
      ELSE IF val.t \notin DOMAIN LTypes THEN [L EXCEPT !.err = TRUE]
      ELSE [L EXCEPT !.tab[a].map = S.map, !.err = S.ret # 0, !.st = lua_pop(st, 2)]

ConvertRun(L) ==
  LET run[n \in 0 .. MaxSteps] == IF n = 0 THEN Call(L) ELSE ConvertStep(run[n - 1])
  IN  run

do_convert(lt) ==
  ConvertRun([st |-> <<[t |-> "table", x |-> lt]>>, tab |-> tab, calls |-> <<>>, err |-> FALSE,
              full |-> {}, src |-> [a \in Tables |-> NotNew]])[MaxSteps]

-----------------------------------------------------------------------------
(* _do_serialize: pieces of text, appended while there is room. *)

(* Mutant: the bound is compared with <=. *)
AddStringOneMore(buf, piece) == IF Len(buf) <= BUF_SIZE THEN Append(buf, piece) ELSE buf

AddString(buf, piece) == IF Len(buf) < BUF_SIZE THEN Append(buf, piece) ELSE buf

Mark(p) == [p |-> p, v |-> LNil]

(* sprintf fills temp with `["`, a string key, `"] = ` and a NUL, then with *)
(* a string value in quotes and a NUL; numbers and booleans are short.      *)
TooLong(key, val) ==
  \/ key.t = "string" /\ StrLen[key.x] + 8 > TEMP_SIZE
  \/ val.t = "string" /\ StrLen[val.x] + 3 > TEMP_SIZE

(* S is the buffer, whether nothing has crashed and the calls under way,    *)
(* each with its place in its array of keys.  A call for a table whose call *)
(* is under way recurses until the C stack ends.                            *)
CallSerialize(S, a) ==
  IF ~tab[a].live \/ \E j \in DOMAIN S.calls : S.calls[j].t = a THEN [S EXCEPT !.ok = FALSE]
  ELSE [S EXCEPT !.buf = AddString(@, Mark("open")), !.calls = Append(@, [t |-> a, i |-> 1])]

EndSerialize(S) ==
  LET outer == Front(S.calls)
      closed == AddString(S.buf, Mark("close"))
  IN  [S EXCEPT !.calls = outer,
                !.buf = IF outer = <<>> THEN closed ELSE AddString(closed, Mark("sep"))]

(* A turn of the loop of the innermost call: a key with its value. *)
SerializeStep(S) ==
  LET c == Last(S.calls)
      m == tab[c.t].map
      k == KeysOf(m)[c.i]
      v == get_value(m, k)
      named == [S EXCEPT !.buf = AddString(@, [p |-> "key", v |-> PushKey(k)]),
                         !.calls = Advance(@)]
  IN  IF S.calls = <<>> \/ ~S.ok THEN S
      ELSE IF c.i > Len(KeysOf(m)) THEN EndSerialize(S)
      ELSE IF v = Fault \/ TooLong(PushKey(k), v) THEN [S EXCEPT !.ok = FALSE]
      ELSE IF Search(m, k).type # "UD"
        THEN [named EXCEPT !.buf = AddString(AddString(@, [p |-> "val", v |-> v]), Mark("sep"))]
      ELSE IF v.t = "lightuserdata" THEN CallSerialize(named, v.x)
      ELSE [S EXCEPT !.ok = FALSE]

SerializeRun(a) ==
  LET run[n \in 0 .. MaxSteps] ==
        IF n = 0 THEN CallSerialize([buf |-> <<>>, ok |-> TRUE, calls |-> <<>>], a)
                 ELSE SerializeStep(run[n - 1])
  IN  run

serialize(a) == SerializeRun(a)[MaxSteps]

-----------------------------------------------------------------------------
TypeOK ==
  /\ \A a \in Tables : tab[a].ref = IF tab[a].live THEN 1 ELSE 0
  /\ mt \in BOOLEAN
  /\ it # NoIter => it.t \in Tables /\ it.pos \in 0 .. Len(it.keys)
  /\ status \in {"up", "crashed"}

Init ==
  /\ tab = [a \in Tables |-> NoTable]
  /\ mt = FALSE
  /\ it = NoIter
  /\ serialed = <<>>
  /\ status = "up"
  /\ misuse = {}
  /\ dict = [a \in Tables |-> <<>>]

Crash == status' = "crashed" /\ UNCHANGED <<tab, mt, it, serialed, dict>>

(* The key pointers a closure of pairs keeps dangle once the nodes of its   *)
(* table are deleted.                                                       *)
Invalidate(gone) ==
  IF it # NoIter /\ it.t \in gone THEN [it EXCEPT !.valid = FALSE] ELSE it

(* The tables stored in a table b of heap h. *)
Stored(h, b) ==
  {n.v.v.x : n \in {n \in ToSet(Nodes(h[b].map)) :
                      n.v.type = "UD" /\ n.v.v.t = "lightuserdata"}}

StoredSomewhere(h) == UNION {Stored(h, b) : b \in Live(h)}

(* The tables reachable from those of S through stored sub-tables. *)
Closed(C) == \A b \in C : Stored(tab, b) \subseteq C

Reach(S) == {x \in Tables : \A C \in SUBSET Tables : S \subseteq C /\ Closed(C) => x \in C}

Note(bad) == misuse' = misuse \cup bad

-----------------------------------------------------------------------------
(* The calls of the script *)

(* create: lua_setmetatable on a light userdata sets the metatable of all. *)
Create(a) ==
  /\ status = "up"
  /\ Live(tab) # Tables
  /\ a = FreeTable(tab)
  /\ tab' = [tab EXCEPT ![a] = NewTable]
  /\ mt' = TRUE
  /\ dict' = [dict EXCEPT ![a] = <<>>]
  /\ it' = Invalidate({a})
  /\ UNCHANGED <<serialed, status, misuse>>

(* A call with a table that has been deleted, or deleted and created again  *)
(* elsewhere, is a call with a wild pointer.                                *)
UseDead(a) ==
  /\ status = "up" /\ mt
  /\ ~tab[a].live
  /\ Note({"dead table"})
  /\ Crash

(* What is wrong with storing val under key in table a. *)
BadSet(a, key, val) ==
  LET old == Search(tab[a].map, get_key(key))
  IN  {bad \in {"other type", "shared", "overwritten", "fraction"} :
         CASE bad = "other type" -> old.type \notin {"NIL", LTypes[val.t]}
           [] bad = "shared" ->
                val.t = "lightuserdata" /\ (val.x \in StoredSomewhere(tab)
                                              \/ ~tab[val.x].live \/ a \in Reach({val.x}))
           [] bad = "overwritten" -> old.type = "UD"
           [] OTHER -> key.t = "number" /\ key.frac}

(* The entries d with val for key. *)
Write(d, key, val) == [k \in DOMAIN d \cup {key} |-> IF k = key THEN val ELSE d[k]]

(* __newindex (_set): the error for the result of the setter is raised when *)
(* the setter is done.                                                      *)
Set(a, key, val) ==
  LET S == Setter(tab[a].map, get_key(key), val)
      grown == S.map.size # tab[a].map.size
  IN  /\ status = "up" /\ mt
      /\ tab[a].live
      /\ KeyOK(key) /\ val.t \in DOMAIN LTypes
      /\ Note(BadSet(a, key, val))
      /\ S.map.size <= MaxSize
      /\ IF S.ok
           THEN /\ tab' = [tab EXCEPT ![a].map = S.map]
                /\ dict' = [dict EXCEPT ![a] =
                              IF S.ret = 0 THEN Write(@, key, val) ELSE @]
                /\ it' = IF grown THEN Invalidate({a}) ELSE it
                /\ UNCHANGED <<mt, serialed, status>>
           ELSE Crash

(* __index and ipairs: nothing changes, unless the union is misread. *)
Read(a, key) ==
  /\ status = "up" /\ mt
  /\ tab[a].live
  /\ get(tab[a].map, key) = Fault
  /\ Note(IF KeyOK(key) THEN {} ELSE {"key type"})
  /\ Crash

(* pairs: the keys are copied into the closure. *)
Pairs(a) ==
  /\ status = "up"
  /\ tab[a].live
  /\ it = NoIter
  /\ it' = [t |-> a, keys |-> KeysOf(tab[a].map), pos |-> 0, valid |-> TRUE]
  /\ UNCHANGED <<tab, mt, serialed, status, misuse, dict>>

(* _pairsaux -> _next_map: key pos and its value; past the last one the     *)
(* position goes back to 0 and the loop ends.                               *)
PairsNext ==
  /\ status = "up"
  /\ it # NoIter
  /\ \/ /\ it.pos >= Len(it.keys)
        /\ it' = NoIter
        /\ UNCHANGED <<tab, mt, serialed, status, misuse, dict>>
     \/ /\ it.pos < Len(it.keys)
        /\ LET key == it.keys[it.pos + 1]
               wild == key.type = "STRING" /\ ~it.valid
           IN  IF wild \/ ~tab[it.t].live \/ get_value(tab[it.t].map, key) = Fault
                 THEN Crash /\ Note(IF it.valid THEN {} ELSE {"changed in pairs"})
                 ELSE /\ it' = [it EXCEPT !.pos = @ + 1]
                      /\ UNCHANGED <<tab, mt, serialed, status, misuse, dict>>

(* convert of one Lua table, with L where do_convert ends: the result has no*)
(* owner but the script; an error leaves what has been built so far.        *)
ConvertEnds(L) ==
  LET New == {a \in Tables : L.src[a].new}
      from(a) == ToSet(L.src[a].lt)
      value(a, e) ==
        IF e[2].t = "table" THEN LUd(CHOOSE b \in New : L.src[b].at = <<a, e[1]>>) ELSE e[2]
      stored(a) ==
        [key \in {e[1] : e \in from(a)} |-> value(a, CHOOSE e \in from(a) : e[1] = key)]
      fraction(a) == \E e \in from(a) : e[1].t = "number" /\ e[1].frac
  IN  /\ status = "up"
      /\ L.full \subseteq {"slots"}
      /\ L.calls = <<>> \/ L.err \/ L.full # {}
      /\ IF L.full # {} THEN Crash /\ Note({"deep nesting"})
         ELSE /\ tab' = L.tab
              /\ Note({bad \in {"convert error", "fraction"} :
                         IF bad = "fraction" THEN \E a \in New : fraction(a) ELSE L.err})
              /\ dict' = [a \in Tables |->
                            IF a \notin New THEN dict[a] ELSE IF L.err THEN <<>> ELSE stored(a)]
              /\ UNCHANGED <<mt, it, serialed, status>>

Convert(lt) == ConvertEnds(do_convert(lt))

(* A text too long for temp in a or a table below it. *)
LongText(a) ==
  \E b \in Reach({a}) : \E key \in DOMAIN dict[b] : TooLong(key, dict[b][key])

(* serialize, with S where _do_serialize ends *)
SerializeEnds(a, S) ==
  /\ status = "up"
  /\ tab[a].live
  /\ S.calls = <<>> \/ ~S.ok
  /\ IF S.ok THEN serialed' = S.buf /\ UNCHANGED <<tab, mt, it, status, misuse, dict>>
             ELSE Crash /\ Note(IF LongText(a) THEN {"long text"} ELSE {})

Serialize(a) == SerializeEnds(a, serialize(a))

(* delete, with h the heap "delete t" leaves *)
DeleteEnds(a, h) ==
  /\ status = "up"
  /\ tab[a].live
  /\ h.calls = <<>> \/ ~h.ok
  /\ Note(IF a \in StoredSomewhere(tab) THEN {"deleted twice"} ELSE {})
  /\ IF h.ok THEN /\ tab' = h.tab
                  /\ it' = Invalidate(Live(tab) \ Live(h.tab))
                  /\ dict' = [b \in Tables |-> IF h.tab[b].live THEN dict[b] ELSE <<>>]
                  /\ UNCHANGED <<mt, serialed, status>>
             ELSE Crash

Delete(a) == DeleteEnds(a, DeleteTable(a))

Next ==
  \/ \E a \in Tables :
       \/ Create(a) \/ UseDead(a) \/ Pairs(a) \/ Serialize(a) \/ Delete(a)
       \/ \E arg \in SetArgs : Set(a, arg[1], arg[2])
       \/ \E key \in GetKeys : Read(a, key)
  \/ \E lt \in LuaTables : Convert(lt)
  \/ PairsNext

Spec == Init /\ [][Next]_vars

-----------------------------------------------------------------------------
(* Properties *)

(* A script that keeps to one type per key, whole numbers and one owner per *)
(* sub-table, converts no table nested too deep for the Lua stack and       *)
(* serialises no text too long for temp does not bring the process down.    *)
OnlyMisuseCrashes == status = "crashed" => misuse # {}

(* keys() stops one short of size(). *)
Full(m) == Len(Nodes(m)) >= Capacity(m)

(* What __newindex or convert stored is what a script reads: a string key   *)
(* through __index, a number i through __index at i + 1 and through ipairs  *)
(* at i, and pairs visits every stored key once and no other, unless the    *)
(* table is full.  The greatest int has no successor: __index finds an error*)
(* there.                                                                   *)
ReadBack ==
  misuse = {} =>
    \A a \in Live(tab) :
      LET m == tab[a].map
          keys == KeysOf(m)
      IN  /\ \A key \in DOMAIN dict[a] :
               IF key.t = "string" THEN get(m, key) = dict[a][key]
               ELSE /\ get(m, LNum(key.x + 1)) =
                         IF key.x = 2^(IntBits - 1) - 1 THEN Err ELSE dict[a][key]
                    /\ ipairsaux(m, key.x - 1) = <<key, dict[a][key]>>
          /\ {PushKey(keys[i]) : i \in DOMAIN keys} \subseteq DOMAIN dict[a]
          /\ ~Full(m) =>
               DOMAIN dict[a] \subseteq {PushKey(keys[i]) : i \in DOMAIN keys}
          /\ IsInjective(keys)

(* A stored sub-table is alive as long as the table that holds it: set_ud   *)
(* takes no reference, so this rests on the one owner a script gives it.    *)
NoDangling == misuse = {} => StoredSomewhere(tab) \subseteq Live(tab)

(* delete frees the table and everything it owns, at any depth, and nothing *)
(* else.                                                                    *)
DeleteFreesTree ==
  [][\A a \in Tables :
       misuse' = {} /\ Delete(a) => Live(tab) \ Live(tab') = Reach({a})]_vars

(* How many braces are open before piece i. *)
Level(buf, i) ==
  Len(SelectSeq(SubSeq(buf, 1, i - 1), LAMBDA p : p.p = "open"))
    - Len(SelectSeq(SubSeq(buf, 1, i - 1), LAMBDA p : p.p = "close"))

(* serialize writes a text that fits in full: the braces match, the entries *)
(* of the table itself are its keys, each once and with its value, and so   *)
(* are those of every table below it; a full table lacks the keys past the  *)
(* size() - 1 that keys() returns, and what is below them.  A text that does*)
(* not fit fills the buffer and no more.                                    *)
SerializedText ==
  [][\A a \in Tables :
       status' = "up" /\ misuse = {} /\ Serialize(a) =>
         LET buf == serialed'
             at(i, p) == i \in DOMAIN buf /\ buf[i].p = p
             own == {i \in DOMAIN buf : at(i, "key") /\ Level(buf, i) = 1}
             m == tab[a].map
         IN  \/ Len(buf) = BUF_SIZE
             \/ /\ Level(buf, Len(buf) + 1) = 0
                /\ {buf[i].v : i \in own} \subseteq DOMAIN dict[a]
                /\ \A i, j \in own : buf[i].v = buf[j].v => i = j
                /\ Cardinality(own) =
                     IF Full(m) THEN Capacity(m) - 1 ELSE Cardinality(DOMAIN dict[a])
                /\ \A i \in own :
                     LET v == dict[a][buf[i].v]
                     IN  IF v.t = "lightuserdata" THEN at(i + 1, "open")
                         ELSE at(i + 1, "val") /\ buf[i + 1].v = v
                /\ (\A b \in Reach({a}) : ~Full(tab[b].map)) =>
                     Len(SelectSeq(buf, LAMBDA p : p.p = "key"))
                       = FoldFunctionOnSet(+, 0, [b \in Tables |-> Cardinality(DOMAIN dict[b])],
                                           Reach({a}))]_vars
=============================================================================
