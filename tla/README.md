# lighttable in TLA+

lighttable is a C++ hash table of typed values (number, boolean, string,
sub-table) that several Lua states in one process can share. The repository
ships the sources of Lua 5.1.4, which the program is linked with. This directory
models the table, its Lua binding and the core of the Lua runtime under it (the
collector, the compiler, tables, calls and coroutines, the virtual machine),
checks the models with TLC and proves with TLAPS the main safety properties of the
table, of its concurrent protocols and of its Lua binding.

## 1. Inventory

| Component | Code | State | Operations |
|---|---|---|---|
| String values | `lighttable.cpp` (`value_string`, `get_string`, `_grab_string`, `_release_string`, `_update_string`), `ltutil.cpp` (`new_string`, `_clear_value`), `lstruct.h` | `lstring {lock, slot}`, `string_slot {ref, sz, buf}` | read through a callback, return a pointer, replace, clear |
| Hash map | `lmap.cpp`, `ltutil.cpp` (`hash_str`, `hash_num`, `cmp_string`) | buckets of chained nodes, `index`, `ref`; each value has a `ref` of its own | search, insert, copy into a larger map, destroy |
| Table, one thread | `lighttable.cpp`, `lighttable.h` | `map` | typed setters and getters, `size`, `keys`, growth, delete |
| Table shared by threads | the same functions | `lock`, `map_lock`, `map`, `lmap.ref` | `_grab_map`, `_release_map`, `_search_map`, `_insert_table`, `_expand_hash`, `_update_map` |
| Sub-table ownership | `_release`, `grab`, `getref`, `set_ud`, `_clear_value` of `LT_UD` | `table.ref` | share and give back a table |
| Serialisation | `serialize`, `_do_serialize`, `_add_string_to_buff`, `get_serialed` | one global buffer | write a table as Lua text |
| Lua binding | `ltlua.cpp` | userdata, the closures of `pairs` / `ipairs` | `__index`, `__newindex`, `pairs`, `ipairs`, `size`, `create`, `delete` |
| Conversion | `ltlua.cpp` (`do_convert`) | the Lua stack | build a table from a Lua table |
| Utilities | `ltutil.cpp` | none | primes, comparison, copying |
| Memory pool | `memory_pool/` | free list | `get_block`, `free_block`; nothing else uses it |
| Programs | `main.cpp`, `luamain.cpp`, `test.lua` | none | drivers |
| Lua: collector and heap | `lgc.c`, `lapi.c`, `lfunc.c`, `lstring.c` | objects with colours, the lists that own them, gray lists, collector state | API calls that create objects and store references; collector steps; finalizers |
| Lua: compiler | `lparser.c`, `lcode.c`, `ldebug.c` | a `FuncState` per function being compiled | one pass over the tokens, code as it goes |
| Lua: tables | `ltable.c` | array part, hash part of chained nodes | get, set, rehash, next, length |
| Lua: calls and metamethods | `ldo.c`, `lfunc.c`, `ltm.c`, `lvm.c` | per thread: stack, CallInfos, counters, open upvalues; the C stack | call, return, error, resume, yield |
| Lua: virtual machine | `lvm.c` (`luaV_execute`) | `pc`, `base` | one per opcode |
| Lua: libraries | `lbaselib.c`, `ltablib.c`, `lstrlib.c` and others | none of their own | functions called from Lua |

**How the parts interact.** The binding calls the table's setters and getters.
A setter holds the table's spin lock `lock` through `_insert_table`, and when
the chain it walked is as long as `MAX_HASH_DEPTH` it copies the map into one
of twice the size and swaps it in under `map_lock`. A getter never takes
`lock`: it counts itself into the current `lmap` under `map_lock`, walks it,
counts itself out *without* a lock, and starts again if `table.map` has
changed. A string value adds a second protocol of the same kind one level down
(an `lstring` with a lock and a counted slot), with atomic counters this time.
A copied map shares the `lstring`s of its values with the map it was copied
from; the `ref` in each value decides which of the two destructors frees them.

**What is hard here.** Two hand-written reference counts, one atomic and one
not, racing with replacement; a reader on a map that is no longer current; the
retry loop; shared ownership of strings by two maps during a growth; number
keys that pass through `size_t -> int -> size_t`; `size()` being a capacity
and not a count; setters that write before they check the type; sub-tables that
are stored without being counted; arrays of pointers into nodes that `pairs`
keeps across calls. In Lua: a collector whose steps run between any two stores
and which relies on a barrier at each of them; strings, upvalues and userdata
that come back to life between marking and sweeping; code that is emitted before
its context is known; a C stack, CallInfos and counters that an error unwinds
together and a yield only in part.

**What makes each part correct.**
- *String values*: no slot is used after it is freed, freed twice or leaked; a
  text is stable while it is held; replaced slots and the lock are given back.
- *Hash map and table*: a getter returns what was last set, through any growth;
  one node per key; a key keeps its type; an `lstring` lives exactly as long
  as it should; `keys` reports every key.
- *Shared table*: the map a thread walks is allocated, and so is the current
  map; the locks exclude; to its callers the table is an atomic dictionary;
  reads return.
- *Binding, ownership, conversion, serialisation*: what a script stored it reads
  back; a stored sub-table lives as long as its owner and `delete` frees exactly
  the tree below a table; the text is complete, full tables apart, or fills the buffer;
  the process survives every script that commits no named misuse, as long as there is memory.
- *Collector*: nothing reachable is freed; finalizers run once and only for what
  is dead; a full collection frees all garbage.
- *Compiler and interpreter*: a program gives what the manual says it gives, no
  assertion of `lua_assert` fails, the stacks agree after errors and yields; a
  table is the function its stores made of it.

The full list of hazards, each at its line, is in `PROJECT.json`.

## 2. Modules

| Module | Models |
|---|---|
| `LString` | one string value and the threads that read and replace it |
| `LMap` | `class lmap` as a value: hashing, search, insertion, copying, destruction, with integer widths |
| `TableSeq` | the table used by one thread, one step per call; EXTENDS `LMap` |
| `LightTable` | the table shared by threads, one step per shared access; EXTENDS `LMap` |
| `AtomicTable` | the abstract specification of the shared table: an atomic dictionary |
| `LStringProofs`, `LightTableProofs`, `LMapProofs`, `TableSeqProofs`, `LtLuaProofs` | theorems and proofs about the module named |
| `LightTableDataProofs` | proofs about the contents of the shared table's maps and the calls that walk them; EXTENDS `LightTableProofs`, `LMapProofs` |
| `LightTableRefinement` | the proof that `LightTable` with one reader implements `AtomicTable`; EXTENDS `LightTableDataProofs` |
| `DataInduction` | induction over numbers and finite sets in a form the provers can use; the fold behind `Nodes` |
| `LtLua` | the binding as one script uses it: `ltlua.cpp`, trees of tables, conversion, traversal, serialisation; EXTENDS `LMap` |
| `LuaHeap` | the heap: `lgc.c` against the API calls that create and link objects |
| `LuaObject` | values and numerals, the floating-point byte (`lobject.c`) |
| `LuaCode` | the code generator (`lcode.c`) as operators on a compiler state |
| `LuaDebug` | the code checker (`luaG_checkcode`) |
| `LuaParser` | the parser (`lparser.c`), which drives the code generator |
| `LuaTable` | `ltable.c` |
| `LuaTabLib`, `LuaStrLib` | the table library; the string library with its pattern matcher |
| `LuaDo` | calls, errors, coroutines, upvalues, metamethods, and the library functions that call back; EXTENDS the `Lua...` modules above except `LuaHeap` |
| `LuaVM` | `luaV_execute`, one action per opcode and per step of C code between two; EXTENDS `LuaDo` |
| `MCLString`, `MCTableSeq`, `MCLightTable`, `MCLtLua`, `MCLuaHeap`, `MCLuaVM` | instances for TLC |

Operators with the comment "Mutant:" are deliberately wrong variants
of the action that follows them. No specification uses them; `PROJECT.json`
names the property that each one breaks when it replaces its original.

### Correspondence with the code

`PROJECT.json` maps every definition to its lines. The conventions:

- A thread is in one call at a time; `pc[t]` names its next access to shared
  memory by a prefix for the function (`gm_` = `_grab_map`, `rm_` =
  `_release_map`, `um_` = `_update_map`, `tl_` = the table lock, `gs_`, `rs_`,
  `us_`, `vs_` the string functions). Locals of the C++ functions are
  functions of the thread.
- `__sync_lock_test_and_set` in a loop is a step enabled when the lock is 0;
  taking a turn of the loop changes nothing and is a stuttering step.
- `__sync_add_and_fetch(&map_ref, 1)` in `_grab_map` works on a *local* copy, so
  in `LightTable` reading the count and storing it are separate steps. In
  `LString` the built-ins work on the shared counter and are one step.
- `_release_map` stores the count through `this->map`, not through the map it
  was given: `ReleaseMap` loads that pointer, `ReleaseSet` stores through
  it, whatever has happened to the map in between. `_update_map` decrements
  a local only, so a map that a reader holds at the swap is never deleted (its
  count stays 2): the model keeps it allocated.
- `Insert` is one step: only the owner of the table lock changes chains, and
  its effect on readers is a single store (the union of a node, or the link to
  a finished node).
- Memory order is program order, one step per access. The code relies on that
  (it has no fences beyond the `__sync` built-ins); it is what x86 gives to its
  plain loads and stores apart from a delayed store, and the locks flush those.
- In `LightTable` a thread that should walk, extend or copy a deleted map
  stops, and `NoUseAfterFree` names the state; a failed assertion also stops
  its thread. In `TableSeq` a dereference of a number as an `lstring`
  is `status = "crashed"`.
- The string hash is a constant function `StrHash` (any function will do for the
  properties); the mask with `size - 1`, which is not a remainder for sizes that are
  no powers of two, is modelled.

In `LtLua` a call of the script is one step, whatever it calls in turn. A pointer
to freed memory, a number read as a pointer, or a write past the end of a buffer ends the
process (`status = "crashed"`). `misuse` records what a script did that no document of the repository
rules out and that the code does not survive, or that makes what it stores
ambiguous: a second type for a key, a sub-table stored twice, in itself, after
its deletion or overwritten, a fraction or a boolean as a key, a change during
`pairs`, a failed `convert`, a second `delete`, and two limits that the code does not check:
a string key or value that, with what `_do_serialize` puts around it, is longer than the array
`temp` of `lighttable.cpp:406` (992 or 997 characters; `"long text"`), and Lua tables
nested so deep that `do_convert` runs past the slots of the Lua stack that a C function may use (it calls no
`luaL_checkstack` and takes four slots per level, so five levels fit; `"deep nesting"`). Memory is assumed not to run
out, and the C stack only when a recursion does not end. The properties are about scripts without
misuse; behaviours go on after it. A number a script passes is a `lua_Integer` of `size_t`'s width;
`_get` cuts it to an `int` and looks one place lower, `_ipairsaux` counts in an `int`. `dict` is a history variable: what the
script has stored so far. The functions of the code that recurse over trees of tables
(`delete` through `_clear_value`, `do_convert`, `_do_serialize`) are written as their loops, with the
calls under way in a sequence: `DeleteStep`, `ConvertStep` and `SerializeStep` are one turn of
the innermost loop, `DeleteRun`, `ConvertRun` and `SerializeRun` the turns from the call on,
in the order of the recursion. A call of the script is all the turns; `MaxSteps`
bounds them.

In `LuaHeap` the heap is one record and every function of `lgc.c` an operator on it
with the source's name. The collector runs between two calls of the API; within
one, `luaC_checkGC` comes before the new object is linked, so this is where its
steps are. A finalizer is a stretch of API calls that starts with `GCTM` and ends
with `Return`. The collector does not step inside it (the code raises the
threshold for that time) and finalizers raise no errors.

In `LuaVM` a behaviour takes a program (a sequence of tokens), compiles it in the
first step and then executes an opcode per step. The compiler is the constant `Compile`, which
the run sets to `luaY_parser`. C code between two instructions runs in steps of its own:
what comes next is in `m.next`, and the actions `FunctionCalled` (`luaD_precall`), `CFunction`,
`CFunctionReturns`, `CallerContinues` (what the caller of `luaD_call`, `lua_pcall` or
`lua_resume` does when it returns), `SortContinues`, `ErrorRaised` and `ErrorThrown` do it. Only one
thread of control exists, so the grain of the steps hides no interleaving; it is the
grain at which the stacks are compared. The C stack of the interpreter is explicit
(`m.cs`: activations of `luaV_execute`, `luaD_call`, `lua_pcall`, `lua_resume`), so that an error can
cut it back as `longjmp` does and a yield can leave `luaV_execute`. Numbers are integers and
programs divide exactly. An error message is one value, `ErrorMsg`. `m.ref` is a
history variable: for each table, the plain function its stores make of it.

## 3. Runs

| Run | Question | Result |
|---|---|---|
| `lstring` | 3 threads, 3 slots, 2 texts: every interleaving of reads, updates and the final clear | safety, `HeldTextStable`, `SupersededIsFreed`, `LockIsReleased` hold |
| `table_seq` | 6 keys (4 numbers, 2 strings) through growths 1 → 2 → 4 → 8 → 16 | the inductive invariant `TableInv`; getters agree with a reference dictionary; one node per key; strings freed exactly once; types stick |
| `keys_drops_key` | does `keys(vv, size())` report every key? | no: finding 1 |
| `failed_set_writes` | does a setter that reports failure leave the table alone? | no: finding 2 |
| `one_reader` | one reading thread (that also sets) and one setter, two growths | inductive invariant, no use after free, consistent `keys`, refinement of `AtomicTable` |
| `reads_return` | the same, under fairness | every getter returns |
| `two_readers_locks` | two threads that both read and set | the locks still exclude although the count is broken |
| `two_readers_assert` | two readers and a setter: does the assertion in `_grab_map` hold? | no: finding 3 |
| `lt_lua` | a script with up to three tables, nested, converted, traversed, serialised, deleted | `ReadBack`, `NoDangling`, `DeleteFreesTree`, `SerializedText`; only misuse crashes |
| `lua_heap` | any calls of the API between any steps of the collector, from nine small heaps | `ListsOK`, `NoDangling`, `BlackNotToWhite`, `FinalizedWhenDead`, `FullCollects` |
| `lua_setupvalue_barrier` | the same with `lua_setupvalue` on Lua closures that share an upvalue | a reachable object is freed: finding 4 |
| `lua_vm` | some thousand programs, compiled and run | `Agrees`, `CompilerAsserts`, `ExecAsserts`, `CallsBalanced`, `TableAgrees` |

Two facts about pure operators are assumptions that TLC evaluates in `lua_vm`:
`FloatingByte` (`luaO_int2fb` rounds up, by less than an eighth) and `PatternMatching` (`string.find` gives
the leftmost match and, of its ways, the first in the manual's order, with its
captures, for 400 patterns with captures and repetitions and five texts; a failed
attempt leaves the captures as it found them).

### Bounds, and why they are enough

- `LString`: three threads are the smallest number with two readers of a slot
  and an updater racing for the last reference. Three slots let a slot be
  current, another be replaced and still held, and a third be new. `Alloc` picks
  any address that is free, so reuse of freed memory happens.
- `TableSeq`: `INIT_SIZE` 1, `MAX_HASH_DEPTH` 2 and `MaxSize` 16 instead of 29,
  7 and unbounded: the first growth comes with the third key and there are
  four of them. Widths `IntBits` 3 and `SizeBits` 4 keep "int is narrower than
  size_t"; key 15 is `(size_t)-1`, negative in a node. Keys 0 and 2 take two types
  each, the others one, which bounds the state space without losing an
  overwrite with another type over a number or over a string. Strings `sa`, `sb`
  share a bucket up to 4 buckets and part in 8.
- `LightTable`: `INIT_SIZE` 2, `MAX_HASH_DEPTH` 1, `MaxSize` 8. Keys 0 and 4 share
  a bucket of 2 and of 4, so the hash grows twice, once on an insertion and
  once on an overwrite; three map addresses allow the reader's map, the
  current one and a new one at once. `MaxRef` bounds the calls made while a
  count is above it; with one reader it is never reached, since the count is at
  most 2. The two-reader runs grow once (keys 0 and 2) with two addresses:
  that already covers reuse of the address of a deleted map.
- `LtLua`: three tables allow a tree of depth three and two sub-tables side by side.
  `INIT_SIZE` 2, `MAX_HASH_DEPTH` 1, `MaxSize` 8: two keys of the five share a bucket, so the
  second of them makes the hash grow, and two keys in different buckets fill a table (`Full`),
  alone or below another one. Key 7 is the greatest `int` of `IntBits` 4, 2.5 is a
  fraction. Strings have 92, 93, 97 or 98 characters and `TEMP_SIZE` is 100: one key and one value
  fit into `temp` and one of each is a character too long. `LUA_MINSTACK` 8 lets two nested Lua
  tables be converted and not three. `BUF_SIZE` is 12 pieces: a table
  with two entries fits, a nested one does not. The state constraint `Bound` keeps
  the entries of all tables at four when two are alive and at three otherwise;
  `pairs` runs with one table; one misuse, and after it one table with one entry. `MaxSteps` 14
  is more turns than any of these deletes, conversions and serialisations takes; a call that would take
  more is not made. The last serialised text is left out of
  the fingerprint (`VIEW`) since no call reads it again.
- `LuaHeap`: four addresses beside the main thread and the globals; the states
  reached from the start heaps (two tables in a chain; a userdata with a
  finalizer that is dead, one that a global refers to, and one that its finalizer
  stored there; a table with weak keys; one with weak keys and values and an entry that dies
  or is set to nil; a userdata with a finalizer as the weak key, and as the weak value, of a
  table's entry; a coroutine with a captured local) by two API calls with any number of collector steps before,
  between and after them, of pops and of returns from finalizers; one call in a
  behaviour that has called a finalizer (`Bound`). Two values of the running
  function are on the stack at most. Nothing depends on which of the two whites is
  the current one, so states that differ only in that are one (`VIEW`). Two calls are
  what a missing barrier needs: one to move a reference into a black object, one
  to drop it elsewhere. `GCSWEEPMAX` 2 stops the sweep in the middle of the list.
  The violation run takes three calls from two closures with a shared upvalue. An emptied
  entry of a table with weak keys and values keeps a key that may be freed: nobody reads it as
  an object, and `NoDangling` is about entries that have a value.
- `LuaVM`: expressions are generated: all nestings of `and`, `or`, `not` of depth two
  over locals, constants and comparisons (the literals `true` and `false` in some places) in five contexts (returned, new local, old
  local, `if`, `while`), and of arithmetic, concatenation and comparison over numbers and
  strings; tables by all short sequences of stores over colliding keys; sorting by
  all arrays up to length four over three values and length six over two. Statements, functions, varargs, upvalues,
  metamethods, errors, coroutines and the libraries have written programs, each with the result the
  manual gives it. The limits are small (`MAXSTACK` 18, `LUAI_MAXCCALLS` 12, `LUAI_MAXCALLS` 24,
  `LUAI_MAXVARS` 10, `LUAI_MAXUPVALUES` 3, `MAXINDEXRK` 3, `LFIELDS_PER_FLUSH` 2, `LUA_MAXCAPTURES` 3), so that programs reach each of
  them. A program is deterministic: what the run explores is the set of programs.
- Symmetry is declared for addresses, contents and threads in safety runs only.
- `lstring`, `table_seq` and `two_readers_locks` may stop: a deleted table accepts no
  call; with two readers a thread may stop at freed memory. A crashed process
  (`lt_lua`), a closed state (the heap runs) and a program that has ended (`lua_vm`) stop. Everywhere else
  deadlock is checked.

### Fairness

`WF_vars(Step(t))` for each thread: the operating system runs every thread, so
a call in progress takes a step that stays enabled. New calls are not fair, and
no strong fairness is assumed for spin locks. `SupersededIsFreed` and
`LockIsReleased` need only steps of threads that are past the lock. `ReadsReturn`
needs a reader to get through `map_lock`: with one reader its only competitors are
setters in `_update_map`, which take the lock once per growth, and each growth
doubles the hash; in the instance `MaxSize` ends the growths, in the program memory does. The property is checked for one reader
only; with several, test-and-set promises nobody a turn.

## 4. Proofs

`LStringProofs` (for any finite set of threads, any slots and texts): `TypeOK`, `IInv`,
`NoUseAfterFree`, `GrabAssertHolds`, `SingleFree`, `NoLeak`, and the action property
`HeldTextStable`. Assumptions: `ThreadsFinite` (counts are cardinalities) and
`NoSlotAssumption`. `NoUseAfterFree` is not inductive: nothing in it says why a
count cannot reach 0 under a reader. `IInv` adds `CountInv`, that the count of an
allocated slot is the number of calls that own a reference plus one if the
`lstring` points to it; `FreeInv`, that a slot with count 0 has exactly one thread
on its way to free it; `PrivateInv`, that a new slot has no other owner before
the swap; and who is inside the lock. `CountFacts` states how a set of owners,
and so its cardinality, changes when one thread joins or leaves; every action's
lemma then shows which slot's owners changed and by whom.

`LightTableProofs`: for any readers and writers, `TypeOK` and `LocksExclude` (from
`BaseInv`). Under `SingleReader` (at most one thread grabs maps, any number set):
`NoUseAfterFree` and `GrabAssertHolds`. `CountInv` is the
strengthening: a current map that nobody holds has count 1, a map the reader
holds has count 2 also after it has been replaced (this is why the stray store of
`_release_map` through `this->map` does no harm with one reader: it writes 1, which the
count of a newer map is anyway), and the new map of a growing setter is private
until the swap. `SingleReader` cannot be dropped: finding 3. Most actions do not
change the variables the invariant reads except `pc`; the `...Effect` lemmas state what of
an action matters, so that the data of maps, whose operators stay opaque,
never enters these proofs.

`LightTableDataProofs` and `LightTableRefinement`, under `SingleReader` too, are about what
the maps contain while one thread walks and others insert and grow: `KeysConsistent`, and
`IsAtomicTable`, that the whole protocol is the atomic dictionary of `AtomicTable`. They rest on
`IInv`, which is `BaseInv`, `CountInv` and `DataInv`; the parts of `DataInv` are

- `MapsInv`: every allocated map is in order (`MapOK`); between `_expand_hash`'s copy and the swap
  the new map has what the current one has, which is why the swap shows nothing to
  callers (`CopyKept`); and the current map has every key of a map that is still walked;
- `CallInv`: how far a walk has come. A search has passed no node of its key (`WalkOK`), so
  when it leaves the chain the key is not in the map, even if the chain grew under
  it: setters only append to chains (`Grown`), positions behind the walk never change. `keys` has reported
  exactly what is behind it, and what it found at its start is reported or ahead
  (`ScanOK`);
- `StaleInv`: a reader whose walk ended in a replaced map will see that in
  `while (m != this->map)`. The comparison is of addresses, so this is the question whether the
  replaced map can be deleted and its address become that of a new current map.
  It cannot: its count of 2 is never given back (the hazard at `lighttable.cpp:263`: the leak is what
  makes the comparison sound).

The refinement maps a call to what its caller can know: a `get` has seen a value once its walk
has ended in the map that was current then (`fresh`). `absDict` is `Search` of the current map under every
key. Ending a walk in the current map is `Look`, in a replaced one `Forget`; `Insert` is `Put`; the return
of `_search_map` is `ReturnGet`, or `SetUnseenKey` for a `set_string` that found nothing; calls and
returns are their own steps, and all others, growth included, stutter (`CountingRefines`,
`GrowingRefines`, `KeysRefines`). `size` and `keys` are not operations of `AtomicTable`;
`KeysConsistent` is what is said of them. `fresh` is read at the return because `StaleInv`
says that a walk which was not fresh cannot get there.

The assumptions are `KeyAssumption` (as below), `TypeAssumption` (no setter stores the type
NIL) and `NoMapAssumption` (the marker for an unset pointer is no map and no value).

`LMapProofs` is about `class lmap` as a value, for any hash function of strings with
non-negative results, any widths, sizes and chain lengths, and any kind of value in the nodes. What
makes a map correct is `MapOK`: every node is in the chain that its own hash
selects, its key is one of `Keys`, and no chain has two nodes with the same key. `Chains`,
`SearchFinds` and `SearchMisses` say what `Search` returns on such a map: the node of the
key if there is one anywhere in the map, and nothing otherwise. `NewMapOK`,
`InsertValueOK` and `CopyMapOK` establish and preserve `MapOK`, and say which nodes the map then
has: no others than before except the key's own. `InsertValueOK` covers
both ends of `_insert_value` (a node overwritten, a node added). `CopyMapOK` is the loop of
the copying constructor, which walks the old buckets and links each node where its hash puts it in the
larger map: the copy has the same keys with the same values and counts, whatever the order in
which they arrive; the map left behind has them with counts one higher (`CopiedFromOK`).
`LinkedDef` is the induction over that loop.
`BitAndRange` and `HashRange` say that the mask with `size - 1` is in range for sizes that are no
powers of two too.

The two provers cannot instantiate an induction theorem that takes a
predicate. `DataInduction` goes round this: the induction hypothesis is the
set of its counterexamples, and the library's `WFMin` (a non-empty set has a minimal element
under a well-founded relation) is first order. So folds and recursive functions over
buckets are within reach; `RECURSIVE` operators are not.

`TableSeqProofs` then has, for any such map, keys, values and sequence of calls: `TypeOK`,
`GetAgrees` (a getter returns what was last set, through every growth), `OneNodePerKey`,
`StringsStayLive`, `DeleteFreesStrings`, and the action property `TypeIsSticky`. They
follow from the inductive invariant `TableInv`, and none of them is inductive: a getter
agrees after a growth only if the nodes were where `Search` looks for them
before it (`MapOK`), and a string is freed once only if between two calls every value's `ref` is
1: a copy leaves 2 behind, and the old map's destructor, which frees what counts 1, frees
nothing that the new map shares; and if no two nodes hold the same `lstring` and none
of them has been freed.

The assumptions on the constants: `HashAssumption` (hashes of strings are non-negative integers, sizes are
positive); `KeyAssumption`, `KeysFit(Keys)`: a number key survives `size_t -> int -> size_t`. The program does
not check that. Keys from 2^31 to 2^64 - 2^31 break it (the hazard at
`lmap.cpp:85`), and with one of them `GetAgrees` is false; and `BitsAssumption`: the bits of a
number are not the address of an `lstring`, which is how the model tells apart the members of the union.

`LtLuaProofs` is about scripts that use the binding: `TypeOK`, `OnlyMisuseCrashes`, `ReadBack`,
`NoDangling` and the action property `DeleteFreesTree`, for any addresses, keys, values, Lua tables,
hashes and sizes, any depth of nesting and any order of calls. All five follow from one inductive
invariant, `Inv`, which TLC has also been given on the instance of `lt_lua`:

- `Typed`, whatever the script does: every address holds nothing or a table with a correct map
  (`HeapOK`, with the `MapOK` of `LMapProofs`), and a live table counts 1 (`CountedOnce`). Nothing less will
  do: a second count would keep a table from being freed, and a count of 0 would let `_release` go below it.
- `Script`, while `misuse` is empty: `Tree`, which is `Sound` (a node's union holds what its type
  says), `OneOwner` (a table is stored under one key of one table), `NoneDangles` and `Acyclic`; and
  `Agree`, that each map holds what `dict` says and nothing else. `ReadBack` needs both
  halves of `Agree`, the second for `pairs`. `NoDangling` alone is not inductive: a
  delete frees what it reaches, and only `OneOwner` says that nobody else holds any of it.

The parts of the proof are the three recursions; each is an induction over the turns of its loop.
*Delete*: a table that is being destroyed counts 0 or less and every other live one 1 (`Counts`); the
tables visited are the one deleted and what the nodes already passed hold (`DelTree`), and when no call is
left these are the closure, `Reach`. `OneOwner` gives that no table is released twice, `Acyclic`
that it does not come back to one under destruction. *Conversion* (`ConvTree`): an entry of a Lua table is
done, pending or still to come according to the key on the Lua stack; the
map under construction holds the entries done and no others (`EntriesIn`, `EntriesOnly`), each sub-table is
made once and for one key (`MadeOnce`, `MadeFor`), and the tables of the calls under way are stored
nowhere yet (`Loose`), which keeps the heap a tree when one is stored. That the stack has the right
contents when `lua_next`, `_get_key` and `lua_pop` look at it is `ConvStack`. *Serialisation*: the calls under
way are a path down the tree (`SerInv`), so by `Acyclic` none of them is for a table already on it, and by
`Sound` and `NoneDangles` what is read is what was stored.

`Set` is where the tree could break: `StoreTree` says what storing a sub-table needs (alive, stored nowhere, not
above the table it goes into), and `GoodSet` that this is what an empty `BadSet` gives. A failing call of any
kind is shown to imply misuse, which is `OnlyMisuseCrashes`. The theorems bound neither tables nor
hashes (`MaxSize` and `MaxSteps` are any numbers).

The assumptions are about what the script passes. `KeyAssumption`: a string is its text, a number key
is an `int` that is not negative (a wider one is not found again, as with `KeysFit` in `TableSeq`). The
greatest of them, 2^31 - 1, is stored and found by `pairs` and `ipairs`, but `__index` would need its
successor, which is no `int`: `ReadBack` has the error it gives. `SetArgsAssumption`: a light userdata is one of the binding's tables; the code casts whatever it
gets. `GetKeysAssumption`: keys that are looked up are strings with a hash or signed integers of the width of
`size_t`. `LuaTablesAssumption`: a Lua table to convert has no key twice and holds Lua tables, not tables of the
binding; its nesting is finite, since a value of TLA+ is. `SizeAssumption`: sizes and depth are positive.
`TextAssumption`: lengths are natural numbers. `PowerAssumption` states three laws of the powers of two in use
(2^n is positive and doubles with n), true for any widths, because no backend knows exponentiation;
TLC evaluates it.

Only model-checked:

- the liveness properties, since no backend here reasons about fairness;
- `SerializedText`, which counts pieces of text over a whole tree (a sum over the tables
  below one, and the nesting of braces): an induction over data that the provers
  have no rule for. That serialising does not crash is proved;
- the shared table with several readers beyond its locks (finding 3 says why nothing more holds);
- the Lua runtime (`LuaHeap`, `LuaVM` and the modules under it), whose operators recurse over the
  heap and over programs, as the code does (`RECURSIVE` operators have no proof rule in `tlapm`).

## 5. Findings

1. `keys(vv, cap)` stops at `cap - 1`. Callers pass `size()`, which is buckets ×
   `MAX_HASH_DEPTH`, and chains of exactly that length do not trigger growth, so a
   full table loses a key (in the real sizes: 203 number keys 0..202 in 29
   buckets). `lighttable.h:29` says all keys are stored.
2. `_insert_value` overwrites the union of an existing node before the setter
   compares types, so a call that returns failure has changed the contents; over
   a string it replaces a pointer by a number.
3. `_release_map` decrements the map's count with a plain load and store and no
   lock. Two readers lose an update, the count reaches 0 under the current map,
   and `assert(ref > 1)` in `_grab_map` fails.

4. `lua_setupvalue` (`lapi.c:1082`) stores into the upvalue of a Lua closure and puts
   the write barrier on the closure. A closed upvalue is an object of its own,
   shared by closures: if the collector has reached it through another closure it
   is black, the closure passed need not be, no barrier runs, and the value is
   freed while both closures refer to it. `OP_SETUPVAL` puts it on the upvalue.

Met while modelling and recorded as hazards without a run of their own:

- a map held by a reader at a swap is never deleted; number keys from 2^31 to
  2^64 - 2^31 are never found again; `get_string` returns a pointer to a slot it has
  released;
- `luaK_goiftrue` and `luaK_goiffalse` emit a plain jump for the literals `false` and `true`
  (`lcode.c:547`, `575`), and that jump takes along the value jumps pending before it, so
  `nil and 1 or true or nil` gives `nil` and `((1 or false) and true) or false` gives 1 where the
  manual (`manual.html`, section 2.5.3) has `true`. `LuaCode` gives these values too; `Agrees` would
  not hold for them, and the programs of `lua_vm` have the literals as left operands only where no such
  jump is pending;
- after `t = {} setmetatable(t, t) t.__newindex = f` an assignment to a new field of another table
  with metatable `t` does not call `f` (`lvm.c:142`): the lookup that precedes the store
  caches `__newindex` as absent after the cache was cleared. In `lua_vm` one table is its own metatable,
  for `__index`; none stores a `__newindex` in itself;
- `lua_close` calls the finalizers of userdata that are still referred to, and `GCTM` makes each of them
  white (`lgc.c:457`), also when the state is closed in the middle of marking. `BlackNotToWhite` ends there. A
  collector step that such a finalizer asked for would rely on it; `LuaHeap` has no steps within
  finalizers.

## 6. Plan

What is worth proving next, in order:

1. The barrier argument of the collector on a form of `LuaHeap` without recursive
   operators, as was done for the recursion of `LtLua`: the mark phase as turns of `propagatemark`;
   `BlackNotToWhite` as the inductive invariant, nothing reachable freed as
   its consequence.
2. `ltable.c`: that `luaH_get` after `luaH_set` is a function update through `rehash`
   (`TableAgrees` without the interpreter), from the chain lemmas of `LMapProofs`.
3. `SerializedText` for a table without sub-tables.

## 7. Not modelled

- `unserialize` (a stub), `is_over_half`, `_copy_value` and `mul` (never called), the driver programs.
- The memory pool: nothing uses it.
- The prime functions: they choose sizes, and sizes are constants of the models.
- Two threads in `serialize`: the global buffer has no lock, so there is no protocol to
  check.
- Lua: the lexer (programs are tokens), precompiled chunks, stream buffers and
  allocation; hooks, line numbers, names in error messages; memory errors and
  the reallocation of stacks; floating-point numbers that are no integers; the
  collector inside `LuaVM` (it is in `LuaHeap`, which in turn has no prototypes, table
  sizes or thresholds); the io, os, math, debug and package libraries; of the base
  library `load` and its relatives, `print`, `tonumber`, `tostring`, environments and
  `collectgarbage`; of the others `setn`, `char`, `dump`, `format`; the programs `lua` and `luac`.
