----------------------------- MODULE MCLuaHeap -----------------------------
(* Instance of LuaHeap for TLC.  A behaviour starts from one of a few heaps *)
(* that calls of the API built.                                             *)
EXTENDS LuaHeap

CONSTANTS o1, o2, o3, o4, s1, s2

MCBucket == [s \in Texts |-> 0]

Store(g, o) == lua_rawset(lua_pop(g, Main), Glob, "a", o)

(* Glob.a is a table that refers to a second one. *)
TwoTables ==
  LET g == lua_createtable(lua_createtable(NewState, o1), o2)
  IN  Store(lua_pop(lua_rawset(g, o1, "a", o2), Main), o1)

(* A userdata whose metatable has a finalizer: dead, stored in Glob.a, or   *)
(* stored there by its finalizer.                                           *)
Userdata ==
  LET g == lua_pushcclosure(push(NewState, Nil), o1)
      h == lua_rawset(lua_createtable(g, o2), o2, "__gc", o1)
  IN  lua_setmetatable(lua_newuserdata(h, o3), o3, o2)
PopAll(g) == lua_pop(lua_pop(lua_pop(g, Main), Main), Main)
Finalizable == PopAll(Userdata)
Live == PopAll(lua_rawset(Userdata, Glob, "a", o3))
Resurrected == EndFinalizer(lua_rawset(luaC_fullgc(Finalizable), Glob, "a", o3))

(* A table o1 that its metatable makes weak. *)
WeakTable(mode) ==
  LET g == lua_createtable(lua_createtable(NewState, o1), o2)
  IN  lua_setmetatable(lua_rawset(g, o2, "__mode", mode), o1, o2)
Weak(mode) == lua_pop(WeakTable(mode), Main)

(* Its one entry has a table as its key, which nothing else holds. *)
WeakEntry(mode) ==
  LET g == lua_createtable(Weak(mode), o3)
  IN  lua_pop(lua_rawset(g, o1, o3, "a"), Main)

(* Its one entry has at the weak end a userdata that nothing else holds.    *)
(* Both have the same metatable, with the mode and a finalizer.             *)
WeakUserdata(mode) ==
  LET g == lua_pushcclosure(push(Weak(mode), Nil), o4)
      h == lua_pop(lua_rawset(g, o2, "__gc", o4), Main)
      k == lua_setmetatable(lua_newuserdata(h, o3), o3, o2)
  IN  lua_pop(lua_rawset(k, o1, IF mode = "v" THEN "a" ELSE o3,
                         IF mode = "v" THEN o3 ELSE "a"), Main)

(* A coroutine with a local that a closure captured. *)
Coroutine ==
  LET g == lua_xmove(lua_createtable(lua_newthread(NewState, o1), o2), o1)
  IN  OP_CLOSURE(g, o1, o3, o4)

(* Two closures, both in Glob, that share a closed upvalue. *)
Shared ==
  LET g == OP_CLOSURE(push(NewState, Nil), Main, o1, o2)
      h == lua_pop(lua_rawset(g, Glob, "a", o1), Main)
      k == OP_CLOSURE(h, Main, o3, o4)
  IN  lua_pop(lua_pop(lua_rawset(k, Glob, "__gc", o3), Main), Main)

MCStart ==
  {TwoTables, Finalizable, Live, Resurrected, Coroutine, Weak("k"), WeakEntry("kv"),
   WeakUserdata("k"), WeakUserdata("v")}
SharedStart == {Shared}

(* Nothing depends on which of the two whites is the current one. *)
Swapped(c) == CASE c = "w0" -> "w1" [] c = "w1" -> "w0" [] OTHER -> c
View ==
  IF heap.currentwhite = "w0" THEN <<heap, ops>>
  ELSE <<[heap EXCEPT !.currentwhite = "w0",
                      !.obj = [o \in Objects |-> [@[o] EXCEPT !.col = Swapped(@)]]], ops>>

(* Bound: around a call of a finalizer the script does one operation. *)
Bound == heap.called # <<>> => ops <= 1
=============================================================================
