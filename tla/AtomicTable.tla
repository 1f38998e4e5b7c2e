---------------------------- MODULE AtomicTable ----------------------------
(***************************************************************************)
(* What a shared table promises its callers: a dictionary on which every    *)
(* set takes effect at one instant and every get returns what the           *)
(* dictionary held at some instant between its call and its return.         *)
(*                                                                          *)
(* Two things callers might not expect are part of the promise.  A key      *)
(* keeps the type it was first given (a set of another type only replaces   *)
(* the contents).  And set_string is not one operation: it is a get that,   *)
(* having seen nothing, is followed by a set.                               *)
(***************************************************************************)
CONSTANTS
  Threads,
  Keys,
  Values,       \* [type, v] pairs a caller may store
  Unseen        \* a get that has not looked yet

VARIABLES
  dict,         \* the value of each key, with type "NIL" if it has none
  call          \* the call each thread has in progress

absVars == <<dict, call>>

Nothing == [type |-> "NIL", v |-> 0]
Idle == [st |-> "idle"]
Getting(k, seen) == [st |-> "get", key |-> k, seen |-> seen]
Got(k, val) == [st |-> "got", key |-> k, val |-> val]
Setting(k, val) == [st |-> "set", key |-> k, val |-> val]
Done == [st |-> "done"]

Become(t, c) == call' = [call EXCEPT ![t] = c]

AbsInit ==
  /\ dict = [k \in Keys |-> Nothing]
  /\ call = [t \in Threads |-> Idle]

InvokeGet(t) ==
  /\ call[t].st = "idle"
  /\ \E k \in Keys : Become(t, Getting(k, Unseen))
  /\ UNCHANGED dict

(* The instant of a get: it sees the current value ... *)
Look(t) ==
  /\ call[t].st = "get"
  /\ Become(t, Getting(call[t].key, dict[call[t].key]))
  /\ UNCHANGED dict

(* ... or decides to look again. *)
Forget(t) ==
  /\ call[t].st = "get"
  /\ Become(t, Getting(call[t].key, Unseen))
  /\ UNCHANGED dict

ReturnGet(t) ==
  /\ call[t].st = "get"
  /\ call[t].seen # Unseen
  /\ Become(t, Got(call[t].key, call[t].seen))
  /\ UNCHANGED dict

(* set_string: nothing was seen, so the value is set. *)
SetUnseenKey(t) ==
  /\ call[t].st = "get"
  /\ call[t].seen = Nothing
  /\ \E val \in Values : Become(t, Setting(call[t].key, val))
  /\ UNCHANGED dict

InvokeSet(t) ==
  /\ call[t].st = "idle"
  /\ \E k \in Keys, val \in Values : Become(t, Setting(k, val))
  /\ UNCHANGED dict

(* The instant of a set. *)
Put(t) ==
  /\ call[t].st = "set"
  /\ dict' = [dict EXCEPT ![call[t].key] =
                [type |-> IF @ = Nothing THEN call[t].val.type ELSE @.type,
                 v |-> call[t].val.v]]
  /\ Become(t, Done)

Return(t) ==
  /\ call[t].st \in {"got", "done"}
  /\ Become(t, Idle)
  /\ UNCHANGED dict

AbsNext ==
  \E t \in Threads :
    \/ InvokeGet(t) \/ Look(t) \/ Forget(t) \/ ReturnGet(t) \/ SetUnseenKey(t)
    \/ InvokeSet(t) \/ Put(t) \/ Return(t)

AbsSpec == AbsInit /\ [][AbsNext]_absVars
=============================================================================
