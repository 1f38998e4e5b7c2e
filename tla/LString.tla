------------------------------ MODULE LString ------------------------------
(***************************************************************************)
(* The reference-counted text of one LT_STRING value: a struct lstring (a   *)
(* spin lock and a pointer to the current string_slot) shared by threads    *)
(* that read it (value_string, get_string) and replace it (_update_string). *)
(* Each shared access of lighttable.cpp is one step.  The counter updates   *)
(* are the atomic __sync built-ins; the pointer and the buffer are plain    *)
(* loads and stores.                                                        *)
(***************************************************************************)
EXTENDS Integers, FiniteSets

CONSTANTS
  Threads,      \* the threads calling into the table
  Slots,        \* addresses malloc can return for a string_slot
  Texts,        \* contents of a slot
  NoSlot        \* the value of a local pointer that has not been set

ASSUME ThreadsFinite == IsFiniteSet(Threads)
ASSUME NoSlotAssumption == NoSlot \notin Slots

VARIABLES
  alive,        \* the lstring has not been freed by _clear_value
  lock,         \* lstring.lock, 0 or 1
  slot,         \* lstring.slot
  live,         \* the slots malloc has handed out and nobody has freed
  ref,          \* string_slot.ref, by slot
  buf,          \* string_slot.buf, by slot
  pc,           \* the next shared access of each thread
  s,            \* local s / ret of value_string, get_string, _grab_string
  ns,           \* local ns of _update_string
  old,          \* local old of _update_string
  left          \* local ref of _update_string: the count it left behind

locals == <<s, ns, old, left>>
vars == <<alive, lock, slot, live, ref, buf, pc, s, ns, old, left>>

PCs == {"idle",
        "gs_lock", "gs_incr", "gs_read", "gs_unlock",
        "vs_call", "rs_decr", "rs_free",
        "us_lock", "us_read", "us_swap", "us_decr", "us_unlock", "us_delete"}

TypeOK ==
  /\ alive \in BOOLEAN
  /\ lock \in {0, 1}
  /\ slot \in Slots
  /\ live \in SUBSET Slots
  /\ ref \in [Slots -> Int]
  /\ buf \in [Slots -> Texts]
  /\ pc \in [Threads -> PCs]
  /\ s \in [Threads -> Slots \cup {NoSlot}]
  /\ ns \in [Threads -> Slots \cup {NoSlot}]
  /\ old \in [Threads -> Slots \cup {NoSlot}]
  /\ left \in [Threads -> Int]

-----------------------------------------------------------------------------
(* Helpers *)

Goto(t, label) == pc' = [pc EXCEPT ![t] = label]

(* The call returns and its locals are gone. *)
Return(t) ==
  /\ Goto(t, "idle")
  /\ s' = [s EXCEPT ![t] = NoSlot]
  /\ ns' = [ns EXCEPT ![t] = NoSlot]
  /\ old' = [old EXCEPT ![t] = NoSlot]
  /\ left' = [left EXCEPT ![t] = 0]

(* Mutant: new_string forgets to count its caller. *)
AllocUncounted(x, text) ==
  /\ x \in Slots \ live
  /\ live' = live \cup {x}
  /\ ref' = [ref EXCEPT ![x] = 0]
  /\ buf' = [buf EXCEPT ![x] = text]

(* new_string: malloc, ref = 1, the text copied in. *)
Alloc(x, text) ==
  /\ x \in Slots \ live
  /\ live' = live \cup {x}
  /\ ref' = [ref EXCEPT ![x] = 1]
  /\ buf' = [buf EXCEPT ![x] = text]

Free(x) == live' = live \ {x}

-----------------------------------------------------------------------------
(* set_string has just inserted the value: malloc of the lstring, its lock *)
(* cleared by memset, its slot from new_string.                             *)
Init ==
  /\ alive = TRUE
  /\ lock = 0
  /\ slot \in Slots
  /\ live = {slot}
  /\ ref = [x \in Slots |-> IF x = slot THEN 1 ELSE 0]
  /\ buf \in [Slots -> Texts]
  /\ pc = [t \in Threads |-> "idle"]
  /\ s = [t \in Threads |-> NoSlot]
  /\ ns = [t \in Threads |-> NoSlot]
  /\ old = [t \in Threads |-> NoSlot]
  /\ left = [t \in Threads |-> 0]

(* value_string or get_string is called with a pointer to the lstring. *)
CallRead(t) ==
  /\ alive
  /\ pc[t] = "idle"
  /\ Goto(t, "gs_lock")
  /\ UNCHANGED <<alive, lock, slot, live, ref, buf, s, ns, old, left>>

(* Mutant: the text is replaced in the current slot. *)
CallUpdateInPlace(t) ==
  /\ alive
  /\ pc[t] = "idle"
  /\ \E text \in Texts : buf' = [buf EXCEPT ![slot] = text]
  /\ UNCHANGED <<alive, lock, slot, live, ref, pc, s, ns, old, left>>

(* _update_string is called: the new slot is built before the lock. *)
CallUpdate(t) ==
  /\ alive
  /\ pc[t] = "idle"
  /\ \E x \in Slots, text \in Texts :
       /\ Alloc(x, text)
       /\ ns' = [ns EXCEPT ![t] = x]
  /\ Goto(t, "us_lock")
  /\ UNCHANGED <<alive, lock, slot, s, old, left>>

(* Mutant: the lock counts its takers and nobody waits. *)
TestAndSetCounting(t) ==
  /\ lock' = lock + 1
  /\ \/ pc[t] = "gs_lock" /\ Goto(t, "gs_incr")
     \/ pc[t] = "us_lock" /\ Goto(t, "us_read")
  /\ UNCHANGED <<alive, slot, live, ref, buf, s, ns, old, left>>

(* while (__sync_lock_test_and_set(&s->lock, 1)) {} : the iteration that    *)
(* finds 0.                                                                 *)
TestAndSet(t) ==
  /\ lock = 0
  /\ lock' = 1
  /\ \/ pc[t] = "gs_lock" /\ Goto(t, "gs_incr")
     \/ pc[t] = "us_lock" /\ Goto(t, "us_read")
  /\ UNCHANGED <<alive, slot, live, ref, buf, s, ns, old, left>>

(* __sync_add_and_fetch(&s->slot->ref, 1) *)
GrabIncr(t) ==
  /\ pc[t] = "gs_incr"
  /\ ref' = [ref EXCEPT ![slot] = @ + 1]
  /\ Goto(t, "gs_read")
  /\ UNCHANGED <<alive, lock, slot, live, buf, s, ns, old, left>>

(* ret = s->slot *)
GrabRead(t) ==
  /\ pc[t] = "gs_read"
  /\ s' = [s EXCEPT ![t] = slot]
  /\ Goto(t, "gs_unlock")
  /\ UNCHANGED <<alive, lock, slot, live, ref, buf, ns, old, left>>

(* __sync_lock_release; then value_string goes on to call sfunc, while      *)
(* get_string copies the address of buf and releases at once.               *)
GrabUnlock(t) ==
  /\ pc[t] = "gs_unlock"
  /\ lock' = 0
  /\ Goto(t, "vs_call") \/ Goto(t, "rs_decr")
  /\ UNCHANGED <<alive, slot, live, ref, buf, s, ns, old, left>>

(* sfunc(ud, s->buf, s->sz) copies the text out (lua_pushlstring). *)
CallSfunc(t) ==
  /\ pc[t] = "vs_call"
  /\ Goto(t, "rs_decr")
  /\ UNCHANGED <<alive, lock, slot, live, ref, buf, s, ns, old, left>>

(* Mutant: the count is not given back. *)
ReleaseDecrLost(t) ==
  /\ pc[t] = "rs_decr"
  /\ Return(t)
  /\ UNCHANGED <<alive, lock, slot, live, ref, buf>>

(* Mutant: off by one, the slot is freed when one reference is left. *)
ReleaseDecrEarly(t) ==
  /\ pc[t] = "rs_decr"
  /\ ref' = [ref EXCEPT ![s[t]] = @ - 1]
  /\ IF ref[s[t]] - 1 > 1 THEN Return(t)
                          ELSE Goto(t, "rs_free") /\ UNCHANGED locals
  /\ UNCHANGED <<alive, lock, slot, live, buf>>

(* _release_string: __sync_sub_and_fetch(&s->ref, 1) and its early return *)
ReleaseDecr(t) ==
  /\ pc[t] = "rs_decr"
  /\ ref' = [ref EXCEPT ![s[t]] = @ - 1]
  /\ IF ref[s[t]] - 1 # 0 THEN Return(t)
                          ELSE Goto(t, "rs_free") /\ UNCHANGED locals
  /\ UNCHANGED <<alive, lock, slot, live, buf>>

ReleaseFree(t) ==
  /\ pc[t] = "rs_free"
  /\ Free(s[t])
  /\ Return(t)
  /\ UNCHANGED <<alive, lock, slot, ref, buf>>

(* old = str->slot *)
UpdateRead(t) ==
  /\ pc[t] = "us_read"
  /\ old' = [old EXCEPT ![t] = slot]
  /\ Goto(t, "us_swap")
  /\ UNCHANGED <<alive, lock, slot, live, ref, buf, s, ns, left>>

(* str->slot = ns *)
UpdateSwap(t) ==
  /\ pc[t] = "us_swap"
  /\ slot' = ns[t]
  /\ Goto(t, "us_decr")
  /\ UNCHANGED <<alive, lock, live, ref, buf, s, ns, old, left>>

(* ref = __sync_sub_and_fetch(&old->ref, 1) *)
UpdateDecr(t) ==
  /\ pc[t] = "us_decr"
  /\ ref' = [ref EXCEPT ![old[t]] = @ - 1]
  /\ left' = [left EXCEPT ![t] = ref[old[t]] - 1]
  /\ Goto(t, "us_unlock")
  /\ UNCHANGED <<alive, lock, slot, live, buf, s, ns, old>>

(* Mutant: the old slot is deleted whoever still reads it. *)
UpdateUnlockAlways(t) ==
  /\ pc[t] = "us_unlock"
  /\ lock' = 0
  /\ Goto(t, "us_delete")
  /\ UNCHANGED <<alive, slot, live, ref, buf, s, ns, old, left>>

(* Mutant: the old slot is left to its readers, if there are any. *)
UpdateUnlockKeep(t) ==
  /\ pc[t] = "us_unlock"
  /\ lock' = 0
  /\ Return(t)
  /\ UNCHANGED <<alive, slot, live, ref, buf>>

(* Mutant: the lock is not released. *)
UpdateUnlockStuck(t) ==
  /\ pc[t] = "us_unlock"
  /\ IF left[t] = 0 THEN Goto(t, "us_delete") /\ UNCHANGED locals
                    ELSE Return(t)
  /\ UNCHANGED <<alive, lock, slot, live, ref, buf>>

(* __sync_lock_release, then the test of ref on the local copy *)
UpdateUnlock(t) ==
  /\ pc[t] = "us_unlock"
  /\ lock' = 0
  /\ IF left[t] = 0 THEN Goto(t, "us_delete") /\ UNCHANGED locals
                    ELSE Return(t)
  /\ UNCHANGED <<alive, slot, live, ref, buf>>

UpdateDelete(t) ==
  /\ pc[t] = "us_delete"
  /\ Free(old[t])
  /\ Return(t)
  /\ UNCHANGED <<alive, lock, slot, ref, buf>>

(* _clear_value of an LT_STRING, from the map's destructor: free(slot),     *)
(* free(lstring), whatever the counts are.  The caller of delete must be    *)
(* the only user of the table: that contract is the second conjunct.        *)
Clear ==
  /\ alive
  /\ \A t \in Threads : pc[t] = "idle"
  /\ alive' = FALSE
  /\ Free(slot)
  /\ UNCHANGED <<lock, slot, ref, buf, pc, s, ns, old, left>>

(* One step of a call in progress; no step of it depends on a new call. *)
Step(t) ==
  \/ TestAndSet(t) \/ GrabIncr(t) \/ GrabRead(t) \/ GrabUnlock(t)
  \/ CallSfunc(t) \/ ReleaseDecr(t) \/ ReleaseFree(t)
  \/ UpdateRead(t) \/ UpdateSwap(t) \/ UpdateDecr(t)
  \/ UpdateUnlock(t) \/ UpdateDelete(t)

Next ==
  \/ \E t \in Threads : CallRead(t) \/ CallUpdate(t) \/ Step(t)
  \/ Clear

Spec == Init /\ [][Next]_vars

(* The scheduler runs every thread, so a call in progress never stops at a *)
(* step it can take; the spin lock itself promises no order, so nothing is  *)
(* assumed of a thread that keeps finding the lock taken.                   *)
Fairness == \A t \in Threads : WF_vars(Step(t))

FairSpec == Spec /\ Fairness

-----------------------------------------------------------------------------
(* Who accounts for a unit of a slot's count *)

(* Thread t has counted a reference to x that it has not given back: a      *)
(* reader between the two counter operations, an updater with its new slot  *)
(* before the swap and with the replaced one after it.                      *)
Owns(t, x) ==
  \/ pc[t] = "gs_read" /\ slot = x
  \/ pc[t] \in {"gs_unlock", "vs_call", "rs_decr"} /\ s[t] = x
  \/ pc[t] \in {"us_lock", "us_read", "us_swap"} /\ ns[t] = x
  \/ pc[t] = "us_decr" /\ old[t] = x

Owners(x) == {t \in Threads : Owns(t, x)}

(* Thread t took the count of x to zero and is on its way to free it. *)
Freeing(t, x) ==
  \/ pc[t] = "rs_free" /\ s[t] = x
  \/ pc[t] \in {"us_unlock", "us_delete"} /\ left[t] = 0 /\ old[t] = x

(* Thread t's next step dereferences or frees slot x. *)
Touches(t, x) ==
  \/ pc[t] = "gs_incr" /\ slot = x
  \/ pc[t] \in {"vs_call", "rs_decr", "rs_free"} /\ s[t] = x
  \/ pc[t] \in {"us_decr", "us_delete"} /\ old[t] = x

InLock(t) ==
  pc[t] \in {"gs_incr", "gs_read", "gs_unlock",
             "us_read", "us_swap", "us_decr", "us_unlock"}

-----------------------------------------------------------------------------
(* Properties *)

(* No thread ever counts, reads, or frees a string_slot that has already    *)
(* been freed, however _grab_string, _release_string and _update_string     *)
(* interleave: this is what the count and the lock are for.                 *)
NoUseAfterFree ==
  \A t \in Threads, x \in Slots : Touches(t, x) => x \in live

(* assert(ref > 1) in _grab_string: the count just after the increment. *)
GrabAssertHolds ==
  \A t \in Threads : pc[t] = "gs_read" => ref[slot] > 1

(* At most one thread is about to free a given slot: no double free between *)
(* the last reader's _release_string and the updater's delete.              *)
SingleFree ==
  \A t, u \in Threads, x \in Slots : Freeing(t, x) /\ Freeing(u, x) => t = u

(* Every allocated slot is the lstring's current one or still in the hands  *)
(* of a running call; after _clear_value with no call running, none is left.*)
NoLeak ==
  \A x \in live :
    \/ alive /\ slot = x
    \/ \E t \in Threads : Owns(t, x) \/ Freeing(t, x)

(* While a reader holds a slot its text does not change, so sfunc sees the  *)
(* text that was current when the slot was grabbed, although an update may  *)
(* have replaced the slot and malloc may be reusing freed ones.             *)
HeldTextStable ==
  [][\A t \in Threads, x \in Slots :
       Owns(t, x) /\ Owns(t, x)' => buf'[x] = buf[x]]_vars

(* A slot that _update_string has replaced is eventually freed: by the      *)
(* updater if no reader holds it, by the last reader's release otherwise.   *)
Superseded(x) ==
  /\ x \in live
  /\ slot # x
  /\ \A t \in Threads : pc[t] \in {"us_lock", "us_read", "us_swap"} => ns[t] # x

SupersededIsFreed ==
  \A x \in Slots : Superseded(x) ~> x \notin live

(* Whoever takes the lstring's spin lock gives it back. *)
LockIsReleased == lock = 1 ~> lock = 0

-----------------------------------------------------------------------------
(* The inductive invariant *)

LockInv ==
  /\ \A t \in Threads : InLock(t) => lock = 1
  /\ \A t, u \in Threads : InLock(t) /\ InLock(u) => t = u

(* A slot's count is the number of its owners, plus one for the lstring     *)
(* that points to it.                                                       *)
SlotUnit(x) == IF alive /\ slot = x THEN 1 ELSE 0

CountInv == \A x \in live : ref[x] = Cardinality(Owners(x)) + SlotUnit(x)

FreeInv ==
  /\ \A t \in Threads, x \in Slots : Freeing(t, x) => x \in live /\ ref[x] = 0
  /\ \A x \in live : ref[x] = 0 => \E t \in Threads : Freeing(t, x)
  /\ SingleFree

OwnInv ==
  /\ alive => slot \in live
  /\ ~alive => \A t \in Threads : pc[t] = "idle"
  /\ \A t \in Threads, x \in Slots : Owns(t, x) => x \in live
  /\ \A t \in Threads : pc[t] = "us_swap" => old[t] = slot

(* A new slot before its swap is nobody else's and not yet the current one. *)
PrivateInv ==
  \A t \in Threads : pc[t] \in {"us_lock", "us_read", "us_swap"} =>
    /\ ns[t] # slot
    /\ \A u \in Threads : Owns(u, ns[t]) => u = t

LocalInv ==
  \A t \in Threads :
    /\ pc[t] \in {"gs_unlock", "vs_call", "rs_decr", "rs_free"} => s[t] \in Slots
    /\ pc[t] \in {"us_lock", "us_read", "us_swap"} => ns[t] \in Slots
    /\ pc[t] \in {"us_swap", "us_decr", "us_unlock", "us_delete"} => old[t] \in Slots
    /\ pc[t] = "us_delete" => left[t] = 0

IInv ==
  TypeOK /\ LockInv /\ LocalInv /\ OwnInv /\ PrivateInv /\ CountInv /\ FreeInv
=============================================================================
