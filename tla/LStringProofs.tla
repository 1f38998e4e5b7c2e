---------------------------- MODULE LStringProofs ----------------------------
(* Proofs about LString, for any finite set of threads and any set of       *)
(* addresses: the count of a string_slot is exactly the number of its       *)
(* owners, and what follows from it.                                        *)
EXTENDS LString, FiniteSetTheorems, TLAPS

(* Sets of threads are finite, so their cardinality is a number, zero only  *)
(* for the empty set, and changes by one with one member.                   *)
LEMMA ThreadSets ==
  ASSUME NEW A \in SUBSET Threads
  PROVE  /\ IsFiniteSet(A)
         /\ Cardinality(A) \in Nat
         /\ Cardinality(A) = 0 <=> A = {}
         /\ \A t \in Threads \ A : Cardinality(A \cup {t}) = Cardinality(A) + 1
         /\ \A t \in A : Cardinality(A \ {t}) = Cardinality(A) - 1
<1>1. IsFiniteSet(A)
  BY ThreadsFinite, FS_Subset
<1>2. Cardinality(A) \in Nat /\ (Cardinality(A) = 0 <=> A = {})
  BY <1>1, FS_CardinalityType, FS_EmptySet
<1>3. \A t \in Threads \ A : Cardinality(A \cup {t}) = Cardinality(A) + 1
  BY <1>1, FS_AddElement
<1>4. \A t \in A : Cardinality(A \ {t}) = Cardinality(A) - 1
  BY <1>1, FS_RemoveElement
<1> QED
  BY <1>1, <1>2, <1>3, <1>4

(* What the counts say about one slot x: a slot with an owner, and the      *)
(* current slot, have a positive count; a slot being freed has neither.     *)
LEMMA CountFacts ==
  ASSUME IInv, NEW x \in Slots
  PROVE  /\ \A t \in Threads : Owns(t, x) => x \in live /\ ref[x] > 0
         /\ alive /\ slot = x => x \in live /\ ref[x] > 0
         /\ alive /\ slot = x => \A t \in Threads : Owns(t, x) => ref[x] > 1
         /\ \A t \in Threads : Freeing(t, x) =>
              /\ x \in live
              /\ ~(alive /\ slot = x)
              /\ \A u \in Threads : ~Owns(u, x)
         /\ x \in live /\ ref[x] > 0 => (alive /\ slot = x) \/ \E t \in Threads : Owns(t, x)
<1>1. Owners(x) \in SUBSET Threads
  BY DEF Owners
<1>2. /\ Cardinality(Owners(x)) \in Nat
      /\ Cardinality(Owners(x)) = 0 <=> Owners(x) = {}
  BY <1>1, ThreadSets
<1>3. \A t \in Threads : Owns(t, x) => t \in Owners(x)
  BY DEF Owners
<1>4. Owners(x) # {} => \E t \in Threads : Owns(t, x)
  BY DEF Owners
<1>5. x \in live => ref[x] = Cardinality(Owners(x)) + SlotUnit(x)
  BY DEF IInv, CountInv
<1>6. /\ alive => slot \in live
      /\ \A t \in Threads : Owns(t, x) => x \in live
      /\ \A t \in Threads : Freeing(t, x) => x \in live /\ ref[x] = 0
  BY DEF IInv, OwnInv, FreeInv
<1>7. /\ alive /\ slot = x => SlotUnit(x) = 1
      /\ ~(alive /\ slot = x) => SlotUnit(x) = 0
  BY DEF SlotUnit
<1> QED
  BY <1>2, <1>3, <1>4, <1>5, <1>6, <1>7

(* set_string leaves the new lstring with one slot, counted once. *)
LEMMA InitInv == Init => IInv
<1> SUFFICES ASSUME Init PROVE IInv
  OBVIOUS
<1>1. TypeOK
  BY DEF Init, TypeOK, PCs
<1>2. LockInv /\ LocalInv /\ PrivateInv
  BY DEF Init, LockInv, LocalInv, PrivateInv, InLock
<1>3. \A t \in Threads, x \in Slots : ~Owns(t, x) /\ ~Freeing(t, x)
  BY DEF Init, Owns, Freeing
<1>4. OwnInv
  BY <1>3 DEF Init, OwnInv
<1>5. CountInv
  <2> SUFFICES ASSUME NEW x \in live PROVE ref[x] = Cardinality(Owners(x)) + SlotUnit(x)
    BY DEF CountInv
  <2>1. x = slot /\ x \in Slots /\ ref[x] = 1
    BY DEF Init
  <2>2. Owners(x) = {}
    BY <1>3, <2>1 DEF Owners
  <2>3. SlotUnit(x) = 1
    BY <2>1 DEF SlotUnit, Init
  <2> QED
    BY <2>1, <2>2, <2>3, FS_EmptySet
<1>6. FreeInv
  BY <1>3 DEF Init, FreeInv, SingleFree
<1> QED
  BY <1>1, <1>2, <1>4, <1>5, <1>6 DEF IInv

(* Steps that change neither live nor ref nor the owners of any slot keep   *)
(* the counts.                                                              *)
LEMMA CountKept ==
  ASSUME CountInv,
         live' = live, ref' = ref, slot' = slot, alive' = alive,
         \A x \in live : Owners(x)' = Owners(x)
  PROVE  CountInv'
BY DEF CountInv, SlotUnit

(* The call only enters _grab_string. *)
LEMMA CallReadInv == ASSUME IInv, NEW t \in Threads, CallRead(t) PROVE IInv'
<1> USE DEF IInv
<1>1. TypeOK'
  BY DEF CallRead, Goto, TypeOK, PCs
<1>2. LockInv' /\ LocalInv'
  BY DEF CallRead, Goto, TypeOK, PCs, LockInv, LocalInv, InLock
<1>3. \A u \in Threads, x \in Slots :
        (Owns(u, x)' <=> Owns(u, x)) /\ (Freeing(u, x)' <=> Freeing(u, x))
  BY DEF CallRead, Goto, TypeOK, LocalInv, Owns, Freeing
<1>4. OwnInv'
  BY <1>1, <1>3 DEF CallRead, Goto, TypeOK, OwnInv
<1>5. PrivateInv'
  BY <1>1, <1>3 DEF CallRead, Goto, TypeOK, PrivateInv, LocalInv
<1>6. CountInv'
  <2>1. \A x \in live : Owners(x)' = Owners(x)
    BY <1>3 DEF Owners, TypeOK
  <2> QED
    BY <2>1, CountKept DEF CallRead
<1>7. FreeInv'
  BY <1>1, <1>3 DEF CallRead, TypeOK, FreeInv, SingleFree
<1> QED
  BY <1>1, <1>2, <1>4, <1>5, <1>6, <1>7

(* The lock was free, so nobody is inside it. *)
LEMMA TestAndSetInv == ASSUME IInv, NEW t \in Threads, TestAndSet(t) PROVE IInv'
<1> USE DEF IInv
<1>1. TypeOK'
  BY DEF TestAndSet, Goto, TypeOK, PCs
<1>2. LockInv' /\ LocalInv'
  BY DEF TestAndSet, Goto, TypeOK, PCs, LockInv, LocalInv, InLock
<1>3. \A u \in Threads, x \in Slots :
        (Owns(u, x)' <=> Owns(u, x)) /\ (Freeing(u, x)' <=> Freeing(u, x))
  BY DEF TestAndSet, Goto, TypeOK, LocalInv, Owns, Freeing
<1>4. OwnInv'
  BY <1>1, <1>3 DEF TestAndSet, Goto, TypeOK, OwnInv
<1>5. PrivateInv'
  BY <1>1, <1>3 DEF TestAndSet, Goto, TypeOK, PrivateInv, LocalInv
<1>6. CountInv'
  <2>1. \A x \in live : Owners(x)' = Owners(x)
    BY <1>3 DEF Owners, TypeOK
  <2> QED
    BY <2>1, CountKept DEF TestAndSet
<1>7. FreeInv'
  BY <1>1, <1>3 DEF TestAndSet, TypeOK, FreeInv, SingleFree
<1> QED
  BY <1>1, <1>2, <1>4, <1>5, <1>6, <1>7

(* The reader already owned the current slot; now s names it. *)
LEMMA GrabReadInv == ASSUME IInv, NEW t \in Threads, GrabRead(t) PROVE IInv'
<1> USE DEF IInv
<1>1. TypeOK'
  BY DEF GrabRead, Goto, TypeOK, PCs
<1>2. LockInv' /\ LocalInv'
  BY DEF GrabRead, Goto, TypeOK, PCs, LockInv, LocalInv, InLock
<1>3. \A u \in Threads, x \in Slots :
        (Owns(u, x)' <=> Owns(u, x)) /\ (Freeing(u, x)' <=> Freeing(u, x))
  BY DEF GrabRead, Goto, TypeOK, LocalInv, Owns, Freeing
<1>4. OwnInv'
  BY <1>1, <1>3 DEF GrabRead, Goto, TypeOK, OwnInv
<1>5. PrivateInv'
  BY <1>1, <1>3 DEF GrabRead, Goto, TypeOK, PrivateInv, LocalInv
<1>6. CountInv'
  <2>1. \A x \in live : Owners(x)' = Owners(x)
    BY <1>3 DEF Owners, TypeOK
  <2> QED
    BY <2>1, CountKept DEF GrabRead
<1>7. FreeInv'
  BY <1>1, <1>3 DEF GrabRead, TypeOK, FreeInv, SingleFree
<1> QED
  BY <1>1, <1>2, <1>4, <1>5, <1>6, <1>7

(* Leaving the lock. *)
LEMMA GrabUnlockInv == ASSUME IInv, NEW t \in Threads, GrabUnlock(t) PROVE IInv'
<1> USE DEF IInv
<1>1. TypeOK'
  BY DEF GrabUnlock, Goto, TypeOK, PCs
<1>2. LockInv' /\ LocalInv'
  BY DEF GrabUnlock, Goto, TypeOK, PCs, LockInv, LocalInv, InLock
<1>3. \A u \in Threads, x \in Slots :
        (Owns(u, x)' <=> Owns(u, x)) /\ (Freeing(u, x)' <=> Freeing(u, x))
  BY DEF GrabUnlock, Goto, TypeOK, LocalInv, Owns, Freeing
<1>4. OwnInv'
  BY <1>1, <1>3 DEF GrabUnlock, Goto, TypeOK, OwnInv
<1>5. PrivateInv'
  BY <1>1, <1>3 DEF GrabUnlock, Goto, TypeOK, PrivateInv, LocalInv
<1>6. CountInv'
  <2>1. \A x \in live : Owners(x)' = Owners(x)
    BY <1>3 DEF Owners, TypeOK
  <2> QED
    BY <2>1, CountKept DEF GrabUnlock
<1>7. FreeInv'
  BY <1>1, <1>3 DEF GrabUnlock, TypeOK, FreeInv, SingleFree
<1> QED
  BY <1>1, <1>2, <1>4, <1>5, <1>6, <1>7

(* sfunc reads the slot the thread owns. *)
LEMMA CallSfuncInv == ASSUME IInv, NEW t \in Threads, CallSfunc(t) PROVE IInv'
<1> USE DEF IInv
<1>1. TypeOK'
  BY DEF CallSfunc, Goto, TypeOK, PCs
<1>2. LockInv' /\ LocalInv'
  BY DEF CallSfunc, Goto, TypeOK, PCs, LockInv, LocalInv, InLock
<1>3. \A u \in Threads, x \in Slots :
        (Owns(u, x)' <=> Owns(u, x)) /\ (Freeing(u, x)' <=> Freeing(u, x))
  BY DEF CallSfunc, Goto, TypeOK, LocalInv, Owns, Freeing
<1>4. OwnInv'
  BY <1>1, <1>3 DEF CallSfunc, Goto, TypeOK, OwnInv
<1>5. PrivateInv'
  BY <1>1, <1>3 DEF CallSfunc, Goto, TypeOK, PrivateInv, LocalInv
<1>6. CountInv'
  <2>1. \A x \in live : Owners(x)' = Owners(x)
    BY <1>3 DEF Owners, TypeOK
  <2> QED
    BY <2>1, CountKept DEF CallSfunc
<1>7. FreeInv'
  BY <1>1, <1>3 DEF CallSfunc, TypeOK, FreeInv, SingleFree
<1> QED
  BY <1>1, <1>2, <1>4, <1>5, <1>6, <1>7

(* Under the lock, old is the current slot. *)
LEMMA UpdateReadInv == ASSUME IInv, NEW t \in Threads, UpdateRead(t) PROVE IInv'
<1> USE DEF IInv
<1>1. TypeOK'
  BY DEF UpdateRead, Goto, TypeOK, PCs
<1>2. LockInv' /\ LocalInv'
  BY DEF UpdateRead, Goto, TypeOK, PCs, LockInv, LocalInv, InLock
<1>3. \A u \in Threads, x \in Slots :
        (Owns(u, x)' <=> Owns(u, x)) /\ (Freeing(u, x)' <=> Freeing(u, x))
  BY DEF UpdateRead, Goto, TypeOK, LocalInv, Owns, Freeing
<1>4. OwnInv'
  BY <1>1, <1>3 DEF UpdateRead, Goto, TypeOK, OwnInv
<1>5. PrivateInv'
  BY <1>1, <1>3 DEF UpdateRead, Goto, TypeOK, PrivateInv, LocalInv
<1>6. CountInv'
  <2>1. \A x \in live : Owners(x)' = Owners(x)
    BY <1>3 DEF Owners, TypeOK
  <2> QED
    BY <2>1, CountKept DEF UpdateRead
<1>7. FreeInv'
  BY <1>1, <1>3 DEF UpdateRead, TypeOK, FreeInv, SingleFree
<1> QED
  BY <1>1, <1>2, <1>4, <1>5, <1>6, <1>7

(* Leaving the lock, to free the old slot if its count was taken to zero. *)
LEMMA UpdateUnlockInv == ASSUME IInv, NEW t \in Threads, UpdateUnlock(t) PROVE IInv'
<1> USE DEF IInv
<1>1. TypeOK'
  BY DEF UpdateUnlock, Return, locals, Goto, TypeOK, PCs
<1>2. LockInv' /\ LocalInv'
  BY DEF UpdateUnlock, Return, locals, Goto, TypeOK, PCs, LockInv, LocalInv, InLock
<1>3. \A u \in Threads, x \in Slots :
        (Owns(u, x)' <=> Owns(u, x)) /\ (Freeing(u, x)' <=> Freeing(u, x))
  BY DEF UpdateUnlock, Return, locals, Goto, TypeOK, LocalInv, Owns, Freeing
<1>4. OwnInv'
  BY <1>1, <1>3 DEF UpdateUnlock, Return, locals, Goto, TypeOK, OwnInv
<1>5. PrivateInv'
  BY <1>1, <1>3 DEF UpdateUnlock, Return, locals, Goto, TypeOK, PrivateInv, LocalInv
<1>6. CountInv'
  <2>1. \A x \in live : Owners(x)' = Owners(x)
    BY <1>3 DEF Owners, TypeOK
  <2> QED
    BY <2>1, CountKept DEF UpdateUnlock
<1>7. FreeInv'
  BY <1>1, <1>3 DEF UpdateUnlock, TypeOK, FreeInv, SingleFree
<1> QED
  BY <1>1, <1>2, <1>4, <1>5, <1>6, <1>7

(* new_string: the new slot has one owner, the caller. *)
LEMMA CallUpdateInv == ASSUME IInv, NEW t \in Threads, CallUpdate(t) PROVE IInv'
<1> USE DEF IInv
<1> PICK a \in Slots, text \in Texts : Alloc(a, text) /\ ns' = [ns EXCEPT ![t] = a]
  BY DEF CallUpdate
<1>1. TypeOK'
  BY DEF CallUpdate, Alloc, Goto, TypeOK, PCs
<1>2. LockInv' /\ LocalInv'
  BY DEF CallUpdate, Goto, TypeOK, PCs, LockInv, LocalInv, InLock
<1>3. /\ a \notin live /\ alive /\ a # slot
      /\ \A u \in Threads : ~Owns(u, a) /\ ~Freeing(u, a)
  BY DEF CallUpdate, Alloc, OwnInv, FreeInv
<1>4. \A u \in Threads, x \in Slots :
        /\ Owns(u, x)' <=> Owns(u, x) \/ (u = t /\ x = a)
        /\ Freeing(u, x)' <=> Freeing(u, x)
  BY DEF CallUpdate, Goto, TypeOK, Owns, Freeing
<1>5. OwnInv'
  BY <1>1, <1>4 DEF CallUpdate, Alloc, Goto, TypeOK, OwnInv
<1>6. PrivateInv'
  <2>1. \A v \in Threads :
          pc[v] \in {"us_lock", "us_read", "us_swap"} => ns[v] \in Slots /\ ns[v] # a
    BY <1>3 DEF LocalInv, Owns
  <2> QED
    BY <1>1, <1>3, <1>4, <2>1 DEF CallUpdate, Goto, TypeOK, PrivateInv
<1>7. CountInv'
  <2> SUFFICES ASSUME NEW x \in live'
               PROVE  ref'[x] = Cardinality(Owners(x)') + SlotUnit(x)'
    BY DEF CountInv
  <2>1. SlotUnit(x)' = SlotUnit(x)
    BY DEF CallUpdate, SlotUnit
  <2>2. CASE x = a
    <3>1. Owners(x) = {} /\ Owners(x)' = {} \cup {t}
      BY <1>3, <1>4, <2>2 DEF Owners
    <3>2. Cardinality({t}) = 1
      BY FS_Singleton
    <3>3. SlotUnit(x) = 0 /\ ref'[x] = 1
      BY <1>3, <2>2 DEF SlotUnit, Alloc, TypeOK
    <3> QED
      BY <2>1, <3>1, <3>2, <3>3
  <2>3. CASE x # a
    <3>1. x \in live /\ x \in Slots /\ ref'[x] = ref[x]
      BY <2>3 DEF Alloc, TypeOK
    <3>2. Owners(x)' = Owners(x)
      BY <1>4, <2>3, <3>1 DEF Owners
    <3> QED
      BY <2>1, <3>1, <3>2 DEF CountInv
  <2> QED
    BY <2>2, <2>3
<1>8. FreeInv'
  BY <1>1, <1>3, <1>4 DEF Alloc, TypeOK, FreeInv, SingleFree
<1> QED
  BY <1>1, <1>2, <1>5, <1>6, <1>7, <1>8

(* _grab_string: the current slot gains an owner and a count. *)
LEMMA GrabIncrInv == ASSUME IInv, NEW t \in Threads, GrabIncr(t) PROVE IInv'
<1> USE DEF IInv
<1>1. TypeOK'
  BY DEF GrabIncr, Goto, TypeOK, PCs
<1>2. LockInv' /\ LocalInv'
  BY DEF GrabIncr, Goto, TypeOK, PCs, LockInv, LocalInv, InLock
<1>3. alive /\ slot \in live /\ slot \in Slots /\ ref[slot] > 0
  <2>1. alive /\ slot \in Slots
    BY DEF GrabIncr, OwnInv, TypeOK
  <2> QED
    BY <2>1, CountFacts
<1>4. \A u \in Threads, x \in Slots :
        /\ Owns(u, x)' <=> Owns(u, x) \/ (u = t /\ x = slot)
        /\ Freeing(u, x)' <=> Freeing(u, x)
        /\ ~Owns(t, x)
  BY DEF GrabIncr, Goto, TypeOK, Owns, Freeing
<1>5. OwnInv'
  BY <1>1, <1>3, <1>4 DEF GrabIncr, Goto, TypeOK, OwnInv
<1>6. PrivateInv'
  BY <1>1, <1>4 DEF GrabIncr, Goto, TypeOK, PrivateInv, LocalInv
<1>7. CountInv'
  <2> SUFFICES ASSUME NEW x \in live'
               PROVE  ref'[x] = Cardinality(Owners(x)') + SlotUnit(x)'
    BY DEF CountInv
  <2>1. SlotUnit(x)' = SlotUnit(x) /\ SlotUnit(x) \in Nat /\ x \in live /\ x \in Slots
    BY DEF GrabIncr, SlotUnit, TypeOK
  <2>2. ref[x] = Cardinality(Owners(x)) + SlotUnit(x)
    BY <2>1 DEF CountInv
  <2>3. CASE x = slot
    <3>1. Owners(x)' = Owners(x) \cup {t} /\ t \notin Owners(x) /\ Owners(x) \in SUBSET Threads
      BY <1>4, <2>1, <2>3 DEF Owners
    <3>2. Cardinality(Owners(x)') = Cardinality(Owners(x)) + 1 /\ Cardinality(Owners(x)) \in Nat
      BY <3>1, ThreadSets
    <3>3. ref'[x] = ref[x] + 1
      BY <2>3 DEF GrabIncr, TypeOK
    <3> QED
      BY <2>1, <2>2, <3>2, <3>3
  <2>4. CASE x # slot
    <3>1. Owners(x)' = Owners(x) /\ ref'[x] = ref[x]
      BY <1>4, <2>1, <2>4 DEF Owners, GrabIncr, TypeOK
    <3> QED
      BY <2>1, <2>2, <3>1
  <2> QED
    BY <2>3, <2>4
<1>8. FreeInv'
  BY <1>1, <1>3, <1>4 DEF GrabIncr, TypeOK, FreeInv, SingleFree
<1> QED
  BY <1>1, <1>2, <1>5, <1>6, <1>7, <1>8

(* _release_string: the slot loses an owner and a count; at zero the thread *)
(* is the one that frees it. *)
LEMMA ReleaseDecrInv == ASSUME IInv, NEW t \in Threads, ReleaseDecr(t) PROVE IInv'
<1> USE DEF IInv
<1> DEFINE a == s[t]
<1>1. TypeOK'
  BY DEF ReleaseDecr, Return, locals, Goto, TypeOK, PCs, LocalInv
<1>2. LockInv' /\ LocalInv'
  BY DEF ReleaseDecr, Return, locals, Goto, TypeOK, PCs, LockInv, LocalInv, InLock
<1>3. a \in Slots /\ Owns(t, a) /\ (\A x \in Slots : Owns(t, x) => x = a)
  BY DEF ReleaseDecr, LocalInv, Owns
<1>4. a \in live /\ ref[a] > 0 /\ ref[a] \in Int /\ ref'[a] = ref[a] - 1
  BY <1>3, CountFacts DEF ReleaseDecr, TypeOK
<1>5. \A x \in Slots \ {a} : ref'[x] = ref[x]
  BY DEF ReleaseDecr, TypeOK
<1>6. \A u \in Threads, x \in Slots :
        /\ Owns(u, x)' <=> Owns(u, x) /\ ~(u = t /\ x = a)
        /\ Freeing(u, x)' <=> Freeing(u, x) \/ (u = t /\ x = a /\ ref'[a] = 0)
        /\ ~Freeing(t, x) /\ ~Freeing(u, a)
  <2>1. \A u \in Threads, x \in Slots : ~Freeing(t, x) /\ ~Freeing(u, a)
    BY <1>3, <1>4 DEF ReleaseDecr, Freeing, FreeInv
  <2> QED
    BY <1>3, <1>4, <2>1 DEF ReleaseDecr, Return, locals, Goto, TypeOK, Owns, Freeing
<1>7. OwnInv'
  BY <1>1, <1>6 DEF ReleaseDecr, Return, locals, Goto, TypeOK, OwnInv
<1>8. PrivateInv'
  BY <1>1, <1>6 DEF ReleaseDecr, Return, locals, Goto, TypeOK, PrivateInv, LocalInv
<1>9. CountInv'
  <2> SUFFICES ASSUME NEW x \in live'
               PROVE  ref'[x] = Cardinality(Owners(x)') + SlotUnit(x)'
    BY DEF CountInv
  <2>1. SlotUnit(x)' = SlotUnit(x) /\ SlotUnit(x) \in Nat /\ x \in live /\ x \in Slots
    BY DEF ReleaseDecr, SlotUnit, TypeOK
  <2>2. ref[x] = Cardinality(Owners(x)) + SlotUnit(x)
    BY <2>1 DEF CountInv
  <2>3. CASE x = a
    <3>1. Owners(x)' = Owners(x) \ {t} /\ t \in Owners(x) /\ Owners(x) \in SUBSET Threads
      BY <1>3, <1>6, <2>1, <2>3 DEF Owners
    <3>2. Cardinality(Owners(x)') = Cardinality(Owners(x)) - 1 /\ Cardinality(Owners(x)) \in Nat
      BY <3>1, ThreadSets
    <3> QED
      BY <1>4, <2>1, <2>2, <2>3, <3>2
  <2>4. CASE x # a
    <3>1. Owners(x)' = Owners(x) /\ ref'[x] = ref[x]
      BY <1>5, <1>6, <2>1, <2>4 DEF Owners
    <3> QED
      BY <2>1, <2>2, <3>1
  <2> QED
    BY <2>3, <2>4
<1>10. FreeInv'
  BY <1>1, <1>4, <1>5, <1>6 DEF ReleaseDecr, TypeOK, FreeInv, SingleFree
<1> QED
  BY <1>1, <1>2, <1>7, <1>8, <1>9, <1>10

(* _update_string gives up the replaced slot in the same way. *)
LEMMA UpdateDecrInv == ASSUME IInv, NEW t \in Threads, UpdateDecr(t) PROVE IInv'
<1> USE DEF IInv
<1> DEFINE a == old[t]
<1>1. TypeOK'
  BY DEF UpdateDecr, Goto, TypeOK, PCs, LocalInv
<1>2. LockInv' /\ LocalInv'
  BY DEF UpdateDecr, Goto, TypeOK, PCs, LockInv, LocalInv, InLock
<1>3. a \in Slots /\ Owns(t, a) /\ (\A x \in Slots : Owns(t, x) => x = a)
  BY DEF UpdateDecr, LocalInv, Owns
<1>4. a \in live /\ ref[a] > 0 /\ ref[a] \in Int /\ ref'[a] = ref[a] - 1
  BY <1>3, CountFacts DEF UpdateDecr, TypeOK
<1>5. \A x \in Slots \ {a} : ref'[x] = ref[x]
  BY DEF UpdateDecr, TypeOK
<1>6. \A u \in Threads, x \in Slots :
        /\ Owns(u, x)' <=> Owns(u, x) /\ ~(u = t /\ x = a)
        /\ Freeing(u, x)' <=> Freeing(u, x) \/ (u = t /\ x = a /\ ref'[a] = 0)
        /\ ~Freeing(t, x) /\ ~Freeing(u, a)
  <2>1. \A u \in Threads, x \in Slots : ~Freeing(t, x) /\ ~Freeing(u, a)
    BY <1>3, <1>4 DEF UpdateDecr, Freeing, FreeInv
  <2> QED
    BY <1>3, <1>4, <2>1 DEF UpdateDecr, Goto, TypeOK, Owns, Freeing
<1>7. OwnInv'
  BY <1>1, <1>6 DEF UpdateDecr, Goto, TypeOK, OwnInv
<1>8. PrivateInv'
  BY <1>1, <1>6 DEF UpdateDecr, Goto, TypeOK, PrivateInv, LocalInv
<1>9. CountInv'
  <2> SUFFICES ASSUME NEW x \in live'
               PROVE  ref'[x] = Cardinality(Owners(x)') + SlotUnit(x)'
    BY DEF CountInv
  <2>1. SlotUnit(x)' = SlotUnit(x) /\ SlotUnit(x) \in Nat /\ x \in live /\ x \in Slots
    BY DEF UpdateDecr, SlotUnit, TypeOK
  <2>2. ref[x] = Cardinality(Owners(x)) + SlotUnit(x)
    BY <2>1 DEF CountInv
  <2>3. CASE x = a
    <3>1. Owners(x)' = Owners(x) \ {t} /\ t \in Owners(x) /\ Owners(x) \in SUBSET Threads
      BY <1>3, <1>6, <2>1, <2>3 DEF Owners
    <3>2. Cardinality(Owners(x)') = Cardinality(Owners(x)) - 1 /\ Cardinality(Owners(x)) \in Nat
      BY <3>1, ThreadSets
    <3> QED
      BY <1>4, <2>1, <2>2, <2>3, <3>2
  <2>4. CASE x # a
    <3>1. Owners(x)' = Owners(x) /\ ref'[x] = ref[x]
      BY <1>5, <1>6, <2>1, <2>4 DEF Owners
    <3> QED
      BY <2>1, <2>2, <3>1
  <2> QED
    BY <2>3, <2>4
<1>10. FreeInv'
  BY <1>1, <1>4, <1>5, <1>6 DEF UpdateDecr, TypeOK, FreeInv, SingleFree
<1> QED
  BY <1>1, <1>2, <1>7, <1>8, <1>9, <1>10

(* free(s): nobody owns the slot and the lstring does not point to it. *)
LEMMA ReleaseFreeInv == ASSUME IInv, NEW t \in Threads, ReleaseFree(t) PROVE IInv'
<1> USE DEF IInv
<1> DEFINE a == s[t]
<1>1. TypeOK'
  BY DEF ReleaseFree, Return, Free, Goto, TypeOK, PCs
<1>2. LockInv' /\ LocalInv'
  BY DEF ReleaseFree, Return, Goto, TypeOK, PCs, LockInv, LocalInv, InLock
<1>3. a \in Slots /\ Freeing(t, a) /\ \A x \in Slots : Freeing(t, x) => x = a
  BY DEF ReleaseFree, LocalInv, Freeing
<1>4. /\ ~(alive /\ slot = a)
      /\ \A u \in Threads : ~Owns(u, a)
      /\ \A u \in Threads : Freeing(u, a) => u = t
  BY <1>3, CountFacts DEF FreeInv, SingleFree
<1>5. \A u \in Threads, x \in Slots :
        /\ Owns(u, x)' <=> Owns(u, x)
        /\ Freeing(u, x)' <=> Freeing(u, x) /\ u # t
  BY <1>3 DEF ReleaseFree, Return, Goto, TypeOK, Owns, Freeing
<1>6. OwnInv'
  BY <1>1, <1>4, <1>5 DEF ReleaseFree, Return, Free, Goto, TypeOK, OwnInv
<1>7. PrivateInv'
  BY <1>1, <1>5 DEF ReleaseFree, Return, Goto, TypeOK, PrivateInv, LocalInv
<1>8. CountInv'
  <2>1. \A x \in Slots : Owners(x)' = Owners(x)
    BY <1>5 DEF Owners
  <2> QED
    BY <2>1 DEF ReleaseFree, Free, CountInv, SlotUnit, TypeOK
<1>9. FreeInv'
  BY <1>1, <1>3, <1>4, <1>5 DEF ReleaseFree, Free, TypeOK, FreeInv, SingleFree
<1> QED
  BY <1>1, <1>2, <1>6, <1>7, <1>8, <1>9

(* delete old, likewise. *)
LEMMA UpdateDeleteInv == ASSUME IInv, NEW t \in Threads, UpdateDelete(t) PROVE IInv'
<1> USE DEF IInv
<1> DEFINE a == old[t]
<1>1. TypeOK'
  BY DEF UpdateDelete, Return, Free, Goto, TypeOK, PCs
<1>2. LockInv' /\ LocalInv'
  BY DEF UpdateDelete, Return, Goto, TypeOK, PCs, LockInv, LocalInv, InLock
<1>3. a \in Slots /\ Freeing(t, a) /\ \A x \in Slots : Freeing(t, x) => x = a
  BY DEF UpdateDelete, LocalInv, Freeing
<1>4. /\ ~(alive /\ slot = a)
      /\ \A u \in Threads : ~Owns(u, a)
      /\ \A u \in Threads : Freeing(u, a) => u = t
  BY <1>3, CountFacts DEF FreeInv, SingleFree
<1>5. \A u \in Threads, x \in Slots :
        /\ Owns(u, x)' <=> Owns(u, x)
        /\ Freeing(u, x)' <=> Freeing(u, x) /\ u # t
  BY <1>3 DEF UpdateDelete, Return, Goto, TypeOK, Owns, Freeing
<1>6. OwnInv'
  BY <1>1, <1>4, <1>5 DEF UpdateDelete, Return, Free, Goto, TypeOK, OwnInv
<1>7. PrivateInv'
  BY <1>1, <1>5 DEF UpdateDelete, Return, Goto, TypeOK, PrivateInv, LocalInv
<1>8. CountInv'
  <2>1. \A x \in Slots : Owners(x)' = Owners(x)
    BY <1>5 DEF Owners
  <2> QED
    BY <2>1 DEF UpdateDelete, Free, CountInv, SlotUnit, TypeOK
<1>9. FreeInv'
  BY <1>1, <1>3, <1>4, <1>5 DEF UpdateDelete, Free, TypeOK, FreeInv, SingleFree
<1> QED
  BY <1>1, <1>2, <1>6, <1>7, <1>8, <1>9

(* str->slot = ns: the new slot exchanges its owner for the lstring, the    *)
(* old one the lstring for an owner.                                        *)
LEMMA UpdateSwapInv == ASSUME IInv, NEW t \in Threads, UpdateSwap(t) PROVE IInv'
<1> USE DEF IInv
<1> DEFINE new == ns[t]
<1>1. TypeOK'
  BY DEF UpdateSwap, Goto, TypeOK, PCs, LocalInv
<1>2. LockInv' /\ LocalInv'
  BY DEF UpdateSwap, Goto, TypeOK, PCs, LockInv, LocalInv, InLock
<1>3. /\ alive /\ new \in Slots /\ new # slot /\ slot \in live /\ old[t] = slot
      /\ Owns(t, new) /\ \A u \in Threads : Owns(u, new) => u = t
  BY DEF UpdateSwap, OwnInv, PrivateInv, LocalInv, Owns, TypeOK
<1>4. \A u \in Threads : u # t => pc[u] # "gs_read"
  BY DEF UpdateSwap, LockInv, InLock
<1>5. \A u \in Threads, x \in Slots :
        /\ u # t => (Owns(u, x)' <=> Owns(u, x))
        /\ Owns(t, x) <=> x = new
        /\ Owns(t, x)' <=> x = slot
        /\ Freeing(u, x)' <=> Freeing(u, x)
  BY <1>3, <1>4 DEF UpdateSwap, Goto, TypeOK, Owns, Freeing
<1>6. OwnInv'
  BY <1>1, <1>3, <1>5 DEF UpdateSwap, Goto, TypeOK, OwnInv, LockInv, InLock
<1>7. PrivateInv'
  <2>1. \A v \in Threads :
          v # t /\ pc[v] \in {"us_lock", "us_read", "us_swap"} =>
            ns[v] \in Slots /\ ns[v] # slot /\ ns[v] # new
    BY <1>3 DEF LocalInv, Owns, PrivateInv
  <2> QED
    BY <1>1, <1>3, <1>5, <2>1 DEF UpdateSwap, Goto, TypeOK, PrivateInv
<1>8. CountInv'
  <2> SUFFICES ASSUME NEW x \in live'
               PROVE  ref'[x] = Cardinality(Owners(x)') + SlotUnit(x)'
    BY DEF CountInv
  <2>1. /\ x \in live /\ x \in Slots /\ ref'[x] = ref[x]
        /\ Owners(x) \in SUBSET Threads /\ Owners(x)' \in SUBSET Threads
        /\ Cardinality(Owners(x)) \in Nat
    BY ThreadSets DEF UpdateSwap, TypeOK, Owners
  <2>2. ref[x] = Cardinality(Owners(x)) + SlotUnit(x)
    BY <2>1 DEF CountInv
  <2>3. CASE x = slot
    <3>1. t \notin Owners(x) /\ Owners(x)' = Owners(x) \cup {t}
      BY <1>3, <1>5, <2>1, <2>3 DEF Owners
    <3>2. Cardinality(Owners(x)') = Cardinality(Owners(x)) + 1
      BY <2>1, <3>1, ThreadSets
    <3>3. SlotUnit(x) = 1 /\ SlotUnit(x)' = 0
      BY <1>3, <2>3 DEF SlotUnit, UpdateSwap
    <3> QED
      BY <2>1, <2>2, <3>2, <3>3
  <2>4. CASE x = new
    <3>1. t \in Owners(x) /\ Owners(x)' = Owners(x) \ {t}
      BY <1>3, <1>5, <2>1, <2>4 DEF Owners
    <3>2. Cardinality(Owners(x)') = Cardinality(Owners(x)) - 1
      BY <2>1, <3>1, ThreadSets
    <3>3. SlotUnit(x) = 0 /\ SlotUnit(x)' = 1
      BY <1>3, <2>4 DEF SlotUnit, UpdateSwap
    <3> QED
      BY <2>1, <2>2, <3>2, <3>3
  <2>5. CASE x # slot /\ x # new
    <3>1. Owners(x)' = Owners(x)
      BY <1>5, <2>1, <2>5 DEF Owners
    <3>2. SlotUnit(x)' = SlotUnit(x)
      BY <2>5 DEF SlotUnit, UpdateSwap
    <3> QED
      BY <2>1, <2>2, <3>1, <3>2
  <2> QED
    BY <2>3, <2>4, <2>5
<1>9. FreeInv'
  BY <1>1, <1>5 DEF UpdateSwap, TypeOK, FreeInv, SingleFree
<1> QED
  BY <1>1, <1>2, <1>6, <1>7, <1>8, <1>9

(* _clear_value: no call is running, so the current slot has no owner. *)
LEMMA ClearInv == ASSUME IInv, Clear PROVE IInv'
<1> USE DEF IInv
<1>1. TypeOK'
  BY DEF Clear, Free, TypeOK
<1>2. LockInv' /\ LocalInv' /\ PrivateInv'
  BY DEF Clear, LockInv, LocalInv, PrivateInv, InLock
<1>3. \A u \in Threads, x \in Slots :
        ~Owns(u, x) /\ ~Owns(u, x)' /\ ~Freeing(u, x) /\ ~Freeing(u, x)'
  BY DEF Clear, Owns, Freeing
<1>4. OwnInv'
  BY <1>1, <1>3 DEF Clear, OwnInv
<1>5. CountInv'
  <2>1. \A x \in Slots : Owners(x)' = Owners(x)
    BY <1>3 DEF Owners
  <2> QED
    BY <2>1 DEF Clear, Free, CountInv, SlotUnit, TypeOK
<1>6. FreeInv'
  BY <1>3 DEF Clear, Free, FreeInv, SingleFree, TypeOK
<1> QED
  BY <1>1, <1>2, <1>4, <1>5, <1>6

(* Stuttering *)
LEMMA StutterInv == IInv /\ UNCHANGED vars => IInv'
BY DEF vars, IInv, TypeOK, LockInv, InLock, LocalInv, OwnInv, PrivateInv, CountInv,
       SlotUnit, Owners, FreeInv, SingleFree, Owns, Freeing

(* IInv is an invariant: every access of every thread preserves it. *)
THEOREM IInvHolds == Spec => []IInv
<1>1. IInv /\ [Next]_vars => IInv'
  <2> SUFFICES ASSUME IInv, [Next]_vars PROVE IInv'
    OBVIOUS
  <2>1. CASE \E t \in Threads : CallRead(t) \/ CallUpdate(t)
    BY <2>1, CallReadInv, CallUpdateInv
  <2>2. CASE \E t \in Threads : Step(t)
    BY <2>2, TestAndSetInv, GrabIncrInv, GrabReadInv, GrabUnlockInv, CallSfuncInv,
       ReleaseDecrInv, ReleaseFreeInv, UpdateReadInv, UpdateSwapInv, UpdateDecrInv,
       UpdateUnlockInv, UpdateDeleteInv DEF Step
  <2>3. CASE Clear
    BY <2>3, ClearInv
  <2>4. CASE UNCHANGED vars
    BY <2>4, StutterInv
  <2> QED
    BY <2>1, <2>2, <2>3, <2>4 DEF Next
<1> QED
  BY <1>1, InitInv, PTL DEF Spec

(* Every variable keeps its type; the lock is 0 or 1. *)
THEOREM TypeCorrect == Spec => []TypeOK
<1>1. IInv => TypeOK
  BY DEF IInv
<1> QED
  BY <1>1, IInvHolds, PTL

(* No thread of any number counts, reads or frees a freed slot, because a   *)
(* thread that will touch a slot owns it, is the one freeing it, or reads   *)
(* it through the lstring under the lock.                                   *)
THEOREM NoUseAfterFreeHolds == Spec => []NoUseAfterFree
<1>1. IInv => NoUseAfterFree
  <2> SUFFICES ASSUME IInv, NEW t \in Threads, NEW x \in Slots, Touches(t, x)
               PROVE  x \in live
    BY DEF NoUseAfterFree
  <2>1. CASE pc[t] = "gs_incr" /\ slot = x
    BY <2>1 DEF IInv, OwnInv
  <2>2. CASE pc[t] \in {"vs_call", "rs_decr"} /\ s[t] = x
    BY <2>2 DEF IInv, OwnInv, Owns
  <2>3. CASE pc[t] = "us_decr" /\ old[t] = x
    BY <2>3 DEF IInv, OwnInv, Owns
  <2>4. CASE \/ pc[t] = "rs_free" /\ s[t] = x
             \/ pc[t] = "us_delete" /\ old[t] = x
    BY <2>4 DEF IInv, FreeInv, Freeing, LocalInv
  <2> QED
    BY <2>1, <2>2, <2>3, <2>4 DEF Touches
<1> QED
  BY <1>1, IInvHolds, PTL

(* assert(ref > 1) in _grab_string never fails: the lstring and the grabber *)
(* each account for a unit.                                                 *)
THEOREM GrabAssertHoldsAlways == Spec => []GrabAssertHolds
<1>1. IInv => GrabAssertHolds
  <2> SUFFICES ASSUME IInv, NEW t \in Threads, pc[t] = "gs_read" PROVE ref[slot] > 1
    BY DEF GrabAssertHolds
  <2>1. alive /\ slot \in Slots /\ Owns(t, slot)
    BY DEF IInv, OwnInv, TypeOK, Owns
  <2> QED
    BY <2>1, CountFacts
<1> QED
  BY <1>1, IInvHolds, PTL

(* Two threads never free the same slot. *)
THEOREM SingleFreeHolds == Spec => []SingleFree
<1>1. IInv => SingleFree
  BY DEF IInv, FreeInv
<1> QED
  BY <1>1, IInvHolds, PTL

(* No slot is lost: whoever takes its count to zero is on the way to free it. *)
THEOREM NoLeakHolds == Spec => []NoLeak
<1>1. IInv => NoLeak
  <2> SUFFICES ASSUME IInv, NEW x \in live
               PROVE  \/ alive /\ slot = x
                      \/ \E t \in Threads : Owns(t, x) \/ Freeing(t, x)
    BY DEF NoLeak
  <2>1. x \in Slots /\ ref[x] \in Int
    BY DEF IInv, TypeOK
  <2>2. ref[x] >= 0
    <3>1. Cardinality(Owners(x)) \in Nat
      BY ThreadSets DEF Owners
    <3> QED
      BY <3>1 DEF IInv, CountInv, SlotUnit
  <2>3. CASE ref[x] = 0
    BY <2>3 DEF IInv, FreeInv
  <2>4. CASE ref[x] > 0
    BY <2>1, <2>4, CountFacts
  <2> QED
    BY <2>1, <2>2, <2>3, <2>4
<1> QED
  BY <1>1, IInvHolds, PTL

(* The text of a slot a reader holds never changes: new_string writes only  *)
(* to memory that is not allocated, and an owned slot is.                   *)
THEOREM HeldTextStableHolds == Spec => HeldTextStable
<1> DEFINE Stable == \A t \in Threads, x \in Slots :
                       Owns(t, x) /\ Owns(t, x)' => buf'[x] = buf[x]
<1>1. IInv /\ [Next]_vars => [Stable]_vars
  <2> SUFFICES ASSUME IInv, [Next]_vars, NEW t \in Threads, NEW x \in Slots, Owns(t, x)
               PROVE  buf'[x] = buf[x]
    OBVIOUS
  <2>1. x \in live
    BY DEF IInv, OwnInv
  <2>2. CASE \E u \in Threads : CallUpdate(u)
    BY <2>1, <2>2 DEF CallUpdate, Alloc, IInv, TypeOK
  <2>3. CASE buf' = buf
    BY <2>3
  <2> QED
    BY <2>2, <2>3 DEF Next, Step, CallRead, TestAndSet, GrabIncr, GrabRead, GrabUnlock,
       CallSfunc, ReleaseDecr, ReleaseFree, UpdateRead, UpdateSwap, UpdateDecr,
       UpdateUnlock, UpdateDelete, Clear, vars
<1> QED
  BY <1>1, IInvHolds, PTL DEF Spec, HeldTextStable
=============================================================================
