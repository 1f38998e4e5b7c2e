-------------------------- MODULE LightTableProofs --------------------------
(* Proofs about LightTable, for any threads, keys, map addresses and hash   *)
(* parameters: the locks exclude whatever the readers do, and with a single *)
(* reader the map's count protects the map it walks and the current one.    *)
(*                                                                          *)
(* One lemma per action: it preserves BaseInv, and CountInv as well when    *)
(* there is one reader.  Where an action works on chains, an Effect lemma   *)
(* first says what it does to the protocol, which is all the rest uses.     *)
EXTENDS LightTable, TLAPS

(* What CallGet does to the protocol. *)
LEMMA CallGetEffect ==
  ASSUME NEW t, CallGet(t)
  PROVE  /\ pc[t] = "idle"
         /\ Goto(t, "gm_lock")
         /\ UNCHANGED <<map, map_lock, lock, live, mref, data, m, p, nm, old, cnt>>
         /\ DOMAIN job' = DOMAIN job
BY DEF CallGet, Call

(* A getter, set_string or size starts in _grab_map with nothing held. *)
LEMMA CallGetInv ==
  ASSUME BaseInv, NEW t \in Readers, CallGet(t)
  PROVE  BaseInv' /\ (SingleReader /\ CountInv => CountInv')
<1> USE CallGetEffect DEF BaseInv, TypeOK, LocalInv, LockInv, LocksExclude,
        MapHeld, TableHeld, Holding, Reading, Goto, Threads
<1>1. BaseInv'
  BY DEF PCs
<1>2. ASSUME SingleReader, CountInv PROVE CountInv'
  BY <1>2 DEF SingleReader, CountInv, RefInv, CntInv, UpdateInv, Holds
<1> QED
  BY <1>1, <1>2

(* What CallSetString does to the protocol. *)
LEMMA CallSetStringEffect ==
  ASSUME NEW t, CallSetString(t)
  PROVE  /\ pc[t] = "idle"
         /\ Goto(t, "gm_lock")
         /\ UNCHANGED <<map, map_lock, lock, live, mref, data, m, p, nm, old, cnt>>
         /\ DOMAIN job' = DOMAIN job
BY DEF CallSetString, Call

(* CallSetString preserves the invariants. *)
LEMMA CallSetStringInv ==
  ASSUME BaseInv, NEW t \in Readers, CallSetString(t)
  PROVE  BaseInv' /\ (SingleReader /\ CountInv => CountInv')
<1> USE CallSetStringEffect DEF BaseInv, TypeOK, LocalInv, LockInv, LocksExclude,
        MapHeld, TableHeld, Holding, Reading, Goto, Threads
<1>1. BaseInv'
  BY DEF PCs
<1>2. ASSUME SingleReader, CountInv PROVE CountInv'
  BY <1>2 DEF SingleReader, CountInv, RefInv, CntInv, UpdateInv, Holds
<1> QED
  BY <1>1, <1>2

(* What CallKeys does to the protocol. *)
LEMMA CallKeysEffect ==
  ASSUME NEW t, CallKeys(t)
  PROVE  /\ pc[t] = "idle"
         /\ Goto(t, "gm_lock")
         /\ UNCHANGED <<map, map_lock, lock, live, mref, data, m, p, nm, old, cnt>>
         /\ DOMAIN job' = DOMAIN job
BY DEF CallKeys, Call

(* CallKeys preserves the invariants. *)
LEMMA CallKeysInv ==
  ASSUME BaseInv, NEW t \in Readers, CallKeys(t)
  PROVE  BaseInv' /\ (SingleReader /\ CountInv => CountInv')
<1> USE CallKeysEffect DEF BaseInv, TypeOK, LocalInv, LockInv, LocksExclude,
        MapHeld, TableHeld, Holding, Reading, Goto, Threads
<1>1. BaseInv'
  BY DEF PCs
<1>2. ASSUME SingleReader, CountInv PROVE CountInv'
  BY <1>2 DEF SingleReader, CountInv, RefInv, CntInv, UpdateInv, Holds
<1> QED
  BY <1>1, <1>2

(* What CallSet does to the protocol. *)
LEMMA CallSetEffect ==
  ASSUME NEW t, CallSet(t)
  PROVE  /\ pc[t] = "idle"
         /\ Goto(t, "tl_lock")
         /\ UNCHANGED <<map, map_lock, lock, live, mref, data, m, p, nm, old, cnt>>
         /\ DOMAIN job' = DOMAIN job
BY DEF CallSet, Call

(* A setter starts at the table lock. *)
LEMMA CallSetInv ==
  ASSUME BaseInv, NEW t \in Threads, CallSet(t)
  PROVE  BaseInv' /\ (SingleReader /\ CountInv => CountInv')
<1> USE CallSetEffect DEF BaseInv, TypeOK, LocalInv, LockInv, LocksExclude,
        MapHeld, TableHeld, Holding, Reading, Goto
<1>1. BaseInv'
  BY DEF PCs
<1>2. ASSUME SingleReader, CountInv PROVE CountInv'
  BY <1>2 DEF SingleReader, CountInv, RefInv, CntInv, UpdateInv, Holds
<1> QED
  BY <1>1, <1>2

(* _grab_map *)
LEMMA GrabLockInv ==
  ASSUME BaseInv, NEW t \in Threads, GrabLock(t)
  PROVE  BaseInv' /\ (SingleReader /\ CountInv => CountInv')
<1> USE DEF BaseInv, TypeOK, LocalInv, LockInv, LocksExclude,
        MapHeld, TableHeld, Holding, Reading, GrabLock, Goto
<1>1. BaseInv'
  BY DEF PCs
<1>2. ASSUME SingleReader, CountInv PROVE CountInv'
  BY <1>2 DEF SingleReader, CountInv, RefInv, CntInv, UpdateInv, Holds
<1> QED
  BY <1>1, <1>2

(* The reader holds nothing yet, so it reads 1 and will store 2. *)
LEMMA GrabRefInv ==
  ASSUME BaseInv, NEW t \in Threads, GrabRef(t)
  PROVE  BaseInv' /\ (SingleReader /\ CountInv => CountInv')
<1> USE DEF BaseInv, TypeOK, LocalInv, LockInv, LocksExclude,
        MapHeld, TableHeld, Holding, Reading, GrabRef, Goto
<1>1. BaseInv'
  BY DEF PCs
<1>2. ASSUME SingleReader, CountInv PROVE CountInv'
  BY <1>2 DEF SingleReader, CountInv, RefInv, CntInv, UpdateInv, Holds
<1> QED
  BY <1>1, <1>2

(* What GrabSet does to the protocol. *)
LEMMA GrabSetEffect ==
  ASSUME NEW t, GrabSet(t)
  PROVE  /\ pc[t] = "gm_set" /\ cnt[t] > 1
         /\ Goto(t, "gm_unlock")
         /\ m' = [m EXCEPT ![t] = map]
         /\ mref' = [mref EXCEPT ![map] = cnt[t]]
         /\ UNCHANGED <<map, map_lock, lock, live, data, p, nm, old, cnt>>
         /\ DOMAIN job' = DOMAIN job
BY DEF GrabSet

(* From here the reader holds the current map. *)
LEMMA GrabSetInv ==
  ASSUME BaseInv, NEW t \in Threads, GrabSet(t)
  PROVE  BaseInv' /\ (SingleReader /\ CountInv => CountInv')
<1> USE GrabSetEffect DEF BaseInv, TypeOK, LocalInv, Goto
<1>1. TypeOK'
  BY DEF PCs, Holding
<1>2. LockInv'
  BY DEF LockInv, LocksExclude, TableHeld, MapHeld
<1>3. LocalInv'
  BY DEF Holding, Reading
<1>4. ASSUME SingleReader, CountInv PROVE CountInv'
  <2> USE <1>4 DEF SingleReader, CountInv, RefInv, CntInv, UpdateInv, Holds, Holding, Reading
  <2>1. RefInv'
    OBVIOUS
  <2>2. CntInv'
    BY DEF LockInv, LocksExclude, MapHeld
  <2>3. UpdateInv'
    BY DEF LockInv, LocksExclude, MapHeld, TableHeld
  <2> QED
    BY <2>1, <2>2, <2>3
<1> QED
  BY <1>1, <1>2, <1>3, <1>4

(* What GrabUnlock does to the protocol. *)
LEMMA GrabUnlockEffect ==
  ASSUME NEW t, GrabUnlock(t)
  PROVE  /\ pc[t] = "gm_unlock"
         /\ \E l \in {"search", "size", "scan"} : Goto(t, l)
         /\ map_lock' = 0
         /\ DropCount(t)
         /\ UNCHANGED <<map, lock, live, mref, data, m, p, nm, old>>
         /\ DOMAIN job' = DOMAIN job
BY DEF GrabUnlock

(* GrabUnlock preserves the invariants. *)
LEMMA GrabUnlockInv ==
  ASSUME BaseInv, NEW t \in Threads, GrabUnlock(t)
  PROVE  BaseInv' /\ (SingleReader /\ CountInv => CountInv')
<1> USE GrabUnlockEffect DEF BaseInv, TypeOK, LocalInv, LockInv, LocksExclude,
        MapHeld, TableHeld, Holding, Reading, Goto, DropCount
<1>1. BaseInv'
  BY DEF PCs
<1>2. ASSUME SingleReader, CountInv PROVE CountInv'
  BY <1>2 DEF SingleReader, CountInv, RefInv, CntInv, UpdateInv, Holds
<1> QED
  BY <1>1, <1>2

(* What SearchNode does to the protocol. *)
LEMMA SearchNodeEffect ==
  ASSUME NEW t, SearchNode(t)
  PROVE  /\ pc[t] = "search"
         /\ Goto(t, "rm_read") \/ UNCHANGED pc
         /\ UNCHANGED <<map, map_lock, lock, live, mref, data, m, p, nm, old, cnt>>
         /\ DOMAIN job' = DOMAIN job
BY DEF SearchNode

(* The reader walks the map it holds. *)
LEMMA SearchNodeInv ==
  ASSUME BaseInv, NEW t \in Threads, SearchNode(t)
  PROVE  BaseInv' /\ (SingleReader /\ CountInv => CountInv')
<1> USE SearchNodeEffect DEF BaseInv, TypeOK, LocalInv, LockInv, LocksExclude,
        MapHeld, TableHeld, Holding, Reading, Goto
<1>1. BaseInv'
  BY DEF PCs
<1>2. ASSUME SingleReader, CountInv PROVE CountInv'
  BY <1>2 DEF SingleReader, CountInv, RefInv, CntInv, UpdateInv, Holds
<1> QED
  BY <1>1, <1>2

(* What ReadSize does to the protocol. *)
LEMMA ReadSizeEffect ==
  ASSUME NEW t, ReadSize(t)
  PROVE  /\ pc[t] = "size"
         /\ Goto(t, "rm_read")
         /\ UNCHANGED <<map, map_lock, lock, live, mref, data, m, p, nm, old, cnt>>
         /\ DOMAIN job' = DOMAIN job
BY DEF ReadSize

(* ReadSize preserves the invariants. *)
LEMMA ReadSizeInv ==
  ASSUME BaseInv, NEW t \in Threads, ReadSize(t)
  PROVE  BaseInv' /\ (SingleReader /\ CountInv => CountInv')
<1> USE ReadSizeEffect DEF BaseInv, TypeOK, LocalInv, LockInv, LocksExclude,
        MapHeld, TableHeld, Holding, Reading, Goto
<1>1. BaseInv'
  BY DEF PCs
<1>2. ASSUME SingleReader, CountInv PROVE CountInv'
  BY <1>2 DEF SingleReader, CountInv, RefInv, CntInv, UpdateInv, Holds
<1> QED
  BY <1>1, <1>2

(* What ScanNode does to the protocol. *)
LEMMA ScanNodeEffect ==
  ASSUME NEW t, ScanNode(t)
  PROVE  /\ pc[t] = "scan"
         /\ Goto(t, "rm_read") \/ UNCHANGED pc
         /\ UNCHANGED <<map, map_lock, lock, live, mref, data, m, p, nm, old, cnt>>
         /\ DOMAIN job' = DOMAIN job
BY DEF ScanNode

(* ScanNode preserves the invariants. *)
LEMMA ScanNodeInv ==
  ASSUME BaseInv, NEW t \in Threads, ScanNode(t)
  PROVE  BaseInv' /\ (SingleReader /\ CountInv => CountInv')
<1> USE ScanNodeEffect DEF BaseInv, TypeOK, LocalInv, LockInv, LocksExclude,
        MapHeld, TableHeld, Holding, Reading, Goto
<1>1. BaseInv'
  BY DEF PCs
<1>2. ASSUME SingleReader, CountInv PROVE CountInv'
  BY <1>2 DEF SingleReader, CountInv, RefInv, CntInv, UpdateInv, Holds
<1> QED
  BY <1>1, <1>2

(* _release_map reads 2 from the map it holds, replaced or not ... *)
LEMMA ReleaseReadInv ==
  ASSUME BaseInv, NEW t \in Threads, ReleaseRead(t)
  PROVE  BaseInv' /\ (SingleReader /\ CountInv => CountInv')
<1> USE DEF BaseInv, TypeOK, LocalInv, LockInv, LocksExclude,
        MapHeld, TableHeld, Holding, Reading, ReleaseRead, Goto
<1>1. BaseInv'
  BY DEF PCs
<1>2. ASSUME SingleReader, CountInv PROVE CountInv'
  BY <1>2 DEF SingleReader, CountInv, RefInv, CntInv, UpdateInv, Holds
<1> QED
  BY <1>1, <1>2

(* ReleaseMap preserves the invariants. *)
LEMMA ReleaseMapInv ==
  ASSUME BaseInv, NEW t \in Threads, ReleaseMap(t)
  PROVE  BaseInv' /\ (SingleReader /\ CountInv => CountInv')
<1> USE DEF BaseInv, TypeOK, LocalInv, LockInv, LocksExclude,
        MapHeld, TableHeld, Holding, Reading, ReleaseMap, Goto
<1>1. BaseInv'
  BY DEF PCs
<1>2. ASSUME SingleReader, CountInv PROVE CountInv'
  BY <1>2 DEF SingleReader, CountInv, RefInv, CntInv, UpdateInv, Holds
<1> QED
  BY <1>1, <1>2

(* ... and stores 1 in whatever map it took for the current one: the one it *)
(* gives up, or one whose count is 1 already. *)
LEMMA ReleaseSetInv ==
  ASSUME BaseInv, NEW t \in Threads, ReleaseSet(t)
  PROVE  BaseInv' /\ (SingleReader /\ CountInv => CountInv')
<1> USE DEF BaseInv, TypeOK, LocalInv, ReleaseSet, Goto, Drop, DropCount
<1>1. TypeOK'
  BY DEF PCs, Holding
<1>2. LockInv'
  BY DEF LockInv, LocksExclude, TableHeld, MapHeld
<1>3. LocalInv'
  BY DEF Holding, Reading
<1>4. ASSUME SingleReader, CountInv PROVE CountInv'
  <2> USE <1>4 DEF SingleReader, CountInv, RefInv, CntInv, UpdateInv, Holds, Holding, Reading
  <2>1. RefInv'
    OBVIOUS
  <2>2. CntInv'
    BY DEF LockInv, LocksExclude, MapHeld
  <2>3. UpdateInv'
    BY DEF LockInv, LocksExclude, MapHeld, TableHeld
  <2> QED
    BY <2>1, <2>2, <2>3
<1> QED
  BY <1>1, <1>2, <1>3, <1>4

(* Never taken by a single reader: it never counts down to 0. *)
LEMMA ReleaseDeleteInv ==
  ASSUME BaseInv, NEW t \in Threads, ReleaseDelete(t)
  PROVE  BaseInv' /\ (SingleReader /\ CountInv => CountInv')
<1> USE DEF BaseInv, TypeOK, LocalInv, LockInv, LocksExclude,
        MapHeld, TableHeld, Holding, Reading, ReleaseDelete, Goto, Delete
<1>1. BaseInv'
  BY DEF PCs
<1>2. ASSUME SingleReader, CountInv PROVE CountInv'
  BY <1>2 DEF SingleReader, CountInv, RefInv, CntInv, UpdateInv, Holds
<1> QED
  BY <1>1, <1>2

(* What ReleaseReturn does to the protocol. *)
LEMMA ReleaseReturnEffect ==
  ASSUME NEW t, ReleaseReturn(t)
  PROVE  /\ pc[t] = "rm_return"
         /\ Goto(t, "gm_lock") \/ Goto(t, "ret")
         /\ m' = Drop(m, t)
         /\ UNCHANGED <<map, map_lock, lock, live, mref, data, p, nm, old, cnt>>
         /\ DOMAIN job' = DOMAIN job
BY DEF ReleaseReturn

(* ReleaseReturn preserves the invariants. *)
LEMMA ReleaseReturnInv ==
  ASSUME BaseInv, NEW t \in Threads, ReleaseReturn(t)
  PROVE  BaseInv' /\ (SingleReader /\ CountInv => CountInv')
<1> USE ReleaseReturnEffect DEF BaseInv, TypeOK, LocalInv, LockInv, LocksExclude,
        MapHeld, TableHeld, Holding, Reading, Goto, Drop
<1>1. BaseInv'
  BY DEF PCs
<1>2. ASSUME SingleReader, CountInv PROVE CountInv'
  BY <1>2 DEF SingleReader, CountInv, RefInv, CntInv, UpdateInv, Holds
<1> QED
  BY <1>1, <1>2

(* SearchAgain preserves the invariants. *)
LEMMA SearchAgainInv ==
  ASSUME BaseInv, NEW t \in Threads, SearchAgain(t)
  PROVE  BaseInv' /\ (SingleReader /\ CountInv => CountInv')
<1> USE DEF BaseInv, TypeOK, LocalInv, LockInv, LocksExclude,
        MapHeld, TableHeld, Holding, Reading, SearchAgain, Goto, Drop
<1>1. BaseInv'
  BY DEF PCs
<1>2. ASSUME SingleReader, CountInv PROVE CountInv'
  BY <1>2 DEF SingleReader, CountInv, RefInv, CntInv, UpdateInv, Holds
<1> QED
  BY <1>1, <1>2

(* What SearchDone does to the protocol. *)
LEMMA SearchDoneEffect ==
  ASSUME NEW t, SearchDone(t)
  PROVE  /\ pc[t] = "rm_return"
         /\ \E l \in {"ret", "us", "tl_lock"} : Goto(t, l)
         /\ m' = Drop(m, t)
         /\ UNCHANGED <<map, map_lock, lock, live, mref, data, p, nm, old, cnt>>
         /\ DOMAIN job' = DOMAIN job
BY DEF SearchDone

(* SearchDone preserves the invariants. *)
LEMMA SearchDoneInv ==
  ASSUME BaseInv, NEW t \in Threads, SearchDone(t)
  PROVE  BaseInv' /\ (SingleReader /\ CountInv => CountInv')
<1> USE SearchDoneEffect DEF BaseInv, TypeOK, LocalInv, LockInv, LocksExclude,
        MapHeld, TableHeld, Holding, Reading, Goto, Drop
<1>1. BaseInv'
  BY DEF PCs
<1>2. ASSUME SingleReader, CountInv PROVE CountInv'
  BY <1>2 DEF SingleReader, CountInv, RefInv, CntInv, UpdateInv, Holds
<1> QED
  BY <1>1, <1>2

(* UpdateString preserves the invariants. *)
LEMMA UpdateStringInv ==
  ASSUME BaseInv, NEW t \in Threads, UpdateString(t)
  PROVE  BaseInv' /\ (SingleReader /\ CountInv => CountInv')
<1> USE DEF BaseInv, TypeOK, LocalInv, LockInv, LocksExclude,
        MapHeld, TableHeld, Holding, Reading, UpdateString, Goto
<1>1. BaseInv'
  BY DEF PCs
<1>2. ASSUME SingleReader, CountInv PROVE CountInv'
  BY <1>2 DEF SingleReader, CountInv, RefInv, CntInv, UpdateInv, Holds
<1> QED
  BY <1>1, <1>2

(* _insert_table *)
LEMMA TableLockInv ==
  ASSUME BaseInv, NEW t \in Threads, TableLock(t)
  PROVE  BaseInv' /\ (SingleReader /\ CountInv => CountInv')
<1> USE DEF BaseInv, TypeOK, LocalInv, LockInv, LocksExclude,
        MapHeld, TableHeld, Holding, Reading, TableLock, Goto
<1>1. BaseInv'
  BY DEF PCs
<1>2. ASSUME SingleReader, CountInv PROVE CountInv'
  BY <1>2 DEF SingleReader, CountInv, RefInv, CntInv, UpdateInv, Holds
<1> QED
  BY <1>1, <1>2

(* What Insert does to the protocol. *)
LEMMA InsertEffect ==
  ASSUME NEW t, Insert(t)
  PROVE  /\ pc[t] = "ins"
         /\ Goto(t, "exp") \/ Goto(t, "tl_unlock")
         /\ DOMAIN data' = DOMAIN data
         /\ UNCHANGED <<map, map_lock, lock, live, mref, m, p, nm, old, cnt>>
         /\ DOMAIN job' = DOMAIN job
BY DEF Insert

(* Insert preserves the invariants. *)
LEMMA InsertInv ==
  ASSUME BaseInv, NEW t \in Threads, Insert(t)
  PROVE  BaseInv' /\ (SingleReader /\ CountInv => CountInv')
<1> USE InsertEffect DEF BaseInv, TypeOK, LocalInv, LockInv, LocksExclude,
        MapHeld, TableHeld, Holding, Reading, Goto
<1>1. BaseInv'
  BY DEF PCs
<1>2. ASSUME SingleReader, CountInv PROVE CountInv'
  BY <1>2 DEF SingleReader, CountInv, RefInv, CntInv, UpdateInv, Holds
<1> QED
  BY <1>1, <1>2

(* The new map is at an address nobody holds. *)
LEMMA ExpandInv ==
  ASSUME BaseInv, NEW t \in Threads, Expand(t)
  PROVE  BaseInv' /\ (SingleReader /\ CountInv => CountInv')
<1> USE DEF BaseInv, TypeOK, LocalInv, Expand, Goto
<1>1. TypeOK'
  BY DEF PCs, Holding
<1>2. LockInv'
  BY DEF LockInv, LocksExclude, TableHeld, MapHeld
<1>3. LocalInv'
  BY DEF Holding, Reading
<1>4. ASSUME SingleReader, CountInv PROVE CountInv'
  <2> USE <1>4 DEF SingleReader, CountInv, RefInv, CntInv, UpdateInv, Holds, Holding, Reading
  <2>1. RefInv'
    OBVIOUS
  <2>2. CntInv'
    BY DEF LockInv, LocksExclude, MapHeld
  <2>3. UpdateInv'
    BY DEF LockInv, LocksExclude, MapHeld, TableHeld
  <2> QED
    BY <2>1, <2>2, <2>3
<1> QED
  BY <1>1, <1>2, <1>3, <1>4

(* UpdateLock preserves the invariants. *)
LEMMA UpdateLockInv ==
  ASSUME BaseInv, NEW t \in Threads, UpdateLock(t)
  PROVE  BaseInv' /\ (SingleReader /\ CountInv => CountInv')
<1> USE DEF BaseInv, TypeOK, LocalInv, LockInv, LocksExclude,
        MapHeld, TableHeld, Holding, Reading, UpdateLock, Goto
<1>1. BaseInv'
  BY DEF PCs
<1>2. ASSUME SingleReader, CountInv PROVE CountInv'
  BY <1>2 DEF SingleReader, CountInv, RefInv, CntInv, UpdateInv, Holds
<1> QED
  BY <1>1, <1>2

(* The private map becomes current with a count of 1; no grab is under way. *)
LEMMA UpdateSwapInv ==
  ASSUME BaseInv, NEW t \in Threads, UpdateSwap(t)
  PROVE  BaseInv' /\ (SingleReader /\ CountInv => CountInv')
<1> USE DEF BaseInv, TypeOK, LocalInv, UpdateSwap, Goto, Drop
<1>1. TypeOK'
  BY DEF PCs, Holding
<1>2. LockInv'
  BY DEF LockInv, LocksExclude, TableHeld, MapHeld
<1>3. LocalInv'
  BY DEF Holding, Reading
<1>4. ASSUME SingleReader, CountInv PROVE CountInv'
  <2> USE <1>4 DEF SingleReader, CountInv, RefInv, CntInv, UpdateInv, Holds, Holding, Reading
  <2>1. RefInv'
    OBVIOUS
  <2>2. CntInv'
    BY DEF LockInv, LocksExclude, MapHeld
  <2>3. UpdateInv'
    BY DEF LockInv, LocksExclude, MapHeld, TableHeld
  <2> QED
    BY <2>1, <2>2, <2>3
<1> QED
  BY <1>1, <1>2, <1>3, <1>4

(* A count of 1 in the old map means that the reader does not hold it ... *)
LEMMA UpdateRefInv ==
  ASSUME BaseInv, NEW t \in Threads, UpdateRef(t)
  PROVE  BaseInv' /\ (SingleReader /\ CountInv => CountInv')
<1> USE DEF BaseInv, TypeOK, LocalInv, UpdateRef, Goto
<1>1. TypeOK'
  BY DEF PCs, Holding
<1>2. LockInv'
  BY DEF LockInv, LocksExclude, TableHeld, MapHeld
<1>3. LocalInv'
  BY DEF Holding, Reading
<1>4. ASSUME SingleReader, CountInv PROVE CountInv'
  <2> USE <1>4 DEF SingleReader, CountInv, RefInv, CntInv, UpdateInv, Holds, Holding, Reading
  <2>1. RefInv'
    OBVIOUS
  <2>2. CntInv'
    BY DEF LockInv, LocksExclude, MapHeld
  <2>3. UpdateInv'
    BY DEF LockInv, LocksExclude, MapHeld, TableHeld
  <2> QED
    BY <2>1, <2>2, <2>3
<1> QED
  BY <1>1, <1>2, <1>3, <1>4

(* UpdateUnlock preserves the invariants. *)
LEMMA UpdateUnlockInv ==
  ASSUME BaseInv, NEW t \in Threads, UpdateUnlock(t)
  PROVE  BaseInv' /\ (SingleReader /\ CountInv => CountInv')
<1> USE DEF BaseInv, TypeOK, LocalInv, LockInv, LocksExclude,
        MapHeld, TableHeld, Holding, Reading, UpdateUnlock, Goto, Drop, DropCount
<1>1. BaseInv'
  BY DEF PCs
<1>2. ASSUME SingleReader, CountInv PROVE CountInv'
  BY <1>2 DEF SingleReader, CountInv, RefInv, CntInv, UpdateInv, Holds
<1> QED
  BY <1>1, <1>2

(* ... so deleting it disturbs nobody. *)
LEMMA UpdateDeleteInv ==
  ASSUME BaseInv, NEW t \in Threads, UpdateDelete(t)
  PROVE  BaseInv' /\ (SingleReader /\ CountInv => CountInv')
<1> USE DEF BaseInv, TypeOK, LocalInv, UpdateDelete, Goto, Delete, Drop
<1>1. TypeOK'
  BY DEF PCs, Holding
<1>2. LockInv'
  BY DEF LockInv, LocksExclude, TableHeld, MapHeld
<1>3. LocalInv'
  BY DEF Holding, Reading
<1>4. ASSUME SingleReader, CountInv PROVE CountInv'
  <2> USE <1>4 DEF SingleReader, CountInv, RefInv, CntInv, UpdateInv, Holds, Holding, Reading
  <2>1. RefInv'
    OBVIOUS
  <2>2. CntInv'
    BY DEF LockInv, LocksExclude, MapHeld
  <2>3. UpdateInv'
    BY DEF LockInv, LocksExclude, MapHeld, TableHeld
  <2> QED
    BY <2>1, <2>2, <2>3
<1> QED
  BY <1>1, <1>2, <1>3, <1>4

(* TableUnlock preserves the invariants. *)
LEMMA TableUnlockInv ==
  ASSUME BaseInv, NEW t \in Threads, TableUnlock(t)
  PROVE  BaseInv' /\ (SingleReader /\ CountInv => CountInv')
<1> USE DEF BaseInv, TypeOK, LocalInv, LockInv, LocksExclude,
        MapHeld, TableHeld, Holding, Reading, TableUnlock, Goto
<1>1. BaseInv'
  BY DEF PCs
<1>2. ASSUME SingleReader, CountInv PROVE CountInv'
  BY <1>2 DEF SingleReader, CountInv, RefInv, CntInv, UpdateInv, Holds
<1> QED
  BY <1>1, <1>2

(* Return preserves the invariants. *)
LEMMA ReturnInv ==
  ASSUME BaseInv, NEW t \in Threads, Return(t)
  PROVE  BaseInv' /\ (SingleReader /\ CountInv => CountInv')
<1> USE DEF BaseInv, TypeOK, LocalInv, LockInv, LocksExclude,
        MapHeld, TableHeld, Holding, Reading, Return, Goto
<1>1. BaseInv'
  BY DEF PCs
<1>2. ASSUME SingleReader, CountInv PROVE CountInv'
  BY <1>2 DEF SingleReader, CountInv, RefInv, CntInv, UpdateInv, Holds
<1> QED
  BY <1>1, <1>2

(* Init *)
LEMMA InitInv == Init => BaseInv /\ CountInv
<1> SUFFICES ASSUME Init PROVE BaseInv /\ CountInv
  OBVIOUS
<1>1. TypeOK
  BY DEF Init, TypeOK, PCs
<1>2. LockInv /\ LocalInv
  BY DEF Init, LockInv, LocksExclude, LocalInv, TableHeld, MapHeld, Holding, Reading
<1>3. CountInv
  BY DEF Init, CountInv, RefInv, CntInv, UpdateInv, Holds, Holding
<1> QED
  BY <1>1, <1>2, <1>3 DEF BaseInv

(* Every step of every thread, and stuttering. *)
LEMMA NextInv ==
  ASSUME BaseInv, [Next]_vars
  PROVE  BaseInv' /\ (SingleReader /\ CountInv => CountInv')
<1>1. CASE \E t \in Readers : CallGet(t) \/ CallSetString(t) \/ CallKeys(t)
  BY <1>1, CallGetInv, CallSetStringInv, CallKeysInv
<1>2. CASE \E t \in Writers : CallSet(t)
  BY <1>2, CallSetInv DEF Threads
<1>3. CASE \E t \in Threads : Step(t)
  BY <1>3, GrabLockInv, GrabRefInv, GrabSetInv, GrabUnlockInv, SearchNodeInv,
     ReadSizeInv, ScanNodeInv, ReleaseReadInv, ReleaseMapInv, ReleaseSetInv,
     ReleaseDeleteInv, ReleaseReturnInv, SearchAgainInv, SearchDoneInv,
     UpdateStringInv, TableLockInv, InsertInv, ExpandInv, UpdateLockInv,
     UpdateSwapInv, UpdateRefInv, UpdateUnlockInv, UpdateDeleteInv,
     TableUnlockInv, ReturnInv
     DEF Step
<1>4. CASE UNCHANGED vars
  <2>1. BaseInv'
    BY <1>4 DEF vars, BaseInv, TypeOK, LockInv, LocksExclude, LocalInv
  <2>2. CountInv => CountInv'
    BY <1>4 DEF vars, CountInv, RefInv, CntInv, UpdateInv, Holds
  <2> QED
    BY <2>1, <2>2
<1> QED
  BY <1>1, <1>2, <1>3, <1>4 DEF Next

(* The locks and the locals are in order with any number of readers. *)
THEOREM BaseInvHolds == Spec => []BaseInv
<1>1. Init => BaseInv
  BY InitInv
<1>2. BaseInv /\ [Next]_vars => BaseInv'
  BY NextInv
<1> QED
  BY <1>1, <1>2, PTL DEF Spec

(* Every variable keeps its type. *)
THEOREM TypeCorrect == Spec => []TypeOK
<1>1. BaseInv => TypeOK
  BY DEF BaseInv
<1> QED
  BY <1>1, BaseInvHolds, PTL

(* _table_lock and map_lock are mutual exclusion locks for any threads. *)
THEOREM LocksExcludeHolds == Spec => []LocksExclude
<1>1. BaseInv => LocksExclude
  BY DEF BaseInv, LockInv
<1> QED
  BY <1>1, BaseInvHolds, PTL

(* With one reader and any number of setters, the counts are what RefInv,   *)
(* CntInv and UpdateInv say.                                                *)
THEOREM CountInvHolds == ASSUME SingleReader PROVE Spec => [](BaseInv /\ CountInv)
<1>1. BaseInv /\ CountInv /\ [Next]_vars => (BaseInv /\ CountInv)'
  BY NextInv, SingleReader
<1> QED
  BY <1>1, InitInv, PTL DEF Spec

(* With one reader, no thread reads, extends or deletes a deleted map. *)
THEOREM NoUseAfterFreeHolds == ASSUME SingleReader PROVE Spec => []NoUseAfterFree
<1>1. BaseInv /\ CountInv => NoUseAfterFree
  BY DEF BaseInv, CountInv, RefInv, CntInv, UpdateInv, NoUseAfterFree, Touches,
         Holds, Holding, LocalInv
<1> QED
  BY <1>1, CountInvHolds, PTL

(* With one reader, assert(ref > 1) in _grab_map never fails. *)
THEOREM GrabAssertHoldsAlways == ASSUME SingleReader PROVE Spec => []GrabAssertHolds
<1>1. BaseInv /\ CountInv => GrabAssertHolds
  BY DEF CountInv, CntInv, GrabAssertHolds
<1> QED
  BY <1>1, CountInvHolds, PTL
=============================================================================
