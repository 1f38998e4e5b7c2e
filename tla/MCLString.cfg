CONSTANTS
  Threads = {t1, t2, t3}
  Slots = {a1, a2, a3}
  Texts = {x1, x2}
  NoSlot = NoSlot
SPECIFICATION FairSpec
CHECK_DEADLOCK FALSE
INVARIANTS
  TypeOK
  IInv
  NoUseAfterFree
  GrabAssertHolds
  SingleFree
  NoLeak
PROPERTIES
  HeldTextStable
  SupersededIsFreed
  LockIsReleased
