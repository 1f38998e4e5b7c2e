CONSTANTS
  Readers = {r1, r2}
  Writers = {r1, r2}
  Ops = {"get", "set"}
  Maps = {a1, a2}
  NoMap = NoMap
  Keys <- GrowOnceKeys
  PlainTypes = {"NUMBER"}
  Bits = {b1}
  Strs = {p1}
  INIT_SIZE = 2
  MAX_HASH_DEPTH = 1
  MaxSize = 4
  MaxRef = 2
  IntBits = 4
  SizeBits = 5
  StrHash <- NoStrings
SPECIFICATION Spec
SYMMETRY Symmetry
CHECK_DEADLOCK FALSE
INVARIANTS
  LocksExclude
