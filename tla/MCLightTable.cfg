CONSTANTS
  Readers = {r1}
  Writers = {r1, w1}
  Ops = {"get", "set_string", "keys", "set"}
  Maps = {a1, a2, a3}
  NoMap = NoMap
  Keys <- MCKeys
  PlainTypes = {"NUMBER"}
  Bits = {b1}
  Strs = {p1, p2}
  INIT_SIZE = 2
  MAX_HASH_DEPTH = 1
  MaxSize = 8
  MaxRef = 3
  IntBits = 4
  SizeBits = 5
  StrHash <- NoStrings
SPECIFICATION Spec
SYMMETRY Symmetry
INVARIANTS
  TypeOK
  IInv
  NoUseAfterFree
  GrabAssertHolds
  KeysConsistent
PROPERTY IsAtomicTable
