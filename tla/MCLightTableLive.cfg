CONSTANTS
  Readers = {r1}
  Writers = {w1}
  Ops = {"get", "set"}
  Maps = {a1, a2, a3}
  NoMap = NoMap
  Keys <- MCKeys
  PlainTypes = {"NUMBER"}
  Bits = {b1}
  Strs = {}
  INIT_SIZE = 2
  MAX_HASH_DEPTH = 1
  MaxSize = 8
  MaxRef = 3
  IntBits = 4
  SizeBits = 5
  StrHash <- NoStrings
SPECIFICATION FairSpec
PROPERTY ReadsReturn
