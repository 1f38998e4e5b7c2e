CONSTANTS
  sa = sa
  sb = sb
  IntBits = 3
  SizeBits = 4
  StrHash <- MCStrHash
  Keys <- MCKeys
  WriteTypes <- MCWriteTypes
  Bits = {7, 8}
  Strs = {p1, p2, p3}
  Texts = {x1, x2}
  INIT_SIZE = 1
  MAX_HASH_DEPTH = 2
  MaxSize = 16
SPECIFICATION Spec
CHECK_DEADLOCK FALSE
PROPERTY FailedSetChangesNothing
