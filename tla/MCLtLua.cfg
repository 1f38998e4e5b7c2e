CONSTANTS
  sa = sa
  sb = sb
  x = x
  y = y
  NoIter = NoIter
  IntBits = 4
  SizeBits = 6
  StrHash <- MCStrHash
  Tables = {t1, t2, t3}
  SetArgs <- MCSetArgs
  GetKeys <- MCGetKeys
  LuaTables <- MCLuaTables
  StrLen <- MCStrLen
  INIT_SIZE = 2
  MAX_HASH_DEPTH = 1
  BUF_SIZE = 12
  TEMP_SIZE = 100
  LUA_MINSTACK = 8
  MaxSize = 8
  MaxSteps = 14
SPECIFICATION Spec
VIEW View
CONSTRAINT Bound
CHECK_DEADLOCK FALSE
INVARIANTS
  TypeOK
  OnlyMisuseCrashes
  ReadBack
  NoDangling
PROPERTIES
  DeleteFreesTree
  SerializedText
