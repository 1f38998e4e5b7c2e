CONSTANTS
  o1 = o1
  o2 = o2
  o3 = o3
  o4 = o4
  s1 = s1
  s2 = s2
  Addr = {o1, o2, o3, o4}
  Main = Main
  Glob = Glob
  Texts = {s1}
  Bucket <- MCBucket
  Buckets = 1
  GCSWEEPMAX = 2
  Start <- MCStart
  ApiSetsLua = FALSE
  MaxStack = 2
  MaxEntries = 1
  MaxOps = 2
SPECIFICATION Spec
VIEW View
CONSTRAINT Bound
CHECK_DEADLOCK FALSE
INVARIANTS
  ListsOK
  NoDangling
  BlackNotToWhite
PROPERTIES
  FinalizedWhenDead
  FullCollects
