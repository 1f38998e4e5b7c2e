CONSTANTS
  o1 = o1
  o2 = o2
  o3 = o3
  o4 = o4
  s1 = s1
  s2 = s2
  Addr = {o1, o2, o3, o4}
  Main = Main
  Glob = Glob
  Texts = {s1}
  Bucket <- MCBucket
  Buckets = 1
  GCSWEEPMAX = 2
  Start <- SharedStart
  ApiSetsLua = TRUE
  MaxStack = 3
  MaxEntries = 2
  MaxOps = 3
SPECIFICATION Spec
CHECK_DEADLOCK FALSE
INVARIANT NoDangling
