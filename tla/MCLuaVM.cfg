SPECIFICATION Spec
CONSTANTS
  MAXSTACK = 18
  MAXINDEXRK = 3
  MAXARG_C = 3
  LFIELDS_PER_FLUSH = 2
  LUAI_MAXCCALLS = 12
  LUAI_MAXVARS = 10
  LUAI_MAXUPVALUES = 3
  LUAI_MAXCALLS = 24
  BASIC_CI_SIZE = 4
  MAXTAGLOOP = 3
  MAX_INT = 64
  LUA_MAXCAPTURES = 3
  StrHash <- MCStrHash
  Programs <- MCPrograms
  Compile <- luaY_parser
CHECK_DEADLOCK FALSE
INVARIANT
  Agrees
  CompilerAsserts
  ExecAsserts
  CallsBalanced
  TableAgrees
