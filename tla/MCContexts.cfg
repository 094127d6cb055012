CONSTANTS
  f = f
  g = g
  c1 = c1
  c2 = c2
  c3 = c3
  Function <- MCFunction
  CallBase <- MCCallBase
  instr_func <- MCInstrFunc
  OneCallsite <- MCOneCallsite
  NoPointers <- MCNoPointers
  Sensitivities = {"insensitive", "callsite", "caller"}
  MaxContextDepths = {1, 2, 3}
  Roots = {"main", "library"}
  MaxReachable = 3
SPECIFICATION FairSpec
CHECK_DEADLOCK FALSE
INVARIANTS
  TypeOK
  MergeIsPush
  DepthAndDropLastExact
PROPERTIES
  EveryCallGetsContext
