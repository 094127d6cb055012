CONSTANTS
  Contexts <- MCContexts
  Allocations <- MCAllocations
  UnifyFacts <- MCUnifyFacts
SPECIFICATION FairSpec
CHECK_DEADLOCK FALSE
INVARIANTS
  ParentsAreSound
  NothingOrphaned
  RepresentativesExist
  RepresentativesAreClasses
PROPERTIES
  ParentsOnlyDescend
  Settles
