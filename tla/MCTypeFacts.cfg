CONSTANTS
  Type <- MCType
  TypeID <- MCTypeID
  Elements <- MCElements
  NumElements <- MCNumElements
  Sized <- MCSized
  AllocSize <- MCAllocSize
  StoreSize <- MCStoreSize
  FieldOffset <- MCFieldOffset
  Recorded <- MCRecorded
SPECIFICATION FairSpec
CHECK_DEADLOCK FALSE
INVARIANTS
  AccumulatesContained
  ComponentsDescribed
  TypesHaveOneSize
PROPERTIES
  Finishes
