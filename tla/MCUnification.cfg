CONSTANTS
  Type <- MCType
  Elements <- MCElements
  Kind <- MCKind
  Length <- MCLength
  Offset <- MCOffset
  Size <- MCSize
  i8 = "i8"
  Programs <- MCConstantProgram
  MaxIndex = 3
SPECIFICATION Spec
CHECK_DEADLOCK FALSE
INVARIANT
  SubsetImpliesUnification
