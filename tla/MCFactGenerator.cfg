CONSTANTS
  LlvmMajor = 14
  Programs <- MCPrograms
  Constants <- MCConstants
SPECIFICATION Spec
CHECK_DEADLOCK FALSE
INVARIANTS
  ContextsNested
  EntitiesIdentified
  VariablesOwned
  ResultMapComplete
  ControlFlowRebuilt
  SchemaSatisfied
  SignaturesComplete
  TypesRecorded
