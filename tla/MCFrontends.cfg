CONSTANTS
    Modules <- MCModules
    NamesOf <- MCNamesOf
    Registry = {"user_options", "type", "instr"}
    Slots = {1, 2}
    assertion_relations <- MCAssertionRelations
    DeclaredAssertions = {"assert_has_repr", "user_option_invalid"}
    FileSystems <- MCFileSystems
    CommandLines <- MCCommandLines
    MaxProcesses = 2
    MaxRuns = 2
SPECIFICATION Spec
CHECK_DEADLOCK FALSE
INVARIANTS
    CompleteOnSuccess
    ForeignFilesKept
    SensitivityReachesAnalysis
    ResultOfThisModule
    WorkFilesKept
