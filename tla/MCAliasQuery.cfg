SPECIFICATION Spec
CONSTANTS
    p = p
    q = q
    g = g
    MaxRows = 3
    RowAllocs = {"arr[*]", "arr[64]"}
    Values <- MCValues
    Variables <- MCVariables
    Allocs <- MCAllocs
    Contexts = {0, 1}
    Results <- MCResults
INVARIANTS
    NoAliasOfVariables
PROPERTIES
    ImplementsOracle
