CONSTANTS
    Careful = TRUE
    MaxStatements = 60
    Checked = {"hsort", "calculator", "regex", "list", "numarray", "calc3"}
    Size = 5
    Keys = {1, 2, 3}
    SizeValues = 256
    IntValues = 16
    Patterns <- TestPatterns
    Strings <- TestStrings
    N = 3
    Address = {"first", "second", "third"}
    Null = "NULL"
    Shapes <- TestShapes
    Indices <- TestIndices
    All <- Empty
    Value = 9
    MaxSteps = 3
SPECIFICATION AllSpec
INVARIANTS SameValue Finds Sorted Permuted Compiles SimAgrees
PROPERTIES ImplementsPool PrintedOrCancelled MainGoesOn ImplementsMatrices
\* The programs end.
CHECK_DEADLOCK FALSE
