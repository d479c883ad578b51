CONSTANTS
    Careful = TRUE
    MaxStatements = 60
    Checked = {"regex"}
    Size = 5
    Keys = {1, 2, 3}
    SizeValues = 256
    IntValues = 16
    Patterns <- TestPatterns
    Strings <- TestStrings
    N = 3
    Address = {"first", "second", "third"}
    Null = "NULL"
    Shapes <- TestShapes
    Indices <- TestIndices
    All <- Empty
    Value = 9
    MaxSteps = 3
SPECIFICATION AllSpec
PROPERTY SearchEnds
\* The searches end.
CHECK_DEADLOCK FALSE
