CONSTANTS
    Progs <- Recursive
    MaxDepth = 2
    MaxCalls = 2
    MaxElems = 1
SPECIFICATION Spec
INVARIANTS RecursionKeepsParams
CHECK_DEADLOCK FALSE
