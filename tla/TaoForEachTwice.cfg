CONSTANTS
    Progs <- Walks
    MaxDepth = 2
    MaxCalls = 2
    MaxElems = 2
SPECIFICATION Spec
INVARIANTS NeverReadsNull
CHECK_DEADLOCK FALSE
