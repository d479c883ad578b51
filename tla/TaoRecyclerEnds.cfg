CONSTANTS
    Obj = {o1,o2}
    Null = Null
    Var = {v1}
    Temp = {t1}
    Agent = {}
    Pos = {p1}
    Kinds = {"Array", "Hash"}
    NullStores = TRUE
    SubIndexing = FALSE
    RhsCalls = TRUE
    MaxCandidates = 0
    MaxZeroRC = 0
    MaxNewed = 0
SPECIFICATION Spec


PROPERTY CollectionEnds
\* An access to freed memory stops the interpreter.
CHECK_DEADLOCK FALSE
