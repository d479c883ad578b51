CONSTANTS
    Obj = {o1,o2}
    Null = Null
    Var = {v1}
    Temp = {t1}
    Agent = {}
    Pos = {p1}
    Kinds = {"Hash"}
    NullStores = FALSE
    SubIndexing = FALSE
    RhsCalls = FALSE
    MaxCandidates = 0
    MaxZeroRC = 0
    MaxNewed = 0
SYMMETRY ObjSymmetry
SPECIFICATION Spec
INVARIANT NoFreedAccess

