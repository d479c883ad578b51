CONSTANTS
    Obj = {o1,o2,o3,o4}
    Null = Null
    Var = {v1}
    Temp = {}
    Agent = {g1}
    Pos = {p1}
    Kinds = {"Object"}
    NullStores = FALSE
    SubIndexing = FALSE
    RhsCalls = FALSE
    MaxCandidates = 0
    MaxZeroRC = 0
    MaxNewed = 0
SYMMETRY ObjSymmetry
SPECIFICATION Spec

PROPERTIES CollectsAllGarbage
