CONSTANTS
    Obj = {o1, o2, o3}
    Null = Null
    Var = {}
    Temp = {t1}
    Agent = {}
    Pos = {p1}
    Kinds = {"Array"}
    NullStores = FALSE
    SubIndexing = TRUE
    RhsCalls = FALSE
    MaxCandidates = 0
    MaxZeroRC = 0
    MaxNewed = 0
SYMMETRY ObjSymmetry
SPECIFICATION Spec
INVARIANTS TypeOK NoFreedAccess NoDangling FlagsMatchCandidates IndInv
PROPERTIES ImplementsHeap CollectsAllGarbage
