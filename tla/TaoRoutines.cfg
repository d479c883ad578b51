CONSTANTS
    Progs <- Routines
    MaxDepth = 3
    MaxCalls = 3
    MaxElems = 2
SPECIFICATION Spec
INVARIANTS TypeOK DataStackFits ActivationsCounted ArgumentsHeld ForStartsAtFirst ForEachGoesOn
PROPERTIES ImplementsBlocks
CHECK_DEADLOCK FALSE
