SPECIFICATION Spec
CONSTANTS
    f = f
    g = g
    f1 = f1
    f2 = f2
    g1 = g1
    Names <- MCNames
    FunctionDecls <- MCFunctionDecls
    Units <- MCUnits
CHECK_DEADLOCK FALSE
INVARIANTS
    TypeOK
    NestsAreTheOutermostLoops
    WritesAreTargets
