SPECIFICATION SpecAll
CONSTANTS
    f = f
    g = g
    printf = printf
    rf = rf
    rg = rg
    rprintf = rprintf
    u = u
    w = w
    i = i
    Functions <- MCFunctions
    Names <- MCNames
    Qualified <- MCQualified
    Vars <- MCVars
    Whitelist = {printf}
    Programs <- MCPrograms
    RoseRecords <- MCRoseRecords
    Bases = {i}
    NoVar = NoVar
    Offsets = {0}
    ReductionNames = {}
    Nests <- MCNests
CHECK_DEADLOCK FALSE
INVARIANTS
    TypeOK
    UnresolvedIsReported
    LoopWritesReported
    TransformedCallsAreHarmless
