SPECIFICATION Spec
CONSTANTS
    A = A
    G = G
    i = i
    j = j
    math = math
    writer = writer
    global = global
    extern = extern
    cycle = cycle
    reduce = reduce
    NoVar = NoVar
    Names <- MCNames
    Bases <- MCBases
    Offsets = {0, 2}
    CalleeNames <- MCCalleeNames
    ReductionNames = {reduce}
    Loops <- MCLoops
    SummaryMaps <- MCSummaryMaps
    Trip = 4
    BaseValue <- MCBaseValue
    Globals = {G}
    Writes <- MCWrites
CHECK_DEADLOCK FALSE
INVARIANT WriteReadByCallsIsRefused
