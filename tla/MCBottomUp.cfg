SPECIFICATION BottomUpSpec
CONSTANTS
    f1 = f1
    f2 = f2
    f3 = f3
    u = u
    w = w
    Functions <- MCFunctions
    Vars <- MCVars
    Whitelist <- MCWhitelist
    Seeds <- MCSeeds
    Seedings <- MCSeedings
CHECK_DEADLOCK FALSE
INVARIANTS
    BottomUpTypeOK
    StackDiscipline
    LowlinkIsWitnessed
    SummariesSound
    SummariesPrecise
    ConservativeAboveCycles
    PureExactly
    TwoPassesSuffice
PROPERTIES
    ImplementsSccOrder
    Terminates
