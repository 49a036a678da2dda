SPECIFICATION Spec
CONSTANTS
    f = f
    g = g
    Fns <- MCFns
    Rank <- MCRank
    Arrays <- MCArrays
    Sources <- MCSources
    Hardwares <- MCHardwares
INVARIANTS
    TypeOK
    VerdictDecides
    DirectiveFitsItsLoop
    OffloadKeepsArrays
    ProfileOnlyWithholds
