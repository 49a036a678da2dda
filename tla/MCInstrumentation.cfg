SPECIFICATION Spec
CONSTANTS
    Files <- MCFiles
    Revisions <- MCRevisions
CHECK_DEADLOCK FALSE
INVARIANTS
    TypeOK
    BracketsTheLoop
    EveryStartHasItsEnd
    SafeLoopsAreFound
