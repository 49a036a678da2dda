SPECIFICATION Spec
CONSTANTS
    Files <- MCFiles
    Revisions <- MCRevisions
CHECK_DEADLOCK FALSE
INVARIANT GuardsStay
