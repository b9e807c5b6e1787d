SPECIFICATION Spec
CONSTANTS
    Ids <- MCIds
    MaxWrites = 1
CHECK_DEADLOCK FALSE
INVARIANTS VerdictRight CycleIsReal NoMissedRevision
PROPERTY WalkEnds
