SPECIFICATION Spec
CONSTANTS
    Asks <- MCAsks
    Local <- MCLocal
    Times = {4}
    MaxDeeds = 2
    Lengths = {0, 9, 30}
    MaxLosses = 1
INVARIANTS
    CallsArrive
    FrozenReadsBack
    TornNeverReads
CHECK_DEADLOCK FALSE
