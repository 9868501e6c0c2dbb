CONSTANTS
    Step = 2
    Grid = 2
    Horizon = 8
    MaxDuration = 4
    MaxStarts = 2
    MaxRegistered = 2
SPECIFICATION Spec
INVARIANTS
    NoOverlapBetweenBatches
CHECK_DEADLOCK FALSE
