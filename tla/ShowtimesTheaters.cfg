CONSTANTS
    b1 = b1
    b2 = b2
    m1 = m1
    t1 = t1
    t2 = t2
    NoDto = NoDto
    NoBatch = NoBatch
    Batch <- MCBatch
    Movie <- MCMovie
    Theater <- MCTheater
    Dtos <- MCDtos
    Step = 1
    MaxStalledCount = 1
    MaxDeletions = 1
    MaxCrashes = 0
    MaxLapses = 0
SPECIFICATION Spec
INVARIANTS
    NoUncheckedPair
    FailReportsConflicts
CHECK_DEADLOCK FALSE
