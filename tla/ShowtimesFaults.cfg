CONSTANTS
    b1 = b1
    b2 = b2
    m1 = m1
    t1 = t1
    t2 = t2
    NoDto = NoDto
    NoBatch = NoBatch
    Batch <- MCBatch
    Movie <- MCMovie
    Theater <- MCOneTheater
    Dtos <- MCFaultDtos
    Step = 1
    MaxStalledCount = 1
    MaxDeletions = 0
    MaxCrashes = 1
    MaxLapses = 1
SPECIFICATION Spec
INVARIANTS
    TypeOK
    NoDoubleBookedStart
    OneRunPerBatch
    CompleteMeansSaved
    AtMostOneComplete
    RefusedBatchSavesNothing
    StatusOrder
PROPERTY
    ImplementsSlotLedger
SYMMETRY MCSymmetry
CHECK_DEADLOCK FALSE
