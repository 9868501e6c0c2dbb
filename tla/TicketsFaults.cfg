CONSTANTS
    b1 = b1
    m1 = m1
    t1 = t1
    t2 = t2
    x1 = x1
    x2 = x2
    NoDto = NoDto
    NoBatch = NoBatch
    Batch <- MCOneBatch
    Movie <- MCMovie
    Theater <- MCTheater
    Dtos <- MCTwoTheaters
    Seat <- MCSeat
    SeatsOf <- MCSeatEach
    Step = 1
    MaxStalledCount = 1
    MaxDeletions = 1
    MaxCrashes = 2
    MaxLapses = 0
SPECIFICATION RegistrationSpec
INVARIANTS
    TicketsTypeOK
    TicketsOnlyForSavedBatches
    CompleteTicketsCoverBatch
    AtMostOneTicketsJob
CHECK_DEADLOCK FALSE
