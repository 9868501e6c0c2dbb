CONSTANTS
    b1 = b1
    m1 = m1
    t1 = t1
    t2 = t2
    x1 = x1
    x2 = x2
    NoDto = NoDto
    NoBatch = NoBatch
    Batch <- MCOneBatch
    Movie <- MCMovie
    Theater <- MCOneTheater
    Dtos <- MCSmallDtos
    Seat <- MCSeat
    SeatsOf <- MCSingleSeat
    Step = 1
    MaxStalledCount = 1
    MaxDeletions = 0
    MaxCrashes = 0
    MaxLapses = 2
SPECIFICATION FairRegistrationSpec
INVARIANTS
    TicketsPerSeatBounded
PROPERTIES
    JobsSettle
    RequestsAnswered
    TicketsFollowShowtimes
CHECK_DEADLOCK FALSE
