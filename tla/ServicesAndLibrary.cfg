CONSTANTS
    p1 = p1
    p2 = p2
    c1 = c1
    t1 = t1
    t2 = t2
    s1 = s1
    s2 = s2
    s3 = s3
    m1 = m1
    m2 = m2
    ta = ta
    tb = tb
    q1 = q1
    genreG = genreG
    genreH = genreH
    e1 = e1
    e2 = e2
    e3 = e3
    g1 = g1
    g2 = g2
    g3 = g3
    th = th
    mv = mv
    x = x
    y = y
    Payment <- MCPayment
    Customer <- MCCustomer
    Ticket <- MCTicket
    Existing <- MCTicket
    Purchases <- MCPurchases
    NoPurchase = NoPurchase
    MaxClock = 0
    MaxCrashes = 0
    Showtime <- MCShowtime
    Movie <- MCMovie
    Theater <- MCTheater
    ShowtimeOf <- MCShowtimeOf
    MovieOf <- MCMovieOf
    TheaterOf <- MCTheaterOf
    StartOf <- MCStartOf
    GenresOf <- MCGenresOf
    Distance <- MCDistance
    FirstShowtimes <- MCFirstShowtimes
    DayLength = 2
    ZoneOffset = 0
    Query <- MCQuery
    QueryRequest <- MCQueryRequest
    NoQuery = NoQuery
    Take = 1
    MaxRemovals = 1
    MaxCalls = 5
    Email <- MCEmail
    NoEmail = NoEmail
    FirstEmail = e1
    SecondEmail = e2
    Edit <- MCEdit
    Value <- MCValue
    TheaterDoc <- MCTheaterDoc
    MovieDoc <- MCMovieDoc
    FirstMovie <- MCFirstMovie
    CreateDto <- MCCreateDto
    UpdateDtos <- MCUpdateDtos
    Falsy = Falsy
    NoDoc = NoDoc
    NoEdit = NoEdit
    Execution <- MCExecution
    Connection <- MCConnection
    NoConnection = NoConnection
    MaxChanges = 1
    Document <- MCDocument
    Fields <- MCFields
    FirstEntries <- MCFirstEntries
    CreatedAt <- MCCreatedAt
    Order <- MCOrder
    KeyOf <- MCKeyOf
    Filter <- MCFilter
    Takes <- MCTakes
    TakeLimit = 2
    ChunkSize = 3
    MaxSize = 5
    MaxWrites = 3
SPECIFICATION PartsSpec
INVARIANTS
    SalesCountsInBounds
    ShowingFailuresExplained
    RecommendationsFollowPurchases
    ShowdatesLeadToShowtimes
    SharedEmailsComeFromRaces
    RefreshTokensRotate
    DeletedCustomersStayOut
    SavesAreSerial
    TransactionsSettle
    PagesCover
    TotalFitsPage
    LinesMatchContent
CHECK_DEADLOCK FALSE
