------------------------------ MODULE Showing ------------------------------
(***************************************************************************)
(* The queries of ShowingService, while showtimes are registered, tickets  *)
(* created and bought, movies and theaters deleted.  A query joins several *)
(* collections in the services process: every read is a step of its own,   *)
(* and nothing keeps the collections still in between.                     *)
(*                                                                         *)
(* The purchases are those of TicketPurchase.  Registration and ticket     *)
(* creation, modelled in ShowtimesCreation and TicketsCreation, appear     *)
(* here as the documents they insert, one at a time.  A crash, which only  *)
(* ends the queries under way, is left to those modules, and no time       *)
(* passes: showtimes are minutes apart, the reads of a query milliseconds. *)
(***************************************************************************)
EXTENDS TicketPurchase, SequencesExt

CONSTANTS
    Showtime, Movie, Theater,
    ShowtimeOf,         \* the showtimeId of each ticket
    MovieOf, TheaterOf, \* the movieId and theaterId of each showtime
    StartOf,            \* the startTime of each showtime
    GenresOf,           \* the genre array of each movie
    Distance,           \* of each theater from the location of the user
    DayLength,          \* milliseconds of a day
    ZoneOffset,         \* how far the local time of the services is ahead of UTC
    FirstShowtimes,     \* the showtimes that are registered already
    Query,              \* the queries clients may have under way
    QueryRequest,       \* what they ask
    NoQuery,
    Take,               \* how many payments a recommendation looks at
    MaxRemovals         \* bound on the movies and theaters deleted

ASSUME CatalogAssumption ==
    /\ ShowtimeOf \in [Existing -> Showtime]
    /\ MovieOf \in [Showtime -> Movie]
    /\ TheaterOf \in [Showtime -> Theater]
    /\ StartOf \in [Showtime -> Nat]
    /\ Distance \in [Theater -> Nat]
    /\ FirstShowtimes \subseteq Showtime
    /\ DayLength \in Nat \ {0}
    /\ ZoneOffset \in Int

ASSUME QueryAssumption == NoQuery \notin QueryRequest /\ Take \in Nat \ {0} /\ MaxRemovals \in Nat

ASSUME RequestAssumption ==
    QueryRequest \subseteq
        [kind : {"recommend"}, customer : Customer]
          \cup [kind : {"theaters"}, movie : Movie]
          \cup [kind : {"showtimes"}, movie : Movie, theater : Theater, date : Int]
          \cup [kind : {"showdates"}, movie : Movie, theater : Theater]
          \cup [kind : {"tickets"}, showtime : Showtime]

ASSUME FiniteCatalogAssumption ==
    /\ IsFiniteSet(Showtime)
    /\ IsFiniteSet(Movie)
    /\ \A m \in Movie : IsFiniteSet(GenresOf[m])

VARIABLES
    showtimes,          \* the showtimes collection
    created,            \* the tickets collection: those that exist by now
    movies, theaters,   \* their collections
    request,            \* what each query asks
    stage,              \* the await each query is at, or how it ended
    held,               \* the documents or ids it holds from its last reads
    answer,
    before              \* history: what was registered, created and answered when it began

catalogVars == <<showtimes, created, movies, theaters>>
queryVars == <<request, stage, held, answer, before>>
showingVars == <<catalogVars, queryVars>>

QueryRunning == {"showingIds", "showing", "payments", "tickets", "watched", "theaterIds",
                 "theaters", "showtimes", "statuses", "showdates", "seats"}

ShowingInit ==
    /\ Init
    /\ showtimes = FirstShowtimes
    /\ created = {}
    /\ movies = Movie
    /\ theaters = Theater
    /\ request = [q \in Query |-> NoQuery]
    /\ stage = [q \in Query |-> "none"]
    /\ held = [q \in Query |-> [ids |-> <<>>, movies |-> {}]]
    /\ answer = [q \in Query |-> <<>>]
    /\ before = [q \in Query |-> [showtimes |-> {}, tickets |-> {}, payments |-> {}]]

----------------------------------------------------------------------------
(* What the repositories answer, from the collections as they are.          *)

\* distinct('movieId', { startTime: { $gt: time } })
MovieIdsShowingAfter(time) == {MovieOf[s] : s \in {r \in showtimes : StartOf[r] > time}}

TheaterIdsShowingMovie(m) == {TheaterOf[s] : s \in {r \in showtimes : MovieOf[r] = m}}

\* $dateToString of every startTime, grouped: dates are those of UTC.
Showdates(m, th) ==
    {StartOf[s] \div DayLength : s \in {r \in showtimes : MovieOf[r] = m /\ TheaterOf[r] = th}}

\* The date is what convertStringToDate makes of it: local midnight of the day named, on
\* either side of UTC, and setHours keeps it.
StartOfDay(date) == date * DayLength - ZoneOffset

\* Mutant: the last millisecond of the day is left out.
ShowtimesByShowdateOpen(m, th, date) ==
    {s \in showtimes : /\ MovieOf[s] = m
                       /\ TheaterOf[s] = th
                       /\ StartOf[s] >= StartOfDay(date)
                       /\ StartOf[s] < StartOfDay(date) + DayLength - 1}

\* startTime: { $gte: startOfDay, $lte: endOfDay }, the day of setHours: local time.
ShowtimesByShowdate(m, th, date) ==
    {s \in showtimes : /\ MovieOf[s] = m
                       /\ TheaterOf[s] = th
                       /\ StartOf[s] >= StartOfDay(date)
                       /\ StartOf[s] <= StartOfDay(date) + DayLength - 1}

TicketsOf(s) == {t \in created : ShowtimeOf[t] = s}

\* Mutant: $match drops the sold tickets, so that a showtime that is sold out has no entry.
SalesStatusesUnlessSoldOut(ss) ==
    [s \in {r \in ss : \E t \in TicketsOf(r) : status[t] # "sold"} |->
        LET sold == Cardinality({t \in TicketsOf(s) : status[t] = "sold"})
        IN  [total |-> Cardinality(TicketsOf(s)), sold |-> sold,
             available |-> Cardinality(TicketsOf(s)) - sold]]

\* $group by showtime: a showtime without tickets has no entry.
SalesStatuses(ss) ==
    [s \in {r \in ss : TicketsOf(r) # {}} |->
        LET sold == Cardinality({t \in TicketsOf(s) : status[t] = "sold"})
        IN  [total |-> Cardinality(TicketsOf(s)), sold |-> sold,
             available |-> Cardinality(TicketsOf(s)) - sold]]

\* The first page of the payments of a customer.  Payments have no field `createAt',
\* so that they come in any order.
LatestPayments(c) ==
    LET his == {p \in payments : asked[p].customer = c}
    IN  {ps \in SUBSET his : Cardinality(ps) = Take \/ (ps = his /\ Cardinality(his) < Take)}

\* uniq(pickItems(tickets, 'movieId'))
WatchedMovieIds(ts) == SetToSeq({MovieOf[ShowtimeOf[t]] : t \in ts})

\* getMoviesByIds throws if an id has no movie; one that occurs twice is only logged
\* (Expect.equalLength).
MoviesFound(ids) == Range(ids) \subseteq movies

TheatersFound(ids) == Range(ids) \subseteq theaters

\* All ways to sort a set by a key, the largest first, which is what an input in any order
\* leaves.
SortedBy(S, key) ==
    {seq \in SetToSeqs(S) : \A i, j \in 1..Len(seq) : key[seq[i]] > key[seq[j]] => i < j}

MatchCount(showing, watched) ==
    [m \in showing |-> Cardinality(GenresOf[m] \cap UNION {GenresOf[w] : w \in watched})]

\* Mutant: a movie must not have a genre the customer has not watched.
RecommendedMoviesEvery(showing, watched) ==
    LET count == MatchCount(showing, watched)
    IN  SortedBy({m \in showing : count[m] = Cardinality(GenresOf[m])}, count)

\* generateRecommendedMovies: showing movies that share a genre with a watched one,
\* those that share most genres first.
RecommendedMovies(showing, watched) ==
    LET count == MatchCount(showing, watched)
    IN  SortedBy({m \in showing : count[m] > 0}, count)

\* The nearest first.
SortTheatersByDistance(ths) == SortedBy(ths, [th \in ths |-> -Distance[th]])

----------------------------------------------------------------------------
(* The queries.                                                             *)

FirstRead == [recommend |-> "showingIds", theaters |-> "theaterIds",
              showtimes |-> "showtimes", showdates |-> "showdates", tickets |-> "seats"]

\* The gateway forwards the request: /showing/...
Ask(q, r) ==
    /\ stage[q] = "none"
    /\ request' = [request EXCEPT ![q] = r]
    /\ stage' = [stage EXCEPT ![q] = FirstRead[r.kind]]
    /\ before' = [before EXCEPT ![q] =
          [showtimes |-> showtimes, tickets |-> created,
           payments |-> {p \in Payment : pc[p] = "done"}]]
    /\ UNCHANGED <<held, answer, catalogVars, vars>>

\* A read that the query goes on from, holding what it has read.
Read(q, from, to, ids, ms) ==
    /\ stage[q] = from
    /\ stage' = [stage EXCEPT ![q] = to]
    /\ held' = [held EXCEPT ![q] = [ids |-> ids, movies |-> ms]]
    /\ UNCHANGED <<request, answer, before, catalogVars, vars>>

\* A read the query ends with: it answers, or throws.
End(q, from, how, result) ==
    /\ stage[q] = from
    /\ stage' = [stage EXCEPT ![q] = how]
    /\ answer' = [answer EXCEPT ![q] = result]
    /\ UNCHANGED <<request, held, before, catalogVars, vars>>

FindShowingMovieIds(q) ==
    Read(q, "showingIds", "showing", SetToSeq(MovieIdsShowingAfter(clock)), {})

GetShowingMovies(q) ==
    IF MoviesFound(held[q].ids)
    THEN Read(q, "showing", "payments", <<>>, Range(held[q].ids))
    ELSE End(q, "showing", "refused", <<>>)

\* findPayments: the tickets they name.
FindLatestPayments(q) ==
    /\ stage[q] = "payments"
    /\ \E ps \in LatestPayments(request[q].customer) :
          Read(q, "payments", "tickets", SetToSeq(UNION {Matched(p) : p \in ps}), held[q].movies)

FindPaidTickets(q) ==
    Read(q, "tickets", "watched", WatchedMovieIds(Range(held[q].ids) \cap created), held[q].movies)

GetWatchedMovies(q) ==
    IF MoviesFound(held[q].ids)
    THEN \E r \in RecommendedMovies(held[q].movies, Range(held[q].ids)) :
            End(q, "watched", "answered", r)
    ELSE End(q, "watched", "refused", <<>>)

FindTheaterIdsShowingMovie(q) ==
    Read(q, "theaterIds", "theaters", SetToSeq(TheaterIdsShowingMovie(request[q].movie)), {})

GetTheatersByIds(q) ==
    IF TheatersFound(held[q].ids)
    THEN \E r \in SortTheatersByDistance(Range(held[q].ids)) : End(q, "theaters", "answered", r)
    ELSE End(q, "theaters", "refused", <<>>)

FindShowtimesByShowdate(q) ==
    LET r == request[q]
    IN  Read(q, "showtimes", "statuses", SetToSeq(ShowtimesByShowdate(r.movie, r.theater, r.date)), {})

\* salesStatusMap.get(showtime.id)! : a showtime without status makes the code throw
\* a TypeError.
GetSalesStatuses(q) ==
    LET ss == Range(held[q].ids)
    IN  IF ss \subseteq DOMAIN SalesStatuses(ss)
        THEN End(q, "statuses", "answered", SalesStatuses(ss))
        ELSE End(q, "statuses", "broken", <<>>)

FindShowdates(q) ==
    End(q, "showdates", "answered", Showdates(request[q].movie, request[q].theater))

FindTicketsByShowtimeId(q) ==
    End(q, "seats", "answered", [t \in TicketsOf(request[q].showtime) |-> status[t]])

QueryStep(q) ==
    \/ FindShowingMovieIds(q)
    \/ GetShowingMovies(q)
    \/ FindLatestPayments(q)
    \/ FindPaidTickets(q)
    \/ GetWatchedMovies(q)
    \/ FindTheaterIdsShowingMovie(q)
    \/ GetTheatersByIds(q)
    \/ FindShowtimesByShowdate(q)
    \/ GetSalesStatuses(q)
    \/ FindShowdates(q)
    \/ FindTicketsByShowtimeId(q)

----------------------------------------------------------------------------
(* The documents the queries read, as they come and go.                     *)

\* A showtime is inserted; the checks the worker makes before are older than this.
RegisterShowtime(s) ==
    /\ showtimes' = showtimes \cup {s}
    /\ UNCHANGED <<created, movies, theaters, queryVars, vars>>

CreateTicket(t) ==
    /\ ShowtimeOf[t] \in showtimes
    /\ created' = created \cup {t}
    /\ UNCHANGED <<showtimes, movies, theaters, queryVars, vars>>

Removals == Cardinality(Movie \ movies) + Cardinality(Theater \ theaters)

RemoveMovie(m) ==
    /\ Removals < MaxRemovals
    /\ movies' = movies \ {m}
    /\ UNCHANGED <<showtimes, created, theaters, queryVars, vars>>

RemoveTheater(th) ==
    /\ Removals < MaxRemovals
    /\ theaters' = theaters \ {th}
    /\ UNCHANGED <<showtimes, created, movies, queryVars, vars>>

\* A client buys tickets it has seen.
Buy(p, d) ==
    /\ d.tickets \cap Existing \subseteq created
    /\ CreatePayment(p, d)
    /\ UNCHANGED showingVars

ShowingNext ==
    \/ \E s \in Showtime \ showtimes : RegisterShowtime(s)
    \/ \E t \in Existing \ created : CreateTicket(t)
    \/ \E m \in movies : RemoveMovie(m)
    \/ \E th \in theaters : RemoveTheater(th)
    \/ \E p \in Payment : \/ \E d \in Purchases : Buy(p, d)
                          \/ Proceed(p) /\ UNCHANGED showingVars
                          \/ \E t \in Existing : UpdateTicket(p, t) /\ UNCHANGED showingVars
                          \/ DatabaseFails(p) /\ UNCHANGED showingVars
    \/ \E q \in Query : (\E r \in QueryRequest : Ask(q, r)) \/ QueryStep(q)

ShowingSpec == ShowingInit /\ [][ShowingNext]_<<vars, showingVars>>

----------------------------------------------------------------------------

Answered(q, kind) == stage[q] = "answered" /\ request[q].kind = kind

BoughtBefore(q) == UNION {Matched(p) : p \in before[q].payments}

\* Sales statuses add up, and they are never behind what a client could know: the
\* tickets of every purchase that was answered before the query began count as sold,
\* and none counts that nobody paid for.
SalesCountsInBounds ==
    \A q \in Query : Answered(q, "showtimes") =>
        \A s \in DOMAIN answer[q] :
            LET Of(ts) == Cardinality({t \in ts : ShowtimeOf[t] = s})
            IN  /\ answer[q][s].available + answer[q][s].sold = answer[q][s].total
                /\ answer[q][s].sold >= Of(BoughtBefore(q))
                /\ answer[q][s].sold <= Of(UNION {Matched(p) : p \in payments})
                /\ answer[q][s].total >= Of(before[q].tickets)

\* findShowtimes breaks only on a showtime that had no ticket when the query began, and
\* the other queries are refused only if a movie or theater was deleted that has
\* showtimes: a registered showtime, a sale or a second ticket of a movie never makes
\* a query fail.
ShowingFailuresExplained ==
    \A q \in Query :
        /\ stage[q] = "broken" =>
              \E s \in showtimes : /\ MovieOf[s] = request[q].movie
                                   /\ TheaterOf[s] = request[q].theater
                                   /\ \A t \in before[q].tickets : ShowtimeOf[t] # s
        /\ stage[q] = "refused" =>
              \E s \in showtimes : MovieOf[s] \notin movies \/ TheaterOf[s] \notin theaters

\* Who asks for a recommendation gets, as long as a page holds all payments of the
\* customer, every movie that shares a genre with one the customer has bought a ticket for
\* before, if it has a showtime still to come; and no movie that shares none with a movie
\* on record for the customer.
RecommendationsFollowPurchases ==
    \A q \in Query : Answered(q, "recommend") =>
        LET his == {p \in payments : asked[p].customer = request[q].customer}
            Shares(m, ts) == \E t \in ts : GenresOf[m] \cap GenresOf[MovieOf[ShowtimeOf[t]]] # {}
        IN  /\ \A m \in Range(answer[q]) : Shares(m, UNION {Matched(p) : p \in his})
            /\ Cardinality(his) <= Take =>
                  \A s \in before[q].showtimes :
                      (/\ StartOf[s] > clock
                       /\ Shares(MovieOf[s], UNION {Matched(p) : p \in before[q].payments \cap his}))
                      => MovieOf[s] \in Range(answer[q])

\* With the services in UTC, the dates a client is offered are those under which the
\* showtimes are found: no date is empty, and no showtime is missing from all.
ShowdatesLeadToShowtimes ==
    ZoneOffset = 0 =>
        \A m \in Movie, th \in Theater :
            /\ \A d \in Showdates(m, th) : ShowtimesByShowdate(m, th, d) # {}
            /\ UNION {ShowtimesByShowdate(m, th, d) : d \in Showdates(m, th)}
                  = {s \in showtimes : MovieOf[s] = m /\ TheaterOf[s] = th}
=============================================================================
