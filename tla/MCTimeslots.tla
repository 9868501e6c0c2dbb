---------------------------- MODULE MCTimeslots ----------------------------
(***************************************************************************)
(* The conflict check against its reference, the intersection of closed    *)
(* intervals.  Requests are registered one after the other, each at once,  *)
(* so that what the check lets through is what the later checks see.       *)
(***************************************************************************)
EXTENDS Timeslots, FiniteSets

CONSTANTS
    Horizon,            \* the last instant at which a showtime may start
    MaxDuration,
    Grid,               \* requested starts are multiples of it
    MaxStarts,          \* start times in a request
    MaxRegistered       \* requests registered in a behaviour

ASSUME GridAssumption ==
    /\ Horizon \in Nat /\ MaxDuration \in Nat
    /\ MaxStarts \in Nat /\ MaxRegistered \in Nat
    /\ Grid \in Nat \ {0} /\ Grid % Step = 0

VARIABLES
    shows,              \* the showtimes of the theater
    batches             \* the requests registered so far, in order

Starts == {t \in 0..Horizon : t % Grid = 0}

\* Requests for one theater: the check treats each theater apart.
Requests == [theaters : {<<1>>}, starts : UNION {[1..n -> Starts] : n \in 1..MaxStarts},
             duration : 1..MaxDuration]

Created(d, b) ==
    {[theater |-> 1, start |-> d.starts[n], end |-> EndTime(d, n), batch |-> b, nth |-> n] :
        n \in DOMAIN d.starts}

Init == shows = {} /\ batches = <<>>

Register(d) ==
    /\ Len(batches) < MaxRegistered
    /\ ConflictShowtimes(shows, d) = {}
    /\ batches' = Append(batches, d)
    /\ shows' = shows \cup Created(d, Len(batches) + 1)

Next == \E d \in Requests : Register(d)

Spec == Init /\ [][Next]_<<shows, batches>>

----------------------------------------------------------------------------

Meets(s, d, n) == s.start <= EndTime(d, n) /\ d.starts[n] <= s.end

\* Two showings are on at one time, for longer than an instant.
Overlap(s, t) == s.start < t.end /\ t.start < s.end

\* A reported showtime really meets one of the requested intervals.
ConflictsAreReal ==
    \A d \in Requests : \A s \in ConflictShowtimes(shows, d) :
        \E n \in DOMAIN d.starts : Meets(s, d, n)

\* When all starts are multiples of Step, the check misses no registered showtime
\* that meets a requested interval and starts within the window of the request.
\* Showtimes that touch in one instant count as conflicts.
WindowConflictsAreFound ==
    \A d \in Requests :
        (\E s \in shows : InDateRange(d, s.start) /\ \E n \in DOMAIN d.starts : Meets(s, d, n))
            => ConflictShowtimes(shows, d) # {}

\* Registered showtimes of different requests overlap only if the one registered
\* earlier began before every start of the later request.
OverlapsOnlyFromBefore ==
    \A s, t \in shows : (s.batch < t.batch /\ Overlap(s, t)) =>
        \A n \in DOMAIN batches[t.batch].starts : s.start < batches[t.batch].starts[n]

\* docs/showtimes-registration.md: a showtime that overlaps a registered one is
\* not registered.
NoOverlapBetweenBatches ==
    \A s, t \in shows : Overlap(s, t) => s.batch = t.batch
=============================================================================
