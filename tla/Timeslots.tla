----------------------------- MODULE Timeslots -----------------------------
(***************************************************************************)
(* The time-conflict check of the showtimes worker, as pure operators.     *)
(*                                                                         *)
(* A request (CreateShowtimesDto) asks for one showtime per theater and    *)
(* start time, all of the same duration.  The worker fetches, for each     *)
(* theater, the registered showtimes whose START lies in the window        *)
(* spanned by the request, marks the slots each of them touches every Step *)
(* units of time from its own start, and looks every Step units from each  *)
(* requested start for a marked slot.                                      *)
(*                                                                         *)
(* A showtime is any record with fields theater, start and end; a request  *)
(* is any record with fields theaters and starts (sequences) and duration. *)
(***************************************************************************)
EXTENDS Integers, Sequences

CONSTANT Step       \* ten minutes, in the model's unit of time

ASSUME StepAssumption == Step \in Nat \ {0}

\* Mutant: the loop runs one step too far.
SamplesPastEnd(from, to) == {t \in from..(to + Step) : \E k \in 0..(to - from + 1) : t = from + k * Step}

\* Mutant: `time < end' instead of `time <= end'.
SamplesBeforeEnd(from, to) == {t \in from..(to - 1) : \E k \in 0..(to - from) : t = from + k * Step}

\* executeEvery10Mins: the instants visited from `from' up to and including `to'.
Samples(from, to) == {t \in from..to : \E k \in 0..(to - from) : t = from + k * Step}

EndTime(d, n) == d.starts[n] + d.duration

\* Mutant: the window ends at the last start instead of the last end.
InStartRange(d, t) ==
    /\ \E n \in DOMAIN d.starts : d.starts[n] <= t
    /\ \E n \in DOMAIN d.starts : t <= d.starts[n]

\* Mutant: $gt instead of $gte.
AfterFirstStart(d, t) ==
    /\ \E n \in DOMAIN d.starts : d.starts[n] < t
    /\ \E n \in DOMAIN d.starts : t <= EndTime(d, n)

\* The instant t lies between findMinDate(startTimes) and
\* findMaxDate(startTimes) + duration: some start is no later than t, and some
\* end is no earlier.
InDateRange(d, t) ==
    /\ \E n \in DOMAIN d.starts : d.starts[n] <= t
    /\ \E n \in DOMAIN d.starts : t <= EndTime(d, n)

\* Mutant: the theater is left out of the query.
FetchedEverywhere(shows, d, theater) == {s \in shows : InDateRange(d, s.start)}

\* findShowtimesWithinDateRange: only the start time of a showtime is compared.
FetchedShowtimes(shows, d, theater) ==
    {s \in shows : s.theater = theater /\ InDateRange(d, s.start)}

\* createTimeslotsByTheater: the fetched showtimes that mark slot t.  The Map of
\* the code keeps the last one written; which one that is depends on the order
\* the database returns them in.
Timeslot(shows, d, theater, t) ==
    {s \in FetchedShowtimes(shows, d, theater) : t \in Samples(s.start, s.end)}

\* The first marked slot that the n-th requested start runs into, if any.
FirstHits(shows, d, theater, n) ==
    LET hits == {t \in Samples(d.starts[n], EndTime(d, n)) :
                    Timeslot(shows, d, theater, t) # {}}
    IN  {t \in hits : \A u \in hits : t <= u}

\* Mutant: only the first theater is looked at.
ConflictsInFirstTheater(shows, d) ==
    {s \in shows :
        \E n \in DOMAIN d.starts :
            \E t \in FirstHits(shows, d, d.theaters[1], n) :
                s \in Timeslot(shows, d, d.theaters[1], t)}

\* checkForTimeConflicts: the showtimes that may be reported, empty exactly when
\* the request is accepted.
ConflictShowtimes(shows, d) ==
    {s \in shows :
        \E i \in DOMAIN d.theaters, n \in DOMAIN d.starts :
            \E t \in FirstHits(shows, d, d.theaters[i], n) :
                s \in Timeslot(shows, d, d.theaters[i], t)}
=============================================================================
