-------------------------- MODULE Timeslots_proofs --------------------------
(* What the conflict check finds, for every step, request and collection.  *)
EXTENDS Timeslots, WellFoundedInduction, TLAPS

\* A request as CreateShowtimesDto validates it.
IsRequest(d) ==
    /\ d.starts \in Seq(Nat)
    /\ d.duration \in Nat

\* The closed intervals of a showtime and of the n-th requested one meet.
Touches(s, d, n) == s.start <= EndTime(d, n) /\ d.starts[n] <= s.end

\* A showtime as it is stored: it does not end before it starts.
IsShowtime(s) ==
    /\ s.start \in Nat
    /\ s.end \in Nat
    /\ s.start <= s.end

(* Every interval is sampled at its start. *)
LEMMA FirstSample ==
    ASSUME NEW from \in Nat, NEW to \in Nat, from <= to
    PROVE  from \in Samples(from, to)
<1>1. 0 \in 0..(to - from) /\ from = from + 0 * Step
  BY StepAssumption
<1>2. QED
  BY <1>1 DEF Samples

(* No sample lies before the start of its interval. *)
LEMMA SamplesInRange ==
    ASSUME NEW from \in Nat, NEW to \in Nat, NEW t \in Samples(from, to)
    PROVE  t \in Nat /\ from <= t /\ t <= to
BY DEF Samples

(* A request for a start time that a theater already has is never accepted,    *)
(* whatever else is registered: checkForTimeConflicts reports that showtime.    *)
THEOREM SharedStartConflicts ==
    ASSUME NEW shows, NEW d, IsRequest(d),
           NEW s \in shows, IsShowtime(s),
           NEW i \in DOMAIN d.theaters, s.theater = d.theaters[i],
           NEW n \in DOMAIN d.starts, s.start = d.starts[n]
    PROVE  s \in ConflictShowtimes(shows, d)
<1> DEFINE theater == d.theaters[i]
<1>1. d.starts[n] \in Nat /\ d.duration \in Nat
  BY DEF IsRequest
<1>2. EndTime(d, n) \in Nat /\ d.starts[n] <= EndTime(d, n)
  BY <1>1 DEF EndTime
<1>3. InDateRange(d, s.start)
  BY <1>1, <1>2 DEF InDateRange
<1>4. s \in Timeslot(shows, d, theater, s.start)
  <2>1. s \in FetchedShowtimes(shows, d, theater)
    BY <1>3 DEF FetchedShowtimes
  <2>2. s.start \in Samples(s.start, s.end)
    BY FirstSample DEF IsShowtime
  <2>3. QED
    BY <2>1, <2>2 DEF Timeslot
<1>5. s.start \in FirstHits(shows, d, theater, n)
  <2>1. s.start \in Samples(d.starts[n], EndTime(d, n))
    BY <1>1, <1>2, FirstSample
  <2>2. Timeslot(shows, d, theater, s.start) # {}
    BY <1>4
  <2>3. \A u \in Samples(d.starts[n], EndTime(d, n)) : s.start <= u
    BY <1>1, <1>2, SamplesInRange
  <2>4. QED
    BY <2>1, <2>2, <2>3 DEF FirstHits
<1>6. QED
  BY <1>4, <1>5 DEF ConflictShowtimes

(* Every reported showtime starts in the window, is shown in a requested       *)
(* theater and meets a requested interval: checkForTimeConflicts reports no     *)
(* false conflict.                                                              *)
THEOREM ReportedConflictsAreReal ==
    ASSUME NEW shows, NEW d, IsRequest(d),
           \A s \in shows : IsShowtime(s),
           NEW s \in ConflictShowtimes(shows, d)
    PROVE  /\ s \in shows
           /\ \E i \in DOMAIN d.theaters : s.theater = d.theaters[i]
           /\ \E n \in DOMAIN d.starts : Touches(s, d, n)
<1>1. s \in shows /\ IsShowtime(s)
  BY DEF ConflictShowtimes
<1>2. PICK i \in DOMAIN d.theaters, n \in DOMAIN d.starts :
         \E t \in FirstHits(shows, d, d.theaters[i], n) :
            s \in Timeslot(shows, d, d.theaters[i], t)
  BY DEF ConflictShowtimes
<1>3. PICK t \in FirstHits(shows, d, d.theaters[i], n) :
         s \in Timeslot(shows, d, d.theaters[i], t)
  BY <1>2
<1>4. d.starts[n] \in Nat /\ EndTime(d, n) \in Nat
  BY DEF IsRequest, EndTime
<1>5. t \in Samples(d.starts[n], EndTime(d, n))
  BY DEF FirstHits
<1>6. s.theater = d.theaters[i] /\ t \in Samples(s.start, s.end)
  BY <1>3 DEF Timeslot, FetchedShowtimes
<1>7. Touches(s, d, n)
  BY <1>1, <1>4, <1>5, <1>6, SamplesInRange DEF Touches, IsShowtime
<1>8. QED
  BY <1>1, <1>6, <1>7

(* A non-empty set of instants has an earliest one.                             *)
LEMMA EarliestExists ==
    ASSUME NEW T, T \subseteq Nat, T # {}
    PROVE  \E t \in T : \A u \in T : t <= u
<1>1. PICK t \in T : \A u \in T : ~ (<<u, t>> \in OpToRel(<, Nat))
  BY NatLessThanWellFounded, WFMin
<1>2. \A u \in T : ~ (u < t)
  BY <1>1 DEF OpToRel
<1>3. QED
  BY <1>2

(* Two intervals whose starts lie on the grid of Step, and that meet, have a    *)
(* sample in common: the later of the two starts.                               *)
LEMMA AlignedSample ==
    ASSUME NEW from \in Nat, NEW to \in Nat,
           NEW a \in Nat, NEW b \in Nat, a * Step = from,
           from <= b * Step, b * Step <= to
    PROVE  b * Step \in Samples(from, to)
<1> DEFINE t == b * Step
           k == b - a
<1>1. Step \in Nat /\ Step >= 1
  BY StepAssumption
<1>2. t = from + k * Step
  BY <1>1
<1>3. k \in Int /\ t - from = k * Step
  BY <1>1, <1>2
<1>4. k >= 0
  <2>1. SUFFICES ASSUME k <= -1 PROVE FALSE
    BY <1>3
  <2>2. k * Step <= (-1) * Step
    BY <1>1, <1>3, <2>1
  <2>3. QED
    BY <1>1, <1>3, <2>2
<1>5. k <= k * Step
  BY <1>1, <1>3, <1>4
<1>6. k \in 0..(to - from)
  BY <1>1, <1>3, <1>4, <1>5
<1>7. QED
  BY <1>1, <1>2, <1>6 DEF Samples

(* On the grid, the check refuses every request that meets a registered        *)
(* showtime of one of its theaters whose start lies in its window.  What it     *)
(* lets through is a showtime that began before all requested starts.           *)
THEOREM AlignedConflictsAreFound ==
    ASSUME NEW shows, NEW d, IsRequest(d),
           NEW s \in shows, IsShowtime(s), InDateRange(d, s.start),
           NEW i \in DOMAIN d.theaters, s.theater = d.theaters[i],
           NEW n \in DOMAIN d.starts, Touches(s, d, n),
           NEW a \in Nat, s.start = a * Step,
           NEW b \in Nat, d.starts[n] = b * Step
    PROVE  ConflictShowtimes(shows, d) # {}
<1> DEFINE theater == d.theaters[i]
           hits == {t \in Samples(d.starts[n], EndTime(d, n)) :
                       Timeslot(shows, d, theater, t) # {}}
<1>1. d.starts[n] \in Nat /\ EndTime(d, n) \in Nat /\ d.starts[n] <= EndTime(d, n)
  BY DEF IsRequest, EndTime
<1>2. s \in FetchedShowtimes(shows, d, theater)
  BY DEF FetchedShowtimes
<1>3. \E t \in Samples(d.starts[n], EndTime(d, n)) : t \in Samples(s.start, s.end)
  <2>1. CASE s.start <= d.starts[n]
    <3>1. d.starts[n] \in Samples(d.starts[n], EndTime(d, n))
      BY <1>1, FirstSample
    <3>2. d.starts[n] \in Samples(s.start, s.end)
      BY <2>1, AlignedSample DEF IsShowtime, Touches
    <3>3. QED
      BY <3>1, <3>2
  <2>2. CASE d.starts[n] <= s.start
    <3>1. s.start \in Samples(s.start, s.end)
      BY FirstSample DEF IsShowtime
    <3>2. s.start \in Samples(d.starts[n], EndTime(d, n))
      BY <1>1, <2>2, AlignedSample DEF Touches
    <3>3. QED
      BY <3>1, <3>2
  <2>3. QED
    BY <1>1, <2>1, <2>2 DEF IsShowtime
<1>4. hits # {} /\ hits \subseteq Nat
  <2>1. hits # {}
    BY <1>2, <1>3 DEF Timeslot
  <2>2. hits \subseteq Nat
    BY <1>1, SamplesInRange
  <2>3. QED
    BY <2>1, <2>2
<1>5. PICK t \in hits : \A u \in hits : t <= u
  BY <1>4, EarliestExists
<1>6. t \in FirstHits(shows, d, theater, n)
  BY <1>5 DEF FirstHits
<1>7. PICK x : x \in Timeslot(shows, d, theater, t)
  BY <1>5
<1>8. x \in shows
  BY <1>7 DEF Timeslot, FetchedShowtimes
<1>9. x \in ConflictShowtimes(shows, d)
  BY <1>6, <1>7, <1>8 DEF ConflictShowtimes
<1>10. QED
  BY <1>9
=============================================================================
