------------------------- MODULE MCTimeslots_proofs -------------------------
(***************************************************************************)
(* The conflict check as the worker uses it, one request after the other,  *)
(* for any horizon, durations, number of requests and of starts, with      *)
(* starts on a grid of which Step is a divisor.  What Timeslots_proofs     *)
(* shows of one call is lifted to all reachable collections: a registered  *)
(* showtime is that of an accepted request (Registered), and the check     *)
(* that accepted it saw every showtime of the requests before.             *)
(***************************************************************************)
EXTENDS MCTimeslots, Timeslots_proofs

\* Where a registered showtime comes from.
Registered(s) ==
    /\ s.batch \in DOMAIN batches
    /\ s \in Created(batches[s.batch], s.batch)

CheckInv ==
    /\ batches \in Seq(Requests)
    /\ \A s \in shows : Registered(s)
    /\ OverlapsOnlyFromBefore

LEMMA GridIsSteps ==
    ASSUME NEW t \in Starts
    PROVE  t \in Nat /\ \E a \in Nat : t = a * Step
<1> DEFINE g == Grid \div Step
           c == t \div Grid
<1>1. t \in Nat /\ t % Grid = 0 /\ Grid \in Nat \ {0} /\ Step \in Nat \ {0} /\ Grid % Step = 0
  BY GridAssumption, StepAssumption DEF Starts
<1>2. g \in Nat /\ Grid = g * Step
  BY <1>1
<1>3. c \in Nat /\ t = c * Grid
  BY <1>1
<1> HIDE DEF g, c
<1>4. c * g \in Nat /\ t = (c * g) * Step
  BY <1>1, <1>2, <1>3
<1>5. QED
  BY <1>1, <1>4

LEMMA RequestsAreRequests ==
    ASSUME NEW d \in Requests
    PROVE  /\ IsRequest(d)
           /\ DOMAIN d.theaters = {1} /\ d.theaters[1] = 1
           /\ \A n \in DOMAIN d.starts : d.starts[n] \in Starts
           /\ d.duration \in Nat
<1>1. /\ d.theaters = <<1>> /\ d.duration \in 1..MaxDuration
      /\ \E n \in 1..MaxStarts : d.starts \in [1..n -> Starts]
  BY DEF Requests
<1>2. d.duration \in Nat
  BY <1>1, GridAssumption
<1>3. PICK n \in Nat : d.starts \in [1..n -> Starts]
  BY <1>1, GridAssumption
<1>4. Starts \subseteq Nat
  BY GridIsSteps
<1>5. d.starts \in Seq(Nat)
  BY <1>3, <1>4
<1>6. QED
  BY <1>1, <1>2, <1>3, <1>5 DEF IsRequest

LEMMA CreatedShows ==
    ASSUME NEW d \in Requests, NEW b, NEW s \in Created(d, b)
    PROVE  /\ s.theater = 1 /\ s.batch = b /\ IsShowtime(s) /\ s.start \in Starts
           /\ \E n \in DOMAIN d.starts : s.start = d.starts[n] /\ s.end = EndTime(d, n)
<1>1. PICK n \in DOMAIN d.starts :
         s = [theater |-> 1, start |-> d.starts[n], end |-> EndTime(d, n), batch |-> b, nth |-> n]
  BY DEF Created
<1>2. d.starts[n] \in Starts /\ d.starts[n] \in Nat /\ d.duration \in Nat
  BY RequestsAreRequests, GridIsSteps
<1>3. QED
  BY <1>1, <1>2 DEF IsShowtime, EndTime

LEMMA ShowsAreShowtimes ==
    ASSUME CheckInv, NEW s \in shows
    PROVE  /\ IsShowtime(s) /\ s.theater = 1 /\ s.start \in Starts
           /\ s.batch \in 1..Len(batches)
<1>1. s.batch \in DOMAIN batches /\ s \in Created(batches[s.batch], s.batch)
  BY DEF CheckInv, Registered
<1>2. batches[s.batch] \in Requests /\ DOMAIN batches = 1..Len(batches)
  BY <1>1 DEF CheckInv
<1>3. QED
  BY <1>1, <1>2, CreatedShows

(* Where the check accepts, no registered showtime that meets the request begins    *)
(* within its window.                                                                *)
LEMMA WindowFound ==
    ASSUME CheckInv, NEW d \in Requests, NEW s \in shows, InDateRange(d, s.start),
           NEW n \in DOMAIN d.starts, Meets(s, d, n)
    PROVE  ConflictShowtimes(shows, d) # {}
<1>1. IsShowtime(s) /\ s.theater = 1 /\ s.start \in Starts
  BY ShowsAreShowtimes
<1>2. IsRequest(d) /\ DOMAIN d.theaters = {1} /\ d.theaters[1] = 1 /\ d.starts[n] \in Starts
  BY RequestsAreRequests
<1>3. PICK a \in Nat : s.start = a * Step
  BY <1>1, GridIsSteps
<1>4. PICK b \in Nat : d.starts[n] = b * Step
  BY <1>2, GridIsSteps
<1>5. Touches(s, d, n)
  BY DEF Meets, Touches
<1>6. 1 \in DOMAIN d.theaters /\ s.theater = d.theaters[1]
  BY <1>1, <1>2
<1>7. QED
  BY <1>1, <1>2, <1>3, <1>4, <1>5, <1>6, AlignedConflictsAreFound

LEMMA RegisterStep ==
    ASSUME CheckInv, NEW d \in Requests, Register(d)
    PROVE  CheckInv'
<1> DEFINE b == Len(batches) + 1
<1>1. /\ ConflictShowtimes(shows, d) = {}
      /\ batches' = Append(batches, d) /\ shows' = shows \cup Created(d, b)
  BY DEF Register
<1>2. batches \in Seq(Requests) /\ Len(batches) \in Nat
  BY DEF CheckInv
<1>3. /\ batches' \in Seq(Requests) /\ DOMAIN batches' = 1..b /\ batches'[b] = d
      /\ DOMAIN batches = 1..Len(batches)
      /\ \A k \in DOMAIN batches : k \in DOMAIN batches' /\ batches'[k] = batches[k]
  BY <1>1, <1>2
<1>4. \A s \in shows : Registered(s)'
  BY <1>3 DEF CheckInv, Registered, Created
<1>5. \A s \in Created(d, b) : s.batch = b /\ Registered(s)'
  <2> SUFFICES ASSUME NEW s \in Created(d, b) PROVE s.batch = b /\ Registered(s)'
    OBVIOUS
  <2>1. s.batch = b
    BY CreatedShows
  <2>2. b \in DOMAIN batches' /\ s \in Created(batches'[b], b)
    BY <1>2, <1>3
  <2>3. QED
    BY <1>3, <2>1, <2>2 DEF Registered, Created
<1>6. OverlapsOnlyFromBefore'
  <2> SUFFICES ASSUME NEW s \in shows', NEW t \in shows', s.batch < t.batch, Overlap(s, t),
                      NEW n \in DOMAIN batches'[t.batch].starts
               PROVE  s.start < batches'[t.batch].starts[n]
    BY DEF OverlapsOnlyFromBefore, Overlap
  <2>1. CASE t \in shows
    <3>1. t.batch \in 1..Len(batches) /\ s \in shows
      <4>1. t.batch \in 1..Len(batches)
        BY <2>1, ShowsAreShowtimes
      <4>2. s \notin Created(d, b)
        BY <1>2, <1>5, <4>1
      <4>3. QED
        BY <1>1, <4>1, <4>2
    <3>2. batches'[t.batch] = batches[t.batch]
      BY <1>3, <3>1
    <3>3. QED
      BY <2>1, <3>1, <3>2 DEF CheckInv, OverlapsOnlyFromBefore
  <2>2. CASE t \in Created(d, b)
    <3>1. t.batch = b /\ batches'[t.batch] = d
      BY <1>3, <1>5, <2>2
    <3>2. s \in shows
      BY <1>1, <1>2, <1>5, <3>1
    <3>3. PICK m \in DOMAIN d.starts : t.start = d.starts[m] /\ t.end = EndTime(d, m)
      BY <2>2, CreatedShows
    <3>4. IsShowtime(s) /\ IsShowtime(t)
      BY <2>2, <3>2, ShowsAreShowtimes, CreatedShows
    <3>5. Meets(s, d, m) /\ s.start <= EndTime(d, m)
      BY <3>3, <3>4 DEF Overlap, Meets, IsShowtime
    <3>6. ~InDateRange(d, s.start)
      BY <1>1, <3>2, <3>5, WindowFound
    <3>7. ~(d.starts[n] <= s.start)
      BY <3>1, <3>5, <3>6 DEF InDateRange
    <3>8. d.starts[n] \in Nat
      BY <3>1, RequestsAreRequests, GridIsSteps
    <3>9. QED
      BY <3>1, <3>4, <3>7, <3>8 DEF IsShowtime
  <2>3. QED
    BY <1>1, <2>1, <2>2
<1>7. QED
  BY <1>1, <1>3, <1>4, <1>5, <1>6 DEF CheckInv

LEMMA CheckInvariant == Spec => []CheckInv
<1>1. Init => CheckInv
  BY DEF Init, CheckInv, OverlapsOnlyFromBefore
<1>2. CheckInv /\ [Next]_<<shows, batches>> => CheckInv'
  <2> SUFFICES ASSUME CheckInv, [Next]_<<shows, batches>> PROVE CheckInv'
    OBVIOUS
  <2>1. CASE Next
    BY <2>1, RegisterStep DEF Next
  <2>2. CASE UNCHANGED <<shows, batches>>
    BY <2>2 DEF CheckInv, Registered, OverlapsOnlyFromBefore
  <2>3. QED
    BY <2>1, <2>2
<1>3. QED
  BY <1>1, <1>2, PTL DEF Spec

----------------------------------------------------------------------------

(* Whatever is registered, checkForTimeConflicts reports no showtime that meets none *)
(* of the requested intervals.                                                       *)
THEOREM ReportsAreReal == Spec => []ConflictsAreReal
<1>1. ASSUME CheckInv, NEW d \in Requests, NEW s \in ConflictShowtimes(shows, d)
      PROVE  \E n \in DOMAIN d.starts : Meets(s, d, n)
  <2>1. IsRequest(d) /\ \A r \in shows : IsShowtime(r)
    BY <1>1, RequestsAreRequests, ShowsAreShowtimes
  <2>2. \E n \in DOMAIN d.starts : Touches(s, d, n)
    BY <1>1, <2>1, ReportedConflictsAreReal
  <2>3. QED
    BY <2>2 DEF Touches, Meets
<1>2. CheckInv => ConflictsAreReal
  BY <1>1 DEF ConflictsAreReal
<1>3. QED
  BY <1>2, CheckInvariant, PTL

(* A registered showtime that meets the request and starts in the window             *)
(* findShowtimesWithinDateRange fetches makes the check refuse.                      *)
THEOREM WindowIsChecked == Spec => []WindowConflictsAreFound
<1>1. CheckInv => WindowConflictsAreFound
  BY WindowFound DEF WindowConflictsAreFound
<1>2. QED
  BY <1>1, CheckInvariant, PTL

(* Showtimes of two requests overlap only if the one registered first began before   *)
(* the window of the second: the blind spot of findShowtimesWithinDateRange is the    *)
(* only one.                                                                          *)
THEOREM OverlapsComeFromBefore == Spec => []OverlapsOnlyFromBefore
<1>1. CheckInv => OverlapsOnlyFromBefore
  BY DEF CheckInv
<1>2. QED
  BY <1>1, CheckInvariant, PTL
=============================================================================
