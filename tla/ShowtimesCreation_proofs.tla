---------------------- MODULE ShowtimesCreation_proofs ----------------------
(***************************************************************************)
(* Theorems about ShowtimesCreation for all batches, movies, theaters,     *)
(* requests, and any number of faults.                                     *)
(***************************************************************************)
EXTENDS ShowtimesCreation, Timeslots_proofs, SequenceTheorems, FiniteSetTheorems

----------------------------------------------------------------------------
(* Lemmas about the data *)

(* Every request of Dtos is one the conflict check is proved about.            *)
LEMMA DtosAreRequests ==
    ASSUME NEW d \in Dtos
    PROVE  /\ IsRequest(d)
           /\ d.theaters \in Seq(Theater)
BY DtoAssumption DEF IsRequest

(* The documents built for a requested batch are well-formed showtimes.         *)
LEMMA NewShowtimesType ==
    ASSUME NEW b \in Batch, request[b] \in Dtos, NEW r \in Nat,
           NEW s \in NewShowtimes(b, r)
    PROVE  /\ s \in Showtime
           /\ IsShowtime(s)
           /\ s.batch = b /\ s.run = r
           /\ \E i \in DOMAIN request[b].theaters : s.theater = request[b].theaters[i]
           /\ \E n \in DOMAIN request[b].starts : s.start = request[b].starts[n]
<1> DEFINE d == request[b]
<1>1. IsRequest(d) /\ d.theaters \in Seq(Theater)
  BY DtosAreRequests
<1>2. PICK i \in DOMAIN d.theaters, n \in DOMAIN d.starts :
         s = [batch |-> b, run |-> r, theater |-> d.theaters[i], nth |-> n,
              start |-> d.starts[n], end |-> EndTime(d, n)]
  BY DEF NewShowtimes
<1>3. /\ d.theaters \in Seq(Theater)
      /\ d.starts \in Seq(Nat)
      /\ d.duration \in Nat
  BY <1>1 DEF IsRequest
<1> HIDE DEF d
<1>4. d.theaters[i] \in Theater /\ d.starts[n] \in Nat /\ n \in Nat
  BY <1>3
<1>5. EndTime(d, n) \in Nat /\ d.starts[n] <= EndTime(d, n)
  BY <1>3, <1>4 DEF EndTime
<1>6. QED
  BY <1>2, <1>4, <1>5 DEF Showtime, IsShowtime, d

(* Conflicts are registered showtimes.                                          *)
LEMMA ConflictsAreShowtimes ==
    ASSUME NEW shows, NEW d
    PROVE  ConflictShowtimes(shows, d) \subseteq shows
BY DEF ConflictShowtimes

----------------------------------------------------------------------------
(* Types.  That every batch under way was requested is what makes the worker's  *)
(* documents well-formed, so the two are proved together.                       *)

Known ==
    /\ \A i \in DOMAIN bus : request[bus[i].batch] \in Dtos
    /\ \A i \in DOMAIN adding : request[adding[i]] \in Dtos
    /\ \A i \in DOMAIN wait : request[wait[i]] \in Dtos
    /\ \A b \in active : request[b] \in Dtos
    /\ job # NoBatch => request[job] \in Dtos
    /\ \A s \in showtimes \cup todo : request[s.batch] \in Dtos

Typed == TypeOK /\ Known

LEMMA InitTyped == Init => Typed
BY NoBatchAssumption DEF Init, Typed, TypeOK, Known, Queue!QueueInit, Queue!QueueTypeOK

(* The events appended have the type of the bus. *)
LEMMA EmitType ==
    ASSUME Typed,
           NEW name \in {"request", "processing", "complete", "fail", "error"},
           NEW b \in Batch, NEW shows \in SUBSET Showtime,
           Emit(name, b, shows)
    PROVE  /\ bus' \in Seq(Event)
           /\ \A i \in DOMAIN bus' : (i \in DOMAIN bus /\ bus'[i] = bus[i]) \/ bus'[i].batch = b
<1> DEFINE e == [name |-> name, batch |-> b, shows |-> shows]
<1>1. e \in Event /\ e.batch = b
  BY DEF Event
<1>2. bus \in Seq(Event)
  BY DEF Typed, TypeOK
<1>3. bus' = Append(bus, e)
  BY DEF Emit
<1>4. QED
  BY <1>1, <1>2, <1>3

LEMMA TypedCreateShowtimes ==
    ASSUME Typed, NEW b \in Batch, NEW d \in Dtos, CreateShowtimes(b, d)
    PROVE  Typed'
<1>1. bus' \in Seq(Event)
      /\ \A i \in DOMAIN bus' : (i \in DOMAIN bus /\ bus'[i] = bus[i]) \/ bus'[i].batch = b
  BY EmitType DEF CreateShowtimes
<1>2. \A c \in Batch : request[c] \in Dtos => request'[c] \in Dtos
  BY NoDtoAssumption DEF CreateShowtimes, Typed, TypeOK
<1>3. request'[b] \in Dtos
  BY DEF CreateShowtimes, Typed, TypeOK
<1>4. TypeOK'
  BY <1>1 DEF CreateShowtimes, Typed, TypeOK, Queue!QueueTypeOK, dbVars, queueVars, workerVars, faultVars
<1>5. bus \in Seq(Event) /\ \A e \in Event : e.batch \in Batch
  BY DEF Typed, TypeOK, Event
<1>6. \A i \in DOMAIN bus' : request'[bus'[i].batch] \in Dtos
  BY <1>1, <1>2, <1>3, <1>5 DEF Typed, Known
<1>7. \A s \in Showtime : s.batch \in Batch
  BY DEF Showtime
<1>8. Known'
  BY <1>2, <1>6, <1>7 DEF CreateShowtimes, Typed, TypeOK, Known, Queue!QueueTypeOK, dbVars, queueVars, workerVars, faultVars
<1>9. QED
  BY <1>4, <1>8 DEF Typed

LEMMA TypedDelete ==
    ASSUME Typed,
           (\E m \in movies : DeleteMovie(m)) \/ (\E t \in theaters : DeleteTheater(t))
    PROVE  Typed'
BY DEF DeleteMovie, DeleteTheater, Typed, TypeOK, Known, Queue!QueueTypeOK, dbVars, busVars,
       queueVars, workerVars, faultVars

(* Delivering the first event leaves a bus of known batches. *)
LEMMA TailOfBus ==
    ASSUME Typed, bus # <<>>
    PROVE  /\ Tail(bus) \in Seq(Event)
           /\ Head(bus) \in Event
           /\ request[Head(bus).batch] \in Dtos
           /\ \A i \in DOMAIN Tail(bus) : request[Tail(bus)[i].batch] \in Dtos
<1>1. bus \in Seq(Event) /\ \A i \in DOMAIN bus : request[bus[i].batch] \in Dtos
  BY DEF Typed, TypeOK, Known
<1>2. \A i \in DOMAIN Tail(bus) : i + 1 \in DOMAIN bus /\ Tail(bus)[i] = bus[i + 1]
  BY <1>1
<1>3. 1 \in DOMAIN bus /\ Head(bus) = bus[1]
  BY <1>1
<1>4. QED
  BY <1>1, <1>2, <1>3

LEMMA TypedOnRequestEvent ==
    ASSUME Typed, NEW b \in Batch, OnRequestEvent(b)
    PROVE  Typed'
<1>1. Tail(bus) \in Seq(Event) /\ request[b] \in Dtos
      /\ \A i \in DOMAIN Tail(bus) : request[Tail(bus)[i].batch] \in Dtos
  BY TailOfBus DEF OnRequestEvent
<1>2. adding' \in Seq(Batch) /\ \A i \in DOMAIN adding' : request[adding'[i]] \in Dtos
  BY <1>1 DEF OnRequestEvent, Typed, TypeOK, Known
<1>3. QED
  BY <1>1, <1>2 DEF OnRequestEvent, Typed, TypeOK, Known, Queue!QueueTypeOK, dbVars, queueVars,
                    workerVars, faultVars

LEMMA TypedQueueAdd ==
    ASSUME Typed, NEW b \in Batch, QueueAdd(b)
    PROVE  Typed'
<1>1. adding \in Seq(Batch) /\ adding # <<>> /\ b = adding[1] /\ request[b] \in Dtos
  BY DEF QueueAdd, Typed, TypeOK, Known
<1>2. adding' \in Seq(Batch) /\ \A i \in DOMAIN adding' : request[adding'[i]] \in Dtos
  BY <1>1 DEF QueueAdd, Typed, Known
<1>3. wait' \in Seq(Batch) /\ \A i \in DOMAIN wait' : request[wait'[i]] \in Dtos
  <2>1. wait \in Seq(Batch) /\ \A i \in DOMAIN wait : request[wait[i]] \in Dtos
    BY DEF Typed, TypeOK, Queue!QueueTypeOK, Known
  <2>2. wait' = Append(wait, b)
    BY DEF QueueAdd, Queue!Add
  <2>3. QED
    BY <1>1, <2>1, <2>2
<1>4. added' \in Seq(Batch)
  BY DEF QueueAdd, Typed, TypeOK
<1>5. QED
  BY <1>2, <1>3, <1>4 DEF QueueAdd, Queue!Add, Typed, TypeOK, Known, Queue!QueueTypeOK, dbVars,
                          workerVars, faultVars

(* What is sent has the type of the status stream. *)
LEMMA SendType ==
    ASSUME Typed, NEW b \in Batch,
           NEW status \in {"waiting", "processing", "complete", "fail", "error"},
           NEW shows \in SUBSET Showtime,
           SendEvent(b, status, shows)
    PROVE  sse' \in [Batch -> Seq(Status)]
<1>1. [status |-> status, shows |-> shows] \in Status
  BY DEF Status
<1>2. sse[b] \in Seq(Status)
  BY DEF Typed, TypeOK
<1>3. Append(sse[b], [status |-> status, shows |-> shows]) \in Seq(Status)
  BY <1>1, <1>2
<1>4. QED
  BY <1>3 DEF SendEvent, Typed, TypeOK

LEMMA TypedSendWaiting ==
    ASSUME Typed, NEW b \in Batch, SendWaiting(b)
    PROVE  Typed'
<1>1. sse' \in [Batch -> Seq(Status)]
  BY SendType DEF SendWaiting
<1>2. added' \in Seq(Batch)
  BY DEF SendWaiting, Typed, TypeOK
<1>3. QED
  BY <1>1, <1>2 DEF SendWaiting, Typed, TypeOK, Known, Queue!QueueTypeOK, dbVars, queueVars,
                    workerVars, faultVars

LEMMA TypedOnStatusEvent ==
    ASSUME Typed, NEW b \in Batch,
           NEW name \in {"processing", "complete", "fail", "error"}, OnStatusEvent(name, b)
    PROVE  Typed'
<1>1. Tail(bus) \in Seq(Event) /\ Head(bus) \in Event
      /\ \A i \in DOMAIN Tail(bus) : request[Tail(bus)[i].batch] \in Dtos
  BY TailOfBus DEF OnStatusEvent
<1>2. Head(bus).shows \in SUBSET Showtime
  BY <1>1 DEF Event
<1>3. sse' \in [Batch -> Seq(Status)]
  BY <1>2, SendType DEF OnStatusEvent
<1>4. QED
  BY <1>1, <1>3 DEF OnStatusEvent, Typed, TypeOK, Known, Queue!QueueTypeOK, dbVars, queueVars,
                    workerVars, faultVars

LEMMA TypedStartJob ==
    ASSUME Typed, NEW b \in Batch, StartJob(b)
    PROVE  Typed'
<1>1. bus' \in Seq(Event)
      /\ \A i \in DOMAIN bus' : (i \in DOMAIN bus /\ bus'[i] = bus[i]) \/ bus'[i].batch = b
  BY EmitType DEF StartJob
<1>2. wait \in Seq(Batch) /\ wait # <<>> /\ b = wait[1]
      /\ \A i \in DOMAIN wait : request[wait[i]] \in Dtos
  BY DEF StartJob, Queue!Take, Typed, TypeOK, Known, Queue!QueueTypeOK
<1>3. wait' = Tail(wait) /\ request[b] \in Dtos
  BY <1>2 DEF StartJob, Queue!Take
<1>4. wait' \in Seq(Batch) /\ \A i \in DOMAIN wait' : request[wait'[i]] \in Dtos
  BY <1>2, <1>3
<1>5. \A i \in DOMAIN bus' : request[bus'[i].batch] \in Dtos
  BY <1>1, <1>3 DEF Typed, Known
<1>6. active' = active \cup {b} /\ locked' = locked \cup {b} /\ stalls' = stalls
  BY DEF StartJob, Queue!Take
<1>7. Queue!QueueTypeOK'
  BY <1>4, <1>6 DEF Typed, TypeOK, Queue!QueueTypeOK
<1>8. TypeOK'
  BY <1>1, <1>7, NoBatchAssumption DEF StartJob, Typed, TypeOK, dbVars, faultVars
<1>9. Known'
  BY <1>3, <1>4, <1>5, <1>6 DEF StartJob, Typed, TypeOK, Known, dbVars, faultVars
<1>10. QED
  BY <1>8, <1>9 DEF Typed

LEMMA TypedChecks ==
    ASSUME Typed, CheckMovieExists \/ CheckTheatersExist \/ DatabaseFails
    PROVE  Typed'
BY DEF CheckMovieExists, CheckTheatersExist, DatabaseFails, Typed, TypeOK, Known,
       Queue!QueueTypeOK, dbVars, busVars, queueVars, faultVars

LEMMA TypedCheckForTimeConflicts ==
    ASSUME Typed, CheckForTimeConflicts
    PROVE  Typed'
<1> DEFINE conflicts == ConflictShowtimes(showtimes, request[job])
<1>1. job \in Batch /\ request[job] \in Dtos /\ pc = "conflicts" /\ run \in Nat
  BY DEF CheckForTimeConflicts, Typed, TypeOK, Known
<1>2. conflicts \in SUBSET Showtime
  BY ConflictsAreShowtimes DEF Typed, TypeOK
<1>3. CASE conflicts # {}
  <2>1. Emit("fail", job, conflicts) /\ pc' = "return" /\ todo' = todo
    BY <1>3 DEF CheckForTimeConflicts
  <2>2. bus' \in Seq(Event)
        /\ \A i \in DOMAIN bus' : (i \in DOMAIN bus /\ bus'[i] = bus[i]) \/ bus'[i].batch = job
    BY <1>1, <1>2, <2>1, EmitType
  <2>3. \A i \in DOMAIN bus' : request[bus'[i].batch] \in Dtos
    BY <1>1, <2>2 DEF Typed, Known
  <2>4. QED
    BY <1>1, <2>1, <2>2, <2>3 DEF CheckForTimeConflicts, Typed, TypeOK, Known, Queue!QueueTypeOK,
                                  dbVars, queueVars, faultVars
<1>4. CASE conflicts = {}
  <2>1. pc' = "save" /\ todo' = NewShowtimes(job, run) /\ bus' = bus
    BY <1>4 DEF CheckForTimeConflicts
  <2>2. todo' \subseteq Showtime /\ \A s \in todo' : s.batch = job
    BY <1>1, <2>1, NewShowtimesType
  <2>3. QED
    BY <1>1, <2>1, <2>2 DEF CheckForTimeConflicts, Typed, TypeOK, Known, Queue!QueueTypeOK,
                            dbVars, queueVars, faultVars
<1>5. QED
  BY <1>3, <1>4

LEMMA TypedSaveShowtime ==
    ASSUME Typed, NEW s \in todo, SaveShowtime(s)
    PROVE  Typed'
BY DEF SaveShowtime, Typed, TypeOK, Known, Queue!QueueTypeOK, dbVars, busVars, queueVars, faultVars

LEMMA TypedShowtimesSaved ==
    ASSUME Typed, ShowtimesSaved
    PROVE  Typed'
<1>1. job \in Batch /\ request[job] \in Dtos
  BY DEF ShowtimesSaved, Typed, TypeOK, Known
<1>2. bus' \in Seq(Event)
      /\ \A i \in DOMAIN bus' : (i \in DOMAIN bus /\ bus'[i] = bus[i]) \/ bus'[i].batch = job
  BY <1>1, EmitType DEF ShowtimesSaved
<1>3. \A i \in DOMAIN bus' : request[bus'[i].batch] \in Dtos
  BY <1>1, <1>2 DEF Typed, Known
<1>4. QED
  BY <1>1, <1>2, <1>3 DEF ShowtimesSaved, Typed, TypeOK, Known, Queue!QueueTypeOK, dbVars,
                          queueVars, faultVars

LEMMA TypedFinishJob ==
    ASSUME Typed, FinishJob
    PROVE  Typed'
<1>1. Queue!QueueTypeOK' /\ active' \subseteq active /\ wait' = wait
  BY DEF FinishJob, Queue!Settle, queueVars, Typed, TypeOK, Queue!QueueTypeOK
<1>2. QED
  BY <1>1 DEF FinishJob, Idle, Typed, TypeOK, Known, dbVars, busVars, faultVars

LEMMA TypedFailJob ==
    ASSUME Typed, FailJob
    PROVE  Typed'
<1>1. Queue!QueueTypeOK' /\ active' \subseteq active /\ wait' = wait
  BY DEF FailJob, Queue!Settle, queueVars, Typed, TypeOK, Queue!QueueTypeOK
<1>2. job \in Batch /\ request[job] \in Dtos
  BY DEF FailJob, Typed, TypeOK, Known
<1>3. bus' \in Seq(Event) /\ \A i \in DOMAIN bus' : request[bus'[i].batch] \in Dtos
  <2>1. CASE Emit("error", job, {})
    BY <1>2, <2>1, EmitType DEF Typed, Known
  <2>2. CASE bus' = bus
    BY <2>2, <1>2 DEF FailJob, Typed, TypeOK, Known
  <2>3. QED
    BY <2>1, <2>2 DEF FailJob
<1>4. request' = request /\ movies' = movies /\ theaters' = theaters /\ adding' = adding
      /\ added' = added /\ showtimes' = showtimes /\ sse' = sse /\ crashes' = crashes
      /\ lapses' = lapses /\ pc' = "idle" /\ job' = NoBatch /\ run' = 0 /\ todo' = {} /\ runs' = runs
  BY DEF FailJob, Idle, dbVars, faultVars
<1>5. QED
  BY <1>1, <1>3, <1>4 DEF Typed, TypeOK, Known

LEMMA TypedLockLapses ==
    ASSUME Typed, NEW b \in Batch, LockLapses(b)
    PROVE  Typed'
BY DEF LockLapses, Queue!LoseLock, Typed, TypeOK, Known, Queue!QueueTypeOK, dbVars, busVars,
       workerVars

LEMMA TypedRequeueStalled ==
    ASSUME Typed, NEW b \in Batch, RequeueStalled(b)
    PROVE  Typed'
<1>1. wait \in Seq(Batch) /\ request[b] \in Dtos
      /\ \A i \in DOMAIN wait : request[wait[i]] \in Dtos
  BY DEF RequeueStalled, Queue!Requeue, Typed, TypeOK, Known, Queue!QueueTypeOK
<1>2. wait' = <<b>> \o wait
  BY DEF RequeueStalled, Queue!Requeue
<1>3. wait' \in Seq(Batch)
  BY <1>1, <1>2
<1>4. \A i \in DOMAIN wait' : request[wait'[i]] \in Dtos
  <2>1. \A i \in DOMAIN wait' : wait'[i] = b \/ (i - 1 \in DOMAIN wait /\ wait'[i] = wait[i - 1])
    BY <1>1, <1>2
  <2>2. QED
    BY <1>1, <2>1
<1>5. Queue!QueueTypeOK' /\ active' \subseteq active
  <2>1. active' = active \ {b} /\ b \notin locked /\ locked' = locked
    BY DEF RequeueStalled, Queue!Requeue
  <2>2. stalls' \in [Batch -> Nat]
    <3>1. stalls \in [Batch -> Nat]
      BY DEF Typed, TypeOK, Queue!QueueTypeOK
    <3>2. stalls' = [stalls EXCEPT ![b] = @ + 1]
      BY DEF RequeueStalled, Queue!Requeue
    <3>3. QED
      BY <3>1, <3>2
  <2>3. QED
    BY <1>3, <2>1, <2>2 DEF Typed, TypeOK, Queue!QueueTypeOK
<1>6. QED
  BY <1>4, <1>5 DEF RequeueStalled, Typed, TypeOK, Known, dbVars, busVars, workerVars, faultVars

LEMMA TypedFailStalled ==
    ASSUME Typed, NEW b \in Batch, FailStalled(b)
    PROVE  Typed'
<1>1. bus' \in Seq(Event)
      /\ \A i \in DOMAIN bus' : (i \in DOMAIN bus /\ bus'[i] = bus[i]) \/ bus'[i].batch = b
  BY EmitType DEF FailStalled
<1>2. request[b] \in Dtos
  BY DEF FailStalled, Queue!GiveUp, Typed, Known
<1>3. \A i \in DOMAIN bus' : request[bus'[i].batch] \in Dtos
  BY <1>1, <1>2 DEF Typed, Known
<1>4. Queue!QueueTypeOK' /\ active' \subseteq active /\ wait' = wait
  BY DEF FailStalled, Queue!GiveUp, Typed, TypeOK, Queue!QueueTypeOK
<1>5. QED
  BY <1>1, <1>3, <1>4 DEF FailStalled, Typed, TypeOK, Known, dbVars, workerVars, faultVars

LEMMA TypedCrash ==
    ASSUME Typed, Crash
    PROVE  Typed'
BY DEF Crash, Idle, Queue!LoseAllLocks, Typed, TypeOK, Known, Queue!QueueTypeOK, dbVars

LEMMA TypedStutter ==
    ASSUME Typed, UNCHANGED vars
    PROVE  Typed'
BY DEF vars, dbVars, busVars, queueVars, workerVars, faultVars, Typed, TypeOK, Known,
       Queue!QueueTypeOK

LEMMA NextTyped == Typed /\ [Next]_vars => Typed'
<1> SUFFICES ASSUME Typed, [Next]_vars PROVE Typed'
  OBVIOUS
<1>1. CASE \E b \in Batch, d \in Dtos : CreateShowtimes(b, d)
  BY <1>1, TypedCreateShowtimes
<1>2. CASE (\E m \in movies : DeleteMovie(m)) \/ (\E t \in theaters : DeleteTheater(t))
  BY <1>2, TypedDelete
<1>3. ASSUME NEW b \in Batch, Deliver(b) \/ OnCompleteEvent(b) PROVE Typed'
  BY <1>3, TypedOnRequestEvent, TypedOnStatusEvent
     DEF Deliver, OnProcessingEvent, OnCompleteEvent, OnFailEvent, OnErrorEvent
<1>4. ASSUME NEW b \in Batch, QueueAdd(b) \/ SendWaiting(b) PROVE Typed'
  BY <1>4, TypedQueueAdd, TypedSendWaiting
<1>5. CASE Work
  BY <1>5, TypedStartJob, TypedChecks, TypedCheckForTimeConflicts, TypedSaveShowtime,
     TypedShowtimesSaved, TypedFinishJob, TypedFailJob DEF Work
<1>6. CASE DatabaseFails
  BY <1>6, TypedChecks
<1>7. ASSUME NEW b \in Batch, CheckStalled(b) \/ LockLapses(b) PROVE Typed'
  BY <1>7, TypedRequeueStalled, TypedFailStalled, TypedLockLapses DEF CheckStalled
<1>8. CASE Crash
  BY <1>8, TypedCrash
<1>9. CASE UNCHANGED vars
  BY <1>9, TypedStutter
<1>10. QED
  BY <1>1, <1>2, <1>3, <1>4, <1>5, <1>6, <1>7, <1>8, <1>9 DEF Next, LocalNext

(* The type invariant, for every value of the constants.                       *)
THEOREM TypeCorrect == Spec => []TypeOK
<1>1. Spec => []Typed
  BY InitTyped, NextTyped, PTL DEF Spec
<1>2. Typed => TypeOK
  BY DEF Typed
<1>3. QED
  BY <1>1, <1>2, PTL

----------------------------------------------------------------------------
(* No double booking.  The invariant that carries it: what is registered was    *)
(* requested by its batch (OwnSlots), and while the worker inserts, whatever is *)
(* registered in a slot it may still insert into, or for its batch, was         *)
(* inserted by this very run (FreshSlots).                                      *)

SameSlot(s1, s2) == s1.theater = s2.theater /\ s1.start = s2.start

OwnSlots == \A s \in showtimes : s \in NewShowtimes(s.batch, s.run)

FreshSlots ==
    pc = "save" =>
        /\ todo \subseteq NewShowtimes(job, run)
        /\ \A s \in showtimes : s.batch = job => s.run = run
        /\ \A s \in showtimes : \A k \in NewShowtimes(job, run) :
              SameSlot(s, k) => (s.batch = job /\ s.run = run)

SlotsSafe == NoDoubleBookedStart /\ OneRunPerBatch

SlotInv == Typed /\ OwnSlots /\ FreshSlots /\ SlotsSafe

(* The documents of a batch do not change once it is requested. *)
LEMMA NewShowtimesStable ==
    ASSUME NEW b \in Batch, request'[b] = request[b], NEW r
    PROVE  NewShowtimes(b, r)' = NewShowtimes(b, r)
BY DEF NewShowtimes

(* A step that leaves the collection alone and neither starts nor disturbs an   *)
(* insertion.                                                                   *)
Quiet ==
    /\ showtimes' = showtimes
    /\ \A b \in Batch : request[b] \in Dtos => request'[b] = request[b]
    /\ pc' # "save" \/ UNCHANGED <<pc, job, run, todo>>

(* All steps are, but for the check that accepts a request and the insertions.  *)
LEMMA StepsAreQuiet ==
    ASSUME Typed, [Next]_vars
    PROVE  Quiet \/ (CheckForTimeConflicts /\ pc' = "save") \/ \E k \in todo : SaveShowtime(k)
<1>1. ASSUME NEW b \in Batch, NEW d \in Dtos, CreateShowtimes(b, d) PROVE Quiet
  BY <1>1, NoDtoAssumption DEF Quiet, CreateShowtimes, workerVars, Typed, TypeOK
<1>2. CASE (\E m \in movies : DeleteMovie(m)) \/ (\E t \in theaters : DeleteTheater(t))
  BY <1>2 DEF Quiet, DeleteMovie, DeleteTheater, workerVars
<1>3. ASSUME NEW b \in Batch, Deliver(b) \/ OnCompleteEvent(b) \/ QueueAdd(b) \/ SendWaiting(b)
      PROVE  Quiet
  BY <1>3 DEF Quiet, Deliver, OnRequestEvent, OnProcessingEvent, OnCompleteEvent, OnFailEvent,
              OnErrorEvent, OnStatusEvent, QueueAdd, SendWaiting, workerVars
<1>4. ASSUME NEW b \in Batch, StartJob(b) PROVE Quiet
  BY <1>4 DEF Quiet, StartJob
<1>5. CASE CheckMovieExists \/ CheckTheatersExist \/ DatabaseFails \/ ShowtimesSaved
           \/ FinishJob \/ FailJob \/ Crash
  BY <1>5 DEF Quiet, CheckMovieExists, CheckTheatersExist, DatabaseFails, ShowtimesSaved,
              FinishJob, FailJob, Crash, Idle
<1>6. CASE CheckForTimeConflicts /\ pc' # "save"
  BY <1>6 DEF Quiet, CheckForTimeConflicts
<1>7. ASSUME NEW b \in Batch, CheckStalled(b) \/ LockLapses(b) PROVE Quiet
  BY <1>7 DEF Quiet, CheckStalled, RequeueStalled, FailStalled, LockLapses, workerVars
<1>8. CASE UNCHANGED vars
  BY <1>8 DEF Quiet, vars, workerVars
<1>9. QED
  BY <1>1, <1>2, <1>3, <1>4, <1>5, <1>6, <1>7, <1>8 DEF Next, LocalNext, Work

LEMMA QuietStep ==
    ASSUME SlotInv, Quiet
    PROVE  (OwnSlots /\ FreshSlots /\ SlotsSafe)'
<1> USE DEF Quiet
<1>1. OwnSlots'
  <2>1. \A s \in showtimes : s.batch \in Batch /\ request[s.batch] \in Dtos
    BY DEF SlotInv, Typed, TypeOK, Known, Showtime
  <2>2. \A s \in showtimes : NewShowtimes(s.batch, s.run)' = NewShowtimes(s.batch, s.run)
    BY <2>1, NewShowtimesStable
  <2>3. QED
    BY <2>2 DEF SlotInv, OwnSlots
<1>2. FreshSlots'
  <2>1. SUFFICES ASSUME pc' = "save" PROVE FreshSlots'
    BY DEF FreshSlots
  <2>2. UNCHANGED <<pc, job, run, todo>> /\ job \in Batch /\ request[job] \in Dtos
    BY <2>1 DEF SlotInv, Typed, TypeOK, Known
  <2>3. NewShowtimes(job, run)' = NewShowtimes(job, run)
    BY <2>2, NewShowtimesStable
  <2>4. QED
    BY <2>2, <2>3 DEF SlotInv, FreshSlots, SameSlot
<1>3. SlotsSafe'
  BY DEF SlotInv, SlotsSafe, NoDoubleBookedStart, OneRunPerBatch
<1>4. QED
  BY <1>1, <1>2, <1>3

(* A request is accepted only if nothing is registered for its batch.           *)
LEMMA AcceptedIsNew ==
    ASSUME SlotInv, CheckForTimeConflicts, pc' = "save"
    PROVE  \A s \in showtimes : s.batch # job
<1> DEFINE d == request[job]
<1>1. ConflictShowtimes(showtimes, d) = {} /\ job \in Batch /\ d \in Dtos
  BY DEF CheckForTimeConflicts, SlotInv, Typed, TypeOK, Known
<1>2. SUFFICES ASSUME NEW s \in showtimes, s.batch = job PROVE FALSE
  OBVIOUS
<1>3. s.run \in Nat /\ s \in NewShowtimes(job, s.run)
  BY <1>2 DEF SlotInv, Typed, TypeOK, Showtime, OwnSlots
<1>4. IsShowtime(s)
  BY <1>1, <1>3, NewShowtimesType
<1>5. PICK i \in DOMAIN d.theaters, n \in DOMAIN d.starts :
         s = [batch |-> job, run |-> s.run, theater |-> d.theaters[i], nth |-> n,
              start |-> d.starts[n], end |-> EndTime(d, n)]
  BY <1>3 DEF NewShowtimes
<1>6. s.theater = d.theaters[i] /\ s.start = d.starts[n]
  BY <1>5
<1>7. QED
  BY <1>1, <1>4, <1>6, DtosAreRequests, SharedStartConflicts

(* A request that is accepted meets nothing registered in its slots.            *)
LEMMA AcceptedStep ==
    ASSUME SlotInv, CheckForTimeConflicts, pc' = "save"
    PROVE  (OwnSlots /\ FreshSlots /\ SlotsSafe)'
<1> DEFINE d == request[job]
<1>1. ConflictShowtimes(showtimes, d) = {} /\ todo' = NewShowtimes(job, run)
      /\ UNCHANGED <<request, job, run, showtimes>>
  BY DEF CheckForTimeConflicts
<1>2. job \in Batch /\ d \in Dtos /\ run \in Nat
  BY DEF CheckForTimeConflicts, SlotInv, Typed, TypeOK, Known
<1>3. \A s \in showtimes : s.batch \in Batch /\ s.run \in Nat /\ request[s.batch] \in Dtos
                           /\ s \in NewShowtimes(s.batch, s.run)
  BY DEF SlotInv, Typed, TypeOK, Known, Showtime, OwnSlots
<1>4. \A s \in showtimes : IsShowtime(s)
  BY <1>3, NewShowtimesType
<1>5. NewShowtimes(job, run)' = NewShowtimes(job, run)
  BY <1>1, <1>2, NewShowtimesStable
<1>6. \A s \in showtimes : s.batch # job
  BY AcceptedIsNew
<1>7. \A s \in showtimes : \A k \in NewShowtimes(job, run) : ~ SameSlot(s, k)
  <2>1. SUFFICES ASSUME NEW s \in showtimes, NEW k \in NewShowtimes(job, run), SameSlot(s, k)
                 PROVE  FALSE
    OBVIOUS
  <2>2. PICK i \in DOMAIN d.theaters, n \in DOMAIN d.starts :
           k = [batch |-> job, run |-> run, theater |-> d.theaters[i], nth |-> n,
                start |-> d.starts[n], end |-> EndTime(d, n)]
    BY DEF NewShowtimes
  <2>3. s.theater = d.theaters[i] /\ s.start = d.starts[n]
    BY <2>1, <2>2 DEF SameSlot
  <2>4. QED
    BY <1>1, <1>2, <1>4, <2>3, DtosAreRequests, SharedStartConflicts
<1>8. FreshSlots'
  BY <1>1, <1>5, <1>6, <1>7 DEF FreshSlots, SameSlot
<1>9. OwnSlots'
  <2>1. \A s \in showtimes : NewShowtimes(s.batch, s.run)' = NewShowtimes(s.batch, s.run)
    BY <1>1, <1>3, NewShowtimesStable
  <2>2. QED
    BY <1>1, <1>3, <2>1 DEF OwnSlots
<1>10. SlotsSafe'
  BY <1>1 DEF SlotInv, SlotsSafe, NoDoubleBookedStart, OneRunPerBatch
<1>11. QED
  BY <1>8, <1>9, <1>10

LEMMA InsertStep ==
    ASSUME SlotInv, NEW k \in todo, SaveShowtime(k)
    PROVE  (OwnSlots /\ FreshSlots /\ SlotsSafe)'
<1>1. pc = "save" /\ job \in Batch /\ request[job] \in Dtos /\ run \in Nat
  BY DEF SaveShowtime, SlotInv, Typed, TypeOK, Known
<1>2. k \in NewShowtimes(job, run)
  BY <1>1 DEF SlotInv, FreshSlots
<1>3. k.batch = job /\ k.run = run
  BY <1>1, <1>2, NewShowtimesType
<1>4. showtimes' = showtimes \cup {k} /\ todo' = todo \ {k} /\ UNCHANGED <<request, pc, job, run>>
  BY DEF SaveShowtime
<1>5. \A b \in Batch, r \in Nat : NewShowtimes(b, r)' = NewShowtimes(b, r)
  BY <1>4, NewShowtimesStable
<1>6. \A s \in showtimes : s.batch \in Batch /\ s.run \in Nat
  BY DEF SlotInv, Typed, TypeOK, Showtime
<1>7. OwnSlots'
  <2>1. k \in NewShowtimes(k.batch, k.run)'
    BY <1>1, <1>2, <1>3, <1>5
  <2>2. \A s \in showtimes : s \in NewShowtimes(s.batch, s.run)'
    BY <1>5, <1>6 DEF SlotInv, OwnSlots
  <2>3. QED
    BY <1>4, <2>1, <2>2 DEF OwnSlots
<1>8. FreshSlots'
  <2>1. NewShowtimes(job, run)' = NewShowtimes(job, run)
    BY <1>1, <1>4, NewShowtimesStable
  <2>2. QED
    BY <1>1, <1>3, <1>4, <2>1 DEF SlotInv, FreshSlots, SameSlot
<1>9. NoDoubleBookedStart'
  <2>1. \A s \in showtimes : SameSlot(s, k) => (s.batch = job /\ s.run = run)
    BY <1>1, <1>2 DEF SlotInv, FreshSlots
  <2>2. QED
    BY <1>3, <1>4, <2>1 DEF SlotInv, SlotsSafe, NoDoubleBookedStart, SameSlot
<1>10. OneRunPerBatch'
  BY <1>1, <1>3, <1>4 DEF SlotInv, SlotsSafe, OneRunPerBatch, FreshSlots
<1>11. QED
  BY <1>7, <1>8, <1>9, <1>10 DEF SlotsSafe

LEMMA InitSlots == Init => SlotInv
BY InitTyped DEF Init, SlotInv, OwnSlots, FreshSlots, SlotsSafe, NoDoubleBookedStart, OneRunPerBatch

LEMMA NextSlots == SlotInv /\ [Next]_vars => SlotInv'
<1> SUFFICES ASSUME SlotInv, [Next]_vars PROVE SlotInv'
  OBVIOUS
<1>1. Typed /\ Typed'
  BY NextTyped DEF SlotInv
<1>2. (OwnSlots /\ FreshSlots /\ SlotsSafe)'
  BY <1>1, StepsAreQuiet, QuietStep, AcceptedStep, InsertStep
<1>3. QED
  BY <1>1, <1>2 DEF SlotInv

(* A theater never gets two showtimes with one start time from different        *)
(* requests or from different runs of one request.                              *)
THEOREM NoDoubleBooking == Spec => []NoDoubleBookedStart
<1>1. Spec => []SlotInv
  BY InitSlots, NextSlots, PTL DEF Spec
<1>2. SlotInv => NoDoubleBookedStart
  BY DEF SlotInv, SlotsSafe
<1>3. QED
  BY <1>1, <1>2, PTL

(* The showtimes of a batch all come from one run of its job.                   *)
THEOREM BatchFromOneRun == Spec => []OneRunPerBatch
<1>1. Spec => []SlotInv
  BY InitSlots, NextSlots, PTL DEF Spec
<1>2. SlotInv => OneRunPerBatch
  BY DEF SlotInv, SlotsSafe
<1>3. QED
  BY <1>1, <1>2, PTL

----------------------------------------------------------------------------
(* A batch is announced as complete only when all of it is saved.  Carried by   *)
(* what is saved or still to be saved while the worker inserts (Inserting).     *)

Numbered == pc # "idle" => run = runs[job] /\ run > 0

Started == \A b \in Batch : runs[b] > 0 => request[b] \in Dtos

Inserting == pc = "save" => NewShowtimes(job, run) \subseteq showtimes \cup todo

CompleteInv == Typed /\ Numbered /\ Started /\ Inserting /\ CompleteMeansSaved

Completed(b) == Announced(b, "complete")

(* Announced, spelled out in positions. *)
LEMMA CompletedMeans ==
    ASSUME NEW b
    PROVE  Completed(b) <=>
             \/ \E i \in DOMAIN bus : bus[i].batch = b /\ bus[i].name = "complete"
             \/ \E i \in DOMAIN sse[b] : sse[b][i].status = "complete"
BY DEF Completed, Announced, Pending, Statuses

(* What a step adds to the bus or to the status stream announces nothing, or    *)
(* what the first event of the bus has announced before.                        *)
LEMMA NothingAnnounced ==
    ASSUME Typed, NEW b \in Batch,
           \A i \in DOMAIN bus' :
              \/ \E j \in DOMAIN bus : bus'[i] = bus[j]
              \/ bus'[i].name # "complete",
           \A i \in DOMAIN sse'[b] :
              \/ i \in DOMAIN sse[b] /\ sse'[b][i] = sse[b][i]
              \/ sse'[b][i].status = "complete" => Completed(b)
    PROVE  Completed(b)' => Completed(b)
<1>1. Completed(b)' <=>
             \/ \E i \in DOMAIN bus' : bus'[i].batch = b /\ bus'[i].name = "complete"
             \/ \E i \in DOMAIN sse'[b] : sse'[b][i].status = "complete"
  BY DEF Completed, Announced, Pending, Statuses
<1>2. QED
  BY <1>1, CompletedMeans

LEMMA BusAppended ==
    ASSUME Typed, NEW name \in {"request", "processing", "fail", "error"},
           NEW b \in Batch, NEW shows \in SUBSET Showtime, Emit(name, b, shows), sse' = sse
    PROVE  \A c \in Batch : Completed(c)' => Completed(c)
<1> DEFINE e == [name |-> name, batch |-> b, shows |-> shows]
<1>1. bus \in Seq(Event) /\ e \in Event /\ bus' = Append(bus, e)
  BY DEF Typed, TypeOK, Event, Emit
<1>2. \A i \in DOMAIN bus' : (\E j \in DOMAIN bus : bus'[i] = bus[j]) \/ bus'[i] = e
  BY <1>1
<1>3. e.name # "complete"
  OBVIOUS
<1>4. QED
  BY <1>2, <1>3, NothingAnnounced

LEMMA BusTail ==
    ASSUME Typed, bus # <<>>, bus' = Tail(bus)
    PROVE  \A i \in DOMAIN bus' : \E j \in DOMAIN bus : bus'[i] = bus[j]
<1>1. bus \in Seq(Event)
  BY DEF Typed, TypeOK
<1>2. \A i \in DOMAIN bus' : i + 1 \in DOMAIN bus /\ bus'[i] = bus[i + 1]
  BY <1>1
<1>3. QED
  BY <1>2

LEMMA StatusAppended ==
    ASSUME Typed, NEW name, NEW b \in Batch, NEW shows, SendEvent(b, name, shows),
           name = "complete" => Completed(b)
    PROVE  \A c \in Batch : \A i \in DOMAIN sse'[c] :
              \/ i \in DOMAIN sse[c] /\ sse'[c][i] = sse[c][i]
              \/ sse'[c][i].status = "complete" => Completed(c)
<1> DEFINE e == [status |-> name, shows |-> shows]
<1>1. sse \in [Batch -> Seq(Status)] /\ sse' = [sse EXCEPT ![b] = Append(sse[b], e)]
  BY DEF Typed, TypeOK, SendEvent
<1>2. \A c \in Batch : c # b => sse'[c] = sse[c]
  BY <1>1
<1>3. sse'[b] = Append(sse[b], e) /\ sse[b] \in Seq(Status)
  BY <1>1
<1>4. \A i \in DOMAIN sse'[b] : (i \in DOMAIN sse[b] /\ sse'[b][i] = sse[b][i]) \/ sse'[b][i] = e
  BY <1>3
<1>5. e.status = name
  OBVIOUS
<1>6. QED
  BY <1>2, <1>4, <1>5

(* A step that announces nothing, forgets no showtime and no run, and neither   *)
(* starts nor disturbs a run keeps the invariant.                               *)
LEMMA UnannouncedStep ==
    ASSUME CompleteInv, Typed',
           \A b \in Batch : Completed(b)' => Completed(b),
           showtimes \subseteq showtimes',
           runs' = runs,
           \A b \in Batch : request[b] \in Dtos => request'[b] = request[b],
           pc' = "idle" \/ UNCHANGED <<pc, job, run>>
             \/ (pc # "idle" /\ UNCHANGED <<job, run>>),
           pc' = "save" => pc = "save" /\ UNCHANGED <<job, run>>
                           /\ showtimes \cup todo \subseteq showtimes' \cup todo'
    PROVE  CompleteInv'
<1>1. Numbered' /\ Started'
  BY DEF CompleteInv, Numbered, Started
<1>2. Inserting'
  <2> SUFFICES ASSUME pc' = "save"
               PROVE  NewShowtimes(job, run)' \subseteq showtimes' \cup todo'
    BY DEF Inserting
  <2>1. job \in Batch /\ request[job] \in Dtos
    BY DEF CompleteInv, Typed, TypeOK, Known
  <2>2. NewShowtimes(job, run)' = NewShowtimes(job, run)
    BY <2>1 DEF NewShowtimes
  <2>3. QED
    BY <2>2 DEF CompleteInv, Inserting
<1>3. CompleteMeansSaved'
  <2> SUFFICES ASSUME NEW b \in Batch, Completed(b)
               PROVE  \E r \in 1..runs'[b] : NewShowtimes(b, r)' \subseteq showtimes'
    BY DEF CompleteMeansSaved, Completed
  <2>1. PICK r \in 1..runs[b] : NewShowtimes(b, r) \subseteq showtimes
    BY DEF CompleteInv, CompleteMeansSaved, Completed
  <2>2. runs[b] > 0
    BY <2>1 DEF CompleteInv, Typed, TypeOK
  <2>3. request'[b] = request[b]
    BY <2>2 DEF CompleteInv, Started
  <2>4. NewShowtimes(b, r)' = NewShowtimes(b, r)
    BY <2>3, NewShowtimesStable
  <2>5. QED
    BY <2>1, <2>4
<1>4. QED
  BY <1>1, <1>2, <1>3 DEF CompleteInv

LEMMA InitComplete == Init => CompleteInv
<1> SUFFICES ASSUME Init PROVE CompleteInv
  OBVIOUS
<1>1. Typed
  BY InitTyped
<1>2. \A b \in Batch : ~Completed(b)
  BY CompletedMeans DEF Init
<1>3. QED
  BY <1>1, <1>2 DEF Init, CompleteInv, Numbered, Started, Inserting, CompleteMeansSaved, Completed

(* The new run of a job has a number of its own.  *)
LEMMA CompleteStartJob ==
    ASSUME CompleteInv, Typed', NEW b \in Batch, StartJob(b)
    PROVE  CompleteInv'
<1>1. /\ pc = "idle" /\ pc' = "movie" /\ job' = b /\ run' = runs[b] + 1
      /\ runs' = [runs EXCEPT ![b] = runs[b] + 1]
      /\ Emit("processing", b, {})
      /\ UNCHANGED <<request, showtimes, sse>>
  BY DEF StartJob
<1>2. runs \in [Batch -> Nat] /\ request[b] \in Dtos
  <2>1. b = Head(wait) /\ wait # <<>> /\ wait \in Seq(Batch)
    BY DEF StartJob, Queue!Take, CompleteInv, Typed, TypeOK, Queue!QueueTypeOK
  <2>2. 1 \in DOMAIN wait /\ b = wait[1]
    BY <2>1
  <2>3. QED
    BY <2>2 DEF CompleteInv, Typed, TypeOK, Known
<1>3. \A c \in Batch : Completed(c)' => Completed(c)
  BY <1>1, BusAppended DEF CompleteInv
<1>4. Numbered' /\ Started' /\ Inserting'
  BY <1>1, <1>2 DEF CompleteInv, Numbered, Started, Inserting
<1>5. CompleteMeansSaved'
  <2> SUFFICES ASSUME NEW c \in Batch, Completed(c)
               PROVE  \E r \in 1..runs'[c] : NewShowtimes(c, r)' \subseteq showtimes'
    BY <1>3 DEF CompleteMeansSaved, Completed
  <2>1. PICK r \in 1..runs[c] : NewShowtimes(c, r) \subseteq showtimes
    BY DEF CompleteInv, CompleteMeansSaved, Completed
  <2>2. r \in 1..runs'[c]
    BY <1>1, <1>2
  <2>3. NewShowtimes(c, r)' = NewShowtimes(c, r)
    BY <1>1, NewShowtimesStable
  <2>4. QED
    BY <1>1, <2>1, <2>2, <2>3
<1>6. QED
  BY <1>4, <1>5 DEF CompleteInv

(* The one step that announces a batch: nothing is left to insert.  *)
LEMMA CompleteShowtimesSaved ==
    ASSUME CompleteInv, Typed', ShowtimesSaved
    PROVE  CompleteInv'
<1>1. /\ pc = "save" /\ todo = {} /\ pc' = "return" /\ Emit("complete", job, {})
      /\ UNCHANGED <<request, job, run, runs, showtimes, sse>>
  BY DEF ShowtimesSaved
<1>2. job \in Batch /\ run = runs[job] /\ run > 0 /\ runs \in [Batch -> Nat]
      /\ NewShowtimes(job, run) \subseteq showtimes
  BY <1>1 DEF CompleteInv, Typed, TypeOK, Numbered, Inserting
<1>3. \A c \in Batch : c # job /\ Completed(c)' => Completed(c)
  <2> DEFINE e == [name |-> "complete", batch |-> job, shows |-> {}]
  <2>1. bus \in Seq(Event) /\ e \in Event /\ bus' = Append(bus, e)
    BY <1>1, <1>2 DEF CompleteInv, Typed, TypeOK, Event, Emit
  <2>2. \A i \in DOMAIN bus' : (i \in DOMAIN bus /\ bus'[i] = bus[i]) \/ bus'[i].batch = job
    BY <2>1
  <2>3. \A c \in Batch : Completed(c)' <=>
             \/ \E i \in DOMAIN bus' : bus'[i].batch = c /\ bus'[i].name = "complete"
             \/ \E i \in DOMAIN sse'[c] : sse'[c][i].status = "complete"
    BY DEF Completed, Announced, Pending, Statuses
  <2>4. QED
    BY <1>1, <2>2, <2>3, CompletedMeans
<1>4. Numbered' /\ Started' /\ Inserting'
  BY <1>1 DEF CompleteInv, Numbered, Started, Inserting
<1>5. CompleteMeansSaved'
  <2> SUFFICES ASSUME NEW c \in Batch, Completed(c)'
               PROVE  \E r \in 1..runs'[c] : NewShowtimes(c, r)' \subseteq showtimes'
    BY DEF CompleteMeansSaved, Completed
  <2>1. PICK r \in 1..runs[c] : NewShowtimes(c, r) \subseteq showtimes
    BY <1>2, <1>3 DEF CompleteInv, CompleteMeansSaved, Completed
  <2>2. NewShowtimes(c, r)' = NewShowtimes(c, r)
    BY <1>1, NewShowtimesStable
  <2>3. QED
    BY <1>1, <2>1, <2>2
<1>6. QED
  BY <1>4, <1>5 DEF CompleteInv

(* The handlers of the events announce what the events announced.  *)
LEMMA CompleteDelivery ==
    ASSUME CompleteInv, Typed', NEW b \in Batch,
           Deliver(b) \/ OnCompleteEvent(b) \/ QueueAdd(b) \/ SendWaiting(b)
    PROVE  CompleteInv'
<1>1. UNCHANGED <<request, showtimes, pc, job, run, todo, runs>>
  BY DEF Deliver, OnRequestEvent, OnProcessingEvent, OnCompleteEvent, OnFailEvent, OnErrorEvent,
         OnStatusEvent, QueueAdd, SendWaiting, workerVars
<1>2. Typed
  BY DEF CompleteInv
<1>3. ASSUME NEW name \in {"processing", "complete", "fail", "error"}, OnStatusEvent(name, b)
      PROVE  \A c \in Batch : Completed(c)' => Completed(c)
  <2>1. /\ bus # <<>> /\ Head(bus).name = name /\ Head(bus).batch = b /\ bus' = Tail(bus)
        /\ SendEvent(b, name, Head(bus).shows)
    BY <1>3 DEF OnStatusEvent
  <2>2. 1 \in DOMAIN bus /\ Head(bus) = bus[1]
    BY <1>2, <2>1 DEF Typed, TypeOK
  <2>3. name = "complete" => Completed(b)
    BY <2>1, <2>2, CompletedMeans
  <2>4. QED
    BY <1>2, <2>1, <2>3, BusTail, StatusAppended, NothingAnnounced
<1>4. CASE OnRequestEvent(b)
  <2>1. bus # <<>> /\ bus' = Tail(bus) /\ sse' = sse
    BY <1>4 DEF OnRequestEvent
  <2>2. \A c \in Batch : Completed(c)' => Completed(c)
    BY <1>2, <2>1, BusTail, NothingAnnounced
  <2>3. QED
    BY <1>1, <2>2, UnannouncedStep
<1>5. CASE QueueAdd(b)
  <2>1. bus' = bus /\ sse' = sse
    BY <1>5 DEF QueueAdd
  <2>2. \A c \in Batch : Completed(c)' => Completed(c)
    BY <1>2, <2>1, NothingAnnounced
  <2>3. QED
    BY <1>1, <2>2, UnannouncedStep
<1>6. CASE SendWaiting(b)
  <2>1. bus' = bus /\ SendEvent(b, "waiting", {})
    BY <1>6 DEF SendWaiting
  <2>2. \A c \in Batch : Completed(c)' => Completed(c)
    BY <1>2, <2>1, StatusAppended, NothingAnnounced
  <2>3. QED
    BY <1>1, <2>2, UnannouncedStep
<1>7. CASE OnProcessingEvent(b) \/ OnCompleteEvent(b) \/ OnFailEvent(b) \/ OnErrorEvent(b)
  <2>1. \A c \in Batch : Completed(c)' => Completed(c)
    BY <1>3, <1>7 DEF OnProcessingEvent, OnCompleteEvent, OnFailEvent, OnErrorEvent
  <2>2. QED
    BY <1>1, <2>1, UnannouncedStep
<1>8. QED
  BY <1>4, <1>5, <1>6, <1>7 DEF Deliver

(* The worker's other steps emit no `complete'.  *)
LEMMA CompleteWork ==
    ASSUME CompleteInv, Typed',
           \/ CheckMovieExists \/ CheckTheatersExist \/ DatabaseFails \/ FinishJob
           \/ \E s \in todo : SaveShowtime(s)
    PROVE  CompleteInv'
<1>1. bus' = bus /\ sse' = sse /\ UNCHANGED <<request, runs>> /\ showtimes \subseteq showtimes'
  BY DEF CheckMovieExists, CheckTheatersExist, DatabaseFails, FinishJob, SaveShowtime, busVars, Idle
<1>2. pc' = "idle" \/ (pc # "idle" /\ UNCHANGED <<job, run>>)
  BY DEF CheckMovieExists, CheckTheatersExist, DatabaseFails, FinishJob, SaveShowtime, Idle
<1>3. pc' = "save" => pc = "save" /\ showtimes \cup todo \subseteq showtimes' \cup todo'
  BY DEF CheckMovieExists, CheckTheatersExist, DatabaseFails, FinishJob, SaveShowtime, Idle
<1>4. \A c \in Batch : Completed(c)' => Completed(c)
  BY <1>1, NothingAnnounced DEF CompleteInv
<1>5. QED
  BY <1>1, <1>2, <1>3, <1>4, UnannouncedStep

LEMMA CompleteChecked ==
    ASSUME CompleteInv, Typed', CheckForTimeConflicts
    PROVE  CompleteInv'
<1> DEFINE conflicts == ConflictShowtimes(showtimes, request[job])
<1>1. /\ pc = "conflicts" /\ UNCHANGED <<request, job, run, runs, showtimes, sse>>
      /\ IF conflicts # {}
         THEN Emit("fail", job, conflicts) /\ pc' = "return"
         ELSE pc' = "save" /\ todo' = NewShowtimes(job, run) /\ UNCHANGED bus
  BY DEF CheckForTimeConflicts
<1>2. \A c \in Batch : Completed(c)' => Completed(c)
  <2>1. CASE conflicts # {}
    <3>1. conflicts \in SUBSET Showtime /\ job \in Batch
      BY <1>1, ConflictsAreShowtimes DEF CompleteInv, Typed, TypeOK
    <3>2. QED
      BY <1>1, <2>1, <3>1, BusAppended DEF CompleteInv
  <2>2. CASE conflicts = {}
    BY <1>1, <2>2, NothingAnnounced DEF CompleteInv
  <2>3. QED
    BY <2>1, <2>2
<1>3. CASE pc' # "save"
  BY <1>1, <1>2, <1>3, UnannouncedStep
<1>4. CASE pc' = "save"
  <2>1. Numbered' /\ Started'
    BY <1>1 DEF CompleteInv, Numbered, Started
  <2>2. Inserting'
    BY <1>1, <1>4 DEF Inserting, NewShowtimes
  <2>3. CompleteMeansSaved'
    <3> SUFFICES ASSUME NEW c \in Batch, Completed(c)
                 PROVE  \E r \in 1..runs'[c] : NewShowtimes(c, r)' \subseteq showtimes'
      BY <1>2 DEF CompleteMeansSaved, Completed
    <3>1. PICK r \in 1..runs[c] : NewShowtimes(c, r) \subseteq showtimes
      BY DEF CompleteInv, CompleteMeansSaved, Completed
    <3>2. NewShowtimes(c, r)' = NewShowtimes(c, r)
      BY <1>1, NewShowtimesStable
    <3>3. QED
      BY <1>1, <3>1, <3>2
  <2>4. QED
    BY <2>1, <2>2, <2>3 DEF CompleteInv
<1>5. QED
  BY <1>3, <1>4

(* Failures, of the job or of the process, announce nothing but errors.  *)
LEMMA CompleteFailure ==
    ASSUME CompleteInv, Typed', FailJob \/ Crash \/ (\E b \in Batch : CheckStalled(b) \/ LockLapses(b))
    PROVE  CompleteInv'
<1>1. /\ UNCHANGED <<request, showtimes, runs, sse>>
      /\ pc' = "idle" \/ UNCHANGED <<pc, job, run, todo>>
  BY DEF FailJob, Crash, CheckStalled, RequeueStalled, FailStalled, LockLapses, workerVars, Idle
<1>2. CASE \E b \in Batch : Emit("error", b, {})
  <2>1. \A c \in Batch : Completed(c)' => Completed(c)
    BY <1>1, <1>2, BusAppended DEF CompleteInv
  <2>2. QED
    BY <1>1, <2>1, UnannouncedStep
<1>3. CASE bus' = bus \/ bus' = <<>>
  <2>1. \A c \in Batch : Completed(c)' => Completed(c)
    BY <1>1, <1>3, NothingAnnounced DEF CompleteInv
  <2>2. QED
    BY <1>1, <2>1, UnannouncedStep
<1>4. job \in Batch \/ ~FailJob
  BY DEF FailJob, CompleteInv, Typed, TypeOK
<1>5. QED
  BY <1>2, <1>3, <1>4 DEF FailJob, Crash, CheckStalled, RequeueStalled, FailStalled, LockLapses,
                          busVars

(* New requests, and deletions of movies and theaters.  *)
LEMMA CompleteRequests ==
    ASSUME CompleteInv, Typed',
           \/ \E b \in Batch, d \in Dtos : CreateShowtimes(b, d)
           \/ \E m \in movies : DeleteMovie(m)
           \/ \E t \in theaters : DeleteTheater(t)
    PROVE  CompleteInv'
<1>1. UNCHANGED <<showtimes, sse, pc, job, run, todo, runs>>
  BY DEF CreateShowtimes, DeleteMovie, DeleteTheater, workerVars
<1>2. CASE \E b \in Batch, d \in Dtos : CreateShowtimes(b, d)
  <2>1. PICK b \in Batch, d \in Dtos : CreateShowtimes(b, d)
    BY <1>2
  <2>2. \A c \in Batch : Completed(c)' => Completed(c)
    BY <1>1, <2>1, BusAppended DEF CreateShowtimes, CompleteInv
  <2>3. \A c \in Batch : request[c] \in Dtos => request'[c] = request[c]
    BY <2>1, NoDtoAssumption DEF CreateShowtimes, CompleteInv, Typed, TypeOK
  <2>4. QED
    BY <1>1, <2>2, <2>3, UnannouncedStep
<1>3. CASE (\E m \in movies : DeleteMovie(m)) \/ (\E t \in theaters : DeleteTheater(t))
  <2>1. bus' = bus /\ request' = request
    BY <1>3 DEF DeleteMovie, DeleteTheater, busVars
  <2>2. \A c \in Batch : Completed(c)' => Completed(c)
    BY <1>1, <2>1, NothingAnnounced DEF CompleteInv
  <2>3. QED
    BY <1>1, <2>1, <2>2, UnannouncedStep
<1>4. QED
  BY <1>2, <1>3

LEMMA CompleteStutter ==
    ASSUME CompleteInv, Typed',
           UNCHANGED <<request, bus, sse, showtimes, pc, job, run, todo, runs>>
    PROVE  CompleteInv'
<1>1. \A c \in Batch : Completed(c)' => Completed(c)
  BY NothingAnnounced DEF CompleteInv
<1>2. QED
  BY <1>1, UnannouncedStep

LEMMA NextComplete == CompleteInv /\ [Next]_vars => CompleteInv'
<1> SUFFICES ASSUME CompleteInv, [Next]_vars PROVE CompleteInv'
  OBVIOUS
<1>1. Typed'
  BY NextTyped DEF CompleteInv
<1>2. ASSUME NEW b \in Batch, StartJob(b) PROVE CompleteInv'
  BY <1>1, <1>2, CompleteStartJob
<1>3. CASE ShowtimesSaved
  BY <1>1, <1>3, CompleteShowtimesSaved
<1>4. ASSUME NEW b \in Batch, Deliver(b) \/ OnCompleteEvent(b) \/ QueueAdd(b) \/ SendWaiting(b)
      PROVE  CompleteInv'
  BY <1>1, <1>4, CompleteDelivery
<1>5. CASE \/ CheckMovieExists \/ CheckTheatersExist \/ DatabaseFails \/ FinishJob
           \/ \E s \in todo : SaveShowtime(s)
  BY <1>1, <1>5, CompleteWork
<1>6. CASE CheckForTimeConflicts
  BY <1>1, <1>6, CompleteChecked
<1>7. CASE FailJob \/ Crash \/ (\E b \in Batch : CheckStalled(b) \/ LockLapses(b))
  BY <1>1, <1>7, CompleteFailure
<1>8. CASE \/ \E b \in Batch, d \in Dtos : CreateShowtimes(b, d)
           \/ \E m \in movies : DeleteMovie(m)
           \/ \E t \in theaters : DeleteTheater(t)
  BY <1>1, <1>8, CompleteRequests
<1>9. CASE UNCHANGED vars
  BY <1>1, <1>9, CompleteStutter DEF vars, busVars, workerVars
<1>10. QED
  BY <1>2, <1>3, <1>4, <1>5, <1>6, <1>7, <1>8, <1>9 DEF Next, LocalNext, Work

(* `complete' is announced, by event or on the status stream, only for a batch  *)
(* of which one run has saved every showtime.                                   *)
THEOREM CompleteIsSaved == Spec => []CompleteMeansSaved
<1>1. Spec => []CompleteInv
  BY InitComplete, NextComplete, PTL DEF Spec
<1>2. CompleteInv => CompleteMeansSaved
  BY DEF CompleteInv
<1>3. QED
  BY <1>1, <1>2, PTL

----------------------------------------------------------------------------
(* Where the events and statuses of a batch stand on the bus and on its status  *)
(* stream, and what a step does to them.                                        *)

Due(b, N) == {i \in DOMAIN bus : bus[i].batch = b /\ bus[i].name \in N}

Sent(b, N) == {i \in DOMAIN sse[b] : sse[b][i].status \in N}

AtMostOne(S) == \A i, j \in S : i = j

LEMMA AnnouncedMeans ==
    ASSUME NEW b, NEW name
    PROVE  Announced(b, name) <=> Due(b, {name}) # {} \/ Sent(b, {name}) # {}
BY DEF Announced, Pending, Statuses, Due, Sent

LEMMA PositionsAreNumbers ==
    ASSUME Typed
    PROVE  /\ \A c, N : Due(c, N) \subseteq 1..Len(bus)
           /\ \A c \in Batch : \A N : Sent(c, N) \subseteq 1..Len(sse[c])
           /\ Len(bus) \in Nat /\ \A c \in Batch : Len(sse[c]) \in Nat
<1>1. bus \in Seq(Event) /\ \A c \in Batch : sse[c] \in Seq(Status)
  BY DEF Typed, TypeOK
<1>2. DOMAIN bus = 1..Len(bus) /\ Len(bus) \in Nat
  BY <1>1
<1>3. \A c \in Batch : DOMAIN sse[c] = 1..Len(sse[c]) /\ Len(sse[c]) \in Nat
  BY <1>1
<1>4. QED
  BY <1>2, <1>3 DEF Due, Sent

(* Emit puts one event at the end of the bus. *)
LEMMA EmittedDue ==
    ASSUME Typed, NEW name \in {"request", "processing", "complete", "fail", "error"},
           NEW b \in Batch, NEW shows \in SUBSET Showtime, Emit(name, b, shows)
    PROVE  /\ \A c, N : c # b \/ name \notin N => Due(c, N)' = Due(c, N)
           /\ \A N : name \in N => Due(b, N)' = Due(b, N) \cup {Len(bus) + 1}
<1> DEFINE e == [name |-> name, batch |-> b, shows |-> shows]
<1>1. e \in Event /\ e.batch = b /\ e.name = name
  BY DEF Event
<1>2. bus \in Seq(Event) /\ bus' = Append(bus, e)
  BY DEF Typed, TypeOK, Emit
<1> HIDE DEF e
<1>3. /\ DOMAIN bus = 1..Len(bus) /\ Len(bus) \in Nat /\ DOMAIN bus' = 1..(Len(bus) + 1)
      /\ \A i \in DOMAIN bus : bus'[i] = bus[i]
      /\ bus'[Len(bus) + 1] = e
  BY <1>1, <1>2
<1>4. DOMAIN bus' = DOMAIN bus \cup {Len(bus) + 1} /\ Len(bus) + 1 \notin DOMAIN bus
  BY <1>3
<1>5. \A c, N : Due(c, N)' = {i \in DOMAIN bus' : bus'[i].batch = c /\ bus'[i].name \in N}
  BY DEF Due
<1>6. \A c, N : c # b \/ name \notin N => Due(c, N)' = Due(c, N)
  BY <1>1, <1>3, <1>4, <1>5 DEF Due
<1>7. \A N : name \in N => Due(b, N)' = Due(b, N) \cup {Len(bus) + 1}
  BY <1>1, <1>3, <1>4, <1>5 DEF Due
<1>8. QED
  BY <1>6, <1>7

(* Delivery takes the first event away: all others move up by one. *)
LEMMA DeliveredDue ==
    ASSUME Typed, bus # <<>>, bus' = Tail(bus)
    PROVE  /\ \A c, N : \A i \in Due(c, N)' : i + 1 \in Due(c, N)
           /\ \A c, N : \A i \in Due(c, N) : i = 1 \/ i - 1 \in Due(c, N)'
           /\ \A c, N : 1 \in Due(c, N) <=> (c = Head(bus).batch /\ Head(bus).name \in N)
           /\ \A i \in DOMAIN bus' : i + 1 \in DOMAIN bus /\ bus'[i] = bus[i + 1]
           /\ DOMAIN bus' \subseteq Nat \ {0}
<1>1. /\ Len(bus) \in Nat /\ Len(bus) > 0 /\ DOMAIN bus = 1..Len(bus)
      /\ DOMAIN bus' = 1..(Len(bus) - 1)
      /\ \A i \in DOMAIN bus' : bus'[i] = bus[i + 1]
      /\ Head(bus) = bus[1]
  BY DEF Typed, TypeOK
<1>2. \A i \in DOMAIN bus' : i + 1 \in DOMAIN bus /\ bus'[i] = bus[i + 1]
  BY <1>1
<1>3. \A i \in DOMAIN bus : i = 1 \/ (i - 1 \in DOMAIN bus' /\ bus'[i - 1] = bus[i])
  BY <1>1
<1>4. 1 \in DOMAIN bus /\ DOMAIN bus' \subseteq Nat \ {0}
  BY <1>1
<1>5. \A c, N : Due(c, N)' = {i \in DOMAIN bus' : bus'[i].batch = c /\ bus'[i].name \in N}
  BY DEF Due
<1>6. QED
  BY <1>1, <1>2, <1>3, <1>4, <1>5 DEF Due

(* A status is put at the end of the stream of its batch. *)
LEMMA SentNext ==
    ASSUME Typed, NEW b \in Batch, NEW status, NEW shows, SendEvent(b, status, shows)
    PROVE  /\ \A c \in Batch : \A N : c # b \/ status \notin N => Sent(c, N)' = Sent(c, N)
           /\ \A N : status \in N => Sent(b, N)' = Sent(b, N) \cup {Len(sse[b]) + 1}
<1> DEFINE e == [status |-> status, shows |-> shows]
<1>1. sse \in [Batch -> Seq(Status)] /\ sse' = [sse EXCEPT ![b] = Append(sse[b], e)]
  BY DEF Typed, TypeOK, SendEvent
<1>2. \A c \in Batch : c # b => sse'[c] = sse[c]
  BY <1>1
<1>3. sse'[b] = Append(sse[b], e) /\ sse[b] \in Seq(Status)
  BY <1>1
<1>4. e.status = status
  OBVIOUS
<1> HIDE DEF e
<1>5. /\ DOMAIN sse[b] = 1..Len(sse[b]) /\ Len(sse[b]) \in Nat
      /\ DOMAIN sse'[b] = 1..(Len(sse[b]) + 1)
      /\ \A i \in DOMAIN sse[b] : sse'[b][i] = sse[b][i]
      /\ sse'[b][Len(sse[b]) + 1] = e
  BY <1>3
<1>6. DOMAIN sse'[b] = DOMAIN sse[b] \cup {Len(sse[b]) + 1} /\ Len(sse[b]) + 1 \notin DOMAIN sse[b]
  BY <1>5
<1>7. \A c, N : Sent(c, N)' = {i \in DOMAIN sse'[c] : sse'[c][i].status \in N}
  BY DEF Sent
<1>8. \A N : status \notin N => Sent(b, N)' = Sent(b, N)
  BY <1>4, <1>5, <1>6, <1>7 DEF Sent
<1>9. \A N : status \in N => Sent(b, N)' = Sent(b, N) \cup {Len(sse[b]) + 1}
  BY <1>4, <1>5, <1>6, <1>7 DEF Sent
<1>10. \A c \in Batch : c # b => \A N : Sent(c, N)' = Sent(c, N)
  BY <1>2, <1>7 DEF Sent
<1>11. QED
  BY <1>8, <1>9, <1>10

LEMMA SentSame ==
    ASSUME sse' = sse
    PROVE  \A c, N : Sent(c, N)' = Sent(c, N)
BY DEF Sent

LEMMA DueSame ==
    ASSUME bus' = bus
    PROVE  \A c, N : Due(c, N)' = Due(c, N)
BY DEF Due

LEMMA DueLost ==
    ASSUME bus' = <<>>
    PROVE  \A c, N : Due(c, N)' = {}
BY DEF Due

----------------------------------------------------------------------------
(* A batch is at one place at most on its way to the worker, and is run again   *)
(* only after its job was found stalled.                                        *)

InBus(b) == Due(b, {"request"}) # {}

InAdding(b) == \E i \in DOMAIN adding : adding[i] = b

InWait(b) == \E i \in DOMAIN wait : wait[i] = b

RequestsOnce == \A b \in Batch : AtMostOne(Due(b, {"request"}))

PlacedOnce ==
    /\ RequestsOnce
    /\ IsInjective(adding)
    /\ IsInjective(wait)
    /\ \A b \in Batch :
          /\ InBus(b) => ~InAdding(b) /\ ~InWait(b) /\ b \notin active
          /\ InAdding(b) => ~InWait(b) /\ b \notin active
          /\ InWait(b) => b \notin active

RunsBounded ==
    \A b \in Batch :
        /\ runs[b] <= stalls[b] + 1
        /\ runs[b] <= MaxStalledCount + 1
        /\ request[b] = NoDto \/ InBus(b) \/ InAdding(b) => runs[b] = 0 /\ stalls[b] = 0
        /\ InWait(b) => runs[b] <= stalls[b] /\ stalls[b] <= MaxStalledCount

QueueInv == Typed /\ PlacedOnce /\ RunsBounded

(* Adding what is not in a sequence, at either end, and taking its head.        *)
LEMMA AppendOnce ==
    ASSUME NEW S, NEW seq \in Seq(S), NEW e \in S
    PROVE  /\ IsInjective(seq) /\ (\A i \in DOMAIN seq : seq[i] # e) => IsInjective(Append(seq, e))
           /\ \A x : (\E i \in DOMAIN Append(seq, e) : Append(seq, e)[i] = x)
                        <=> (x = e \/ \E i \in DOMAIN seq : seq[i] = x)
<1> DEFINE new == Append(seq, e)
<1>1. /\ Len(new) = Len(seq) + 1 /\ DOMAIN new = 1..Len(new) /\ DOMAIN seq = 1..Len(seq)
      /\ Len(seq) \in Nat
      /\ \A i \in 1..Len(seq) : new[i] = seq[i]
      /\ new[Len(seq) + 1] = e
  OBVIOUS
<1> HIDE DEF new
<1>2. \A i \in DOMAIN new : i \in DOMAIN seq \/ i = Len(seq) + 1
  BY <1>1
<1>3. \A i \in DOMAIN seq : i \in DOMAIN new
  BY <1>1
<1>4. Len(seq) + 1 \in DOMAIN new
  BY <1>1
<1>5. IsInjective(seq) /\ (\A i \in DOMAIN seq : seq[i] # e) => IsInjective(new)
  BY <1>1, <1>2 DEF IsInjective
<1>6. \A x : (\E i \in DOMAIN new : new[i] = x) <=> (x = e \/ \E i \in DOMAIN seq : seq[i] = x)
  BY <1>1, <1>2, <1>3, <1>4
<1>7. QED
  BY <1>5, <1>6 DEF new

LEMMA TailOnce ==
    ASSUME NEW S, NEW seq \in Seq(S), seq # <<>>, IsInjective(seq)
    PROVE  /\ IsInjective(Tail(seq))
           /\ \A x : (\E i \in DOMAIN Tail(seq) : Tail(seq)[i] = x)
                        <=> (x # Head(seq) /\ \E i \in DOMAIN seq : seq[i] = x)
<1> DEFINE new == Tail(seq)
<1>1. /\ Len(seq) \in Nat /\ Len(seq) > 0 /\ Len(new) = Len(seq) - 1
      /\ DOMAIN new = 1..Len(new) /\ DOMAIN seq = 1..Len(seq)
      /\ \A i \in 1..Len(new) : new[i] = seq[i + 1]
      /\ Head(seq) = seq[1]
  OBVIOUS
<1> HIDE DEF new
<1>2. \A i \in DOMAIN new : i + 1 \in DOMAIN seq /\ new[i] = seq[i + 1] /\ i + 1 # 1
  BY <1>1
<1>3. \A i \in DOMAIN seq : i = 1 \/ (i - 1 \in DOMAIN new /\ new[i - 1] = seq[i])
  BY <1>1
<1>4. IsInjective(new)
  BY <1>1, <1>2 DEF IsInjective
<1>5. 1 \in DOMAIN seq
  BY <1>1
<1>6. ASSUME NEW x
      PROVE  (\E i \in DOMAIN new : new[i] = x) <=> (x # Head(seq) /\ \E i \in DOMAIN seq : seq[i] = x)
  <2>1. ASSUME NEW i \in DOMAIN new, new[i] = x PROVE x # Head(seq) /\ \E j \in DOMAIN seq : seq[j] = x
    BY <1>1, <1>2, <1>5, <2>1 DEF IsInjective
  <2>2. ASSUME NEW j \in DOMAIN seq, seq[j] = x, x # Head(seq) PROVE \E i \in DOMAIN new : new[i] = x
    BY <1>1, <1>3, <2>2
  <2>3. QED
    BY <2>1, <2>2
<1>7. QED
  BY <1>4, <1>6 DEF new

LEMMA PushOnce ==
    ASSUME NEW seq, NEW e, NEW new,
           \A i \in DOMAIN new : i = 1 \/ (i - 1 \in DOMAIN seq /\ new[i] = seq[i - 1]),
           \A i \in DOMAIN seq : i + 1 \in DOMAIN new /\ new[i + 1] = seq[i],
           1 \in DOMAIN new, new[1] = e, DOMAIN new \subseteq Nat
    PROVE  /\ IsInjective(seq) /\ (\A i \in DOMAIN seq : seq[i] # e) => IsInjective(new)
           /\ \A x : (\E i \in DOMAIN new : new[i] = x) <=> (x = e \/ \E i \in DOMAIN seq : seq[i] = x)
<1>1. IsInjective(seq) /\ (\A i \in DOMAIN seq : seq[i] # e) => IsInjective(new)
  BY DEF IsInjective
<1>2. \A x : (\E i \in DOMAIN new : new[i] = x) <=> (x = e \/ \E i \in DOMAIN seq : seq[i] = x)
  OBVIOUS
<1>3. QED
  BY <1>1, <1>2

(* What emitting an event and delivering the first one do to the requests due.  *)
LEMMA EmittedRequests ==
    ASSUME Typed, NEW name \in {"request", "processing", "complete", "fail", "error"},
           NEW b \in Batch, NEW shows \in SUBSET Showtime, Emit(name, b, shows)
    PROVE  /\ RequestsOnce /\ (name = "request" => ~InBus(b)) => RequestsOnce'
           /\ \A c : InBus(c)' <=> (InBus(c) \/ (c = b /\ name = "request"))
<1> DEFINE R == {"request"}
<1>1. /\ \A c : c # b \/ name \notin R => Due(c, R)' = Due(c, R)
      /\ name \in R => Due(b, R)' = Due(b, R) \cup {Len(bus) + 1}
  <2> HIDE DEF R
  <2>1. QED
    BY EmittedDue
<1>2. name \in R <=> name = "request"
  OBVIOUS
<1> HIDE DEF R
<1>3. \A c : InBus(c) <=> Due(c, R) # {}
  BY DEF InBus, R
<1>4. \A c : InBus(c)' <=> Due(c, R)' # {}
  BY DEF InBus, R
<1>5. RequestsOnce <=> \A c \in Batch : AtMostOne(Due(c, R))
  BY DEF RequestsOnce, R
<1>6. RequestsOnce' <=> \A c \in Batch : AtMostOne(Due(c, R)')
  BY DEF RequestsOnce, R
<1>7. ASSUME \A c \in Batch : AtMostOne(Due(c, R)), name = "request" => ~InBus(b)
      PROVE  \A c \in Batch : AtMostOne(Due(c, R)')
  BY <1>1, <1>2, <1>3, <1>7 DEF AtMostOne
<1>8. QED
  BY <1>1, <1>2, <1>3, <1>4, <1>5, <1>6, <1>7

LEMMA DeliveredRequests ==
    ASSUME Typed, RequestsOnce, bus # <<>>, bus' = Tail(bus)
    PROVE  /\ RequestsOnce'
           /\ \A c \in Batch :
                 InBus(c)' <=> (InBus(c) /\ ~(Head(bus).name = "request" /\ Head(bus).batch = c))
<1>1. /\ \A c : \A i \in Due(c, {"request"})' : i + 1 \in Due(c, {"request"})
      /\ \A c : \A i \in Due(c, {"request"}) : i = 1 \/ i - 1 \in Due(c, {"request"})'
      /\ \A c : 1 \in Due(c, {"request"}) <=> (c = Head(bus).batch /\ Head(bus).name \in {"request"})
      /\ \A c : Due(c, {"request"})' \subseteq Nat \ {0}
  BY DeliveredDue DEF Due
<1>2. RequestsOnce'
  BY <1>1 DEF RequestsOnce, AtMostOne
<1>3. ASSUME NEW c \in Batch
      PROVE  InBus(c)' <=> (InBus(c) /\ 1 \notin Due(c, {"request"}))
  <2>1. ASSUME NEW i \in Due(c, {"request"})' PROVE i + 1 \in Due(c, {"request"}) /\ i + 1 # 1
    BY <1>1
  <2>2. ASSUME NEW i \in Due(c, {"request"}), i # 1 PROVE i - 1 \in Due(c, {"request"})'
    BY <1>1, <2>2
  <2>3. QED
    BY <2>1, <2>2 DEF InBus, RequestsOnce, AtMostOne
<1>4. QED
  BY <1>1, <1>2, <1>3

LEMMA InitQueue == Init => QueueInv
<1> SUFFICES ASSUME Init PROVE QueueInv
  OBVIOUS
<1>1. Typed
  BY InitTyped
<1>2. \A b : ~InBus(b) /\ ~InAdding(b) /\ ~InWait(b)
  BY DEF Init, Queue!QueueInit, InBus, InAdding, InWait, Due
<1>3. PlacedOnce
  BY <1>2 DEF PlacedOnce, RequestsOnce, AtMostOne, InBus, IsInjective, Init, Queue!QueueInit
<1>4. RunsBounded
  BY <1>2, BoundAssumption DEF RunsBounded, Init, Queue!QueueInit
<1>5. QED
  BY <1>1, <1>3, <1>4 DEF QueueInv

(* A batch that was not requested is nowhere.  *)
LEMMA NowhereBefore ==
    ASSUME Typed, NEW b \in Batch, request[b] = NoDto
    PROVE  ~InBus(b) /\ ~InAdding(b) /\ ~InWait(b) /\ b \notin active
BY NoDtoAssumption DEF Typed, Known, InBus, InAdding, InWait, Due

(* A step that keeps the places of the batches, or takes some of them away.  *)
LEMMA QueueKept ==
    ASSUME QueueInv,
           RequestsOnce', IsInjective(adding)', IsInjective(wait)',
           \A b \in Batch :
              /\ InBus(b)' => InBus(b)
              /\ InAdding(b)' => InAdding(b)
              /\ InWait(b)' => InWait(b)
              /\ b \in active' => b \in active,
           request' = request, runs' = runs, stalls' = stalls
    PROVE  PlacedOnce' /\ RunsBounded'
<1>1. PlacedOnce'
  BY DEF QueueInv, PlacedOnce
<1>2. RunsBounded'
  BY DEF QueueInv, RunsBounded
<1>3. QED
  BY <1>1, <1>2

LEMMA QueueUntouched ==
    ASSUME QueueInv,
           UNCHANGED <<adding, wait, active, stalls, runs, request>>,
           \/ bus' = bus \/ bus' = <<>>
           \/ bus # <<>> /\ bus' = Tail(bus)
           \/ \E name \in {"processing", "complete", "fail", "error"}, b \in Batch,
                 shows \in SUBSET Showtime : Emit(name, b, shows)
    PROVE  PlacedOnce' /\ RunsBounded'
<1>1. RequestsOnce' /\ \A b \in Batch : InBus(b)' => InBus(b)
  <2>1. Typed /\ RequestsOnce
    BY DEF QueueInv, PlacedOnce
  <2>2. CASE bus' = bus \/ bus' = <<>>
    BY <2>1, <2>2, DueSame, DueLost DEF RequestsOnce, InBus, AtMostOne
  <2>3. CASE bus # <<>> /\ bus' = Tail(bus)
    BY <2>1, <2>3, DeliveredRequests
  <2>4. ASSUME NEW name \in {"processing", "complete", "fail", "error"}, NEW b \in Batch,
               NEW shows \in SUBSET Showtime, Emit(name, b, shows)
        PROVE  RequestsOnce' /\ \A c \in Batch : InBus(c)' => InBus(c)
    BY <2>1, <2>4, EmittedRequests
  <2>5. QED
    BY <2>2, <2>3, <2>4
<1>2. \A b : (InAdding(b)' <=> InAdding(b)) /\ (InWait(b)' <=> InWait(b))
  BY DEF InAdding, InWait
<1>3. IsInjective(adding)' /\ IsInjective(wait)'
  BY DEF QueueInv, PlacedOnce
<1>4. QED
  BY <1>1, <1>2, <1>3, QueueKept

LEMMA QueueCreateShowtimes ==
    ASSUME QueueInv, NEW b \in Batch, NEW d \in Dtos, CreateShowtimes(b, d)
    PROVE  PlacedOnce' /\ RunsBounded'
<1>1. /\ request[b] = NoDto /\ request' = [request EXCEPT ![b] = d] /\ Emit("request", b, {})
      /\ UNCHANGED <<adding, wait, active, stalls, runs>>
  BY DEF CreateShowtimes, queueVars, workerVars
<1>2. Typed /\ ~InBus(b) /\ ~InAdding(b) /\ ~InWait(b) /\ b \notin active
  BY <1>1, NowhereBefore DEF QueueInv
<1>3. RequestsOnce' /\ \A c : InBus(c)' <=> (InBus(c) \/ c = b)
  BY <1>1, <1>2, EmittedRequests DEF QueueInv, PlacedOnce
<1>4. \A c : (InAdding(c)' <=> InAdding(c)) /\ (InWait(c)' <=> InWait(c))
  BY <1>1 DEF InAdding, InWait
<1>5. PlacedOnce'
  BY <1>1, <1>2, <1>3, <1>4 DEF QueueInv, PlacedOnce
<1>6. RunsBounded'
  <2>1. \A c \in Batch : request'[c] = NoDto => request[c] = NoDto
    BY <1>1, NoDtoAssumption DEF QueueInv, Typed, TypeOK
  <2>2. QED
    BY <1>1, <1>3, <1>4, <2>1 DEF QueueInv, RunsBounded
<1>7. QED
  BY <1>5, <1>6

LEMMA QueueOnRequestEvent ==
    ASSUME QueueInv, NEW b \in Batch, OnRequestEvent(b)
    PROVE  PlacedOnce' /\ RunsBounded'
<1>1. /\ bus # <<>> /\ Head(bus).name = "request" /\ Head(bus).batch = b /\ bus' = Tail(bus)
      /\ adding' = Append(adding, b)
      /\ UNCHANGED <<request, wait, active, stalls, runs>>
  BY DEF OnRequestEvent, queueVars, workerVars
<1>2. Typed /\ RequestsOnce /\ adding \in Seq(Batch)
  BY DEF QueueInv, PlacedOnce, Typed, TypeOK
<1>3. RequestsOnce' /\ \A c \in Batch : InBus(c)' <=> (InBus(c) /\ c # b)
  BY <1>1, <1>2, DeliveredRequests
<1>4. InBus(b)
  BY <1>1, <1>2, DeliveredDue DEF InBus
<1>5. ~InAdding(b) /\ ~InWait(b) /\ b \notin active
  BY <1>4 DEF QueueInv, PlacedOnce
<1>6. IsInjective(adding)' /\ \A c : InAdding(c)' <=> (c = b \/ InAdding(c))
  BY <1>1, <1>2, <1>5, AppendOnce DEF QueueInv, PlacedOnce, InAdding
<1>7. \A c : InWait(c)' <=> InWait(c)
  BY <1>1 DEF InWait
<1>8. PlacedOnce'
  BY <1>1, <1>3, <1>5, <1>6, <1>7 DEF QueueInv, PlacedOnce
<1>9. RunsBounded'
  BY <1>1, <1>3, <1>4, <1>6, <1>7 DEF QueueInv, RunsBounded
<1>10. QED
  BY <1>8, <1>9

LEMMA QueueQueueAdd ==
    ASSUME QueueInv, NEW b \in Batch, QueueAdd(b)
    PROVE  PlacedOnce' /\ RunsBounded'
<1>1. /\ adding # <<>> /\ b = Head(adding) /\ adding' = Tail(adding)
      /\ wait' = Append(wait, b)
      /\ UNCHANGED <<request, bus, active, stalls, runs>>
  BY DEF QueueAdd, Queue!Add, workerVars
<1>2. adding \in Seq(Batch) /\ wait \in Seq(Batch) /\ IsInjective(adding) /\ IsInjective(wait)
  BY DEF QueueInv, PlacedOnce, Typed, TypeOK, Queue!QueueTypeOK
<1>3. IsInjective(adding)' /\ \A c : InAdding(c)' <=> (c # b /\ InAdding(c))
  <2>1. /\ IsInjective(Tail(adding))
        /\ \A x : (\E i \in DOMAIN Tail(adding) : Tail(adding)[i] = x)
                     <=> (x # Head(adding) /\ \E i \in DOMAIN adding : adding[i] = x)
    BY <1>1, <1>2, TailOnce
  <2>2. QED
    BY <1>1, <2>1, Zenon DEF InAdding
<1>4. InAdding(b)
  <2>1. 1 \in DOMAIN adding /\ Head(adding) = adding[1]
    BY <1>1, <1>2
  <2>2. QED
    BY <1>1, <2>1 DEF InAdding
<1>5. ~InBus(b) /\ ~InWait(b) /\ b \notin active
  BY <1>4 DEF QueueInv, PlacedOnce
<1>6. IsInjective(wait)' /\ \A c : InWait(c)' <=> (c = b \/ InWait(c))
  BY <1>1, <1>2, <1>5, AppendOnce DEF InWait
<1>7. RequestsOnce' /\ \A c : InBus(c)' <=> InBus(c)
  BY <1>1, DueSame DEF QueueInv, PlacedOnce, InBus, RequestsOnce, AtMostOne
<1>8. PlacedOnce'
  BY <1>1, <1>3, <1>5, <1>6, <1>7 DEF QueueInv, PlacedOnce
<1>9. RunsBounded'
  BY <1>1, <1>3, <1>4, <1>6, <1>7, BoundAssumption DEF QueueInv, RunsBounded
<1>10. QED
  BY <1>8, <1>9

LEMMA QueueStartJob ==
    ASSUME QueueInv, NEW b \in Batch, StartJob(b)
    PROVE  PlacedOnce' /\ RunsBounded'
<1>1. /\ wait # <<>> /\ b = Head(wait) /\ wait' = Tail(wait) /\ active' = active \cup {b}
      /\ Emit("processing", b, {}) /\ runs' = [runs EXCEPT ![b] = @ + 1]
      /\ UNCHANGED <<request, adding, stalls>>
  BY DEF StartJob, Queue!Take
<1>2. wait \in Seq(Batch) /\ IsInjective(wait) /\ Typed
  BY DEF QueueInv, PlacedOnce, Typed, TypeOK, Queue!QueueTypeOK
<1>3. IsInjective(wait)' /\ \A c : InWait(c)' <=> (c # b /\ InWait(c))
  <2>1. /\ IsInjective(Tail(wait))
        /\ \A x : (\E i \in DOMAIN Tail(wait) : Tail(wait)[i] = x)
                     <=> (x # Head(wait) /\ \E i \in DOMAIN wait : wait[i] = x)
    BY <1>1, <1>2, TailOnce
  <2>2. QED
    BY <1>1, <2>1, Zenon DEF InWait
<1>4. InWait(b)
  <2>1. 1 \in DOMAIN wait /\ Head(wait) = wait[1]
    BY <1>1, <1>2
  <2>2. QED
    BY <1>1, <2>1 DEF InWait
<1>5. ~InBus(b) /\ ~InAdding(b) /\ b \notin active
  BY <1>4 DEF QueueInv, PlacedOnce
<1>6. RequestsOnce' /\ \A c : InBus(c)' <=> InBus(c)
  BY <1>1, <1>2, EmittedRequests DEF QueueInv, PlacedOnce
<1>7. IsInjective(adding)' /\ \A c : InAdding(c)' <=> InAdding(c)
  BY <1>1 DEF QueueInv, PlacedOnce, InAdding
<1>8. PlacedOnce'
  BY <1>1, <1>3, <1>5, <1>6, <1>7 DEF QueueInv, PlacedOnce
<1>9. RunsBounded'
  <2>1. request[b] # NoDto /\ runs[b] <= stalls[b] /\ stalls[b] <= MaxStalledCount
    BY <1>2, <1>4, NowhereBefore DEF QueueInv, RunsBounded
  <2>2. runs \in [Batch -> Nat] /\ stalls \in [Batch -> Nat] /\ MaxStalledCount \in Nat
    BY BoundAssumption DEF QueueInv, Typed, TypeOK, Queue!QueueTypeOK
  <2>3. QED
    BY <1>1, <1>3, <1>5, <1>6, <1>7, <2>1, <2>2 DEF QueueInv, RunsBounded
<1>10. QED
  BY <1>8, <1>9

(* A job is settled, its lock lost, or a crash loses what is not in the queue.  *)
LEMMA QueueSettled ==
    ASSUME QueueInv, FinishJob \/ FailJob \/ Crash \/ \E b \in Batch : LockLapses(b)
    PROVE  PlacedOnce' /\ RunsBounded'
<1>1. /\ UNCHANGED <<request, wait, stalls, runs>> /\ active' \subseteq active
      /\ adding' = adding \/ adding' = <<>>
  BY DEF FinishJob, FailJob, Crash, LockLapses, Idle, busVars, queueVars, workerVars, Queue!Settle,
         Queue!LoseAllLocks, Queue!LoseLock
<1>2. Typed /\ RequestsOnce
  BY DEF QueueInv, PlacedOnce
<1>3. RequestsOnce' /\ \A b \in Batch : InBus(b)' => InBus(b)
  <2>1. bus' = bus \/ bus' = <<>> \/ (job \in Batch /\ Emit("error", job, {}))
    BY <1>2 DEF FinishJob, FailJob, Crash, LockLapses, busVars, Typed, TypeOK
  <2>2. CASE job \in Batch /\ Emit("error", job, {})
    BY <1>2, <2>2, EmittedRequests
  <2>3. CASE bus' = bus \/ bus' = <<>>
    BY <1>2, <2>3, DueSame, DueLost DEF RequestsOnce, InBus, AtMostOne
  <2>4. QED
    BY <2>1, <2>2, <2>3
<1>4. IsInjective(adding)' /\ \A b : InAdding(b)' => InAdding(b)
  BY <1>1 DEF QueueInv, PlacedOnce, InAdding, IsInjective
<1>5. IsInjective(wait)' /\ \A b : InWait(b)' => InWait(b)
  BY <1>1 DEF QueueInv, PlacedOnce, InWait
<1>6. QED
  BY <1>1, <1>3, <1>4, <1>5, QueueKept

LEMMA QueueRequeueStalled ==
    ASSUME QueueInv, NEW b \in Batch, RequeueStalled(b)
    PROVE  PlacedOnce' /\ RunsBounded'
<1>1. /\ b \in active /\ stalls[b] < MaxStalledCount /\ wait' = <<b>> \o wait
      /\ active' = active \ {b} /\ stalls' = [stalls EXCEPT ![b] = @ + 1]
      /\ UNCHANGED <<request, bus, adding, runs>>
  BY DEF RequeueStalled, Queue!Requeue, busVars, workerVars
<1>2. wait \in Seq(Batch) /\ IsInjective(wait) /\ Typed
  BY DEF QueueInv, PlacedOnce, Typed, TypeOK, Queue!QueueTypeOK
<1>3. ~InBus(b) /\ ~InAdding(b) /\ ~InWait(b)
  BY <1>1 DEF QueueInv, PlacedOnce
<1>4. IsInjective(wait)' /\ \A c : InWait(c)' <=> (c = b \/ InWait(c))
  <2>1. \A i \in DOMAIN wait : wait[i] # b
    BY <1>3 DEF InWait
  <2>2. /\ \A i \in DOMAIN wait' : i = 1 \/ (i - 1 \in DOMAIN wait /\ wait'[i] = wait[i - 1])
        /\ \A i \in DOMAIN wait : i + 1 \in DOMAIN wait' /\ wait'[i + 1] = wait[i]
        /\ 1 \in DOMAIN wait' /\ wait'[1] = b /\ DOMAIN wait' \subseteq Nat
    BY <1>1, <1>2
  <2>3. /\ IsInjective(wait')
        /\ \A x : (\E i \in DOMAIN wait' : wait'[i] = x) <=> (x = b \/ \E i \in DOMAIN wait : wait[i] = x)
    BY <1>2, <2>1, <2>2, PushOnce
  <2>4. QED
    BY <2>3 DEF InWait
<1>5. /\ RequestsOnce' /\ IsInjective(adding)'
      /\ \A c : (InBus(c)' <=> InBus(c)) /\ (InAdding(c)' <=> InAdding(c))
  BY <1>1, DueSame DEF QueueInv, PlacedOnce, RequestsOnce, AtMostOne, InBus, InAdding
<1>6. PlacedOnce'
  BY <1>1, <1>3, <1>4, <1>5 DEF QueueInv, PlacedOnce
<1>7. RunsBounded'
  <2>1. request[b] # NoDto
    BY <1>1, <1>2, NowhereBefore
  <2>2. runs \in [Batch -> Nat] /\ stalls \in [Batch -> Nat] /\ MaxStalledCount \in Nat
    BY BoundAssumption DEF QueueInv, Typed, TypeOK, Queue!QueueTypeOK
  <2>3. QED
    BY <1>1, <1>3, <1>4, <1>5, <2>1, <2>2 DEF QueueInv, RunsBounded
<1>8. QED
  BY <1>6, <1>7

LEMMA QueueFailStalled ==
    ASSUME QueueInv, NEW b \in Batch, FailStalled(b)
    PROVE  PlacedOnce' /\ RunsBounded'
<1>1. /\ b \in active /\ active' = active \ {b} /\ stalls' = [stalls EXCEPT ![b] = @ + 1]
      /\ Emit("error", b, {})
      /\ UNCHANGED <<request, wait, adding, runs>>
  BY DEF FailStalled, Queue!GiveUp, workerVars
<1>2. Typed /\ ~InBus(b) /\ ~InAdding(b) /\ ~InWait(b)
  BY <1>1 DEF QueueInv, PlacedOnce
<1>3. RequestsOnce' /\ \A c : InBus(c)' <=> InBus(c)
  BY <1>1, <1>2, EmittedRequests DEF QueueInv, PlacedOnce
<1>4. /\ IsInjective(wait)' /\ IsInjective(adding)'
      /\ \A c : (InWait(c)' <=> InWait(c)) /\ (InAdding(c)' <=> InAdding(c))
  BY <1>1 DEF QueueInv, PlacedOnce, InWait, InAdding
<1>5. PlacedOnce'
  BY <1>1, <1>3, <1>4 DEF QueueInv, PlacedOnce
<1>6. RunsBounded'
  <2>1. request[b] # NoDto
    BY <1>1, <1>2, NowhereBefore
  <2>2. runs \in [Batch -> Nat] /\ stalls \in [Batch -> Nat]
    BY DEF QueueInv, Typed, TypeOK, Queue!QueueTypeOK
  <2>3. QED
    BY <1>1, <1>2, <1>3, <1>4, <2>1, <2>2 DEF QueueInv, RunsBounded
<1>7. QED
  BY <1>5, <1>6

LEMMA NextQueue == QueueInv /\ [Next]_vars => QueueInv'
<1> SUFFICES ASSUME QueueInv, [Next]_vars PROVE QueueInv'
  OBVIOUS
<1>1. Typed'
  BY NextTyped DEF QueueInv
<1> DEFINE Kept == PlacedOnce' /\ RunsBounded'
<1> HIDE DEF Kept
<1> SUFFICES Kept
  BY <1>1 DEF QueueInv, Kept
<1>2. ASSUME NEW b \in Batch, NEW d \in Dtos, CreateShowtimes(b, d) PROVE Kept
  BY <1>2, QueueCreateShowtimes DEF Kept
<1>3. CASE (\E m \in movies : DeleteMovie(m)) \/ (\E t \in theaters : DeleteTheater(t))
           \/ CheckMovieExists \/ CheckTheatersExist \/ DatabaseFails \/ (\E s \in todo : SaveShowtime(s))
           \/ (\E b \in Batch : SendWaiting(b)) \/ UNCHANGED vars
  BY <1>3, QueueUntouched
     DEF Kept, DeleteMovie, DeleteTheater, CheckMovieExists, CheckTheatersExist, DatabaseFails,
         SaveShowtime, SendWaiting, vars, busVars, queueVars, workerVars
<1>4. ASSUME NEW b \in Batch, Deliver(b) \/ OnCompleteEvent(b) PROVE Kept
  <2>1. CASE OnRequestEvent(b)
    BY <2>1, QueueOnRequestEvent DEF Kept
  <2>2. CASE \E name : OnStatusEvent(name, b)
    BY <2>2, QueueUntouched DEF Kept, OnStatusEvent, queueVars, workerVars
  <2>3. QED
    BY <1>4, <2>1, <2>2 DEF Deliver, OnProcessingEvent, OnCompleteEvent, OnFailEvent, OnErrorEvent
<1>5. ASSUME NEW b \in Batch, QueueAdd(b) PROVE Kept
  BY <1>5, QueueQueueAdd DEF Kept
<1>6. ASSUME NEW b \in Batch, StartJob(b) PROVE Kept
  BY <1>6, QueueStartJob DEF Kept
<1>7. CASE CheckForTimeConflicts
  <2>1. job \in Batch /\ ConflictShowtimes(showtimes, request[job]) \in SUBSET Showtime
    BY <1>7, ConflictsAreShowtimes DEF CheckForTimeConflicts, QueueInv, Typed, TypeOK
  <2>2. QED
    BY <1>7, <2>1, QueueUntouched DEF Kept, CheckForTimeConflicts, queueVars
<1>8. CASE ShowtimesSaved
  <2>1. job \in Batch
    BY <1>8 DEF ShowtimesSaved, QueueInv, Typed, TypeOK
  <2>2. QED
    BY <1>8, <2>1, QueueUntouched DEF Kept, ShowtimesSaved, queueVars
<1>9. CASE FinishJob \/ FailJob \/ Crash \/ \E b \in Batch : LockLapses(b)
  BY <1>9, QueueSettled DEF Kept
<1>10. ASSUME NEW b \in Batch, CheckStalled(b) PROVE Kept
  BY <1>10, QueueRequeueStalled, QueueFailStalled DEF Kept, CheckStalled
<1>11. QED
  BY <1>2, <1>3, <1>4, <1>5, <1>6, <1>7, <1>8, <1>9, <1>10 DEF Next, LocalNext, Work

(* A batch is requested once, is in one place at most on its way to the worker,  *)
(* and its job runs no more often than Bull has found it stalled, and once more. *)
THEOREM JobsQueuedOnce == Spec => []QueueInv
BY InitQueue, NextQueue, PTL DEF Spec

(* What is registered was inserted by a run that has started, and by an earlier *)
(* one than the run that has still to check.                                    *)
PriorRuns ==
    \A s \in showtimes :
        /\ s.run \in 1..runs[s.batch]
        /\ (pc \in {"movie", "theaters", "conflicts"} /\ s.batch = job) => s.run < run

RunInv == SlotInv /\ CompleteInv /\ PriorRuns

LEMMA PriorKept ==
    ASSUME RunInv, showtimes' = showtimes, runs' = runs,
           pc' \in {"movie", "theaters", "conflicts"} =>
              pc \in {"movie", "theaters", "conflicts"} /\ UNCHANGED <<job, run>>
    PROVE  PriorRuns'
BY DEF RunInv, PriorRuns

LEMMA PriorStartJob ==
    ASSUME RunInv, NEW b \in Batch, StartJob(b)
    PROVE  PriorRuns'
<1>1. showtimes' = showtimes /\ job' = b /\ run' = runs[b] + 1 /\ runs' = [runs EXCEPT ![b] = @ + 1]
  BY DEF StartJob
<1>2. runs \in [Batch -> Nat] /\ \A s \in showtimes : s.batch \in Batch /\ s.run \in Nat
  BY DEF RunInv, SlotInv, Typed, TypeOK, Showtime
<1>3. QED
  BY <1>1, <1>2 DEF RunInv, PriorRuns

LEMMA PriorSaveShowtime ==
    ASSUME RunInv, NEW k \in todo, SaveShowtime(k)
    PROVE  PriorRuns'
<1>1. pc = "save" /\ showtimes' = showtimes \cup {k} /\ UNCHANGED <<pc, job, run, runs>>
  BY DEF SaveShowtime
<1>2. job \in Batch /\ request[job] \in Dtos /\ run \in Nat /\ run = runs[job] /\ run > 0
  BY <1>1 DEF RunInv, CompleteInv, Numbered, Typed, TypeOK, Known
<1>3. k \in NewShowtimes(job, run)
  BY <1>1 DEF RunInv, SlotInv, FreshSlots
<1>4. k.batch = job /\ k.run = run
  BY <1>2, <1>3, NewShowtimesType
<1>5. QED
  BY <1>1, <1>2, <1>4 DEF RunInv, PriorRuns

LEMMA InitRun == Init => RunInv
BY InitSlots, InitComplete DEF Init, RunInv, PriorRuns

LEMMA NextRun == RunInv /\ [Next]_vars => RunInv'
<1> SUFFICES ASSUME RunInv, [Next]_vars PROVE RunInv'
  OBVIOUS
<1>1. SlotInv' /\ CompleteInv'
  BY NextSlots, NextComplete DEF RunInv
<1>2. PriorRuns'
  <2>1. CASE \E b \in Batch : StartJob(b)
    BY <2>1, PriorStartJob
  <2>2. CASE \E k \in todo : SaveShowtime(k)
    BY <2>2, PriorSaveShowtime
  <2>3. CASE \/ \E b \in Batch, d \in Dtos : CreateShowtimes(b, d)
             \/ \E m \in movies : DeleteMovie(m)
             \/ \E t \in theaters : DeleteTheater(t)
             \/ \E b \in Batch : Deliver(b) \/ OnCompleteEvent(b) \/ QueueAdd(b) \/ SendWaiting(b)
             \/ \E b \in Batch : CheckStalled(b) \/ LockLapses(b)
             \/ UNCHANGED vars
    <3>1. UNCHANGED <<showtimes, pc, job, run, runs>>
      BY <2>3 DEF CreateShowtimes, DeleteMovie, DeleteTheater, Deliver, OnRequestEvent,
                  OnProcessingEvent, OnCompleteEvent, OnFailEvent, OnErrorEvent, OnStatusEvent,
                  QueueAdd, SendWaiting, CheckStalled, RequeueStalled, FailStalled, LockLapses,
                  vars, workerVars
    <3>2. QED
      BY <3>1, PriorKept
  <2>4. CASE \/ CheckMovieExists \/ CheckTheatersExist \/ CheckForTimeConflicts \/ ShowtimesSaved
             \/ FinishJob \/ FailJob \/ DatabaseFails \/ Crash
    BY <2>4, PriorKept DEF CheckMovieExists, CheckTheatersExist, CheckForTimeConflicts,
                           ShowtimesSaved, FinishJob, FailJob, DatabaseFails, Crash, Idle
  <2>5. QED
    BY <2>1, <2>2, <2>3, <2>4 DEF Next, LocalNext, Work
<1>3. QED
  BY <1>1, <1>2 DEF RunInv

----------------------------------------------------------------------------
(* No unchecked pair, for requests whose times are on the grid of the check.    *)

OnGrid ==
    \A d \in Dtos : \A n \in DOMAIN d.starts : \E a \in Nat : d.starts[n] = a * Step

(* s begins before all of the request of batch b, where the check does not look. *)
Before(s, b) == \A n \in DOMAIN request[b].starts : s.start < request[b].starts[n]

Meet(s1, s2) ==
    /\ s1.theater = s2.theater
    /\ s1.start <= s2.end
    /\ s2.start <= s1.end

Checked(s1, s2) == Meet(s1, s2) => Before(s1, s2.batch) \/ Before(s2, s1.batch)

PairInv ==
    /\ \A s1, s2 \in showtimes : s1.batch # s2.batch => Checked(s1, s2)
    /\ pc = "save" => \A s \in showtimes, k \in NewShowtimes(job, run) :
                         s.batch # job => Checked(s, k)

(* The check that accepts has compared every registered showtime with every     *)
(* requested one, save those that begin before the request.                     *)
LEMMA AcceptedIsChecked ==
    ASSUME OnGrid, SlotInv, job \in Batch, request[job] \in Dtos, run \in Nat,
           ConflictShowtimes(showtimes, request[job]) = {},
           NEW s \in showtimes, NEW k \in NewShowtimes(job, run)
    PROVE  Checked(s, k)
<1> DEFINE d == request[job]
<1> SUFFICES ASSUME Meet(s, k), ~Before(s, job) PROVE FALSE
  BY NewShowtimesType DEF Checked
<1>1. PICK i \in DOMAIN d.theaters, n \in DOMAIN d.starts :
         k = [batch |-> job, run |-> run, theater |-> d.theaters[i], nth |-> n,
              start |-> d.starts[n], end |-> EndTime(d, n)]
  BY DEF NewShowtimes
<1>2. IsRequest(d) /\ d \in Dtos
  BY DtosAreRequests
<1>3. s.batch \in Batch /\ s.run \in Nat /\ request[s.batch] \in Dtos
      /\ s \in NewShowtimes(s.batch, s.run)
  BY DEF SlotInv, Typed, TypeOK, Known, Showtime, OwnSlots
<1>4. IsShowtime(s) /\ \E m \in DOMAIN request[s.batch].starts : s.start = request[s.batch].starts[m]
  BY <1>3, NewShowtimesType
<1>5. PICK a \in Nat : s.start = a * Step
  BY <1>3, <1>4 DEF OnGrid
<1>6. PICK c \in Nat : d.starts[n] = c * Step
  BY <1>2 DEF OnGrid
<1>7. s.theater = d.theaters[i] /\ s.start <= EndTime(d, n) /\ d.starts[n] <= s.end
  BY <1>1 DEF Meet
<1>8. PICK m \in DOMAIN d.starts : d.starts[m] <= s.start
  <2>1. s.start \in Nat /\ \A m \in DOMAIN d.starts : d.starts[m] \in Nat
    BY <1>2, <1>4 DEF IsRequest, IsShowtime
  <2>2. QED
    BY <2>1 DEF Before
<1>9. InDateRange(d, s.start) /\ Touches(s, d, n)
  BY <1>7, <1>8 DEF InDateRange, Touches
<1> HIDE DEF d
<1>10. ConflictShowtimes(showtimes, d) # {}
  BY <1>2, <1>4, <1>5, <1>6, <1>7, <1>9, AlignedConflictsAreFound
<1>11. QED
  BY <1>10 DEF d

LEMMA PairQuiet ==
    ASSUME SlotInv, PairInv, Quiet
    PROVE  PairInv'
<1>1. \A s \in showtimes : s.batch \in Batch /\ request[s.batch] \in Dtos
  BY DEF SlotInv, Typed, TypeOK, Known, Showtime
<1>2. \A s \in showtimes : request'[s.batch] = request[s.batch]
  BY <1>1 DEF Quiet
<1>3. \A s1, s2 \in showtimes : s1.batch # s2.batch => Checked(s1, s2)'
  BY <1>2 DEF PairInv, Checked, Before, Meet
<1>4. ASSUME pc' = "save", NEW s \in showtimes, NEW k \in NewShowtimes(job, run)', s.batch # job'
      PROVE  Checked(s, k)'
  <2>1. pc = "save" /\ job' = job /\ run' = run
    BY <1>4 DEF Quiet
  <2>2. job \in Batch /\ request[job] \in Dtos /\ request'[job] = request[job] /\ run \in Nat
    BY <2>1 DEF SlotInv, Typed, TypeOK, Known, Quiet
  <2>3. k \in NewShowtimes(job, run)
    BY <1>4, <2>1, <2>2, NewShowtimesStable
  <2>4. k.batch = job /\ Checked(s, k)
    BY <1>4, <2>1, <2>2, <2>3, NewShowtimesType DEF PairInv
  <2>5. QED
    BY <1>2, <2>2, <2>4 DEF Checked, Before, Meet
<1>5. QED
  BY <1>3, <1>4 DEF PairInv, Quiet

LEMMA PairAccepted ==
    ASSUME OnGrid, SlotInv, PairInv, CheckForTimeConflicts, pc' = "save"
    PROVE  PairInv'
<1>1. /\ ConflictShowtimes(showtimes, request[job]) = {}
      /\ pc = "conflicts" /\ UNCHANGED <<request, job, run, showtimes>>
  BY DEF CheckForTimeConflicts
<1>2. job \in Batch /\ request[job] \in Dtos /\ run \in Nat
  BY <1>1 DEF SlotInv, Typed, TypeOK, Known
<1>3. \A s \in showtimes, k \in NewShowtimes(job, run) : Checked(s, k)
  BY <1>1, <1>2, AcceptedIsChecked
<1>4. NewShowtimes(job, run)' = NewShowtimes(job, run)
  BY <1>1, <1>2, NewShowtimesStable
<1>5. QED
  BY <1>1, <1>3, <1>4 DEF PairInv, Checked, Before, Meet

LEMMA PairInserted ==
    ASSUME SlotInv, PairInv, NEW k \in todo, SaveShowtime(k)
    PROVE  PairInv'
<1>1. /\ pc = "save" /\ showtimes' = showtimes \cup {k} /\ UNCHANGED <<request, pc, job, run>>
  BY DEF SaveShowtime
<1>2. job \in Batch /\ request[job] \in Dtos /\ run \in Nat
  BY <1>1 DEF SlotInv, Typed, TypeOK, Known
<1>3. k \in NewShowtimes(job, run) /\ k.batch = job
  BY <1>1, <1>2, NewShowtimesType DEF SlotInv, FreshSlots
<1>4. \A s \in showtimes : s.batch # job => Checked(s, k) /\ Checked(k, s)
  BY <1>1, <1>3 DEF PairInv, Checked, Meet
<1>5. NewShowtimes(job, run)' = NewShowtimes(job, run)
  BY <1>1, <1>2, NewShowtimesStable
<1>6. \A s1, s2 : Checked(s1, s2)' <=> Checked(s1, s2)
  BY <1>1 DEF Checked, Before, Meet
<1>7. QED
  BY <1>1, <1>3, <1>4, <1>5, <1>6 DEF PairInv

(* With all times on the grid, showtimes of different requests in one theater   *)
(* meet only if one begins before all of the other's request.                   *)
THEOREM PairsAreChecked ==
    ASSUME OnGrid
    PROVE  Spec => []NoUncheckedPair
<1>1. Spec => []SlotInv
  BY InitSlots, NextSlots, PTL DEF Spec
<1>2. Init => PairInv
  BY DEF Init, PairInv
<1>3. SlotInv /\ PairInv /\ [Next]_vars => PairInv'
  BY StepsAreQuiet, PairQuiet, PairAccepted, PairInserted DEF SlotInv
<1>4. PairInv => NoUncheckedPair
  BY DEF PairInv, NoUncheckedPair, Checked, Meet, Before
<1>5. QED
  BY <1>1, <1>2, <1>3, <1>4, PTL DEF Spec

----------------------------------------------------------------------------
(* What a step does with events and statuses: it moves what was emitted on, or  *)
(* it is one of the few that emit.                                              *)

Moves ==
    \/ bus' = bus /\ sse' = sse
    \/ bus' = <<>> /\ sse' = sse /\ pc' = "idle"
    \/ bus # <<>> /\ bus' = Tail(bus) /\ sse' = sse /\ Head(bus).name = "request"
    \/ bus # <<>> /\ bus' = Tail(bus) /\ SendEvent(Head(bus).batch, Head(bus).name, Head(bus).shows)
    \/ bus' = bus /\ \E b \in Batch : SendEvent(b, "waiting", {})

Emits(name, b) == sse' = sse /\ \E shows \in SUBSET Showtime : Emit(name, b, shows)

LEMMA EventSteps ==
    ASSUME Typed, [Next]_vars
    PROVE  \/ /\ Moves
              /\ runs' = runs
              /\ pc' = "idle" \/ (job' = job /\ (pc = "return" => pc' = "return"))
           \/ \E b \in Batch : Emits("request", b) /\ UNCHANGED <<pc, job, runs>>
           \/ \E b \in Batch : StartJob(b) /\ Emits("processing", b)
           \/ CheckForTimeConflicts /\ job \in Batch /\ pc' = "return" /\ Emits("fail", job)
           \/ ShowtimesSaved /\ job \in Batch /\ Emits("complete", job)
           \/ FailJob /\ job \in Batch /\ Emits("error", job)
           \/ \E b \in Batch : FailStalled(b) /\ Emits("error", b)
<1> DEFINE Moved == /\ Moves
                    /\ runs' = runs
                    /\ pc' = "idle" \/ (job' = job /\ (pc = "return" => pc' = "return"))
<1> HIDE DEF Moved
<1>1. ASSUME NEW b \in Batch, NEW d \in Dtos, CreateShowtimes(b, d)
      PROVE  Emits("request", b) /\ UNCHANGED <<pc, job, runs>>
  BY <1>1 DEF CreateShowtimes, Emits, workerVars
<1>2. CASE \/ (\E m \in movies : DeleteMovie(m)) \/ (\E t \in theaters : DeleteTheater(t))
           \/ (\E b \in Batch : QueueAdd(b) \/ RequeueStalled(b) \/ LockLapses(b))
           \/ CheckMovieExists \/ CheckTheatersExist \/ DatabaseFails \/ FinishJob \/ Crash
           \/ (\E s \in todo : SaveShowtime(s)) \/ UNCHANGED vars
  BY <1>2 DEF Moved, Moves, DeleteMovie, DeleteTheater, QueueAdd, RequeueStalled, LockLapses,
              CheckMovieExists, CheckTheatersExist, DatabaseFails, FinishJob, Crash, SaveShowtime,
              Idle, vars, busVars, workerVars
<1>3. ASSUME NEW b \in Batch, Deliver(b) \/ OnCompleteEvent(b) \/ SendWaiting(b) PROVE Moved
  BY <1>3 DEF Moved, Moves, Deliver, OnRequestEvent, OnProcessingEvent, OnCompleteEvent,
              OnFailEvent, OnErrorEvent, OnStatusEvent, SendWaiting, workerVars
<1>4. ASSUME NEW b \in Batch, StartJob(b) PROVE Emits("processing", b)
  BY <1>4 DEF StartJob, Emits
<1>5. ASSUME CheckForTimeConflicts PROVE Moved \/ (job \in Batch /\ pc' = "return" /\ Emits("fail", job))
  <2>1. job \in Batch /\ ConflictShowtimes(showtimes, request[job]) \in SUBSET Showtime
    BY <1>5, ConflictsAreShowtimes DEF CheckForTimeConflicts, Typed, TypeOK
  <2>2. QED
    BY <1>5, <2>1 DEF CheckForTimeConflicts, Moved, Moves, Emits
<1>6. ASSUME ShowtimesSaved PROVE job \in Batch /\ Emits("complete", job)
  BY <1>6 DEF ShowtimesSaved, Emits, Typed, TypeOK
<1>7. ASSUME FailJob PROVE Moved \/ (job \in Batch /\ Emits("error", job))
  <2>1. job \in Batch /\ {} \in SUBSET Showtime
    BY <1>7 DEF FailJob, Typed, TypeOK
  <2>2. pc' = "idle" /\ runs' = runs /\ sse' = sse
    BY <1>7 DEF FailJob, Idle
  <2>3. bus' = bus \/ Emit("error", job, {})
    BY <1>7 DEF FailJob
  <2>4. QED
    BY <2>1, <2>2, <2>3 DEF Moved, Moves, Emits
<1>8. ASSUME NEW b \in Batch, FailStalled(b) PROVE Emits("error", b)
  BY <1>8 DEF FailStalled, Emits
<1>9. QED
  BY <1>1, <1>2, <1>3, <1>4, <1>5, <1>6, <1>7, <1>8
     DEF Next, LocalNext, Work, CheckStalled, Moved

(* Whether events of some names are due or sent for a batch, and only one.  *)
Silent(b, N) == Due(b, N) = {} /\ Sent(b, N) = {}

Once(b, N) ==
    /\ AtMostOne(Due(b, N))
    /\ AtMostOne(Sent(b, N))
    /\ Due(b, N) = {} \/ Sent(b, N) = {}

(* Delivery takes the first event off the bus, to its place on the stream.  *)
LEMMA DeliveredSent ==
    ASSUME Typed, bus # <<>>,
           SendEvent(Head(bus).batch, Head(bus).name, Head(bus).shows), NEW b \in Batch, NEW N
    PROVE  IF 1 \in Due(b, N)
           THEN Sent(b, N)' = Sent(b, N) \cup {Len(sse[b]) + 1}
           ELSE Sent(b, N)' = Sent(b, N)
<1>1. PICK c, n, sh : /\ c \in Batch /\ c = Head(bus).batch /\ n = Head(bus).name
                      /\ SendEvent(c, n, sh)
  BY TailOfBus DEF Event
<1>2. /\ c # b \/ n \notin N => Sent(b, N)' = Sent(b, N)
      /\ n \in N => Sent(c, N)' = Sent(c, N) \cup {Len(sse[c]) + 1}
  BY <1>1, SentNext
<1>3. 1 \in DOMAIN bus /\ bus[1] = Head(bus)
  BY DEF Typed, TypeOK
<1>4. 1 \in Due(b, N) <=> (c = b /\ n \in N)
  BY <1>1, <1>3 DEF Due
<1>5. QED
  BY <1>2, <1>4

LEMMA MovedOnce ==
    ASSUME Typed, Moves, NEW b \in Batch, NEW N, "waiting" \notin N
    PROVE  (Once(b, N) => Once(b, N)') /\ (Silent(b, N) => Silent(b, N)')
<1>1. CASE (bus' = bus \/ bus' = <<>>) /\ sse' = sse
  <2>1. Due(b, N)' = Due(b, N) \/ Due(b, N)' = {}
    BY <1>1, DueSame, DueLost
  <2>2. Sent(b, N)' = Sent(b, N)
    BY <1>1, SentSame
  <2>3. QED
    BY <2>1, <2>2 DEF Once, Silent, AtMostOne
<1>2. CASE bus' = bus /\ \E c \in Batch : SendEvent(c, "waiting", {})
  <2>1. Sent(b, N)' = Sent(b, N)
    BY <1>2, SentNext
  <2>2. QED
    BY <1>2, <2>1, DueSame DEF Once, Silent, AtMostOne
<1>3. CASE bus # <<>> /\ bus' = Tail(bus)
  <2>1. \A i \in Due(b, N)' : i + 1 \in Due(b, N) /\ i \in Nat \ {0}
    BY <1>3, DeliveredDue DEF Due
  <2>2. /\ Due(b, N) = {} => Due(b, N)' = {}
        /\ AtMostOne(Due(b, N)) => AtMostOne(Due(b, N)') /\ (1 \in Due(b, N) => Due(b, N)' = {})
    BY <2>1 DEF AtMostOne
  <2>3. CASE sse' = sse
    BY <2>2, <2>3, SentSame DEF Once, Silent, AtMostOne
  <2>4. CASE SendEvent(Head(bus).batch, Head(bus).name, Head(bus).shows)
    BY <1>3, <2>2, <2>4, DeliveredSent DEF Once, Silent, AtMostOne
  <2>5. QED
    BY <1>3, <2>3, <2>4 DEF Moves
<1>4. QED
  BY <1>1, <1>2, <1>3 DEF Moves

LEMMA EmittedOnce ==
    ASSUME Typed, NEW name \in {"request", "processing", "complete", "fail", "error"},
           NEW b \in Batch, Emits(name, b)
    PROVE  /\ \A c, N : c # b \/ name \notin N =>
                 (Once(c, N) => Once(c, N)') /\ (Silent(c, N) => Silent(c, N)')
           /\ \A N : Silent(b, N) => Once(b, N)'
<1>1. /\ \A c, N : c # b \/ name \notin N => Due(c, N)' = Due(c, N)
      /\ \A N : name \in N => Due(b, N)' = Due(b, N) \cup {Len(bus) + 1}
      /\ \A c, N : Sent(c, N)' = Sent(c, N)
  BY EmittedDue, SentSame DEF Emits
<1>2. \A c, N : c # b \/ name \notin N =>
         (Once(c, N) => Once(c, N)') /\ (Silent(c, N) => Silent(c, N)')
  BY <1>1 DEF Once, Silent, AtMostOne
<1>3. \A N : Silent(b, N) => Once(b, N)'
  BY <1>1 DEF Once, Silent, AtMostOne
<1>4. QED
  BY <1>2, <1>3

----------------------------------------------------------------------------
(* A batch is completed at most once: none is, while the worker inserts for it. *)

CompletedOnce ==
    \A b \in Batch :
        /\ Once(b, {"complete"})
        /\ pc = "save" /\ job = b => Silent(b, {"complete"})

(* What is complete has showtimes, as no request is empty.  *)
LEMMA CompletedHasShowtimes ==
    ASSUME CompleteInv, NEW b \in Batch, Completed(b)
    PROVE  \E s \in showtimes : s.batch = b
<1>1. PICK r \in 1..runs[b] : NewShowtimes(b, r) \subseteq showtimes
  BY DEF CompleteInv, CompleteMeansSaved, Completed
<1>2. runs[b] > 0 /\ request[b] \in Dtos
  BY <1>1 DEF CompleteInv, Typed, TypeOK, Started
<1>3. 1 \in DOMAIN request[b].theaters /\ 1 \in DOMAIN request[b].starts
  BY <1>2, DtoAssumption
<1>4. \E s \in NewShowtimes(b, r) : s.batch = b
  <2>1. [batch |-> b, run |-> r, theater |-> request[b].theaters[1], nth |-> 1,
         start |-> request[b].starts[1], end |-> EndTime(request[b], 1)] \in NewShowtimes(b, r)
    BY <1>3 DEF NewShowtimes
  <2>2. QED
    BY <2>1
<1>5. QED
  BY <1>1, <1>4

LEMMA InitCompletedOnce == Init => CompletedOnce
<1>1. ASSUME Init PROVE \A b \in Batch : Silent(b, {"complete"})
  BY <1>1 DEF Init, Silent, Due, Sent
<1>2. QED
  BY <1>1 DEF CompletedOnce, Silent, Once, AtMostOne

LEMMA NextCompletedOnce ==
    ASSUME SlotInv, CompleteInv, CompletedOnce, [Next]_vars
    PROVE  CompletedOnce'
<1>1. Typed
  BY DEF SlotInv
<1>2. \A b \in Batch : Once(b, {"complete"}) /\ (pc = "save" /\ job = b => Silent(b, {"complete"}))
  BY DEF CompletedOnce
<1>3. CASE ShowtimesSaved
  <2>1. pc = "save" /\ pc' = "return" /\ job \in Batch /\ Emits("complete", job)
    BY <1>1, <1>3 DEF ShowtimesSaved, Emits, Typed, TypeOK
  <2>2. \A b \in Batch : Once(b, {"complete"})'
    BY <1>1, <1>2, <2>1, EmittedOnce
  <2>3. QED
    BY <2>1, <2>2 DEF CompletedOnce
<1>4. CASE ~ShowtimesSaved
  <2>1. \/ Moves
        \/ \E b \in Batch, name \in {"request", "processing", "fail", "error"} : Emits(name, b)
    BY <1>1, <1>4, EventSteps
  <2>2. \A b \in Batch : Once(b, {"complete"})' /\ (Silent(b, {"complete"}) => Silent(b, {"complete"})')
    BY <1>1, <1>2, <2>1, MovedOnce, EmittedOnce
  <2>3. ASSUME pc' = "save", job' \in Batch PROVE Silent(job', {"complete"})
    <3>1. CASE pc = "save" /\ job' = job
      BY <1>2, <2>3, <3>1
    <3>2. CASE CheckForTimeConflicts
      <4>1. job' = job /\ ~Completed(job)
        BY <2>3, <3>2, AcceptedIsNew, CompletedHasShowtimes DEF CheckForTimeConflicts
      <4>2. QED
        BY <4>1, AnnouncedMeans DEF Silent, Completed
    <3>3. QED
      BY <1>1, <2>3, <3>1, <3>2, StepsAreQuiet DEF Quiet, SaveShowtime
  <2>4. QED
    BY <2>2, <2>3 DEF CompletedOnce
<1>5. QED
  BY <1>3, <1>4

(* A set of at most one element has at most that cardinality.  *)
LEMMA CardinalityOfOne ==
    ASSUME NEW S, AtMostOne(S)
    PROVE  Cardinality(S) \in {0, 1} /\ (S = {} => Cardinality(S) = 0)
<1>1. CASE S = {}
  BY <1>1, FS_EmptySet
<1>2. CASE S # {}
  <2>1. PICK x : x \in S
    BY <1>2
  <2>2. S = {x}
    BY <2>1 DEF AtMostOne
  <2>3. QED
    BY <2>2, FS_Singleton
<1>3. QED
  BY <1>1, <1>2

LEMMA CompletedOnceMeans == CompletedOnce => AtMostOneComplete
<1> SUFFICES ASSUME CompletedOnce, NEW b \in Batch
             PROVE  Cardinality(Sent(b, {"complete"})) + Cardinality(Due(b, {"complete"})) <= 1
  BY DEF AtMostOneComplete, Sent, Due
<1>1. Once(b, {"complete"})
  BY DEF CompletedOnce
<1>2. QED
  BY <1>1, CardinalityOfOne DEF Once

(* A batch is completed at most once, counting the event that is still due.     *)
THEOREM CompletedAtMostOnce == Spec => []AtMostOneComplete
BY InitCompletedOnce, NextCompletedOnce, CompletedOnceMeans, InitSlots, NextSlots, InitComplete,
   NextComplete, PTL DEF Spec

----------------------------------------------------------------------------
(* The order of the statuses, as long as the job of the batch has not stalled.  *)

Begin == {"processing"}

Verdicts == {"complete", "fail", "error"}

Orderly(b) ==
    /\ Once(b, Begin)
    /\ Once(b, Verdicts)
    /\ \A i \in Sent(b, Begin), j \in Sent(b, Verdicts) : i < j
    /\ \A i \in Due(b, Begin), j \in Due(b, Verdicts) : i < j
    /\ Sent(b, Verdicts) # {} => Due(b, Begin) = {}
    /\ Silent(b, Begin) => Silent(b, Verdicts)
    /\ runs[b] = 0 => Silent(b, Begin)
    /\ job = b => ~Silent(b, Begin)
    /\ job = b /\ pc # "return" => Silent(b, Verdicts)

StatusInv == \A b \in Batch : stalls[b] = 0 => Orderly(b)

LEMMA StallsGrow ==
    ASSUME Typed, [Next]_vars, NEW b \in Batch, stalls'[b] = 0
    PROVE  stalls[b] = 0
<1>1. stalls' = stalls \/ \E c \in Batch : stalls' = [stalls EXCEPT ![c] = @ + 1]
  BY DEF Next, LocalNext, Work, CreateShowtimes, DeleteMovie, DeleteTheater, Deliver, OnRequestEvent,
         OnProcessingEvent, OnCompleteEvent, OnFailEvent, OnErrorEvent, OnStatusEvent, QueueAdd,
         SendWaiting, StartJob, CheckMovieExists, CheckTheatersExist, CheckForTimeConflicts,
         SaveShowtime, ShowtimesSaved, FinishJob, FailJob, DatabaseFails, CheckStalled,
         RequeueStalled, FailStalled, LockLapses, Crash, Queue!Add, Queue!Take, Queue!Settle,
         Queue!Requeue, Queue!GiveUp, Queue!LoseLock, Queue!LoseAllLocks, queueVars, vars
<1>2. stalls \in [Batch -> Nat]
  BY DEF Typed, TypeOK, Queue!QueueTypeOK
<1>3. QED
  BY <1>1, <1>2

LEMMA OrderlyMoved ==
    ASSUME Typed, Typed', Moves, NEW b \in Batch, Orderly(b), runs' = runs,
           pc' = "idle" \/ (job' = job /\ (pc = "return" => pc' = "return"))
    PROVE  Orderly(b)'
<1>1. /\ Once(b, Begin)' /\ (Silent(b, Begin) => Silent(b, Begin)')
      /\ Once(b, Verdicts)' /\ (Silent(b, Verdicts) => Silent(b, Verdicts)')
  BY MovedOnce DEF Orderly, Begin, Verdicts
<1>2. job' = b => job = b /\ (pc' # "return" => pc # "return")
  BY NoBatchAssumption DEF Typed, TypeOK
<1>3. /\ \A i \in Sent(b, Begin)', j \in Sent(b, Verdicts)' : i < j
      /\ \A i \in Due(b, Begin)', j \in Due(b, Verdicts)' : i < j
      /\ Sent(b, Verdicts)' # {} => Due(b, Begin)' = {}
      /\ Silent(b, Begin)' => Silent(b, Verdicts)'
      /\ job' = b => ~Silent(b, Begin)'
  <2>1. CASE (bus' = bus \/ (bus' = <<>> /\ pc' = "idle")) /\ sse' = sse
    <3>1. \/ Due(b, Begin)' = Due(b, Begin) /\ Due(b, Verdicts)' = Due(b, Verdicts)
          \/ Due(b, Begin)' = {} /\ Due(b, Verdicts)' = {} /\ job' # b
      BY <2>1, DueSame, DueLost, NoBatchAssumption DEF Typed, TypeOK
    <3>2. Sent(b, Begin)' = Sent(b, Begin) /\ Sent(b, Verdicts)' = Sent(b, Verdicts)
      BY <2>1, SentSame
    <3>3. QED
      BY <1>2, <3>1, <3>2 DEF Orderly, Silent
  <2>2. CASE bus' = bus /\ \E c \in Batch : SendEvent(c, "waiting", {})
    <3>1. "waiting" \notin Begin /\ "waiting" \notin Verdicts
      BY DEF Begin, Verdicts
    <3>2. Sent(b, Begin)' = Sent(b, Begin) /\ Sent(b, Verdicts)' = Sent(b, Verdicts)
      BY <2>2, <3>1, SentNext
    <3>3. QED
      BY <1>2, <2>2, <3>2, DueSame DEF Orderly, Silent
  <2>3. CASE /\ bus # <<>> /\ bus' = Tail(bus)
             /\ \/ sse' = sse /\ Head(bus).name = "request"
                \/ SendEvent(Head(bus).batch, Head(bus).name, Head(bus).shows)
    <3>1. /\ \A i \in Due(b, Begin)' : i + 1 \in Due(b, Begin) /\ i \in Nat \ {0}
          /\ \A i \in Due(b, Verdicts)' : i + 1 \in Due(b, Verdicts) /\ i \in Nat \ {0}
          /\ \A i \in Due(b, Begin) : i = 1 \/ i - 1 \in Due(b, Begin)'
          /\ \A i \in Due(b, Verdicts) : i = 1 \/ i - 1 \in Due(b, Verdicts)'
          /\ 1 \in Due(b, Begin) <=> (b = Head(bus).batch /\ Head(bus).name \in Begin)
          /\ 1 \in Due(b, Verdicts) <=> (b = Head(bus).batch /\ Head(bus).name \in Verdicts)
      BY <2>3, DeliveredDue DEF Due
    <3>2. /\ \A i \in Due(b, Begin) \cup Due(b, Verdicts) : i \in Nat \ {0}
          /\ \A i \in Sent(b, Begin) \cup Sent(b, Verdicts) : i \in Nat /\ i < Len(sse[b]) + 1
          /\ Len(sse[b]) \in Nat
      BY PositionsAreNumbers
    <3>3. \A i \in Due(b, Begin)', j \in Due(b, Verdicts)' : i < j
      BY <3>1, <3>2 DEF Orderly
    <3>4. CASE sse' = sse /\ Head(bus).name = "request"
      <4>1. Sent(b, Begin)' = Sent(b, Begin) /\ Sent(b, Verdicts)' = Sent(b, Verdicts)
        BY <3>4, SentSame
      <4>2. 1 \notin Due(b, Begin) /\ 1 \notin Due(b, Verdicts)
        BY <3>1, <3>4 DEF Begin, Verdicts
      <4>3. QED
        BY <1>2, <3>1, <3>3, <4>1, <4>2 DEF Orderly, Silent
    <3>5. CASE SendEvent(Head(bus).batch, Head(bus).name, Head(bus).shows)
      <4>1. /\ IF 1 \in Due(b, Begin)
               THEN Sent(b, Begin)' = Sent(b, Begin) \cup {Len(sse[b]) + 1}
               ELSE Sent(b, Begin)' = Sent(b, Begin)
            /\ IF 1 \in Due(b, Verdicts)
               THEN Sent(b, Verdicts)' = Sent(b, Verdicts) \cup {Len(sse[b]) + 1}
               ELSE Sent(b, Verdicts)' = Sent(b, Verdicts)
        BY <2>3, <3>5, DeliveredSent
      <4>2. CASE 1 \in Due(b, Begin)
        <5>1. Sent(b, Verdicts) = {} /\ Sent(b, Begin) = {} /\ 1 \notin Due(b, Verdicts)
          BY <3>1, <4>2 DEF Orderly, Once, Begin, Verdicts
        <5>2. QED
          BY <3>3, <4>1, <4>2, <5>1 DEF Silent
      <4>3. CASE 1 \in Due(b, Verdicts)
        <5>1. Due(b, Begin) = {}
          BY <3>2, <4>3 DEF Orderly
        <5>2. Due(b, Begin)' = {} /\ Sent(b, Begin)' = Sent(b, Begin)
          BY <3>1, <4>1, <5>1
        <5>3. QED
          BY <1>2, <3>2, <3>3, <4>1, <4>3, <5>1, <5>2 DEF Orderly, Silent
      <4>4. CASE 1 \notin Due(b, Begin) /\ 1 \notin Due(b, Verdicts)
        BY <1>2, <3>1, <3>3, <4>1, <4>4 DEF Orderly, Silent
      <4>5. QED
        BY <4>2, <4>3, <4>4
    <3>6. QED
      BY <2>3, <3>4, <3>5
  <2>4. QED
    BY <2>1, <2>2, <2>3 DEF Moves
<1>4. QED
  BY <1>1, <1>2, <1>3 DEF Orderly

LEMMA OrderlyOther ==
    ASSUME Typed, NEW b \in Batch, Orderly(b), NEW c \in Batch,
           NEW name \in {"request", "processing", "complete", "fail", "error"}, Emits(name, c),
           c # b \/ name = "request",
           runs'[b] = runs[b], job' = b => job = b /\ (pc' # "return" => pc # "return")
    PROVE  Orderly(b)'
<1>1. /\ Due(b, Begin)' = Due(b, Begin) /\ Sent(b, Begin)' = Sent(b, Begin)
      /\ Due(b, Verdicts)' = Due(b, Verdicts) /\ Sent(b, Verdicts)' = Sent(b, Verdicts)
  <2>1. c # b \/ name \notin Begin
    BY DEF Begin
  <2>2. c # b \/ name \notin Verdicts
    BY DEF Verdicts
  <2>3. QED
    BY <2>1, <2>2, EmittedDue, SentSame DEF Emits
<1>2. QED
  BY <1>1 DEF Orderly, Once, Silent, AtMostOne

LEMMA OrderlyBegun ==
    ASSUME QueueInv, NEW b \in Batch, stalls[b] = 0, Orderly(b), StartJob(b), Emits("processing", b)
    PROVE  Orderly(b)'
<1>1. Typed /\ runs[b] = 0
  <2>1. wait # <<>> /\ b = Head(wait) /\ wait \in Seq(Batch)
    BY DEF StartJob, Queue!Take, QueueInv, Typed, TypeOK, Queue!QueueTypeOK
  <2>2. InWait(b)
    BY <2>1 DEF InWait
  <2>3. QED
    BY <2>2 DEF QueueInv, RunsBounded, Typed, TypeOK
<1>2. Silent(b, Begin) /\ Silent(b, Verdicts)
  BY <1>1 DEF Orderly
<1>3. /\ Due(b, Begin)' = Due(b, Begin) \cup {Len(bus) + 1} /\ Sent(b, Begin)' = Sent(b, Begin)
      /\ Due(b, Verdicts)' = Due(b, Verdicts) /\ Sent(b, Verdicts)' = Sent(b, Verdicts)
  <2>1. "processing" \in Begin /\ "processing" \notin Verdicts
    BY DEF Begin, Verdicts
  <2>2. QED
    BY <1>1, <2>1, EmittedDue, SentSame DEF Emits
<1>4. runs'[b] # 0 /\ pc' = "movie"
  BY <1>1 DEF StartJob, Typed, TypeOK
<1>5. QED
  BY <1>2, <1>3, <1>4 DEF Orderly, Once, Silent, AtMostOne

LEMMA OrderlyEnded ==
    ASSUME Typed, NEW b \in Batch, Orderly(b), NEW name \in Verdicts, Emits(name, b),
           job = b, pc # "return", runs' = runs, job' # b \/ pc' = "return"
    PROVE  Orderly(b)'
<1>1. Silent(b, Verdicts) /\ ~Silent(b, Begin)
  BY DEF Orderly
<1>2. /\ Due(b, Verdicts)' = Due(b, Verdicts) \cup {Len(bus) + 1}
      /\ Sent(b, Verdicts)' = Sent(b, Verdicts)
      /\ Due(b, Begin)' = Due(b, Begin) /\ Sent(b, Begin)' = Sent(b, Begin)
  <2>1. name \notin Begin /\ name \in {"request", "processing", "complete", "fail", "error"}
    BY DEF Begin, Verdicts
  <2>2. QED
    BY <2>1, EmittedDue, SentSame DEF Emits
<1>3. \A i \in Due(b, Begin) : i < Len(bus) + 1
  BY PositionsAreNumbers
<1>4. QED
  BY <1>1, <1>2, <1>3 DEF Orderly, Once, Silent, AtMostOne

LEMMA InitStatus == Init => StatusInv
<1>1. ASSUME Init PROVE \A b \in Batch : \A N : Silent(b, N)
  BY <1>1 DEF Init, Silent, Due, Sent
<1>2. QED
  <2>1. ASSUME Init PROVE \A b \in Batch : job # b
    BY <2>1, NoBatchAssumption DEF Init
  <2>2. \A b, N : Silent(b, N) => Once(b, N)
    BY DEF Silent, Once, AtMostOne
  <2>3. \A b : Silent(b, Begin) => Due(b, Begin) = {} /\ Sent(b, Begin) = {}
    BY DEF Silent
  <2>4. QED
    BY <1>1, <2>1, <2>2, <2>3 DEF StatusInv, Orderly

LEMMA NextStatus ==
    ASSUME QueueInv, QueueInv', StatusInv, [Next]_vars
    PROVE  StatusInv'
<1> SUFFICES ASSUME NEW b \in Batch, stalls'[b] = 0 PROVE Orderly(b)'
  BY DEF StatusInv
<1>1. Typed /\ Typed'
  BY DEF QueueInv
<1>2. stalls[b] = 0 /\ Orderly(b)
  BY <1>1, StallsGrow DEF StatusInv
<1>3. CASE /\ Moves
           /\ runs' = runs
           /\ pc' = "idle" \/ (job' = job /\ (pc = "return" => pc' = "return"))
  BY <1>1, <1>2, <1>3, OrderlyMoved
<1>4. ASSUME NEW c \in Batch, Emits("request", c), UNCHANGED <<pc, job, runs>> PROVE Orderly(b)'
  BY <1>1, <1>2, <1>4, OrderlyOther
<1>5. ASSUME NEW c \in Batch, StartJob(c), Emits("processing", c) PROVE Orderly(b)'
  <2>1. CASE c = b
    BY <1>2, <1>5, <2>1, OrderlyBegun
  <2>2. CASE c # b
    <3>1. job' = c /\ runs'[b] = runs[b]
      BY <1>1, <1>5, <2>2 DEF StartJob, Typed, TypeOK
    <3>2. QED
      BY <1>1, <1>2, <1>5, <2>2, <3>1, OrderlyOther
  <2>3. QED
    BY <2>1, <2>2
<1>6. ASSUME NEW name \in Verdicts, job \in Batch, Emits(name, job), pc # "return", runs' = runs,
             job' # job \/ pc' = "return", job' # b \/ job = b
      PROVE  Orderly(b)'
  <2>1. CASE job = b
    BY <1>1, <1>2, <1>6, <2>1, OrderlyEnded
  <2>2. CASE job # b
    BY <1>1, <1>2, <1>6, <2>2, OrderlyOther DEF Verdicts
  <2>3. QED
    BY <2>1, <2>2
<1>7. CASE \/ CheckForTimeConflicts /\ job \in Batch /\ pc' = "return" /\ Emits("fail", job)
           \/ ShowtimesSaved /\ job \in Batch /\ Emits("complete", job)
           \/ FailJob /\ job \in Batch /\ Emits("error", job)
  BY <1>6, <1>7, NoBatchAssumption
     DEF CheckForTimeConflicts, ShowtimesSaved, FailJob, Idle, Verdicts
<1>8. ASSUME NEW c \in Batch, FailStalled(c), Emits("error", c) PROVE Orderly(b)'
  <2>1. UNCHANGED <<pc, job, runs>> /\ stalls' = [stalls EXCEPT ![c] = @ + 1]
    BY <1>8 DEF FailStalled, workerVars, Queue!GiveUp
  <2>2. c # b
    BY <1>1, <2>1 DEF Typed, TypeOK, Queue!QueueTypeOK
  <2>3. QED
    BY <1>1, <1>2, <1>8, <2>1, <2>2, OrderlyOther
<1>9. QED
  BY <1>1, <1>3, <1>4, <1>5, <1>7, <1>8, EventSteps

(* The statuses of a batch whose job never stalled: `processing' before the     *)
(* verdict, and each once.                                                      *)
THEOREM StatusesInOrder == Spec => []StatusOrder
<1>1. Init => StatusInv
  BY InitStatus
<1>2. Typed /\ StatusInv => StatusOrder
  <2> SUFFICES ASSUME Typed, StatusInv, NEW b \in Batch, stalls[b] = 0
               PROVE  LET steps == {i \in DOMAIN sse[b] : sse[b][i].status # "waiting"}
                          processing == {i \in steps : sse[b][i].status = "processing"}
                      IN  /\ \A i, j \in steps : i < j => i \in processing /\ j \notin processing
                          /\ \A j \in steps \ processing : \E i \in steps : i < j
    BY DEF StatusOrder
  <2> DEFINE steps == {i \in DOMAIN sse[b] : sse[b][i].status # "waiting"}
             processing == {i \in steps : sse[b][i].status = "processing"}
  <2> SUFFICES /\ \A i, j \in steps : i < j => i \in processing /\ j \notin processing
               /\ \A j \in steps \ processing : \E i \in steps : i < j
    OBVIOUS
  <2>1. Orderly(b) /\ sse[b] \in Seq(Status)
    BY DEF StatusInv, Typed, TypeOK
  <2>2. \A i \in DOMAIN sse[b] : sse[b][i].status \in {"waiting", "processing", "complete", "fail", "error"}
    <3>1. \A i \in DOMAIN sse[b] : sse[b][i] \in Status
      BY <2>1
    <3>2. QED
      BY <3>1 DEF Status
  <2>3. processing = Sent(b, Begin) /\ steps = processing \cup Sent(b, Verdicts)
        /\ steps \ processing = Sent(b, Verdicts)
    BY <2>2 DEF Sent, Begin, Verdicts
  <2>4. \A i \in steps : i \in Nat
    BY <2>1
  <2> HIDE DEF steps, processing
  <2>5. QED
    BY <2>1, <2>3, <2>4 DEF Orderly, Once, Silent, AtMostOne
<1>3. QED
  BY <1>1, <1>2, NextStatus, JobsQueuedOnce, PTL DEF Spec, QueueInv

----------------------------------------------------------------------------
(* A batch refused before its job ever stalled has nothing registered.          *)

RefusedInv ==
    \A b \in Batch : stalls[b] = 0 /\ ~Silent(b, {"fail"}) => \A s \in showtimes : s.batch # b

LEMMA NextRefused ==
    ASSUME RunInv, QueueInv, StatusInv, RefusedInv, [Next]_vars
    PROVE  RefusedInv'
<1> SUFFICES ASSUME NEW b \in Batch, stalls'[b] = 0, ~Silent(b, {"fail"})', NEW s \in showtimes'
             PROVE  s.batch # b
  BY DEF RefusedInv
<1>1. Typed /\ SlotInv /\ CompleteInv /\ PriorRuns /\ RunsBounded /\ stalls[b] = 0 /\ Orderly(b)
  BY StallsGrow DEF RunInv, QueueInv, StatusInv
<1>2. Silent(b, Verdicts) => Silent(b, {"fail"})
  BY DEF Silent, Due, Sent, Verdicts
<1>3. CASE \E k \in todo : SaveShowtime(k)
  <2>1. PICK k \in todo : SaveShowtime(k)
    BY <1>3
  <2>2. /\ pc = "save" /\ showtimes' = showtimes \cup {k}
        /\ bus' = bus /\ sse' = sse
    BY <2>1 DEF SaveShowtime, busVars
  <2>3. ~Silent(b, {"fail"})
    BY <2>2, DueSame, SentSame DEF Silent
  <2>4. job # b
    BY <1>1, <1>2, <2>2, <2>3 DEF Orderly
  <2>5. k.batch = job
    BY <1>1, <2>2, NewShowtimesType DEF SlotInv, FreshSlots, Typed, TypeOK, Known
  <2>6. QED
    BY <1>1, <2>2, <2>3, <2>4, <2>5 DEF RefusedInv
<1>4. CASE showtimes' = showtimes /\ Silent(b, {"fail"})
  <2>1. CheckForTimeConflicts /\ job = b
    BY <1>1, <1>4, EventSteps, MovedOnce, EmittedOnce
  <2>2. pc = "conflicts" /\ run = runs[b] /\ runs[b] <= 1
    BY <1>1, <2>1, NoBatchAssumption DEF CheckForTimeConflicts, CompleteInv, Numbered, RunsBounded
  <2>3. s.batch = b => s.run \in 1..runs[b] /\ s.run < run
    BY <1>4, <1>1, <2>1, <2>2 DEF PriorRuns
  <2>4. runs[b] \in Nat
    BY <1>1 DEF Typed, TypeOK
  <2>5. QED
    BY <2>2, <2>3, <2>4
<1>5. CASE showtimes' = showtimes /\ ~Silent(b, {"fail"})
  BY <1>1, <1>5 DEF RefusedInv
<1>6. QED
  BY <1>1, <1>3, <1>4, <1>5, StepsAreQuiet DEF Quiet, CheckForTimeConflicts

(* As long as its job has not stalled, a refused batch has nothing registered.  *)
THEOREM RefusedSavesNothing == Spec => []RefusedBatchSavesNothing
<1>1. Init => RefusedInv
  BY DEF Init, RefusedInv
<1>2. RefusedInv => RefusedBatchSavesNothing
  BY AnnouncedMeans DEF RefusedInv, RefusedBatchSavesNothing, Silent
<1>3. Init => StatusInv
  BY InitStatus
<1>4. QED
  BY <1>1, <1>2, <1>3, InitRun, NextRun, InitQueue, NextQueue, NextStatus, NextRefused, PTL DEF Spec

----------------------------------------------------------------------------
(* What a `fail' reports.                                                       *)

Fits(b, shows) ==
    /\ request[b] \in Dtos
    /\ shows # {}
    /\ \A s \in shows :
          /\ s \in showtimes
          /\ \E n \in DOMAIN request[b].starts : Touches(s, request[b], n)
          /\ \E i \in DOMAIN request[b].theaters : s.theater = request[b].theaters[i]
          /\ s.batch = b => stalls[b] > 0

FailInv ==
    /\ \A b \in Batch : \A i \in DOMAIN sse[b] :
          sse[b][i].status = "fail" => Fits(b, sse[b][i].shows)
    /\ \A i \in DOMAIN bus :
          bus[i].name = "fail" => Fits(bus[i].batch, bus[i].shows)

(* The contents of the bus and of the streams after a step.  *)
LEMMA EmittedAt ==
    ASSUME Typed, NEW name \in {"request", "processing", "complete", "fail", "error"},
           NEW b \in Batch, NEW shows \in SUBSET Showtime, Emit(name, b, shows)
    PROVE  \A i \in DOMAIN bus' :
              \/ i \in DOMAIN bus /\ bus'[i] = bus[i]
              \/ bus'[i].name = name /\ bus'[i].batch = b /\ bus'[i].shows = shows
<1> DEFINE e == [name |-> name, batch |-> b, shows |-> shows]
<1>1. bus \in Seq(Event) /\ e \in Event /\ bus' = Append(bus, e)
  BY DEF Typed, TypeOK, Event, Emit
<1>2. e.name = name /\ e.batch = b /\ e.shows = shows
  OBVIOUS
<1> HIDE DEF e
<1>3. \A i \in DOMAIN bus' : (i \in DOMAIN bus /\ bus'[i] = bus[i]) \/ bus'[i] = e
  BY <1>1
<1>4. QED
  BY <1>2, <1>3

LEMMA SentAt ==
    ASSUME Typed, NEW b \in Batch, NEW status, NEW shows, SendEvent(b, status, shows)
    PROVE  \A c \in Batch : \A i \in DOMAIN sse'[c] :
              \/ i \in DOMAIN sse[c] /\ sse'[c][i] = sse[c][i]
              \/ c = b /\ sse'[c][i].status = status /\ sse'[c][i].shows = shows
<1> DEFINE e == [status |-> status, shows |-> shows]
<1>1. sse \in [Batch -> Seq(Status)] /\ sse' = [sse EXCEPT ![b] = Append(sse[b], e)]
  BY DEF Typed, TypeOK, SendEvent
<1>2. e.status = status /\ e.shows = shows
  OBVIOUS
<1> HIDE DEF e
<1>3. \A c \in Batch : c # b => sse'[c] = sse[c]
  BY <1>1
<1>4. sse'[b] = Append(sse[b], e) /\ sse[b] \in Seq(Status)
  BY <1>1
<1>5. \A i \in DOMAIN sse'[b] : (i \in DOMAIN sse[b] /\ sse'[b][i] = sse[b][i]) \/ sse'[b][i] = e
  BY <1>4
<1>6. QED
  BY <1>2, <1>3, <1>5

(* What fits a batch goes on to fit: showtimes are kept and stalls only grow.   *)
LEMMA FitsStill ==
    ASSUME RunInv, [Next]_vars, NEW b \in Batch, NEW shows, Fits(b, shows)
    PROVE  Fits(b, shows)'
<1>1. Typed /\ showtimes \subseteq showtimes' /\ request'[b] = request[b]
  <2>1. Typed
    BY DEF RunInv, SlotInv
  <2>2. QED
    BY <2>1, StepsAreQuiet DEF Fits, Quiet, CheckForTimeConflicts, SaveShowtime
<1>2. stalls \in [Batch -> Nat] /\ stalls'[b] \in Nat
  <2>1. Typed'
    BY <1>1, NextTyped
  <2>2. QED
    BY <1>1, <2>1 DEF Typed, TypeOK, Queue!QueueTypeOK
<1>3. stalls[b] > 0 => stalls'[b] > 0
  BY <1>1, <1>2, StallsGrow
<1>4. QED
  BY <1>1, <1>3 DEF Fits, Touches, EndTime

(* The check reports showtimes that fit; they are the batch's own only when its *)
(* job runs for the second time.                                                *)
LEMMA ReportedFit ==
    ASSUME RunInv, QueueInv, CheckForTimeConflicts, ConflictShowtimes(showtimes, request[job]) # {}
    PROVE  Fits(job, ConflictShowtimes(showtimes, request[job]))
<1> DEFINE conflicts == ConflictShowtimes(showtimes, request[job])
<1>1. /\ pc = "conflicts" /\ job \in Batch /\ request[job] \in Dtos
      /\ run = runs[job] /\ run \in Nat /\ stalls[job] \in Nat
      /\ runs[job] <= stalls[job] + 1
  BY DEF CheckForTimeConflicts, RunInv, SlotInv, CompleteInv, Numbered, QueueInv, RunsBounded,
         Typed, TypeOK, Known, Queue!QueueTypeOK
<1>2. \A s \in showtimes : IsShowtime(s)
  <2>1. \A s \in showtimes : s.batch \in Batch /\ s.run \in Nat /\ request[s.batch] \in Dtos
                             /\ s \in NewShowtimes(s.batch, s.run)
    BY DEF RunInv, SlotInv, Typed, TypeOK, Known, Showtime, OwnSlots
  <2>2. QED
    BY <2>1, NewShowtimesType
<1>3. ASSUME NEW s \in conflicts
      PROVE  /\ s \in showtimes
             /\ \E i \in DOMAIN request[job].theaters : s.theater = request[job].theaters[i]
             /\ \E n \in DOMAIN request[job].starts : Touches(s, request[job], n)
  BY <1>1, <1>2, <1>3, DtosAreRequests, ReportedConflictsAreReal
<1>4. ASSUME NEW s \in showtimes, s.batch = job PROVE stalls[job] > 0
  <2>1. s.run \in 1..runs[job] /\ s.run < run
    BY <1>1, <1>4 DEF RunInv, PriorRuns
  <2>2. QED
    BY <1>1, <2>1
<1>5. QED
  BY <1>1, <1>3, <1>4 DEF Fits

LEMMA NextFail ==
    ASSUME RunInv, QueueInv, FailInv, [Next]_vars
    PROVE  FailInv'
<1>1. Typed /\ (\A i \in DOMAIN bus : bus[i].batch \in Batch)
  <2>1. Typed /\ bus \in Seq(Event)
    BY DEF QueueInv, Typed, TypeOK
  <2>2. \A i \in DOMAIN bus : bus[i] \in Event
    BY <2>1
  <2>3. QED
    BY <2>1, <2>2 DEF Event
<1>2. \A b \in Batch : \A shows : Fits(b, shows) => Fits(b, shows)'
  BY FitsStill
<1> DEFINE SentFit == \A b \in Batch : \A i \in DOMAIN sse'[b] :
                         sse'[b][i].status = "fail" => Fits(b, sse'[b][i].shows)
           DueFit == \A i \in DOMAIN bus' :
                        bus'[i].name = "fail" => bus'[i].batch \in Batch /\ Fits(bus'[i].batch, bus'[i].shows)
<1>3. SUFFICES SentFit /\ DueFit
  BY <1>2 DEF FailInv
<1>4. sse' = sse => SentFit
  BY DEF FailInv
<1>5. bus' = bus => DueFit
  BY <1>1 DEF FailInv
<1> HIDE DEF SentFit, DueFit
<1>6. CASE bus' = <<>> /\ sse' = sse
  BY <1>4, <1>6 DEF DueFit
<1>7. CASE bus' = bus /\ \E b \in Batch : SendEvent(b, "waiting", {})
  <2>1. SentFit
    BY <1>1, <1>7, SentAt DEF FailInv, SentFit
  <2>2. QED
    BY <1>5, <1>7, <2>1
<1>8. CASE /\ bus # <<>> /\ bus' = Tail(bus)
           /\ sse' = sse \/ SendEvent(Head(bus).batch, Head(bus).name, Head(bus).shows)
  <2>1. DueFit
    BY <1>1, <1>8, DeliveredDue DEF FailInv, DueFit
  <2>2. CASE SendEvent(Head(bus).batch, Head(bus).name, Head(bus).shows)
    <3>1. 1 \in DOMAIN bus /\ Head(bus) = bus[1]
      BY <1>1, <1>8 DEF Typed, TypeOK
    <3>2. PICK c, n, sh : /\ c \in Batch /\ c = bus[1].batch
                          /\ n = bus[1].name /\ sh = bus[1].shows
                          /\ SendEvent(c, n, sh)
      BY <1>1, <2>2, <3>1
    <3>3. n = "fail" => Fits(c, sh)
      BY <3>1, <3>2 DEF FailInv
    <3>4. SentFit
      BY <1>1, <3>2, <3>3, SentAt DEF FailInv, SentFit
    <3>5. QED
      BY <2>1, <3>4
  <2>3. CASE sse' = sse
    BY <1>4, <2>1, <2>3
  <2>4. QED
    BY <1>8, <2>2, <2>3
<1>9. ASSUME NEW b \in Batch, NEW name \in {"request", "processing", "complete", "error"}, Emits(name, b)
      PROVE  SentFit /\ DueFit
  <2>1. DueFit
    BY <1>1, <1>9, EmittedAt DEF Emits, FailInv, DueFit
  <2>2. QED
    BY <1>4, <1>9, <2>1 DEF Emits
<1>10. CASE CheckForTimeConflicts /\ job \in Batch /\ pc' = "return" /\ Emits("fail", job)
  <2> DEFINE conflicts == ConflictShowtimes(showtimes, request[job])
  <2>1. conflicts # {} /\ Emit("fail", job, conflicts) /\ conflicts \in SUBSET Showtime
    BY <1>1, <1>10, ConflictsAreShowtimes DEF CheckForTimeConflicts, Typed, TypeOK
  <2>2. Fits(job, conflicts)
    BY <1>10, <2>1, ReportedFit
  <2> HIDE DEF conflicts
  <2>3. DueFit
    BY <1>1, <1>10, <2>1, <2>2, EmittedAt DEF FailInv, DueFit
  <2>4. QED
    BY <1>4, <1>10, <2>3 DEF Emits
<1>11. QED
  BY <1>1, <1>4, <1>5, <1>6, <1>7, <1>8, <1>9, <1>10, EventSteps DEF Moves

(* A `fail' reports registered showtimes that meet the request.                 *)
THEOREM FailuresReportConflicts == Spec => []FailReportsConflicts
<1>1. Init => FailInv
  BY DEF Init, FailInv
<1>2. FailInv => FailReportsConflicts
  BY DEF FailInv, FailReportsConflicts, Statuses, Fits, Touches
<1>3. QED
  BY <1>1, <1>2, InitRun, NextRun, InitQueue, NextQueue, NextFail, PTL DEF Spec

----------------------------------------------------------------------------
(* The registration implements the ledger of slots.                             *)

At(s, slot) == s.theater = slot[1] /\ s.start = slot[2]

(* The owner that a collection gives a slot. *)
OwnerOf(taken) ==
    IF taken = {} THEN <<>> ELSE LET s == CHOOSE s \in taken : TRUE IN <<s.batch, s.run>>

OwnerIn(shows, slot) == OwnerOf({s \in shows : At(s, slot)})

LEMMA OwnerIsThat ==
    ASSUME NEW shows, NEW slot, NEW s \in shows, At(s, slot),
           \A t \in shows : At(t, slot) => t.batch = s.batch /\ t.run = s.run
    PROVE  OwnerIn(shows, slot) = <<s.batch, s.run>>
<1> DEFINE taken == {t \in shows : At(t, slot)}
           c == CHOOSE t \in taken : TRUE
<1>1. taken # {}
  OBVIOUS
<1>2. c \in taken
  BY <1>1
<1>3. OwnerIn(shows, slot) = <<c.batch, c.run>>
  BY <1>1 DEF OwnerIn, OwnerOf
<1>4. QED
  BY <1>2, <1>3

LEMMA OwnersOfSlots ==
    /\ SlotOwner = [slot \in Slots |-> OwnerIn(showtimes, slot)]
    /\ SlotOwner' = [slot \in Slots |-> OwnerIn(showtimes', slot)]
BY DEF SlotOwner, OwnerIn, OwnerOf, At

(* An insertion assigns the slot, or finds it assigned to its own run.          *)
LEMMA InsertionAssigns ==
    ASSUME RunInv, QueueInv, NEW k \in todo, SaveShowtime(k)
    PROVE  [Ledger!LedgerNext]_SlotOwner
<1> DEFINE slot == <<k.theater, k.start>>
           owner == <<job, run>>
<1>1. /\ pc = "save" /\ showtimes' = showtimes \cup {k}
      /\ job \in Batch /\ request[job] \in Dtos /\ run \in Nat
      /\ k \in NewShowtimes(job, run)
      /\ \A s \in showtimes : SameSlot(s, k) => s.batch = job /\ s.run = run
  BY DEF SaveShowtime, RunInv, SlotInv, Typed, TypeOK, Known, FreshSlots
<1>2. /\ k \in Showtime /\ k.batch = job /\ k.run = run
      /\ \E n \in DOMAIN request[job].starts : k.start = request[job].starts[n]
  BY <1>1, NewShowtimesType
<1>3. slot \in Slots
  BY <1>1, <1>2 DEF Slots, Showtime
<1>4. owner \in Owners
  <2>1. run = runs[job] /\ run > 0 /\ runs[job] <= MaxStalledCount + 1
    BY <1>1 DEF RunInv, CompleteInv, Numbered, QueueInv, RunsBounded, Typed, TypeOK
  <2>2. run \in 1..(MaxStalledCount + 1)
    BY <1>1, <2>1, BoundAssumption
  <2>3. QED
    BY <1>1, <2>2 DEF Owners
<1>5. \A s : At(s, slot) <=> SameSlot(s, k)
  BY DEF At, SameSlot
<1>6. OwnerIn(showtimes', slot) = owner
  <2>1. k \in showtimes' /\ At(k, slot)
    BY <1>1, <1>5 DEF SameSlot
  <2>2. \A t \in showtimes' : At(t, slot) => t.batch = k.batch /\ t.run = k.run
    BY <1>1, <1>2, <1>5
  <2> HIDE DEF slot
  <2>3. OwnerIn(showtimes', slot) = <<k.batch, k.run>>
    BY <2>1, <2>2, OwnerIsThat
  <2>4. QED
    BY <1>2, <2>3
<1>7. \A other \in Slots : other # slot => OwnerIn(showtimes', other) = OwnerIn(showtimes, other)
  <2>1. SUFFICES ASSUME NEW other \in Slots, other # slot
                 PROVE  {s \in showtimes' : At(s, other)} = {s \in showtimes : At(s, other)}
    BY DEF OwnerIn
  <2>2. other = <<other[1], other[2]>>
    BY DEF Slots
  <2>3. ~At(k, other)
    BY <2>1, <2>2 DEF At
  <2>4. QED
    BY <1>1, <2>3
<1>8. CASE \E s \in showtimes : At(s, slot)
  <2>1. PICK s \in showtimes : At(s, slot)
    BY <1>8
  <2>2. s.batch = job /\ s.run = run
    BY <1>1, <1>5, <2>1
  <2>3. OwnerIn(showtimes, slot) = owner
    <3>1. \A t \in showtimes : At(t, slot) => t.batch = s.batch /\ t.run = s.run
      BY <1>1, <1>5, <2>2
    <3> HIDE DEF slot
    <3>2. QED
      BY <2>1, <2>2, <3>1, OwnerIsThat
  <2>4. SlotOwner' = SlotOwner
    BY <1>6, <1>7, <2>3, OwnersOfSlots
  <2>5. QED
    BY <2>4
<1>9. CASE \A s \in showtimes : ~At(s, slot)
  <2>1. OwnerIn(showtimes, slot) = <<>>
    BY <1>9 DEF OwnerIn, OwnerOf
  <2>2. SlotOwner[slot] = <<>> /\ SlotOwner' = [SlotOwner EXCEPT ![slot] = owner]
    BY <1>3, <1>6, <1>7, <2>1, OwnersOfSlots
  <2>3. Ledger!Assign(slot, owner)
    BY <2>2 DEF Ledger!Assign
  <2>4. QED
    BY <1>3, <1>4, <2>3 DEF Ledger!LedgerNext
<1>10. QED
  BY <1>8, <1>9

(* Every step of the pipeline, faults included, is a step of the ledger.        *)
THEOREM RegistrationIsLedger == Spec => ImplementsSlotLedger
<1>1. Init => Ledger!LedgerInit
  BY DEF Init, Ledger!LedgerInit, SlotOwner
<1>2. ASSUME RunInv, QueueInv, [Next]_vars PROVE [Ledger!LedgerNext]_SlotOwner
  <2>1. CASE \E k \in todo : SaveShowtime(k)
    BY <1>2, <2>1, InsertionAssigns
  <2>2. CASE showtimes' = showtimes
    BY <2>2, OwnersOfSlots
  <2>3. QED
    BY <1>2, <2>1, <2>2, StepsAreQuiet DEF QueueInv, Quiet, CheckForTimeConflicts
<1>3. QED
  BY <1>1, <1>2, InitRun, NextRun, InitQueue, NextQueue, PTL
     DEF Spec, ImplementsSlotLedger, Ledger!LedgerSpec
=============================================================================
