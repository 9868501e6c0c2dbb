------------------------- MODULE ShowtimesCreation -------------------------
(***************************************************************************)
(* Registration of showtimes: the request handler, the in-process events,  *)
(* the durable queue, its single worker, the showtimes collection and the  *)
(* status stream sent to the clients.                                      *)
(*                                                                         *)
(*   createShowtimes --request--> ShowtimesEventService --add--> queue     *)
(*     queue --job--> ShowtimesCreationService: check movie, theaters and  *)
(*     time conflicts, then save the showtimes one document at a time      *)
(*     --processing/complete/fail/error--> ShowtimesEventService --> SSE   *)
(*                                                                         *)
(* Every await of the code is a point where the other actors may step.     *)
(* The process may crash at any point: the events, the pending additions   *)
(* and the worker are lost, the queue and the collections are not.         *)
(***************************************************************************)
EXTENDS Timeslots, FiniteSets

CONSTANTS
    Batch,              \* batch ids, one for each call of createShowtimes
    Movie,
    Theater,
    Dtos,               \* the requests clients may send (CreateShowtimesDto)
    NoDto,
    NoBatch,
    MaxStalledCount,
    MaxDeletions,       \* bound on the documents deleted by administrators
    MaxCrashes,         \* bound on the crashes of the process
    MaxLapses           \* bound on the locks lost by a living worker

ASSUME DtoAssumption ==
    \A d \in Dtos :
        /\ d \in [movie : Movie, theaters : Seq(Theater),
                  starts : Seq(Nat), duration : Nat \ {0}]
        /\ d.theaters # <<>>
        /\ d.starts # <<>>

ASSUME NoDtoAssumption == NoDto \notin Dtos

ASSUME NoBatchAssumption == NoBatch \notin Batch

ASSUME BoundAssumption ==
    /\ MaxStalledCount \in Nat
    /\ MaxDeletions \in Nat
    /\ MaxCrashes \in Nat
    /\ MaxLapses \in Nat

VARIABLES
    request,            \* the createDto carried by each batch's event and job
    movies, theaters,   \* the movies and theaters in the database
    bus,                \* events emitted and not yet delivered
    adding,             \* queue.add calls sent to Redis, not yet applied
    added,              \* queue.add calls applied, whose await is not over
    wait, active, locked, stalls,       \* the queue `showtimes'
    pc,                 \* where the worker is in _onShowtimesCreateRequest
    job, run,           \* its job, and the number of this run
    runs,               \* how often each batch's job was started
    todo,               \* the documents bulkSave has still to insert
    showtimes,          \* the showtimes collection
    sse,                \* the statuses sent for each batch
    crashes, lapses     \* faults that happened so far

Queue == INSTANCE BullQueue WITH Job <- Batch

dbVars == <<movies, theaters>>
busVars == <<bus, adding, added>>
queueVars == <<wait, active, locked, stalls>>
workerVars == <<pc, job, run, todo, runs>>
faultVars == <<crashes, lapses>>
vars == <<request, dbVars, busVars, queueVars, workerVars, showtimes, sse, faultVars>>

----------------------------------------------------------------------------
(* Data *)

Requested == {b \in Batch : request[b] # NoDto}

\* The documents createShowtimes builds for run r of batch b: one for each
\* theater and each (numbered) start time.
NewShowtimes(b, r) ==
    LET d == request[b]
    IN  {[batch |-> b, run |-> r, theater |-> d.theaters[i], nth |-> n,
          start |-> d.starts[n], end |-> EndTime(d, n)] :
            i \in DOMAIN d.theaters, n \in DOMAIN d.starts}

Showtime == [batch : Batch, run : Nat, theater : Theater, nth : Nat,
             start : Nat, end : Nat]

Event == [name : {"request", "processing", "complete", "fail", "error"},
          batch : Batch, shows : SUBSET Showtime]

Status == [status : {"waiting", "processing", "complete", "fail", "error"},
           shows : SUBSET Showtime]

\* Mutant: the newest event is delivered first.
EmitFirst(name, b, shows) ==
    bus' = <<[name |-> name, batch |-> b, shows |-> shows]>> \o bus

Emit(name, b, shows) ==
    bus' = Append(bus, [name |-> name, batch |-> b, shows |-> shows])

SendEvent(b, status, shows) ==
    sse' = [sse EXCEPT ![b] = Append(@, [status |-> status, shows |-> shows])]

TypeOK ==
    /\ request \in [Batch -> Dtos \cup {NoDto}]
    /\ movies \subseteq Movie
    /\ theaters \subseteq Theater
    /\ bus \in Seq(Event)
    /\ adding \in Seq(Batch)
    /\ added \in Seq(Batch)
    /\ Queue!QueueTypeOK
    /\ pc \in {"idle", "movie", "theaters", "conflicts", "save", "throw", "return"}
    /\ job \in Batch \cup {NoBatch}
    /\ (pc = "idle") <=> (job = NoBatch)
    /\ run \in Nat
    /\ runs \in [Batch -> Nat]
    /\ todo \subseteq Showtime
    /\ showtimes \subseteq Showtime
    /\ sse \in [Batch -> Seq(Status)]
    /\ crashes \in Nat
    /\ lapses \in Nat

Init ==
    /\ request = [b \in Batch |-> NoDto]
    /\ movies = Movie
    /\ theaters = Theater
    /\ bus = <<>>
    /\ adding = <<>>
    /\ added = <<>>
    /\ Queue!QueueInit
    /\ pc = "idle"
    /\ job = NoBatch
    /\ run = 0
    /\ runs = [b \in Batch |-> 0]
    /\ todo = {}
    /\ showtimes = {}
    /\ sse = [b \in Batch |-> <<>>]
    /\ crashes = 0
    /\ lapses = 0

----------------------------------------------------------------------------
(* ShowtimesService and the administration of movies and theaters *)

\* The client is answered with the new batch id; the emit is not awaited.
CreateShowtimes(b, d) ==
    /\ request[b] = NoDto
    /\ request' = [request EXCEPT ![b] = d]
    /\ Emit("request", b, {})
    /\ UNCHANGED <<dbVars, adding, added, queueVars, workerVars, showtimes, sse, faultVars>>

Deletions == Cardinality(Movie \ movies) + Cardinality(Theater \ theaters)

\* Neither deletion looks at the showtimes that refer to the document.
DeleteMovie(m) ==
    /\ Deletions < MaxDeletions
    /\ m \in movies
    /\ movies' = movies \ {m}
    /\ UNCHANGED <<request, theaters, busVars, queueVars, workerVars, showtimes, sse, faultVars>>

DeleteTheater(t) ==
    /\ Deletions < MaxDeletions
    /\ t \in theaters
    /\ theaters' = theaters \ {t}
    /\ UNCHANGED <<request, movies, busVars, queueVars, workerVars, showtimes, sse, faultVars>>

----------------------------------------------------------------------------
(* ShowtimesEventService.  Handlers run in the order the events were emitted. *)

OnRequestEvent(b) ==
    /\ bus # <<>>
    /\ Head(bus).name = "request"
    /\ Head(bus).batch = b
    /\ bus' = Tail(bus)
    /\ adding' = Append(adding, b)
    /\ UNCHANGED <<request, dbVars, added, queueVars, workerVars, showtimes, sse, faultVars>>

\* Redis applies the addition ...
QueueAdd(b) ==
    /\ adding # <<>>
    /\ b = Head(adding)
    /\ adding' = Tail(adding)
    /\ added' = Append(added, b)
    /\ Queue!Add(b)
    /\ UNCHANGED <<request, dbVars, bus, workerVars, showtimes, sse, faultVars>>

\* ... and only when its reply is back is `waiting' sent: by then the worker may
\* have started, or even finished, the job.
SendWaiting(b) ==
    /\ added # <<>>
    /\ b = Head(added)
    /\ added' = Tail(added)
    /\ SendEvent(b, "waiting", {})
    /\ UNCHANGED <<request, dbVars, bus, adding, queueVars, workerVars, showtimes, faultVars>>

OnStatusEvent(name, b) ==
    /\ bus # <<>>
    /\ Head(bus).name = name
    /\ Head(bus).batch = b
    /\ bus' = Tail(bus)
    /\ SendEvent(b, name, Head(bus).shows)
    /\ UNCHANGED <<request, dbVars, adding, added, queueVars, workerVars, showtimes, faultVars>>

OnProcessingEvent(b) == OnStatusEvent("processing", b)
OnCompleteEvent(b) == OnStatusEvent("complete", b)
OnFailEvent(b) == OnStatusEvent("fail", b)
OnErrorEvent(b) == OnStatusEvent("error", b)

----------------------------------------------------------------------------
(* ShowtimesCreationService, the worker *)

\* Bull hands the next job to the processor.
StartJob(b) ==
    /\ pc = "idle"
    /\ Queue!Take(b)
    /\ pc' = "movie"
    /\ job' = b
    /\ runs' = [runs EXCEPT ![b] = @ + 1]
    /\ run' = runs[b] + 1
    /\ Emit("processing", b, {})
    /\ UNCHANGED <<request, dbVars, adding, added, todo, showtimes, sse, faultVars>>

CheckMovieExists ==
    /\ pc = "movie"
    /\ pc' = IF request[job].movie \in movies THEN "theaters" ELSE "throw"
    /\ UNCHANGED <<request, dbVars, busVars, queueVars, job, run, todo, runs, showtimes, sse, faultVars>>

\* existsByIds counts documents: a theater named twice is counted once, so that
\* the request is refused.
TheatersExist(ids) ==
    Cardinality({ids[i] : i \in DOMAIN ids} \cap theaters) = Len(ids)

CheckTheatersExist ==
    /\ pc = "theaters"
    /\ pc' = IF TheatersExist(request[job].theaters) THEN "conflicts" ELSE "throw"
    /\ UNCHANGED <<request, dbVars, busVars, queueVars, job, run, todo, runs, showtimes, sse, faultVars>>

\* Mutant: a redelivered job ignores what its own batch has registered.
CheckForeignConflicts ==
    /\ pc = "conflicts"
    /\ LET conflicts == ConflictShowtimes({s \in showtimes : s.batch # job}, request[job])
       IN  IF conflicts # {}
           THEN /\ Emit("fail", job, conflicts)
                /\ pc' = "return"
                /\ UNCHANGED todo
           ELSE /\ pc' = "save"
                /\ todo' = NewShowtimes(job, run)
                /\ UNCHANGED bus
    /\ UNCHANGED <<request, dbVars, adding, added, queueVars, job, run, runs, showtimes, sse, faultVars>>

\* Mutant: the `else' is missing, a refused request is saved all the same.
CheckWithoutElse ==
    /\ pc = "conflicts"
    /\ LET conflicts == ConflictShowtimes(showtimes, request[job])
       IN  IF conflicts # {} THEN Emit("fail", job, conflicts) ELSE UNCHANGED bus
    /\ pc' = "save"
    /\ todo' = NewShowtimes(job, run)
    /\ UNCHANGED <<request, dbVars, adding, added, queueVars, job, run, runs, showtimes, sse, faultVars>>

\* checkForTimeConflicts reads the showtimes of one theater after the other;
\* only this worker inserts showtimes, so that the reads are one step.
CheckForTimeConflicts ==
    /\ pc = "conflicts"
    /\ LET conflicts == ConflictShowtimes(showtimes, request[job])
       IN  IF conflicts # {}
           THEN /\ Emit("fail", job, conflicts)
                /\ pc' = "return"
                /\ UNCHANGED todo
           ELSE /\ pc' = "save"
                /\ todo' = NewShowtimes(job, run)
                /\ UNCHANGED bus
    /\ UNCHANGED <<request, dbVars, adding, added, queueVars, job, run, runs, showtimes, sse, faultVars>>

\* bulkSave is no transaction: the documents are inserted one by one.
SaveShowtime(s) ==
    /\ pc = "save"
    /\ s \in todo
    /\ showtimes' = showtimes \cup {s}
    /\ todo' = todo \ {s}
    /\ UNCHANGED <<request, dbVars, busVars, queueVars, pc, job, run, runs, sse, faultVars>>

\* Mutant: createShowtimes is not awaited.
ShowtimesNotAwaited ==
    /\ pc = "save"
    /\ Emit("complete", job, {})
    /\ pc' = "return"
    /\ UNCHANGED <<request, dbVars, adding, added, queueVars, job, run, todo, runs, showtimes, sse, faultVars>>

ShowtimesSaved ==
    /\ pc = "save"
    /\ todo = {}
    /\ Emit("complete", job, {})
    /\ pc' = "return"
    /\ UNCHANGED <<request, dbVars, adding, added, queueVars, job, run, todo, runs, showtimes, sse, faultVars>>

\* Mutant: a failed job deletes what it has inserted.
DatabaseFailsAndCleans ==
    /\ pc \in {"movie", "theaters", "conflicts", "save"}
    /\ pc' = "throw"
    /\ todo' = {}
    /\ showtimes' = showtimes \ NewShowtimes(job, run)
    /\ UNCHANGED <<request, dbVars, busVars, queueVars, job, run, runs, sse, faultVars>>

\* A database operation throws; what bulkSave has inserted so far stays.
DatabaseFails ==
    /\ pc \in {"movie", "theaters", "conflicts", "save"}
    /\ pc' = "throw"
    /\ todo' = {}
    /\ UNCHANGED <<request, dbVars, busVars, queueVars, job, run, runs, showtimes, sse, faultVars>>

\* Mutant: the worker keeps its job.
IdleWithJob ==
    /\ pc' = "idle"
    /\ run' = 0
    /\ todo' = {}
    /\ UNCHANGED <<job, runs>>

Idle ==
    /\ pc' = "idle"
    /\ job' = NoBatch
    /\ run' = 0
    /\ todo' = {}
    /\ UNCHANGED runs

\* Mutant: the worker waits for ever for a job whose lock is lost.
FinishLockedJob ==
    /\ pc = "return"
    /\ Queue!Settle(job)
    /\ Idle
    /\ UNCHANGED <<request, dbVars, busVars, showtimes, sse, faultVars>>

\* The processor returns: the job is completed, if its lock is still held.
FinishJob ==
    /\ pc = "return"
    /\ IF job \in locked THEN Queue!Settle(job) ELSE UNCHANGED queueVars
    /\ Idle
    /\ UNCHANGED <<request, dbVars, busVars, showtimes, sse, faultVars>>

\* Mutant: there is no @OnQueueFailed handler.
FailJobSilently ==
    /\ pc = "throw"
    /\ IF job \in locked THEN Queue!Settle(job) ELSE UNCHANGED queueVars
    /\ Idle
    /\ UNCHANGED <<request, dbVars, busVars, showtimes, sse, faultVars>>

\* The processor throws: the job fails (one attempt) and onFailed emits the
\* error; without the lock Bull cannot move the job and `failed' is not raised.
FailJob ==
    /\ pc = "throw"
    /\ IF job \in locked
       THEN Queue!Settle(job) /\ Emit("error", job, {})
       ELSE UNCHANGED <<queueVars, bus>>
    /\ Idle
    /\ UNCHANGED <<request, dbVars, adding, added, showtimes, sse, faultVars>>

----------------------------------------------------------------------------
(* Faults, and what Bull makes of them *)

LockLapses(b) ==
    /\ lapses < MaxLapses
    /\ lapses' = lapses + 1
    /\ Queue!LoseLock(b)
    /\ UNCHANGED <<request, dbVars, busVars, workerVars, showtimes, sse, crashes>>

RequeueStalled(b) ==
    /\ Queue!Requeue(b)
    /\ UNCHANGED <<request, dbVars, busVars, workerVars, showtimes, sse, faultVars>>

\* Bull raises `failed', hence onFailed.
FailStalled(b) ==
    /\ Queue!GiveUp(b)
    /\ Emit("error", b, {})
    /\ UNCHANGED <<request, dbVars, adding, added, workerVars, showtimes, sse, faultVars>>

Crash ==
    /\ crashes < MaxCrashes
    /\ crashes' = crashes + 1
    /\ bus' = <<>>
    /\ adding' = <<>>
    /\ added' = <<>>
    /\ Idle
    /\ Queue!LoseAllLocks
    /\ UNCHANGED <<request, dbVars, showtimes, sse, lapses>>

----------------------------------------------------------------------------

Deliver(b) ==
    \/ OnRequestEvent(b)
    \/ OnProcessingEvent(b)
    \/ OnFailEvent(b)
    \/ OnErrorEvent(b)

Work ==
    \/ \E b \in Batch : StartJob(b)
    \/ CheckMovieExists
    \/ CheckTheatersExist
    \/ CheckForTimeConflicts
    \/ \E s \in todo : SaveShowtime(s)
    \/ ShowtimesSaved
    \/ FinishJob
    \/ FailJob

CheckStalled(b) == RequeueStalled(b) \/ FailStalled(b)

\* The steps no other component takes part in.
LocalNext ==
    \/ \E b \in Batch, d \in Dtos : CreateShowtimes(b, d)
    \/ \E m \in movies : DeleteMovie(m)
    \/ \E t \in theaters : DeleteTheater(t)
    \/ \E b \in Batch : Deliver(b) \/ QueueAdd(b) \/ SendWaiting(b)
    \/ Work
    \/ DatabaseFails
    \/ \E b \in Batch : CheckStalled(b) \/ LockLapses(b)

Next ==
    \/ LocalNext
    \/ \E b \in Batch : OnCompleteEvent(b)
    \/ Crash

Spec == Init /\ [][Next]_vars

\* The event loop runs every handler that is due, Redis applies what it is sent,
\* the worker runs while there are jobs, and Bull looks for stalled jobs
\* periodically.  Nobody has to send requests, delete anything or fail.
Fairness ==
    /\ \A b \in Batch : /\ WF_vars(Deliver(b) \/ OnCompleteEvent(b))
                         /\ WF_vars(QueueAdd(b))
                         /\ WF_vars(SendWaiting(b))
    /\ WF_vars(Work)
    /\ \A b \in Batch : WF_vars(CheckStalled(b))

FairSpec == Spec /\ Fairness

----------------------------------------------------------------------------
(* Safety *)

Statuses(b) == {sse[b][i] : i \in DOMAIN sse[b]}

Pending(b) == {bus[i] : i \in {i \in DOMAIN bus : bus[i].batch = b}}

\* The verdict was emitted, whether or not it has reached the status stream.
Announced(b, name) ==
    \/ \E e \in Pending(b) : e.name = name
    \/ \E e \in Statuses(b) : e.status = name

\* A theater never has two showtimes with one start time that come from
\* different requests, or from two runs of one request: whatever is redelivered
\* after a crash or a lost lock, the conflict check of the later run sees what
\* the earlier one has saved.
NoDoubleBookedStart ==
    \A s1, s2 \in showtimes :
        (s1.theater = s2.theater /\ s1.start = s2.start)
            => (s1.batch = s2.batch /\ s1.run = s2.run)

\* With all times on the grid, two showtimes of one theater that come from
\* different requests meet only if one of them begins before every start of the
\* other's request.  All other pairs were compared, whichever was saved first:
\* none slipped in between the check and the insertion.
NoUncheckedPair ==
    \A s1, s2 \in showtimes :
        /\ s1.batch # s2.batch
        /\ s1.theater = s2.theater
        /\ s1.start <= s2.end
        /\ s2.start <= s1.end
        => \/ \A n \in DOMAIN request[s2.batch].starts : s1.start < request[s2.batch].starts[n]
           \/ \A n \in DOMAIN request[s1.batch].starts : s2.start < request[s1.batch].starts[n]

\* The showtimes of a batch were all inserted by one run of its job: a run that
\* finds what an interrupted one left behind adds nothing to it.
OneRunPerBatch ==
    \A s1, s2 \in showtimes : s1.batch = s2.batch => s1.run = s2.run

\* `complete' is announced only for a batch whose every showtime is saved, all
\* theaters and start times of it, however often its job has run.
CompleteMeansSaved ==
    \A b \in Batch : Announced(b, "complete") =>
        \E r \in 1..runs[b] : NewShowtimes(b, r) \subseteq showtimes

\* A batch is completed at most once, so that its tickets are requested once.
AtMostOneComplete ==
    \A b \in Batch :
        Cardinality({i \in DOMAIN sse[b] : sse[b][i].status = "complete"})
          + Cardinality({i \in DOMAIN bus : bus[i].batch = b /\ bus[i].name = "complete"})
            <= 1

\* The showtimes a `fail' reports are registered showtimes of a requested theater
\* that meet one of the requested intervals, and they are the batch's own
\* only if its job had stalled.
FailReportsConflicts ==
    \A b \in Batch : \A e \in Statuses(b) : e.status = "fail" =>
        /\ e.shows # {}
        /\ \A s \in e.shows :
            /\ s \in showtimes
            /\ \E n \in DOMAIN request[b].starts :
                  s.start <= EndTime(request[b], n) /\ request[b].starts[n] <= s.end
            /\ \E i \in DOMAIN request[b].theaters : s.theater = request[b].theaters[i]
            /\ s.batch = b => stalls[b] > 0

\* As long as its job has not stalled, a batch that is refused has left nothing
\* in the database.
RefusedBatchSavesNothing ==
    \A b \in Batch :
        (Announced(b, "fail") /\ stalls[b] = 0) => \A s \in showtimes : s.batch # b

\* Leaving `waiting' aside (it is sent when the reply of Redis is back, at any
\* time), the statuses of a batch whose job never stalled are `processing' and
\* then one verdict: of any two, the earlier is `processing' and the later is not,
\* and none but `processing' comes first.
StatusOrder ==
    \A b \in Batch : stalls[b] = 0 =>
        LET steps == {i \in DOMAIN sse[b] : sse[b][i].status # "waiting"}
            processing == {i \in steps : sse[b][i].status = "processing"}
        IN  /\ \A i, j \in steps : i < j => i \in processing /\ j \notin processing
            /\ \A j \in steps \ processing : \E i \in steps : i < j

----------------------------------------------------------------------------
(* Liveness *)

Queued(b) == b \in active \/ \E i \in DOMAIN wait : wait[i] = b

\* No job stays in the queue for ever: it is taken, and completed, failed or,
\* once stalled too often, given up.
JobsSettle == \A b \in Batch : Queued(b) ~> ~Queued(b)

\* A request is answered on the status stream unless the process crashes: the
\* verdict, or the error of the job, is sent.
RequestsAnswered ==
    \A b \in Batch : request[b] # NoDto ~>
        \/ \E e \in Statuses(b) : e.status \in {"complete", "fail", "error"}
        \/ crashes > 0

----------------------------------------------------------------------------
(* Refinement: the collection is a ledger of slots *)

Slots == Theater \X UNION {{d.starts[i] : i \in DOMAIN d.starts} : d \in Dtos}

Owners == Batch \X (1..(MaxStalledCount + 1))

SlotOwner ==
    [slot \in Slots |->
        LET taken == {s \in showtimes : s.theater = slot[1] /\ s.start = slot[2]}
        IN  IF taken = {} THEN <<>>
            ELSE LET s == CHOOSE s \in taken : TRUE IN <<s.batch, s.run>>]

Ledger == INSTANCE SlotLedger
              WITH Slot <- Slots, Owner <- Owners, Free <- <<>>, owner <- SlotOwner

\* Every step of the pipeline assigns at most one free slot to the run that
\* inserts the showtime, and no slot changes its owner.
ImplementsSlotLedger == Ledger!LedgerSpec
=============================================================================
