----------------------- MODULE TicketsCreation_proofs -----------------------
(***************************************************************************)
(* Theorems about TicketsCreation, the pipeline from the request of        *)
(* showtimes to the tickets for them, for all batches, theaters and seats, *)
(* and any number of faults.                                               *)
(***************************************************************************)
EXTENDS TicketsCreation, ShowtimesCreation_proofs

----------------------------------------------------------------------------
(* The registration of showtimes, as part of the pipeline.  All but the count   *)
(* of lapses, which both queues share, changes by steps of its own.             *)

RegistrationInv == SlotInv /\ CompleteInv /\ QueueInv /\ CompletedOnce

LapseElsewhere ==
    /\ UNCHANGED <<request, dbVars, busVars, queueVars, workerVars, showtimes, sse, crashes>>
    /\ lapses' = lapses + 1

LEMMA RegistrationSteps == [RegistrationNext]_allVars => [Next]_vars \/ LapseElsewhere
BY DEF RegistrationNext, allVars, Next, OnShowtimesCreateComplete, TicketsLockLapses, CrashBoth,
       LapseElsewhere

LEMMA InitRegistration == RegistrationInit => RegistrationInv
BY InitSlots, InitComplete, InitQueue, InitCompletedOnce DEF RegistrationInit, RegistrationInv

LEMMA LapseKeeps ==
    ASSUME RegistrationInv, LapseElsewhere
    PROVE  RegistrationInv'
<1>1. UNCHANGED <<request, bus, adding, wait, active, stalls, sse, showtimes, pc, job, run, todo, runs>>
  BY DEF LapseElsewhere, busVars, queueVars, workerVars
<1>2. Typed'
  BY DEF RegistrationInv, SlotInv, LapseElsewhere, dbVars, busVars, queueVars, workerVars,
         Typed, TypeOK, Known, Queue!QueueTypeOK
<1>3. SlotInv'
  BY <1>1, <1>2, QuietStep DEF RegistrationInv, SlotInv, Quiet
<1>4. CompleteInv'
  BY <1>1, <1>2, CompleteStutter DEF RegistrationInv
<1>5. QueueInv'
  BY <1>1, <1>2, QueueUntouched DEF RegistrationInv, QueueInv
<1>6. CompletedOnce'
  BY <1>1, DueSame, SentSame DEF RegistrationInv, CompletedOnce, Once, Silent, AtMostOne
<1>7. QED
  BY <1>3, <1>4, <1>5, <1>6 DEF RegistrationInv

LEMMA NextRegistration == RegistrationInv /\ [RegistrationNext]_allVars => RegistrationInv'
<1> SUFFICES ASSUME RegistrationInv, [RegistrationNext]_allVars PROVE RegistrationInv'
  OBVIOUS
<1>1. CASE [Next]_vars
  BY <1>1, NextSlots, NextComplete, NextQueue, NextCompletedOnce DEF RegistrationInv
<1>2. CASE LapseElsewhere
  BY <1>2, LapseKeeps
<1>3. QED
  BY <1>1, <1>2, RegistrationSteps

(* The clients were told, and TicketsService with them, that a batch is complete. *)
CompleteSent(b) == Sent(b, {"complete"}) # {}

(* What the tickets pipeline can rely on: showtimes are never taken back, and   *)
(* a batch that was reported complete gets no more of them.                     *)
Grows ==
    /\ showtimes \subseteq showtimes'
    /\ \A b \in Batch : CompleteSent(b) =>
          CompleteSent(b)' /\ ShowtimesOf(b)' = ShowtimesOf(b)

LEMMA StatusesAreKept ==
    ASSUME Typed, [Next]_vars, NEW b \in Batch, CompleteSent(b)
    PROVE  CompleteSent(b)'
<1> DEFINE N == {"complete"}
<1> HIDE DEF N
<1>1. ASSUME NEW c \in Batch, NEW n, NEW sh, SendEvent(c, n, sh)
      PROVE  Sent(b, N) \subseteq Sent(b, N)'
  <2>1. /\ c # b \/ n \notin N => Sent(b, N)' = Sent(b, N)
        /\ n \in N => Sent(c, N)' = Sent(c, N) \cup {Len(sse[c]) + 1}
    BY <1>1, SentNext
  <2>2. QED
    BY <2>1
<1>2. CASE sse' = sse
  BY <1>2, SentSame DEF CompleteSent
<1>3. CASE Moves /\ sse' # sse
  <2>1. \E c \in Batch : \E n, sh : SendEvent(c, n, sh)
    BY <1>3, TailOfBus DEF Moves, Event
  <2>2. QED
    BY <1>1, <2>1 DEF CompleteSent, N
<1>4. QED
  BY <1>2, <1>3, EventSteps DEF Emits

LEMMA RegistrationGrows ==
    ASSUME RegistrationInv, [RegistrationNext]_allVars
    PROVE  Grows
<1>1. Typed
  BY DEF RegistrationInv, SlotInv
<1>2. CASE LapseElsewhere
  <2>1. sse' = sse /\ showtimes' = showtimes
    BY <1>2 DEF LapseElsewhere
  <2>2. QED
    BY <2>1, SentSame DEF Grows, CompleteSent, ShowtimesOf
<1>3. CASE [Next]_vars
  <2>1. \A b \in Batch : CompleteSent(b) => CompleteSent(b)'
    BY <1>1, <1>3, StatusesAreKept
  <2>2. CASE showtimes' = showtimes
    BY <2>1, <2>2 DEF Grows, ShowtimesOf
  <2>3. CASE \E k \in todo : SaveShowtime(k)
    <3>1. PICK k \in todo : SaveShowtime(k)
      BY <2>3
    <3>2. pc = "save" /\ showtimes' = showtimes \cup {k} /\ job \in Batch
      BY <1>1, <3>1 DEF SaveShowtime, Typed, TypeOK
    <3>3. k.batch = job
      BY <1>1, <3>2, NewShowtimesType DEF RegistrationInv, SlotInv, FreshSlots, Typed, TypeOK, Known
    <3>4. ~CompleteSent(job)
      BY <3>2 DEF RegistrationInv, CompletedOnce, Silent, CompleteSent
    <3>5. QED
      BY <2>1, <3>2, <3>3, <3>4 DEF Grows, ShowtimesOf
  <2>4. QED
    BY <1>1, <1>3, <2>2, <2>3, StepsAreQuiet DEF Quiet, CheckForTimeConflicts
<1>4. QED
  BY <1>2, <1>3, RegistrationSteps

----------------------------------------------------------------------------
(* Sequences, as what is in them, and in them once.                             *)

Has(seq, x) == \E i \in DOMAIN seq : seq[i] = x

HasOnce(seq, x) == \A i, j \in DOMAIN seq : seq[i] = x /\ seq[j] = x => i = j

LEMMA AppendHas ==
    ASSUME NEW S, NEW seq \in Seq(S), NEW e \in S
    PROVE  /\ \A x : Has(Append(seq, e), x) <=> Has(seq, x) \/ x = e
           /\ \A x : HasOnce(seq, x) /\ (x = e => ~Has(seq, x)) => HasOnce(Append(seq, e), x)
<1> DEFINE new == Append(seq, e)
<1>1. /\ Len(seq) \in Nat /\ DOMAIN seq = 1..Len(seq) /\ DOMAIN new = 1..(Len(seq) + 1)
      /\ \A i \in DOMAIN seq : new[i] = seq[i]
      /\ new[Len(seq) + 1] = e
  OBVIOUS
<1> HIDE DEF new
<1>2. DOMAIN new = DOMAIN seq \cup {Len(seq) + 1}
  BY <1>1
<1>3. \A x : Has(new, x) <=> Has(seq, x) \/ x = e
  BY <1>1, <1>2 DEF Has
<1>4. \A x : HasOnce(seq, x) /\ (x = e => ~Has(seq, x)) => HasOnce(new, x)
  BY <1>1, <1>2 DEF Has, HasOnce
<1>5. QED
  BY <1>3, <1>4 DEF new

LEMMA TailHas ==
    ASSUME NEW S, NEW seq \in Seq(S), seq # <<>>
    PROVE  /\ Has(seq, Head(seq))
           /\ \A x : Has(Tail(seq), x) => Has(seq, x)
           /\ \A x : HasOnce(seq, x) => HasOnce(Tail(seq), x) /\ (x = Head(seq) => ~Has(Tail(seq), x))
<1> DEFINE new == Tail(seq)
<1>1. /\ 1 \in DOMAIN seq /\ Head(seq) = seq[1]
      /\ \A i \in DOMAIN new : i \in Nat \ {0} /\ i + 1 \in DOMAIN seq /\ new[i] = seq[i + 1]
  OBVIOUS
<1> HIDE DEF new
<1>2. Has(seq, Head(seq)) /\ \A x : Has(new, x) => Has(seq, x)
  BY <1>1 DEF Has
<1>3. \A x : HasOnce(seq, x) => HasOnce(new, x)
  BY <1>1 DEF HasOnce
<1>4. \A x : HasOnce(seq, x) /\ x = Head(seq) => ~Has(new, x)
  BY <1>1 DEF HasOnce, Has
<1>5. QED
  BY <1>2, <1>3, <1>4 DEF new

LEMMA PushHas ==
    ASSUME NEW S, NEW seq \in Seq(S), NEW e \in S
    PROVE  /\ \A x : Has(<<e>> \o seq, x) <=> Has(seq, x) \/ x = e
           /\ \A x : HasOnce(seq, x) /\ (x = e => ~Has(seq, x)) => HasOnce(<<e>> \o seq, x)
           /\ <<e>> \o seq \in Seq(S)
<1> DEFINE new == <<e>> \o seq
<1>1. /\ Len(seq) \in Nat /\ DOMAIN seq = 1..Len(seq) /\ new \in Seq(S)
      /\ Len(new) = Len(seq) + 1 /\ DOMAIN new = 1..(Len(seq) + 1)
      /\ new[1] = e
      /\ \A i \in 2..(Len(seq) + 1) : new[i] = seq[i - 1]
  OBVIOUS
<1> HIDE DEF new
<1>5. /\ \A i \in DOMAIN new : i = 1 \/ (i - 1 \in DOMAIN seq /\ new[i] = seq[i - 1])
      /\ \A i \in DOMAIN seq : i + 1 \in DOMAIN new /\ new[i + 1] = seq[i]
      /\ 1 \in DOMAIN new /\ new[1] = e /\ DOMAIN new \subseteq Nat
  BY <1>1
<1>2. \A x : Has(new, x) <=> Has(seq, x) \/ x = e
  BY <1>5 DEF Has
<1>3. \A x : HasOnce(seq, x) /\ (x = e => ~Has(seq, x)) => HasOnce(new, x)
  BY <1>5 DEF Has, HasOnce
<1>4. QED
  BY <1>1, <1>2, <1>3 DEF new

----------------------------------------------------------------------------
(* Types *)

TicketEvents == [name : {"request", "processing", "complete", "error"}, batch : Batch]

LEMMA NewTicketsType ==
    ASSUME NEW shows \in SUBSET Showtime, NEW r \in Nat, NEW k \in NewTickets(shows, r)
    PROVE  k \in Ticket /\ k.showtime \in shows /\ k.run = r
<1>1. PICK s \in shows : \E x \in SeatsOf[s.theater] : k = [showtime |-> s, seat |-> x, run |-> r]
  BY DEF NewTickets
<1>2. s.theater \in Theater /\ s \in Showtime
  BY DEF Showtime
<1>3. SeatsOf[s.theater] \subseteq Seat
  BY <1>2, SeatsAssumption
<1>4. QED
  BY <1>1, <1>2, <1>3 DEF Ticket

LEMMA EmitTicketType ==
    ASSUME TicketsTypeOK, NEW name \in {"request", "processing", "complete", "error"},
           NEW b \in Batch, EmitTicketEvent(name, b)
    PROVE  ticketBus' \in Seq(TicketEvents)
<1>1. [name |-> name, batch |-> b] \in TicketEvents
  BY DEF TicketEvents
<1>2. ticketBus \in Seq(TicketEvents)
  BY DEF TicketsTypeOK, TicketEvents
<1>3. QED
  BY <1>1, <1>2 DEF EmitTicketEvent

LEMMA SendTicketType ==
    ASSUME TicketsTypeOK, NEW name \in {"waiting", "processing", "complete", "error"},
           NEW b \in Batch, SendTicketEvent(b, name)
    PROVE  ticketSse' \in [Batch -> Seq({"waiting", "processing", "complete", "error"})]
<1> DEFINE names == {"waiting", "processing", "complete", "error"}
<1>1. ticketSse[b] \in Seq(names) /\ ticketSse \in [Batch -> Seq(names)]
  BY DEF TicketsTypeOK
<1> HIDE DEF names
<1>2. Append(ticketSse[b], name) \in Seq(names)
  BY <1>1 DEF names
<1>3. ticketSse' \in [Batch -> Seq(names)]
  BY <1>1, <1>2 DEF SendTicketEvent
<1>4. QED
  BY <1>3 DEF names

LEMMA InitTicketsType == TicketsInit => TicketsTypeOK
BY NoBatchAssumption DEF TicketsInit, TicketsTypeOK, TicketQueue!QueueInit, TicketQueue!QueueTypeOK

(* The steps that deliver and queue requests.                                   *)
LEMMA TicketsTypeEvents ==
    ASSUME TicketsTypeOK, NEW b \in Batch,
           \/ TicketsDeliver(b) \/ TicketsQueueAdd(b) \/ TicketsSendWaiting(b)
    PROVE  TicketsTypeOK'
<1> USE DEF TicketsTypeOK, ticketBusVars, ticketQueueVars, ticketWorkerVars
<1>1. CASE OnTicketsRequestEvent(b)
  <2>1. ticketBus' \in Seq([name : {"request", "processing", "complete", "error"}, batch : Batch])
    BY <1>1 DEF OnTicketsRequestEvent
  <2>2. ticketAdding' \in Seq(Batch)
    BY <1>1 DEF OnTicketsRequestEvent
  <2>3. QED
    BY <1>1, <2>1, <2>2 DEF OnTicketsRequestEvent, TicketQueue!QueueTypeOK
<1>2. ASSUME NEW name \in {"processing", "complete", "error"}, OnTicketsStatusEvent(name, b)
      PROVE  TicketsTypeOK'
  <2>1. ticketSse' \in [Batch -> Seq({"waiting", "processing", "complete", "error"})]
    BY <1>2, SendTicketType DEF OnTicketsStatusEvent
  <2>2. ticketBus' \in Seq([name : {"request", "processing", "complete", "error"}, batch : Batch])
    BY <1>2 DEF OnTicketsStatusEvent
  <2>3. QED
    BY <1>2, <2>1, <2>2 DEF OnTicketsStatusEvent, TicketQueue!QueueTypeOK
<1>3. CASE TicketsQueueAdd(b)
  <2>1. ticketAdding' \in Seq(Batch) /\ ticketAdded' \in Seq(Batch)
    BY <1>3 DEF TicketsQueueAdd
  <2>2. TicketQueue!QueueTypeOK'
    BY <1>3 DEF TicketsQueueAdd, TicketQueue!Add, TicketQueue!QueueTypeOK
  <2>3. QED
    BY <1>3, <2>1, <2>2 DEF TicketsQueueAdd
<1>4. CASE TicketsSendWaiting(b)
  <2>1. ticketSse' \in [Batch -> Seq({"waiting", "processing", "complete", "error"})]
    BY <1>4, SendTicketType DEF TicketsSendWaiting
  <2>2. ticketAdded' \in Seq(Batch)
    BY <1>4 DEF TicketsSendWaiting
  <2>3. QED
    BY <1>4, <2>1, <2>2 DEF TicketsSendWaiting, TicketQueue!QueueTypeOK
<1>5. QED
  BY <1>1, <1>2, <1>3, <1>4 DEF TicketsDeliver, OnTicketsProcessingEvent, OnTicketsCompleteEvent,
                                OnTicketsErrorEvent

(* The steps of the worker.                                                     *)
LEMMA TicketsTypeWork ==
    ASSUME Typed, TicketsTypeOK, TicketsWork \/ TicketsDatabaseFails
    PROVE  TicketsTypeOK'
<1> USE DEF TicketsTypeOK, ticketBusVars, ticketQueueVars
<1>1. ASSUME NEW b \in Batch, StartTicketsJob(b) PROVE TicketsTypeOK'
  <2>1. ticketBus' \in Seq(TicketEvents)
    BY <1>1, EmitTicketType DEF StartTicketsJob
  <2>2. TicketQueue!QueueTypeOK'
    BY <1>1 DEF StartTicketsJob, TicketQueue!Take, TicketQueue!QueueTypeOK
  <2>3. ticketRuns' \in [Batch -> Nat] /\ ticketRun' \in Nat
    BY <1>1 DEF StartTicketsJob
  <2>4. QED
    BY <1>1, <2>1, <2>2, <2>3, NoBatchAssumption DEF StartTicketsJob, TicketEvents
<1>2. CASE FindShowtimesByBatchId
  BY <1>2 DEF FindShowtimesByBatchId, Typed, TypeOK, TicketQueue!QueueTypeOK
<1>3. CASE GetTheaterMap
  <2>1. NewTickets(found, ticketRun) \subseteq Ticket
    BY NewTicketsType
  <2>2. QED
    BY <1>3, <2>1 DEF GetTheaterMap, TicketQueue!QueueTypeOK
<1>4. ASSUME NEW x \in ticketTodo, SaveTicket(x) PROVE TicketsTypeOK'
  BY <1>4 DEF SaveTicket, TicketQueue!QueueTypeOK
<1>5. CASE TicketsSaved
  <2>1. ticketJob \in Batch
    BY <1>5 DEF TicketsSaved
  <2>2. ticketBus' \in Seq(TicketEvents)
    BY <1>5, <2>1, EmitTicketType DEF TicketsSaved
  <2>3. QED
    BY <1>5, <2>2 DEF TicketsSaved, TicketEvents, TicketQueue!QueueTypeOK
<1>6. CASE TicketsDatabaseFails
  BY <1>6 DEF TicketsDatabaseFails, TicketQueue!QueueTypeOK
<1>7. CASE FinishTicketsJob
  <2>1. TicketQueue!QueueTypeOK'
    BY <1>7 DEF FinishTicketsJob, TicketQueue!Settle, TicketQueue!QueueTypeOK
  <2>2. QED
    BY <1>7, <2>1 DEF FinishTicketsJob, TicketsIdle
<1>8. CASE FailTicketsJob
  <2>1. TicketQueue!QueueTypeOK'
    BY <1>8 DEF FailTicketsJob, TicketQueue!Settle, TicketQueue!QueueTypeOK
  <2>2. ticketBus' \in Seq(TicketEvents)
    BY <1>8, EmitTicketType DEF FailTicketsJob, TicketEvents
  <2>3. QED
    BY <1>8, <2>1, <2>2 DEF FailTicketsJob, TicketsIdle, TicketEvents
<1>9. QED
  BY <1>1, <1>2, <1>3, <1>4, <1>5, <1>6, <1>7, <1>8 DEF TicketsWork

(* Faults, and the completion of a batch.                                       *)
LEMMA TicketsTypeFaults ==
    ASSUME TicketsTypeOK,
           \/ \E b \in Batch : CheckStalledTickets(b) \/ TicketsLockLapses(b)
                                  \/ OnShowtimesCreateComplete(b)
           \/ CrashBoth \/ UNCHANGED ticketVars
    PROVE  TicketsTypeOK'
<1> USE DEF TicketsTypeOK, ticketBusVars, ticketQueueVars, ticketWorkerVars
<1>1. ASSUME NEW b \in Batch, RequeueStalledTickets(b) PROVE TicketsTypeOK'
  <2>1. ticketWait' \in Seq(Batch)
    BY <1>1, PushHas DEF RequeueStalledTickets, TicketQueue!Requeue, TicketQueue!QueueTypeOK
  <2>2. ticketStalls' \in [Batch -> Nat]
    BY <1>1 DEF RequeueStalledTickets, TicketQueue!Requeue, TicketQueue!QueueTypeOK
  <2>3. QED
    BY <1>1, <2>1, <2>2 DEF RequeueStalledTickets, TicketQueue!Requeue, TicketQueue!QueueTypeOK
<1>2. ASSUME NEW b \in Batch, FailStalledTickets(b) PROVE TicketsTypeOK'
  <2>1. ticketBus' \in Seq(TicketEvents)
    BY <1>2, EmitTicketType DEF FailStalledTickets
  <2>2. ticketStalls' \in [Batch -> Nat]
    BY <1>2 DEF FailStalledTickets, TicketQueue!GiveUp, TicketQueue!QueueTypeOK
  <2>3. QED
    BY <1>2, <2>1, <2>2 DEF FailStalledTickets, TicketQueue!GiveUp, TicketQueue!QueueTypeOK, TicketEvents
<1>3. ASSUME NEW b \in Batch, TicketsLockLapses(b) PROVE TicketsTypeOK'
  BY <1>3 DEF TicketsLockLapses, TicketQueue!LoseLock, TicketQueue!QueueTypeOK
<1>4. ASSUME NEW b \in Batch, OnShowtimesCreateComplete(b) PROVE TicketsTypeOK'
  <2>1. ticketBus' \in Seq(TicketEvents)
    BY <1>4, EmitTicketType DEF OnShowtimesCreateComplete
  <2>2. QED
    BY <1>4, <2>1 DEF OnShowtimesCreateComplete, TicketEvents, TicketQueue!QueueTypeOK
<1>5. CASE CrashBoth
  BY <1>5 DEF CrashBoth, TicketsIdle, TicketQueue!LoseAllLocks, TicketQueue!QueueTypeOK
<1>6. CASE UNCHANGED ticketVars
  BY <1>6 DEF ticketVars, TicketQueue!QueueTypeOK
<1>7. QED
  BY <1>1, <1>2, <1>3, <1>4, <1>5, <1>6 DEF CheckStalledTickets

LEMMA NextTicketsType ==
    ASSUME Typed, TicketsTypeOK, [RegistrationNext]_allVars
    PROVE  TicketsTypeOK'
<1>1. \/ UNCHANGED ticketVars
      \/ TicketsNext
      \/ CrashBoth
      \/ \E b \in Batch : TicketsLockLapses(b) \/ OnShowtimesCreateComplete(b)
  BY DEF RegistrationNext, allVars
<1>2. QED
  BY <1>1, TicketsTypeEvents, TicketsTypeWork, TicketsTypeFaults DEF TicketsNext

(* The tickets pipeline keeps its variables in their types.                     *)
THEOREM TicketsTypeCorrect == RegistrationSpec => []TicketsTypeOK
<1>1. RegistrationInit => RegistrationInv /\ TicketsTypeOK
  BY InitRegistration, InitTicketsType DEF RegistrationInit
<1>2. RegistrationInv /\ TicketsTypeOK /\ [RegistrationNext]_allVars => (RegistrationInv /\ TicketsTypeOK)'
  BY NextRegistration, NextTicketsType DEF RegistrationInv, SlotInv
<1>3. QED
  BY <1>1, <1>2, PTL DEF RegistrationSpec

----------------------------------------------------------------------------
(* A batch is at one place at most on its way to the tickets worker, and only   *)
(* once it was reported complete; its job runs again only after it has stalled. *)

TicketEvent(name, b) == [name |-> name, batch |-> b]

AskedFor(b) == Has(ticketBus, TicketEvent("request", b))

TicketsPlaced(b) ==
    /\ HasOnce(ticketBus, TicketEvent("request", b))
    /\ HasOnce(ticketAdding, b)
    /\ HasOnce(ticketWait, b)
    /\ AskedFor(b) => ~Has(ticketAdding, b) /\ ~Has(ticketWait, b) /\ b \notin ticketActive
    /\ Has(ticketAdding, b) => ~Has(ticketWait, b) /\ b \notin ticketActive
    /\ Has(ticketWait, b) => b \notin ticketActive

TicketsDue(b) ==
    \/ AskedFor(b)
    \/ Has(ticketAdding, b)
    \/ Has(ticketWait, b)
    \/ b \in ticketActive
    \/ ticketJob = b
    \/ TicketsAnnounced(b, "complete")

TicketsFollow(b) == TicketsDue(b) => CompleteSent(b)

TicketRunsBounded(b) ==
    /\ ticketRuns[b] <= ticketStalls[b] + 1
    /\ ~CompleteSent(b) \/ AskedFor(b) \/ Has(ticketAdding, b) => ticketRuns[b] = 0
    /\ Has(ticketWait, b) => ticketRuns[b] <= ticketStalls[b]

TicketsQueued(b) == TicketsPlaced(b) /\ TicketsFollow(b) /\ TicketRunsBounded(b)

(* The events and statuses of the tickets, and what a step does to them.        *)
LEMMA AnnouncedTickets ==
    ASSUME NEW b, NEW name
    PROVE  TicketsAnnounced(b, name) <=>
              Has(ticketBus, TicketEvent(name, b)) \/ Has(ticketSse[b], name)
BY DEF TicketsAnnounced, Has, TicketEvent

LEMMA EmittedTicketEvent ==
    ASSUME TicketsTypeOK, NEW name \in {"request", "processing", "complete", "error"},
           NEW b \in Batch, EmitTicketEvent(name, b)
    PROVE  /\ \A n, c : Has(ticketBus', TicketEvent(n, c)) <=>
                           Has(ticketBus, TicketEvent(n, c)) \/ (n = name /\ c = b)
           /\ \A n, c : HasOnce(ticketBus, TicketEvent(n, c))
                          /\ (n = name /\ c = b => ~Has(ticketBus, TicketEvent(n, c)))
                          => HasOnce(ticketBus', TicketEvent(n, c))
<1>1. TicketEvent(name, b) \in TicketEvents
  BY DEF TicketEvents, TicketEvent
<1>2. ticketBus \in Seq(TicketEvents)
  BY DEF TicketsTypeOK, TicketEvents
<1>3. ticketBus' = Append(ticketBus, TicketEvent(name, b))
  BY DEF EmitTicketEvent, TicketEvent
<1>4. \A n, c : TicketEvent(n, c) = TicketEvent(name, b) <=> n = name /\ c = b
  BY DEF TicketEvent
<1>5. /\ \A x : Has(ticketBus', x) <=> Has(ticketBus, x) \/ x = TicketEvent(name, b)
      /\ \A x : HasOnce(ticketBus, x) /\ (x = TicketEvent(name, b) => ~Has(ticketBus, x))
                  => HasOnce(ticketBus', x)
  BY <1>1, <1>2, <1>3, AppendHas
<1>6. QED
  BY <1>4, <1>5

LEMMA DeliveredTicketEvent ==
    ASSUME TicketsTypeOK, ticketBus # <<>>, ticketBus' = Tail(ticketBus)
    PROVE  /\ Has(ticketBus, Head(ticketBus))
           /\ \A x : Has(ticketBus', x) => Has(ticketBus, x)
           /\ \A x : HasOnce(ticketBus, x)
                       => HasOnce(ticketBus', x) /\ (x = Head(ticketBus) => ~Has(ticketBus', x))
<1>1. ticketBus \in Seq(TicketEvents)
  BY DEF TicketsTypeOK, TicketEvents
<1>2. QED
  BY <1>1, TailHas

LEMMA SentTicketStatus ==
    ASSUME TicketsTypeOK, NEW name \in {"waiting", "processing", "complete", "error"},
           NEW b \in Batch, SendTicketEvent(b, name)
    PROVE  \A c \in Batch : \A n : Has(ticketSse'[c], n) <=> Has(ticketSse[c], n) \/ (c = b /\ n = name)
<1> DEFINE names == {"waiting", "processing", "complete", "error"}
<1>1. ticketSse \in [Batch -> Seq(names)] /\ name \in names
  BY DEF TicketsTypeOK
<1> HIDE DEF names
<1>2. \A c \in Batch : ticketSse'[c] = IF c = b THEN Append(ticketSse[b], name) ELSE ticketSse[c]
  BY <1>1 DEF SendTicketEvent
<1>3. \A n : Has(Append(ticketSse[b], name), n) <=> Has(ticketSse[b], n) \/ n = name
  <2>1. ticketSse[b] \in Seq(names)
    BY <1>1
  <2>2. QED
    BY <1>1, <2>1, AppendHas
<1>4. QED
  BY <1>2, <1>3

(* Unless it is one of the few that say otherwise, a step requests and          *)
(* announces nothing new.                                                       *)
EventsKept(b) ==
    /\ AskedFor(b)' => AskedFor(b)
    /\ HasOnce(ticketBus, TicketEvent("request", b)) => HasOnce(ticketBus, TicketEvent("request", b))'
    /\ TicketsAnnounced(b, "complete")'
          => TicketsAnnounced(b, "complete") \/ (TicketsSaved /\ ticketJob = b)

TicketEventSteps ==
    \/ ticketBus' \in {ticketBus, <<>>} /\ ticketSse' = ticketSse
    \/ ticketBus' = ticketBus /\ \E b \in Batch : SendTicketEvent(b, "waiting")
    \/ ticketBus # <<>> /\ ticketBus' = Tail(ticketBus) /\ ticketSse' = ticketSse
    \/ \E b \in Batch, name \in {"processing", "complete", "error"} :
          /\ ticketBus # <<>>
          /\ Head(ticketBus) = TicketEvent(name, b)
          /\ ticketBus' = Tail(ticketBus)
          /\ SendTicketEvent(b, name)
    \/ \E b \in Batch, name \in {"processing", "error"} :
          EmitTicketEvent(name, b) /\ ticketSse' = ticketSse
    \/ \E b \in Batch :
          /\ OnShowtimesCreateComplete(b)
          /\ EmitTicketEvent("request", b)
          /\ ticketSse' = ticketSse
    \/ /\ TicketsSaved
       /\ ticketJob \in Batch
       /\ EmitTicketEvent("complete", ticketJob)
       /\ ticketSse' = ticketSse

LEMMA TicketEventsKept ==
    ASSUME TicketsTypeOK, TicketEventSteps, NEW c \in Batch, ~OnShowtimesCreateComplete(c)
    PROVE  EventsKept(c)
<1>0. /\ TicketsAnnounced(c, "complete") <=>
            Has(ticketBus, TicketEvent("complete", c)) \/ Has(ticketSse[c], "complete")
      /\ TicketsAnnounced(c, "complete")' <=>
            Has(ticketBus', TicketEvent("complete", c)) \/ Has(ticketSse'[c], "complete")
      /\ AskedFor(c) <=> Has(ticketBus, TicketEvent("request", c))
      /\ AskedFor(c)' <=> Has(ticketBus', TicketEvent("request", c))
      /\ HasOnce(ticketBus, TicketEvent("request", c))' <=> HasOnce(ticketBus', TicketEvent("request", c))
  BY AnnouncedTickets DEF TicketsAnnounced, Has, HasOnce, TicketEvent, AskedFor
<1>1. CASE ticketBus' = ticketBus /\ ticketSse' = ticketSse
  BY <1>0, <1>1 DEF EventsKept
<1>2. CASE ticketBus' = <<>> /\ ticketSse' = ticketSse
  <2>1. \A x : ~Has(ticketBus', x) /\ HasOnce(ticketBus', x)
    BY <1>2 DEF Has, HasOnce
  <2>2. QED
    BY <1>0, <1>2, <2>1 DEF EventsKept
<1>3. ASSUME NEW b \in Batch, ticketBus' = ticketBus, SendTicketEvent(b, "waiting")
      PROVE  EventsKept(c)
  <2>1. Has(ticketSse'[c], "complete") <=> Has(ticketSse[c], "complete")
    BY <1>3, SentTicketStatus
  <2>2. QED
    BY <1>0, <1>3, <2>1 DEF EventsKept
<1>4. CASE ticketBus # <<>> /\ ticketBus' = Tail(ticketBus) /\ ticketSse' = ticketSse
  BY <1>0, <1>4, DeliveredTicketEvent DEF EventsKept
<1>5. ASSUME NEW b \in Batch, NEW name \in {"processing", "complete", "error"},
             ticketBus # <<>>, Head(ticketBus) = TicketEvent(name, b),
             ticketBus' = Tail(ticketBus), SendTicketEvent(b, name)
      PROVE  EventsKept(c)
  <2>1. Has(ticketSse'[c], "complete") => Has(ticketSse[c], "complete") \/ (c = b /\ name = "complete")
    BY <1>5, SentTicketStatus
  <2>2. /\ Has(ticketBus, TicketEvent(name, b))
        /\ \A x : Has(ticketBus', x) => Has(ticketBus, x)
        /\ \A x : HasOnce(ticketBus, x) => HasOnce(ticketBus', x)
    BY <1>5, DeliveredTicketEvent
  <2>3. QED
    BY <1>0, <2>1, <2>2 DEF EventsKept
<1>6. ASSUME NEW b \in Batch, NEW name \in {"processing", "error"},
             EmitTicketEvent(name, b), ticketSse' = ticketSse
      PROVE  EventsKept(c)
  BY <1>0, <1>6, EmittedTicketEvent DEF EventsKept
<1>7. ASSUME NEW b \in Batch, OnShowtimesCreateComplete(b), EmitTicketEvent("request", b),
             ticketSse' = ticketSse
      PROVE  EventsKept(c)
  <2>1. c # b
    BY <1>7
  <2>2. QED
    BY <1>0, <1>7, <2>1, EmittedTicketEvent DEF EventsKept
<1>8. CASE TicketsSaved /\ ticketJob \in Batch /\ EmitTicketEvent("complete", ticketJob)
           /\ ticketSse' = ticketSse
  BY <1>0, <1>8, EmittedTicketEvent DEF EventsKept
<1>9. QED
  BY <1>1, <1>2, <1>3, <1>4, <1>5, <1>6, <1>7, <1>8 DEF TicketEventSteps

LEMMA StepsOfTicketEvents ==
    ASSUME TicketsTypeOK, [RegistrationNext]_allVars
    PROVE  TicketEventSteps
<1> USE DEF ticketBusVars, ticketQueueVars, ticketWorkerVars
<1>1. ASSUME NEW b \in Batch, TicketsDeliver(b) PROVE TicketEventSteps
  BY <1>1 DEF TicketsDeliver, OnTicketsRequestEvent, OnTicketsProcessingEvent, OnTicketsCompleteEvent,
              OnTicketsErrorEvent, OnTicketsStatusEvent, TicketEventSteps, TicketEvent
<1>2. ASSUME NEW b \in Batch, \/ TicketsQueueAdd(b) \/ TicketsSendWaiting(b) \/ TicketsLockLapses(b)
                              \/ RequeueStalledTickets(b)
      PROVE  TicketEventSteps
  BY <1>2 DEF TicketsQueueAdd, TicketsSendWaiting, TicketsLockLapses, RequeueStalledTickets,
              TicketEventSteps
<1>3. ASSUME NEW b \in Batch, StartTicketsJob(b) \/ FailStalledTickets(b) PROVE TicketEventSteps
  BY <1>3 DEF StartTicketsJob, FailStalledTickets, TicketEventSteps
<1>4. ASSUME NEW b \in Batch, OnShowtimesCreateComplete(b) PROVE TicketEventSteps
  <2>1. EmitTicketEvent("request", b) /\ ticketSse' = ticketSse
    BY <1>4 DEF OnShowtimesCreateComplete
  <2>2. QED
    BY <1>4, <2>1 DEF TicketEventSteps
<1>5. CASE \/ FindShowtimesByBatchId \/ GetTheaterMap \/ (\E x \in ticketTodo : SaveTicket(x))
           \/ TicketsDatabaseFails \/ FinishTicketsJob \/ CrashBoth \/ UNCHANGED ticketVars
  BY <1>5 DEF FindShowtimesByBatchId, GetTheaterMap, SaveTicket, TicketsDatabaseFails, FinishTicketsJob,
              CrashBoth, ticketVars, TicketEventSteps
<1>6. CASE TicketsSaved
  <2>1. ticketJob \in Batch /\ EmitTicketEvent("complete", ticketJob) /\ ticketSse' = ticketSse
    BY <1>6 DEF TicketsSaved, TicketsTypeOK
  <2>2. QED
    BY <1>6, <2>1 DEF TicketEventSteps
<1>7. CASE FailTicketsJob
  BY <1>7 DEF FailTicketsJob, TicketsTypeOK, TicketEventSteps
<1>8. QED
  BY <1>1, <1>2, <1>3, <1>4, <1>5, <1>6, <1>7
     DEF RegistrationNext, allVars, TicketsNext, TicketsWork, CheckStalledTickets

(* A step that moves the batch to no new place keeps all of this.               *)
LEMMA QueuedKept ==
    ASSUME TicketsTypeOK, TicketsTypeOK', Grows, NEW b \in Batch, TicketsQueued(b), EventsKept(b),
           HasOnce(ticketAdding, b)', Has(ticketAdding, b)' => Has(ticketAdding, b),
           HasOnce(ticketWait, b)', Has(ticketWait, b)' => Has(ticketWait, b),
           b \in ticketActive' => b \in ticketActive,
           ticketJob' = b => ticketJob = b,
           ticketRuns'[b] = ticketRuns[b],
           ticketStalls'[b] = ticketStalls[b] \/ ticketStalls'[b] = ticketStalls[b] + 1
    PROVE  TicketsQueued(b)'
<1>1. TicketsPlaced(b)'
  BY DEF TicketsQueued, TicketsPlaced, EventsKept
<1>2. TicketsDue(b)' => TicketsDue(b)
  BY DEF EventsKept, TicketsDue
<1>3. TicketsFollow(b)'
  BY <1>2 DEF TicketsQueued, TicketsFollow, Grows
<1>4. TicketRunsBounded(b)'
  <2>1. ticketRuns[b] \in Nat /\ ticketStalls[b] \in Nat
    BY DEF TicketsTypeOK, TicketQueue!QueueTypeOK
  <2>2. ~CompleteSent(b)' => ~CompleteSent(b)
    BY DEF Grows
  <2>3. QED
    BY <2>1, <2>2 DEF TicketsQueued, TicketRunsBounded, EventsKept
<1>5. QED
  BY <1>1, <1>3, <1>4 DEF TicketsQueued

(* Most steps leave the places of all batches alone.                            *)
TicketPlacesKept ==
    /\ ticketAdding' \in {ticketAdding, <<>>}
    /\ ticketWait' = ticketWait
    /\ ticketActive' \subseteq ticketActive
    /\ ticketJob' \in {ticketJob, NoBatch}
    /\ ticketRuns' = ticketRuns
    /\ \A b \in Batch : ticketStalls'[b] \in {ticketStalls[b], ticketStalls[b] + 1}

LEMMA PlacesKept ==
    ASSUME TicketsTypeOK, TicketsTypeOK', Grows, TicketPlacesKept, NEW b \in Batch,
           TicketsQueued(b), EventsKept(b)
    PROVE  TicketsQueued(b)'
<1>1. HasOnce(ticketAdding, b)' /\ (Has(ticketAdding, b)' => Has(ticketAdding, b))
  BY DEF TicketPlacesKept, TicketsQueued, TicketsPlaced, Has, HasOnce
<1>2. HasOnce(ticketWait, b)' /\ (Has(ticketWait, b)' => Has(ticketWait, b))
  BY DEF TicketPlacesKept, TicketsQueued, TicketsPlaced, Has, HasOnce
<1>3. ticketJob' = b => ticketJob = b
  BY NoBatchAssumption DEF TicketPlacesKept
<1>4. QED
  BY <1>1, <1>2, <1>3, QueuedKept DEF TicketPlacesKept

(* The completion of a batch requests its tickets.  It is the first one, so     *)
(* that nothing of the batch is under way in this pipeline.                     *)
LEMMA QueuedOnComplete ==
    ASSUME RegistrationInv, TicketsTypeOK, NEW b \in Batch, OnShowtimesCreateComplete(b)
    PROVE  ~CompleteSent(b) /\ CompleteSent(b)'
<1> DEFINE N == {"complete"}
<1>1. Typed /\ bus # <<>> /\ Head(bus).batch = b /\ Head(bus).name = "complete" /\ bus' = Tail(bus)
      /\ SendEvent(b, "complete", Head(bus).shows)
  BY DEF RegistrationInv, SlotInv, OnShowtimesCreateComplete, OnCompleteEvent, OnStatusEvent
<1>2. 1 \in Due(b, N) /\ \A shows : SendEvent(b, "complete", shows) => Sent(b, N)' # {}
  <2>1. "complete" \in N
    OBVIOUS
  <2> HIDE DEF N
  <2>2. 1 \in Due(b, N)
    BY <1>1, <2>1, DeliveredDue
  <2>3. \A shows : SendEvent(b, "complete", shows) => Sent(b, N)' = Sent(b, N) \cup {Len(sse[b]) + 1}
    BY <1>1, <2>1, SentNext
  <2>4. QED
    BY <2>2, <2>3
<1>3. Once(b, N)
  BY DEF RegistrationInv, CompletedOnce
<1>4. Sent(b, N) = {}
  BY <1>2, <1>3 DEF Once
<1>5. QED
  BY <1>1, <1>2, <1>4 DEF CompleteSent

LEMMA QueuedRequested ==
    ASSUME RegistrationInv, TicketsTypeOK, TicketsTypeOK', NEW b \in Batch,
           OnShowtimesCreateComplete(b), TicketsQueued(b)
    PROVE  TicketsQueued(b)'
<1>1. ~CompleteSent(b) /\ CompleteSent(b)'
  BY QueuedOnComplete
<1>2. ~TicketsDue(b) /\ ticketRuns[b] = 0
  BY <1>1 DEF TicketsQueued, TicketsFollow, TicketRunsBounded
<1>3. /\ EmitTicketEvent("request", b)
      /\ UNCHANGED <<ticketAdding, ticketWait, ticketActive, ticketStalls, ticketJob, ticketRuns>>
  BY DEF OnShowtimesCreateComplete, ticketQueueVars, ticketWorkerVars
<1>4. AskedFor(b)' /\ HasOnce(ticketBus, TicketEvent("request", b))'
  <2>1. ~Has(ticketBus, TicketEvent("request", b)) /\ HasOnce(ticketBus, TicketEvent("request", b))
    BY <1>2 DEF TicketsQueued, TicketsPlaced, TicketsDue, AskedFor
  <2>2. Has(ticketBus', TicketEvent("request", b)) /\ HasOnce(ticketBus', TicketEvent("request", b))
    BY <1>3, <2>1, EmittedTicketEvent
  <2>3. QED
    BY <2>2 DEF AskedFor, Has, HasOnce, TicketEvent
<1>5. TicketsPlaced(b)'
  BY <1>2, <1>3, <1>4 DEF TicketsQueued, TicketsPlaced, TicketsDue, Has, HasOnce
<1>6. TicketRunsBounded(b)'
  <2>1. ticketStalls[b] \in Nat /\ ~Has(ticketWait, b)'
    BY <1>2, <1>3 DEF TicketsTypeOK, TicketQueue!QueueTypeOK, TicketsDue, Has
  <2>2. QED
    BY <1>2, <1>3, <2>1 DEF TicketRunsBounded
<1>7. QED
  BY <1>1, <1>5, <1>6 DEF TicketsQueued, TicketsFollow

(* The request is on its way to the queue ...                                   *)
LEMMA QueuedAdding ==
    ASSUME TicketsTypeOK, Grows, NEW b \in Batch, OnTicketsRequestEvent(b),
           NEW c \in Batch, TicketsQueued(c), EventsKept(c), TicketsTypeOK'
    PROVE  TicketsQueued(c)'
<1>1. /\ ticketBus # <<>> /\ Head(ticketBus) = TicketEvent("request", b) /\ ticketBus' = Tail(ticketBus)
      /\ ticketAdding' = Append(ticketAdding, b)
      /\ UNCHANGED <<ticketWait, ticketActive, ticketStalls, ticketJob, ticketRuns, ticketSse>>
  BY DEF OnTicketsRequestEvent, ticketQueueVars, ticketWorkerVars, TicketEvent
<1>2. /\ \A x : Has(ticketAdding', x) <=> Has(ticketAdding, x) \/ x = b
      /\ \A x : HasOnce(ticketAdding, x) /\ (x = b => ~Has(ticketAdding, x)) => HasOnce(ticketAdding', x)
  BY <1>1, AppendHas DEF TicketsTypeOK
<1>3. (Has(ticketWait, c)' <=> Has(ticketWait, c)) /\ (HasOnce(ticketWait, c)' <=> HasOnce(ticketWait, c))
  BY <1>1 DEF Has, HasOnce
<1>4. /\ Has(ticketAdding, c)' <=> Has(ticketAdding', c)
      /\ HasOnce(ticketAdding, c)' <=> HasOnce(ticketAdding', c)
  BY DEF Has, HasOnce
<1>5. CASE c # b
  <2>1. HasOnce(ticketAdding, c)' /\ (Has(ticketAdding, c)' => Has(ticketAdding, c))
    BY <1>2, <1>4, <1>5 DEF TicketsQueued, TicketsPlaced
  <2>2. HasOnce(ticketWait, c)' /\ (Has(ticketWait, c)' => Has(ticketWait, c))
    BY <1>3 DEF TicketsQueued, TicketsPlaced
  <2>3. QED
    BY <1>1, <2>1, <2>2, QueuedKept
<1>6. CASE c = b
  <2>1. /\ Has(ticketBus, TicketEvent("request", c)) /\ ~Has(ticketBus', TicketEvent("request", c))
        /\ HasOnce(ticketBus', TicketEvent("request", c))
    BY <1>1, <1>6, DeliveredTicketEvent DEF TicketsQueued, TicketsPlaced
  <2>2. AskedFor(c) /\ ~AskedFor(c)' /\ HasOnce(ticketBus, TicketEvent("request", c))'
    BY <2>1 DEF AskedFor, Has, HasOnce, TicketEvent
  <2>3. HasOnce(ticketAdding, c)' /\ Has(ticketAdding, c)'
    BY <1>2, <1>4, <1>6, <2>2 DEF TicketsQueued, TicketsPlaced
  <2>4. CompleteSent(c)' /\ ticketRuns[c] = 0
    BY <2>2 DEF TicketsQueued, TicketsFollow, TicketsDue, TicketRunsBounded, Grows
  <2>5. TicketsPlaced(c)'
    BY <1>1, <1>3, <2>2, <2>3 DEF TicketsQueued, TicketsPlaced
  <2>6. TicketRunsBounded(c)'
    BY <1>1, <1>3, <2>4 DEF TicketsQueued, TicketRunsBounded
  <2>7. QED
    BY <2>4, <2>5, <2>6 DEF TicketsQueued, TicketsFollow
<1>7. QED
  BY <1>5, <1>6

(* ... and in it, ...                                                           *)
LEMMA QueuedWaiting ==
    ASSUME TicketsTypeOK, Grows, NEW b \in Batch, TicketsQueueAdd(b),
           NEW c \in Batch, TicketsQueued(c), EventsKept(c), TicketsTypeOK'
    PROVE  TicketsQueued(c)'
<1>1. /\ ticketAdding # <<>> /\ b = Head(ticketAdding) /\ ticketAdding' = Tail(ticketAdding)
      /\ ticketWait' = Append(ticketWait, b)
      /\ UNCHANGED <<ticketBus, ticketActive, ticketStalls, ticketJob, ticketRuns>>
  BY DEF TicketsQueueAdd, TicketQueue!Add, ticketWorkerVars
<1>2. /\ Has(ticketAdding, b)
      /\ \A x : Has(ticketAdding', x) => Has(ticketAdding, x)
      /\ \A x : HasOnce(ticketAdding, x)
                  => HasOnce(ticketAdding', x) /\ (x = b => ~Has(ticketAdding', x))
  BY <1>1, TailHas DEF TicketsTypeOK
<1>3. /\ \A x : Has(ticketWait', x) <=> Has(ticketWait, x) \/ x = b
      /\ \A x : HasOnce(ticketWait, x) /\ (x = b => ~Has(ticketWait, x)) => HasOnce(ticketWait', x)
  <2>1. ticketWait \in Seq(Batch) /\ ticketWait' = Append(ticketWait, b)
    BY <1>1 DEF TicketsTypeOK, TicketQueue!QueueTypeOK
  <2>2. QED
    BY <2>1, AppendHas
<1>4. /\ Has(ticketAdding, c)' <=> Has(ticketAdding', c)
      /\ HasOnce(ticketAdding, c)' <=> HasOnce(ticketAdding', c)
      /\ Has(ticketWait, c)' <=> Has(ticketWait', c)
      /\ HasOnce(ticketWait, c)' <=> HasOnce(ticketWait', c)
  BY DEF Has, HasOnce
<1>5. HasOnce(ticketAdding, c)' /\ (Has(ticketAdding, c)' => Has(ticketAdding, c))
  BY <1>2, <1>4 DEF TicketsQueued, TicketsPlaced
<1>6. CASE c # b
  <2>1. HasOnce(ticketWait, c)' /\ (Has(ticketWait, c)' => Has(ticketWait, c))
    BY <1>3, <1>4, <1>6 DEF TicketsQueued, TicketsPlaced
  <2>2. QED
    BY <1>1, <1>5, <2>1, QueuedKept
<1>7. CASE c = b
  <2>1. Has(ticketAdding, c) /\ ~Has(ticketAdding, c)'
    BY <1>2, <1>4, <1>7 DEF TicketsQueued, TicketsPlaced
  <2>2. ~AskedFor(c)'
    BY <2>1 DEF TicketsQueued, TicketsPlaced, EventsKept
  <2>3. ~Has(ticketWait, c) /\ c \notin ticketActive
    BY <2>1 DEF TicketsQueued, TicketsPlaced
  <2>4. HasOnce(ticketWait, c)'
    BY <1>3, <1>4, <2>3 DEF TicketsQueued, TicketsPlaced
  <2>5. CompleteSent(c)' /\ ticketRuns[c] = 0 /\ ticketStalls[c] \in Nat
    BY <2>1 DEF TicketsQueued, TicketsFollow, TicketsDue, TicketRunsBounded, Grows, TicketsTypeOK,
                TicketQueue!QueueTypeOK
  <2>6. TicketsPlaced(c)'
    BY <1>1, <1>5, <2>1, <2>2, <2>3, <2>4 DEF TicketsQueued, TicketsPlaced, EventsKept
  <2>7. TicketRunsBounded(c)'
    BY <1>1, <2>1, <2>2, <2>5 DEF TicketsQueued, TicketRunsBounded
  <2>8. QED
    BY <2>5, <2>6, <2>7 DEF TicketsQueued, TicketsFollow
<1>8. QED
  BY <1>6, <1>7

(* ... taken from it, ...                                                       *)
LEMMA QueuedStarted ==
    ASSUME TicketsTypeOK, Grows, NEW b \in Batch, StartTicketsJob(b),
           NEW c \in Batch, TicketsQueued(c), EventsKept(c), TicketsTypeOK'
    PROVE  TicketsQueued(c)'
<1>1. /\ ticketWait # <<>> /\ b = Head(ticketWait) /\ ticketWait' = Tail(ticketWait)
      /\ ticketActive' = ticketActive \cup {b}
      /\ ticketJob' = b
      /\ ticketRuns' = [ticketRuns EXCEPT ![b] = @ + 1]
      /\ UNCHANGED <<ticketAdding, ticketStalls>>
  BY DEF StartTicketsJob, TicketQueue!Take
<1>2. /\ Has(ticketWait, b)
      /\ \A x : Has(ticketWait', x) => Has(ticketWait, x)
      /\ \A x : HasOnce(ticketWait, x) => HasOnce(ticketWait', x) /\ (x = b => ~Has(ticketWait', x))
  <2>1. ticketWait \in Seq(Batch) /\ ticketWait # <<>>
    BY <1>1 DEF TicketsTypeOK, TicketQueue!QueueTypeOK
  <2>2. QED
    BY <1>1, <2>1, TailHas
<1>3. /\ Has(ticketWait, c)' <=> Has(ticketWait', c)
      /\ HasOnce(ticketWait, c)' <=> HasOnce(ticketWait', c)
      /\ Has(ticketAdding, c)' <=> Has(ticketAdding, c)
      /\ HasOnce(ticketAdding, c)' <=> HasOnce(ticketAdding, c)
  BY <1>1 DEF Has, HasOnce
<1>4. HasOnce(ticketWait, c)' /\ (Has(ticketWait, c)' => Has(ticketWait, c))
  BY <1>2, <1>3 DEF TicketsQueued, TicketsPlaced
<1>5. ticketRuns \in [Batch -> Nat] /\ ticketStalls[c] \in Nat
  BY DEF TicketsTypeOK, TicketQueue!QueueTypeOK
<1>6. CASE c # b
  <2>1. HasOnce(ticketAdding, c)' /\ ticketRuns'[c] = ticketRuns[c]
    BY <1>1, <1>3, <1>5, <1>6 DEF TicketsQueued, TicketsPlaced
  <2>2. QED
    BY <1>1, <1>3, <1>4, <1>6, <2>1, QueuedKept
<1>7. CASE c = b
  <2>1. Has(ticketWait, c) /\ ~Has(ticketWait, c)'
    BY <1>2, <1>3, <1>7 DEF TicketsQueued, TicketsPlaced
  <2>2. ~AskedFor(c)' /\ ~Has(ticketAdding, c)'
    BY <1>3, <2>1 DEF TicketsQueued, TicketsPlaced, EventsKept
  <2>3. CompleteSent(c)'
    BY <2>1 DEF TicketsQueued, TicketsFollow, TicketsDue, Grows
  <2>4. ticketRuns[c] <= ticketStalls[c] /\ ticketRuns'[c] = ticketRuns[c] + 1 /\ ticketRuns[c] \in Nat
    BY <1>1, <1>5, <1>7, <2>1 DEF TicketsQueued, TicketRunsBounded
  <2>5. TicketsPlaced(c)'
    BY <1>3, <1>4, <2>1, <2>2 DEF TicketsQueued, TicketsPlaced, EventsKept
  <2>6. TicketRunsBounded(c)'
    BY <1>1, <1>5, <2>1, <2>2, <2>3, <2>4 DEF TicketRunsBounded
  <2>7. QED
    BY <2>3, <2>5, <2>6 DEF TicketsQueued, TicketsFollow
<1>8. QED
  BY <1>6, <1>7

(* ... and, if it stalls, put back.                                             *)
LEMMA QueuedAgain ==
    ASSUME TicketsTypeOK, Grows, NEW b \in Batch, RequeueStalledTickets(b),
           NEW c \in Batch, TicketsQueued(c), EventsKept(c), TicketsTypeOK'
    PROVE  TicketsQueued(c)'
<1>1. /\ b \in ticketActive /\ ticketWait' = <<b>> \o ticketWait
      /\ ticketActive' = ticketActive \ {b}
      /\ ticketStalls' = [ticketStalls EXCEPT ![b] = @ + 1]
      /\ UNCHANGED <<ticketAdding, ticketJob, ticketRuns>>
  BY DEF RequeueStalledTickets, TicketQueue!Requeue, ticketBusVars, ticketWorkerVars
<1>2. /\ \A x : Has(ticketWait', x) <=> Has(ticketWait, x) \/ x = b
      /\ \A x : HasOnce(ticketWait, x) /\ (x = b => ~Has(ticketWait, x)) => HasOnce(ticketWait', x)
  BY <1>1, PushHas DEF TicketsTypeOK, TicketQueue!QueueTypeOK
<1>3. /\ Has(ticketWait, c)' <=> Has(ticketWait', c)
      /\ HasOnce(ticketWait, c)' <=> HasOnce(ticketWait', c)
      /\ Has(ticketAdding, c)' <=> Has(ticketAdding, c)
      /\ HasOnce(ticketAdding, c)' <=> HasOnce(ticketAdding, c)
  BY <1>1 DEF Has, HasOnce
<1>4. ticketRuns[c] \in Nat /\ ticketStalls \in [Batch -> Nat]
  BY DEF TicketsTypeOK, TicketQueue!QueueTypeOK
<1>5. CASE c # b
  <2>1. HasOnce(ticketWait, c)' /\ (Has(ticketWait, c)' => Has(ticketWait, c))
    BY <1>2, <1>3, <1>5 DEF TicketsQueued, TicketsPlaced
  <2>2. HasOnce(ticketAdding, c)' /\ ticketStalls'[c] = ticketStalls[c]
    BY <1>1, <1>3, <1>4, <1>5 DEF TicketsQueued, TicketsPlaced
  <2>3. QED
    BY <1>1, <1>3, <2>1, <2>2, QueuedKept
<1>6. CASE c = b
  <2>1. ~AskedFor(c) /\ ~Has(ticketAdding, c) /\ ~Has(ticketWait, c)
    BY <1>1, <1>6 DEF TicketsQueued, TicketsPlaced
  <2>2. HasOnce(ticketWait, c)' /\ ~AskedFor(c)' /\ ~Has(ticketAdding, c)'
    BY <1>2, <1>3, <2>1 DEF TicketsQueued, TicketsPlaced, EventsKept
  <2>3. CompleteSent(c)'
    BY <1>1, <1>6 DEF TicketsQueued, TicketsFollow, TicketsDue, Grows
  <2>4. ticketRuns[c] <= ticketStalls[c] + 1 /\ ticketStalls'[c] = ticketStalls[c] + 1
        /\ ticketStalls[c] \in Nat
    BY <1>1, <1>4, <1>6 DEF TicketsQueued, TicketRunsBounded
  <2>5. TicketsPlaced(c)'
    BY <1>1, <1>3, <1>6, <2>2 DEF TicketsQueued, TicketsPlaced, EventsKept
  <2>6. TicketRunsBounded(c)'
    BY <1>1, <1>4, <2>2, <2>3, <2>4 DEF TicketRunsBounded
  <2>7. QED
    BY <2>3, <2>5, <2>6 DEF TicketsQueued, TicketsFollow
<1>7. QED
  BY <1>5, <1>6

(* All steps but these leave every batch where it is, or lose it.               *)
LEMMA StepsOfTicketPlaces ==
    ASSUME TicketsTypeOK, [RegistrationNext]_allVars
    PROVE  \/ TicketPlacesKept
           \/ \E b \in Batch : \/ OnTicketsRequestEvent(b) \/ TicketsQueueAdd(b)
                               \/ StartTicketsJob(b) \/ RequeueStalledTickets(b)
<1> USE DEF ticketBusVars, ticketQueueVars, ticketWorkerVars, TicketPlacesKept
<1>1. ASSUME NEW b \in Batch,
             \/ OnTicketsProcessingEvent(b) \/ OnTicketsCompleteEvent(b) \/ OnTicketsErrorEvent(b)
             \/ TicketsSendWaiting(b) \/ OnShowtimesCreateComplete(b)
      PROVE  TicketPlacesKept
  BY <1>1 DEF OnTicketsProcessingEvent, OnTicketsCompleteEvent, OnTicketsErrorEvent,
              OnTicketsStatusEvent, TicketsSendWaiting, OnShowtimesCreateComplete
<1>2. CASE \/ FindShowtimesByBatchId \/ GetTheaterMap \/ (\E x \in ticketTodo : SaveTicket(x))
           \/ TicketsSaved \/ TicketsDatabaseFails \/ UNCHANGED ticketVars
  BY <1>2 DEF FindShowtimesByBatchId, GetTheaterMap, SaveTicket, TicketsSaved, TicketsDatabaseFails,
              ticketVars
<1>3. CASE FinishTicketsJob \/ FailTicketsJob \/ CrashBoth
  BY <1>3 DEF FinishTicketsJob, FailTicketsJob, CrashBoth, TicketsIdle, TicketQueue!Settle,
              TicketQueue!LoseAllLocks
<1>4. ASSUME NEW b \in Batch, TicketsLockLapses(b) \/ FailStalledTickets(b)
      PROVE  TicketPlacesKept
  <2>1. ticketStalls \in [Batch -> Nat]
    BY DEF TicketsTypeOK, TicketQueue!QueueTypeOK
  <2>2. QED
    BY <1>4, <2>1 DEF TicketsLockLapses, FailStalledTickets, TicketQueue!LoseLock, TicketQueue!GiveUp
<1>5. QED
  BY <1>1, <1>2, <1>3, <1>4
     DEF RegistrationNext, allVars, TicketsNext, TicketsDeliver, TicketsWork, CheckStalledTickets

QueuedInv == TicketsTypeOK /\ \A b \in Batch : TicketsQueued(b)

LEMMA InitTicketsQueued == RegistrationInit => QueuedInv
<1> SUFFICES ASSUME RegistrationInit, NEW b \in Batch PROVE TicketsQueued(b)
  BY InitTicketsType DEF RegistrationInit, QueuedInv
<1>1. /\ ticketBus = <<>> /\ ticketAdding = <<>> /\ ticketWait = <<>> /\ ticketActive = {}
      /\ ticketJob = NoBatch /\ ticketRuns[b] = 0 /\ ticketStalls[b] = 0 /\ ticketSse[b] = <<>>
  BY DEF RegistrationInit, TicketsInit, TicketQueue!QueueInit
<1>2. \A x : ~Has(<<>>, x) /\ HasOnce(<<>>, x)
  BY DEF Has, HasOnce
<1>3. TicketsPlaced(b) /\ ~TicketsDue(b)
  BY <1>1, <1>2, AnnouncedTickets, NoBatchAssumption DEF TicketsPlaced, TicketsDue, AskedFor
<1>4. QED
  BY <1>1, <1>3 DEF TicketsQueued, TicketsFollow, TicketRunsBounded, TicketsDue

LEMMA NextTicketsQueued ==
    ASSUME RegistrationInv, QueuedInv, [RegistrationNext]_allVars
    PROVE  QueuedInv'
<1>1. TicketsTypeOK /\ TicketsTypeOK' /\ Grows
  BY NextTicketsType, RegistrationGrows DEF RegistrationInv, SlotInv, QueuedInv
<1>2. SUFFICES ASSUME NEW c \in Batch PROVE TicketsQueued(c)'
  BY <1>1 DEF QueuedInv
<1>3. TicketsQueued(c)
  BY DEF QueuedInv
<1>4. CASE OnShowtimesCreateComplete(c)
  BY <1>1, <1>3, <1>4, QueuedRequested
<1>5. CASE ~OnShowtimesCreateComplete(c)
  <2>1. EventsKept(c)
    BY <1>1, <1>5, StepsOfTicketEvents, TicketEventsKept
  <2>2. CASE TicketPlacesKept
    BY <1>1, <1>3, <2>1, <2>2, PlacesKept
  <2>3. ASSUME NEW b \in Batch, OnTicketsRequestEvent(b) PROVE TicketsQueued(c)'
    BY <1>1, <1>3, <2>1, <2>3, QueuedAdding
  <2>4. ASSUME NEW b \in Batch, TicketsQueueAdd(b) PROVE TicketsQueued(c)'
    BY <1>1, <1>3, <2>1, <2>4, QueuedWaiting
  <2>5. ASSUME NEW b \in Batch, StartTicketsJob(b) PROVE TicketsQueued(c)'
    BY <1>1, <1>3, <2>1, <2>5, QueuedStarted
  <2>6. ASSUME NEW b \in Batch, RequeueStalledTickets(b) PROVE TicketsQueued(c)'
    BY <1>1, <1>3, <2>1, <2>6, QueuedAgain
  <2>7. QED
    BY <1>1, <2>2, <2>3, <2>4, <2>5, <2>6, StepsOfTicketPlaces
<1>6. QED
  BY <1>4, <1>5

----------------------------------------------------------------------------
(* What the tickets worker has saved and has still to save.                     *)

TicketsNumbered == ticketPc # "idle" => ticketRun = ticketRuns[ticketJob] /\ ticketRun > 0

FoundAll == ticketPc = "theaters" => found = ShowtimesOf(ticketJob)

TodoFits ==
    \A k \in ticketTodo :
        /\ ticketPc # "idle"
        /\ k.showtime \in ShowtimesOf(ticketJob)
        /\ k.run = ticketRun

TicketsInserting ==
    ticketPc = "save" => NewTickets(ShowtimesOf(ticketJob), ticketRun) \subseteq tickets \cup ticketTodo

TicketsFit ==
    \A k \in tickets :
        /\ k.showtime \in showtimes
        /\ CompleteSent(k.showtime.batch)
        /\ k.run \in 1..ticketRuns[k.showtime.batch]

SeatsCovered(b) ==
    \A s \in ShowtimesOf(b) : \A x \in SeatsOf[s.theater] : TicketsFor(s, x) # {}

WorkerSound == TicketsNumbered /\ FoundAll /\ TodoFits /\ TicketsInserting

TicketsInv ==
    /\ RegistrationInv
    /\ QueuedInv
    /\ WorkerSound
    /\ TicketsFit
    /\ \A b \in Batch : TicketsAnnounced(b, "complete") => SeatsCovered(b)

(* The showtimes of the job in progress do not change: its batch is complete.   *)
LEMMA WorkedOnIsComplete ==
    ASSUME QueuedInv, Grows, ticketPc # "idle"
    PROVE  /\ ticketJob \in Batch
           /\ CompleteSent(ticketJob)
           /\ ShowtimesOf(ticketJob) \subseteq showtimes
           /\ \A s \in ShowtimesOf(ticketJob) : s.batch = ticketJob
           /\ ticketJob' = ticketJob => ShowtimesOf(ticketJob)' = ShowtimesOf(ticketJob)
<1>1. ticketJob \in Batch
  BY DEF QueuedInv, TicketsTypeOK
<1>2. CompleteSent(ticketJob)
  BY <1>1 DEF QueuedInv, TicketsQueued, TicketsFollow, TicketsDue
<1>3. PICK b \in Batch : b = ticketJob
  BY <1>1
<1>4. ShowtimesOf(b)' = ShowtimesOf(b)
  BY <1>2, <1>3 DEF Grows
<1>5. QED
  BY <1>1, <1>2, <1>3, <1>4 DEF ShowtimesOf

LEMMA WorkerKept ==
    ASSUME TicketsInv, Grows, UNCHANGED ticketWorkerVars, UNCHANGED tickets
    PROVE  WorkerSound'
<1>1. UNCHANGED <<ticketPc, ticketJob, ticketRun, ticketRuns, found, ticketTodo, tickets>>
  BY DEF ticketWorkerVars
<1>2. QueuedInv /\ TicketsNumbered /\ FoundAll /\ TodoFits /\ TicketsInserting
  BY DEF TicketsInv, WorkerSound
<1>3. CASE ticketPc = "idle"
  BY <1>1, <1>2, <1>3 DEF WorkerSound, TicketsNumbered, FoundAll, TodoFits, TicketsInserting
<1>4. CASE ticketPc # "idle"
  <2>1. ShowtimesOf(ticketJob)' = ShowtimesOf(ticketJob)
    BY <1>1, <1>2, <1>4, WorkedOnIsComplete
  <2>2. TicketsNumbered' /\ FoundAll'
    BY <1>1, <1>2, <2>1 DEF TicketsNumbered, FoundAll
  <2>3. TodoFits'
    BY <1>1, <1>2, <2>1 DEF TodoFits
  <2>4. TicketsInserting'
    BY <1>1, <1>2, <2>1 DEF TicketsInserting, NewTickets
  <2>5. QED
    BY <2>2, <2>3, <2>4 DEF WorkerSound
<1>5. QED
  BY <1>3, <1>4

LEMMA WorkerStarts ==
    ASSUME TicketsInv, Grows, NEW b \in Batch, StartTicketsJob(b)
    PROVE  WorkerSound'
<1>1. /\ ticketPc = "idle" /\ ticketPc' = "find" /\ ticketTodo' = ticketTodo /\ ticketJob' = b
      /\ ticketRuns' = [ticketRuns EXCEPT ![b] = @ + 1] /\ ticketRun' = ticketRuns[b] + 1
      /\ ticketRuns \in [Batch -> Nat]
  BY DEF StartTicketsJob, TicketsInv, QueuedInv, TicketsTypeOK
<1>2. ticketTodo' = {}
  BY <1>1 DEF TicketsInv, WorkerSound, TodoFits
<1>3. TicketsNumbered'
  BY <1>1 DEF TicketsNumbered
<1>4. QED
  BY <1>1, <1>2, <1>3 DEF WorkerSound, FoundAll, TodoFits, TicketsInserting

LEMMA WorkerFinds ==
    ASSUME TicketsInv, Grows, FindShowtimesByBatchId, UNCHANGED vars
    PROVE  WorkerSound'
<1>1. /\ ticketPc = "find" /\ ticketPc' = "theaters" /\ found' = ShowtimesOf(ticketJob)
      /\ UNCHANGED <<ticketJob, ticketRun, ticketRuns, ticketTodo>>
  BY DEF FindShowtimesByBatchId, ShowtimesOf
<1>2. ShowtimesOf(ticketJob)' = ShowtimesOf(ticketJob)
  BY <1>1, WorkedOnIsComplete DEF TicketsInv
<1>3. TicketsNumbered /\ TodoFits
  BY DEF TicketsInv, WorkerSound
<1>4. TicketsNumbered' /\ FoundAll'
  BY <1>1, <1>2, <1>3 DEF TicketsNumbered, FoundAll
<1>5. TodoFits'
  BY <1>1, <1>2, <1>3 DEF TodoFits
<1>6. QED
  BY <1>1, <1>4, <1>5 DEF WorkerSound, TicketsInserting

LEMMA WorkerPrepares ==
    ASSUME TicketsInv, Grows, GetTheaterMap
    PROVE  WorkerSound'
<1>1. /\ ticketPc = "theaters" /\ ticketPc' \in {"save", "throw"}
      /\ UNCHANGED <<ticketJob, ticketRun, ticketRuns, tickets>>
      /\ ticketPc' = "save" => ticketTodo' = NewTickets(found, ticketRun)
      /\ ticketPc' = "throw" => ticketTodo' = ticketTodo
  BY DEF GetTheaterMap
<1>2. ShowtimesOf(ticketJob)' = ShowtimesOf(ticketJob)
  BY <1>1, WorkedOnIsComplete DEF TicketsInv
<1>3. TicketsNumbered /\ TodoFits /\ found = ShowtimesOf(ticketJob)
  BY <1>1 DEF TicketsInv, WorkerSound, FoundAll
<1>4. TicketsNumbered' /\ FoundAll'
  BY <1>1, <1>3 DEF TicketsNumbered, FoundAll
<1>5. TodoFits'
  <2>1. \A k \in NewTickets(found, ticketRun) : k.showtime \in found /\ k.run = ticketRun
    BY NewTicketsType DEF TicketsInv, QueuedInv, TicketsTypeOK
  <2>2. QED
    BY <1>1, <1>2, <1>3, <2>1 DEF TodoFits
<1>6. TicketsInserting'
  <2>1. ASSUME ticketPc' = "save"
        PROVE  NewTickets(ShowtimesOf(ticketJob), ticketRun)' = ticketTodo'
    BY <1>1, <1>2, <1>3, <2>1 DEF NewTickets
  <2>2. QED
    BY <2>1 DEF TicketsInserting
<1>7. QED
  BY <1>4, <1>5, <1>6 DEF WorkerSound

LEMMA WorkerSaves ==
    ASSUME TicketsInv, Grows, NEW x \in ticketTodo, SaveTicket(x)
    PROVE  WorkerSound'
<1>1. /\ ticketPc = "save" /\ tickets' = tickets \cup {x} /\ ticketTodo' = ticketTodo \ {x}
      /\ UNCHANGED <<ticketPc, ticketJob, ticketRun, ticketRuns>>
  BY DEF SaveTicket
<1>2. ShowtimesOf(ticketJob)' = ShowtimesOf(ticketJob)
  BY <1>1, WorkedOnIsComplete DEF TicketsInv
<1>3. TicketsNumbered /\ TodoFits /\ TicketsInserting
  BY DEF TicketsInv, WorkerSound
<1>4. TicketsNumbered' /\ FoundAll'
  BY <1>1, <1>3 DEF TicketsNumbered, FoundAll
<1>5. TodoFits'
  BY <1>1, <1>2, <1>3 DEF TodoFits
<1>6. TicketsInserting'
  <2>1. NewTickets(ShowtimesOf(ticketJob), ticketRun)' = NewTickets(ShowtimesOf(ticketJob), ticketRun)
    BY <1>1, <1>2 DEF NewTickets
  <2>2. QED
    BY <1>1, <1>3, <2>1 DEF TicketsInserting
<1>7. QED
  BY <1>4, <1>5, <1>6 DEF WorkerSound

LEMMA WorkerEnds ==
    ASSUME TicketsInv, Grows,
           TicketsSaved \/ TicketsDatabaseFails \/ FinishTicketsJob \/ FailTicketsJob \/ CrashBoth
    PROVE  WorkerSound'
<1>1. /\ ticketPc' \in {"idle", "throw", "return"} /\ ticketTodo' = {}
      /\ ticketPc' = "idle" \/ (ticketPc # "idle" /\ UNCHANGED <<ticketJob, ticketRun, ticketRuns>>)
  BY DEF TicketsSaved, TicketsDatabaseFails, FinishTicketsJob, FailTicketsJob, CrashBoth, TicketsIdle
<1>2. TicketsNumbered'
  BY <1>1 DEF TicketsInv, WorkerSound, TicketsNumbered
<1>3. QED
  BY <1>1, <1>2 DEF WorkerSound, FoundAll, TodoFits, TicketsInserting

LEMMA NextWorker ==
    ASSUME TicketsInv, Grows, [RegistrationNext]_allVars
    PROVE  WorkerSound'
<1> DEFINE Kept == UNCHANGED ticketWorkerVars /\ UNCHANGED tickets
<1>1. CASE \/ UNCHANGED ticketVars
           \/ \E b \in Batch : TicketsLockLapses(b) \/ OnShowtimesCreateComplete(b) \/ TicketsDeliver(b)
                                  \/ TicketsQueueAdd(b) \/ TicketsSendWaiting(b) \/ CheckStalledTickets(b)
  <2>1. Kept
    BY <1>1 DEF ticketVars, TicketsLockLapses, OnShowtimesCreateComplete, TicketsDeliver,
                OnTicketsRequestEvent, OnTicketsProcessingEvent, OnTicketsCompleteEvent,
                OnTicketsErrorEvent, OnTicketsStatusEvent, TicketsQueueAdd, TicketsSendWaiting,
                CheckStalledTickets, RequeueStalledTickets, FailStalledTickets
  <2>2. QED
    BY <2>1, WorkerKept
<1>2. CASE TicketsWork /\ UNCHANGED vars
  BY <1>2, WorkerStarts, WorkerFinds, WorkerPrepares, WorkerSaves, WorkerEnds DEF TicketsWork
<1>3. CASE TicketsDatabaseFails \/ CrashBoth
  BY <1>3, WorkerEnds
<1>4. QED
  BY <1>1, <1>2, <1>3 DEF RegistrationNext, allVars, TicketsNext

(* Tickets are only added, by the worker, and runs only counted up.             *)
LEMMA TicketsGrow ==
    ASSUME TicketsTypeOK, [RegistrationNext]_allVars
    PROVE  /\ tickets' = tickets \/ \E x \in ticketTodo : SaveTicket(x)
           /\ \A b \in Batch : ticketRuns[b] <= ticketRuns'[b]
<1> DEFINE Kept == tickets' = tickets /\ ticketRuns' = ticketRuns
<1>1. ticketRuns \in [Batch -> Nat]
  BY DEF TicketsTypeOK
<1>2. CASE \/ UNCHANGED ticketVars
           \/ \E b \in Batch : TicketsLockLapses(b) \/ OnShowtimesCreateComplete(b) \/ TicketsDeliver(b)
                                  \/ TicketsQueueAdd(b) \/ TicketsSendWaiting(b) \/ CheckStalledTickets(b)
  <2>1. Kept
    BY <1>2 DEF ticketVars, ticketWorkerVars, TicketsLockLapses, OnShowtimesCreateComplete, TicketsDeliver,
                OnTicketsRequestEvent, OnTicketsProcessingEvent, OnTicketsCompleteEvent,
                OnTicketsErrorEvent, OnTicketsStatusEvent, TicketsQueueAdd, TicketsSendWaiting,
                CheckStalledTickets, RequeueStalledTickets, FailStalledTickets
  <2>2. QED
    BY <1>1, <2>1
<1>3. ASSUME NEW b \in Batch, StartTicketsJob(b)
      PROVE  tickets' = tickets /\ \A c \in Batch : ticketRuns[c] <= ticketRuns'[c]
  BY <1>1, <1>3 DEF StartTicketsJob
<1>4. CASE \/ FindShowtimesByBatchId \/ GetTheaterMap \/ TicketsSaved \/ TicketsDatabaseFails
           \/ FinishTicketsJob \/ FailTicketsJob \/ CrashBoth
  <2>1. Kept
    BY <1>4 DEF FindShowtimesByBatchId, GetTheaterMap, TicketsSaved, TicketsDatabaseFails,
                FinishTicketsJob, FailTicketsJob, CrashBoth, TicketsIdle
  <2>2. QED
    BY <1>1, <2>1
<1>5. ASSUME NEW x \in ticketTodo, SaveTicket(x) PROVE ticketRuns' = ticketRuns
  BY <1>5 DEF SaveTicket
<1>6. QED
  BY <1>1, <1>2, <1>3, <1>4, <1>5 DEF RegistrationNext, allVars, TicketsNext, TicketsWork

LEMMA NextTicketsFit ==
    ASSUME TicketsInv, Grows, [RegistrationNext]_allVars, TicketsTypeOK'
    PROVE  TicketsFit' /\ tickets \subseteq tickets'
<1>1. /\ tickets' = tickets \/ \E x \in ticketTodo : SaveTicket(x)
      /\ \A b \in Batch : ticketRuns[b] <= ticketRuns'[b]
  BY TicketsGrow DEF TicketsInv, QueuedInv
<1>2. /\ ticketRuns \in [Batch -> Nat] /\ ticketRuns' \in [Batch -> Nat]
      /\ \A s \in showtimes : s.batch \in Batch
  BY DEF TicketsInv, QueuedInv, TicketsTypeOK, RegistrationInv, SlotInv, Typed, TypeOK, Showtime
<1>3. tickets' \subseteq tickets \cup ticketTodo /\ tickets \subseteq tickets'
  BY <1>1 DEF SaveTicket
<1>4. ASSUME NEW k \in tickets \cup ticketTodo
      PROVE  /\ k.showtime \in showtimes /\ CompleteSent(k.showtime.batch)
             /\ k.run \in 1..ticketRuns[k.showtime.batch]
  <2>1. CASE k \in tickets
    BY <2>1 DEF TicketsInv, TicketsFit
  <2>2. CASE k \in ticketTodo
    <3>1. ticketPc # "idle" /\ k.showtime \in ShowtimesOf(ticketJob) /\ k.run = ticketRun
          /\ ticketRun = ticketRuns[ticketJob] /\ ticketRun > 0
      BY <2>2 DEF TicketsInv, WorkerSound, TodoFits, TicketsNumbered
    <3>2. ticketJob \in Batch /\ CompleteSent(ticketJob) /\ k.showtime \in showtimes
          /\ k.showtime.batch = ticketJob
      BY <3>1, WorkedOnIsComplete DEF TicketsInv
    <3>3. ticketRuns[ticketJob] \in Nat
      BY <1>2, <3>2
    <3>4. QED
      BY <3>1, <3>2, <3>3
  <2>3. QED
    BY <2>1, <2>2
<1>5. ASSUME NEW k \in tickets'
      PROVE  /\ k.showtime \in showtimes' /\ CompleteSent(k.showtime.batch)'
             /\ k.run \in 1..ticketRuns'[k.showtime.batch]
  <2>1. /\ k.showtime \in showtimes /\ CompleteSent(k.showtime.batch)
        /\ k.run \in 1..ticketRuns[k.showtime.batch]
    BY <1>3, <1>4
  <2>2. PICK b \in Batch : b = k.showtime.batch
    BY <1>2, <2>1
  <2>3. CompleteSent(b)' /\ k.showtime \in showtimes'
    BY <2>1, <2>2 DEF Grows
  <2>4. k.run \in 1..ticketRuns'[b]
    BY <1>1, <1>2, <2>1, <2>2
  <2>5. QED
    BY <2>2, <2>3, <2>4
<1>6. QED
  BY <1>3, <1>5 DEF TicketsFit

(* The tickets of a batch become complete when its job has saved all of them.   *)
LEMMA AnnouncedNow ==
    ASSUME TicketsTypeOK, [RegistrationNext]_allVars, NEW b \in Batch, TicketsAnnounced(b, "complete")'
    PROVE  TicketsAnnounced(b, "complete") \/ (TicketsSaved /\ ticketJob = b)
<1>1. CASE OnShowtimesCreateComplete(b)
  <2>1. EmitTicketEvent("request", b) /\ ticketSse' = ticketSse
    BY <1>1 DEF OnShowtimesCreateComplete
  <2>2. Has(ticketBus', TicketEvent("complete", b)) <=> Has(ticketBus, TicketEvent("complete", b))
    BY <2>1, EmittedTicketEvent
  <2>3. TicketsAnnounced(b, "complete")' <=>
           Has(ticketBus', TicketEvent("complete", b)) \/ Has(ticketSse'[b], "complete")
    BY DEF TicketsAnnounced, Has, TicketEvent
  <2>4. QED
    BY <2>1, <2>2, <2>3, AnnouncedTickets
<1>2. CASE ~OnShowtimesCreateComplete(b)
  BY <1>2, StepsOfTicketEvents, TicketEventsKept DEF EventsKept
<1>3. QED
  BY <1>1, <1>2

LEMMA NextCovered ==
    ASSUME TicketsInv, Grows, [RegistrationNext]_allVars, tickets \subseteq tickets',
           NEW b \in Batch, TicketsAnnounced(b, "complete")'
    PROVE  SeatsCovered(b)'
<1>1. CompleteSent(b) /\ SeatsCovered(b)
  <2>1. CASE TicketsAnnounced(b, "complete")
    BY <2>1 DEF TicketsInv, QueuedInv, TicketsQueued, TicketsFollow, TicketsDue
  <2>2. CASE TicketsSaved /\ ticketJob = b
    <3>1. ticketPc = "save" /\ ticketTodo = {}
      BY <2>2 DEF TicketsSaved
    <3>2. NewTickets(ShowtimesOf(b), ticketRun) \subseteq tickets
      BY <2>2, <3>1 DEF TicketsInv, WorkerSound, TicketsInserting
    <3>3. ASSUME NEW s \in ShowtimesOf(b), NEW x \in SeatsOf[s.theater] PROVE TicketsFor(s, x) # {}
      <4>1. [showtime |-> s, seat |-> x, run |-> ticketRun] \in tickets
        BY <3>2 DEF NewTickets
      <4>2. QED
        BY <4>1 DEF TicketsFor
    <3>4. CompleteSent(b)
      BY <2>2, <3>1, WorkedOnIsComplete DEF TicketsInv
    <3>5. QED
      BY <3>3, <3>4 DEF SeatsCovered
  <2>3. QED
    BY <2>1, <2>2, AnnouncedNow DEF TicketsInv, QueuedInv
<1>2. ShowtimesOf(b)' = ShowtimesOf(b)
  BY <1>1 DEF Grows
<1>3. \A s, x : TicketsFor(s, x) \subseteq TicketsFor(s, x)'
  BY DEF TicketsFor
<1>4. QED
  BY <1>1, <1>2, <1>3 DEF SeatsCovered

LEMMA InitTickets == RegistrationInit => TicketsInv
<1> SUFFICES ASSUME RegistrationInit PROVE TicketsInv
  OBVIOUS
<1>1. RegistrationInv /\ QueuedInv
  BY InitRegistration, InitTicketsQueued
<1>2. /\ ticketPc = "idle" /\ ticketTodo = {} /\ tickets = {}
      /\ \A b \in Batch : ~TicketsAnnounced(b, "complete")
  BY DEF RegistrationInit, TicketsInit, TicketsAnnounced
<1>3. QED
  BY <1>1, <1>2 DEF TicketsInv, WorkerSound, TicketsNumbered, FoundAll, TodoFits, TicketsInserting, TicketsFit

LEMMA NextTickets == TicketsInv /\ [RegistrationNext]_allVars => TicketsInv'
<1> SUFFICES ASSUME TicketsInv, [RegistrationNext]_allVars PROVE TicketsInv'
  OBVIOUS
<1>1. RegistrationInv /\ QueuedInv
  BY DEF TicketsInv
<1>2. RegistrationInv' /\ QueuedInv' /\ Grows
  BY <1>1, NextRegistration, NextTicketsQueued, RegistrationGrows
<1>3. WorkerSound'
  BY <1>2, NextWorker
<1>4. TicketsFit' /\ tickets \subseteq tickets'
  BY <1>2, NextTicketsFit DEF QueuedInv
<1>5. \A b \in Batch : TicketsAnnounced(b, "complete")' => SeatsCovered(b)'
  BY <1>2, <1>4, NextCovered
<1>6. QED
  BY <1>2, <1>3, <1>4, <1>5 DEF TicketsInv

(* The invariant behind the theorems, for the pipeline as a whole.              *)
LEMMA TicketsInvariant == RegistrationSpec => []TicketsInv
BY InitTickets, NextTickets, PTL DEF RegistrationSpec

(* In the pipeline as a whole, too, no start is booked twice, a batch comes     *)
(* from one run, and it is completed once, when all of it is saved.             *)
THEOREM RegistrationStaysSafe ==
    RegistrationSpec => [](NoDoubleBookedStart /\ OneRunPerBatch /\ CompleteMeansSaved /\ AtMostOneComplete)
<1>1. TicketsInv => NoDoubleBookedStart /\ OneRunPerBatch /\ CompleteMeansSaved /\ AtMostOneComplete
  BY CompletedOnceMeans
     DEF TicketsInv, RegistrationInv, SlotInv, SlotsSafe, CompleteInv
<1>2. QED
  BY <1>1, TicketsInvariant, PTL

----------------------------------------------------------------------------

LEMMA SentIsCompleted ==
    ASSUME NEW b, CompleteSent(b)
    PROVE  Completed(b)
BY AnnouncedMeans DEF CompleteSent, Completed

(* Every ticket belongs to a saved showtime, of a batch all of whose theaters   *)
(* and start times are saved with it.                                           *)
THEOREM TicketsAreForSavedBatches == RegistrationSpec => []TicketsOnlyForSavedBatches
<1>1. TicketsInv => TicketsOnlyForSavedBatches
  <2> SUFFICES ASSUME TicketsInv, NEW k \in tickets
               PROVE  /\ k.showtime \in showtimes
                      /\ NewShowtimes(k.showtime.batch, k.showtime.run) \subseteq showtimes
    BY DEF TicketsOnlyForSavedBatches
  <2>1. k.showtime \in showtimes /\ CompleteSent(k.showtime.batch)
    BY DEF TicketsInv, TicketsFit
  <2>2. PICK b \in Batch : b = k.showtime.batch
    BY <2>1 DEF TicketsInv, RegistrationInv, SlotInv, Typed, TypeOK, Showtime
  <2>3. CompleteInv /\ SlotInv /\ Completed(b)
    BY <2>1, <2>2, SentIsCompleted DEF TicketsInv, RegistrationInv
  <2>4. PICK r \in 1..runs[b] : NewShowtimes(b, r) \subseteq showtimes
    BY <2>3 DEF CompleteInv, CompleteMeansSaved, Completed
  <2>5. \E s \in NewShowtimes(b, r) : s.batch = b /\ s.run = r
    <3>1. runs[b] > 0 /\ request[b] \in Dtos
      BY <2>3, <2>4 DEF CompleteInv, Typed, TypeOK, Started
    <3>2. 1 \in DOMAIN request[b].theaters /\ 1 \in DOMAIN request[b].starts
      BY <3>1, DtoAssumption
    <3>3. [batch |-> b, run |-> r, theater |-> request[b].theaters[1], nth |-> 1,
           start |-> request[b].starts[1], end |-> EndTime(request[b], 1)] \in NewShowtimes(b, r)
      BY <3>2 DEF NewShowtimes
    <3>4. QED
      BY <3>3
  <2>6. k.showtime.run = r
    BY <2>1, <2>2, <2>3, <2>4, <2>5 DEF SlotInv, SlotsSafe, OneRunPerBatch
  <2>7. QED
    BY <2>1, <2>2, <2>4, <2>6
<1>2. QED
  BY <1>1, TicketsInvariant, PTL

(* Tickets announced as complete cover every seat of every showtime of their    *)
(* batch, and there are some.                                                   *)
THEOREM CompleteTicketsAreAll == RegistrationSpec => []CompleteTicketsCoverBatch
<1>1. TicketsInv => CompleteTicketsCoverBatch
  <2> SUFFICES ASSUME TicketsInv, NEW b \in Batch, TicketsAnnounced(b, "complete")
               PROVE  ShowtimesOf(b) # {} /\ SeatsCovered(b)
    BY DEF CompleteTicketsCoverBatch, SeatsCovered
  <2>1. SeatsCovered(b) /\ CompleteSent(b)
    BY DEF TicketsInv, QueuedInv, TicketsQueued, TicketsFollow, TicketsDue
  <2>2. ShowtimesOf(b) # {}
    BY <2>1, SentIsCompleted, CompletedHasShowtimes DEF TicketsInv, RegistrationInv, ShowtimesOf
  <2>3. QED
    BY <2>1, <2>2
<1>2. QED
  BY <1>1, TicketsInvariant, PTL

(* A batch has one tickets job at most, wherever it is.                         *)
THEOREM TicketsRequestedOnce == RegistrationSpec => []AtMostOneTicketsJob
<1>1. TicketsInv => AtMostOneTicketsJob
  <2> SUFFICES ASSUME TicketsInv, NEW b \in Batch
               PROVE  Cardinality({i \in DOMAIN ticketAdding : ticketAdding[i] = b})
                        + Cardinality({i \in DOMAIN ticketWait : ticketWait[i] = b})
                        + (IF b \in ticketActive THEN 1 ELSE 0) <= 1
    BY DEF AtMostOneTicketsJob
  <2> DEFINE A == {i \in DOMAIN ticketAdding : ticketAdding[i] = b}
             W == {i \in DOMAIN ticketWait : ticketWait[i] = b}
  <2>1. /\ AtMostOne(A) /\ AtMostOne(W)
        /\ A = {} \/ W = {}
        /\ b \in ticketActive => A = {} /\ W = {}
    BY DEF TicketsInv, QueuedInv, TicketsQueued, TicketsPlaced, Has, HasOnce, AtMostOne
  <2> HIDE DEF A, W
  <2>2. /\ Cardinality(A) \in {0, 1} /\ (A = {} => Cardinality(A) = 0)
        /\ Cardinality(W) \in {0, 1} /\ (W = {} => Cardinality(W) = 0)
    BY <2>1, CardinalityOfOne
  <2>3. Cardinality(A) + Cardinality(W) + (IF b \in ticketActive THEN 1 ELSE 0) <= 1
    BY <2>1, <2>2
  <2>4. QED
    BY <2>3 DEF A, W
<1>2. QED
  BY <1>1, TicketsInvariant, PTL

(* A seat has no more tickets than its batch's tickets job had runs, and hence  *)
(* no more than one and one for each time the job has stalled.                  *)
THEOREM TicketsPerSeatAreBounded == RegistrationSpec => []TicketsPerSeatBounded
<1>1. TicketsInv => TicketsPerSeatBounded
  <2> SUFFICES ASSUME TicketsInv, NEW k \in tickets
               PROVE  Cardinality(TicketsFor(k.showtime, k.seat)) <= 1 + ticketStalls[k.showtime.batch]
    BY DEF TicketsPerSeatBounded
  <2> DEFINE InRun(r) == [showtime |-> k.showtime, seat |-> k.seat, run |-> r]
  <2>1. k.showtime \in showtimes
    BY DEF TicketsInv, TicketsFit
  <2>2. PICK b \in Batch : b = k.showtime.batch
    BY <2>1 DEF TicketsInv, RegistrationInv, SlotInv, Typed, TypeOK, Showtime
  <2>3. ticketRuns[b] \in Nat /\ ticketStalls[b] \in Nat /\ ticketRuns[b] <= ticketStalls[b] + 1
    BY DEF TicketsInv, QueuedInv, TicketsTypeOK, TicketQueue!QueueTypeOK, TicketsQueued, TicketRunsBounded
  <2> DEFINE R == 1..ticketRuns[b]
             T == TicketsFor(k.showtime, k.seat)
  <2>4. \A t \in T : t = InRun(t.run) /\ t.run \in R
    <3>1. \A t \in T : t \in tickets /\ t.showtime = k.showtime /\ t.seat = k.seat
      BY DEF TicketsFor
    <3>2. \A t \in tickets : t \in Ticket /\ t.run \in 1..ticketRuns[t.showtime.batch]
      BY DEF TicketsInv, TicketsFit, QueuedInv, TicketsTypeOK
    <3>3. \A t \in Ticket : t = [showtime |-> t.showtime, seat |-> t.seat, run |-> t.run]
      BY DEF Ticket
    <3> HIDE DEF T
    <3>4. QED
      BY <2>2, <3>1, <3>2, <3>3
  <2>5. IsFiniteSet(R) /\ Cardinality(R) = ticketRuns[b]
    <3>1. ASSUME NEW n \in Nat PROVE IsFiniteSet(1..n) /\ Cardinality(1..n) = n
      <4>1. 1 \in Int /\ n \in Int
        OBVIOUS
      <4>2. IsFiniteSet(1..n) /\ Cardinality(1..n) = IF 1 > n THEN 0 ELSE n - 1 + 1
        BY <4>1, FS_Interval
      <4>3. QED
        BY <4>2
    <3>2. QED
      BY <2>3, <3>1
  <2> HIDE DEF T, R, InRun
  <2> DEFINE I == {InRun(r) : r \in R}
             f == [r \in R |-> InRun(r)]
  <2>6. T \subseteq I
    BY <2>4
  <2>7. IsFiniteSet(I) /\ Cardinality(I) <= Cardinality(R)
    <3>1. f \in Surjection(R, I)
      BY DEF Surjection
    <3> HIDE DEF f, I
    <3>2. QED
      BY <2>5, <3>1, FS_Surjection
  <2>8. Cardinality(T) <= Cardinality(I) /\ Cardinality(T) \in Nat /\ Cardinality(I) \in Nat
    BY <2>6, <2>7, FS_Subset, FS_CardinalityType
  <2>9. QED
    BY <2>2, <2>3, <2>5, <2>7, <2>8 DEF T
<1>2. QED
  BY <1>1, TicketsInvariant, PTL
=============================================================================
