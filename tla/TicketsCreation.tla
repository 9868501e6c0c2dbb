-------------------------- MODULE TicketsCreation --------------------------
(***************************************************************************)
(* Creation of tickets, composed with the registration of showtimes that   *)
(* triggers it.  TicketsService listens to the event `complete' of a batch *)
(* and requests its tickets; TicketsEventService puts the request in a     *)
(* second queue, whose worker creates one ticket for each seat of each     *)
(* showtime of the batch.  Both queues, both workers and both event        *)
(* services live in one process and crash together.                        *)
(*                                                                         *)
(* The events showtimes.create.* and tickets.create.* are kept in one      *)
(* sequence each: their relative order, which the process does fix, is     *)
(* left open.                                                              *)
(***************************************************************************)
EXTENDS ShowtimesCreation

CONSTANTS
    Seat,
    SeatsOf             \* getAllSeats(theater.seatmap), for each theater

ASSUME SeatsAssumption ==
    /\ SeatsOf \in [Theater -> SUBSET Seat]
    /\ \A t \in Theater : SeatsOf[t] # {}

VARIABLES
    ticketBus, ticketAdding, ticketAdded,
    ticketWait, ticketActive, ticketLocked, ticketStalls,   \* the queue `tickets'
    ticketPc, ticketJob, ticketRun, ticketRuns,
    found,              \* the showtimes the worker has found for its batch
    ticketTodo,         \* the documents bulkSave has still to insert
    tickets,            \* the tickets collection
    ticketSse

TicketQueue == INSTANCE BullQueue
                   WITH Job <- Batch, wait <- ticketWait, active <- ticketActive,
                        locked <- ticketLocked, stalls <- ticketStalls

ticketBusVars == <<ticketBus, ticketAdding, ticketAdded>>
ticketQueueVars == <<ticketWait, ticketActive, ticketLocked, ticketStalls>>
ticketWorkerVars == <<ticketPc, ticketJob, ticketRun, ticketRuns, found, ticketTodo>>
ticketVars == <<ticketBusVars, ticketQueueVars, ticketWorkerVars, tickets, ticketSse>>
allVars == <<vars, ticketVars>>

Ticket == [showtime : Showtime, seat : Seat, run : Nat]

EmitTicketEvent(name, b) ==
    ticketBus' = Append(ticketBus, [name |-> name, batch |-> b])

SendTicketEvent(b, status) ==
    ticketSse' = [ticketSse EXCEPT ![b] = Append(@, status)]

\* One open ticket for each seat of each showtime found.
NewTickets(shows, r) ==
    UNION {{[showtime |-> s, seat |-> x, run |-> r] : x \in SeatsOf[s.theater]} : s \in shows}

TicketsTypeOK ==
    /\ ticketBus \in Seq([name : {"request", "processing", "complete", "error"}, batch : Batch])
    /\ ticketAdding \in Seq(Batch)
    /\ ticketAdded \in Seq(Batch)
    /\ TicketQueue!QueueTypeOK
    /\ ticketPc \in {"idle", "find", "theaters", "save", "throw", "return"}
    /\ ticketJob \in Batch \cup {NoBatch}
    /\ (ticketPc = "idle") <=> (ticketJob = NoBatch)
    /\ ticketRun \in Nat
    /\ ticketRuns \in [Batch -> Nat]
    /\ found \subseteq Showtime
    /\ ticketTodo \subseteq Ticket
    /\ tickets \subseteq Ticket
    /\ ticketSse \in [Batch -> Seq({"waiting", "processing", "complete", "error"})]

TicketsInit ==
    /\ ticketBus = <<>>
    /\ ticketAdding = <<>>
    /\ ticketAdded = <<>>
    /\ TicketQueue!QueueInit
    /\ ticketPc = "idle"
    /\ ticketJob = NoBatch
    /\ ticketRun = 0
    /\ ticketRuns = [b \in Batch |-> 0]
    /\ found = {}
    /\ ticketTodo = {}
    /\ tickets = {}
    /\ ticketSse = [b \in Batch |-> <<>>]

----------------------------------------------------------------------------
(* TicketsService and TicketsEventService *)

\* The event `complete' of a batch has two listeners: the status stream of the
\* showtimes, and TicketsService.onShowtimesCreateComplete.
OnShowtimesCreateComplete(b) ==
    /\ OnCompleteEvent(b)
    /\ EmitTicketEvent("request", b)
    /\ UNCHANGED <<ticketAdding, ticketAdded, ticketQueueVars, ticketWorkerVars, tickets, ticketSse>>

\* Mutant: the job is added twice.
OnTicketsRequestEventTwice(b) ==
    /\ ticketBus # <<>>
    /\ Head(ticketBus) = [name |-> "request", batch |-> b]
    /\ ticketBus' = Tail(ticketBus)
    /\ ticketAdding' = ticketAdding \o <<b, b>>
    /\ UNCHANGED <<ticketAdded, ticketQueueVars, ticketWorkerVars, tickets, ticketSse>>

OnTicketsRequestEvent(b) ==
    /\ ticketBus # <<>>
    /\ Head(ticketBus) = [name |-> "request", batch |-> b]
    /\ ticketBus' = Tail(ticketBus)
    /\ ticketAdding' = Append(ticketAdding, b)
    /\ UNCHANGED <<ticketAdded, ticketQueueVars, ticketWorkerVars, tickets, ticketSse>>

TicketsQueueAdd(b) ==
    /\ ticketAdding # <<>>
    /\ b = Head(ticketAdding)
    /\ ticketAdding' = Tail(ticketAdding)
    /\ ticketAdded' = Append(ticketAdded, b)
    /\ TicketQueue!Add(b)
    /\ UNCHANGED <<ticketBus, ticketWorkerVars, tickets, ticketSse>>

TicketsSendWaiting(b) ==
    /\ ticketAdded # <<>>
    /\ b = Head(ticketAdded)
    /\ ticketAdded' = Tail(ticketAdded)
    /\ SendTicketEvent(b, "waiting")
    /\ UNCHANGED <<ticketBus, ticketAdding, ticketQueueVars, ticketWorkerVars, tickets>>

OnTicketsStatusEvent(name, b) ==
    /\ ticketBus # <<>>
    /\ Head(ticketBus) = [name |-> name, batch |-> b]
    /\ ticketBus' = Tail(ticketBus)
    /\ SendTicketEvent(b, name)
    /\ UNCHANGED <<ticketAdding, ticketAdded, ticketQueueVars, ticketWorkerVars, tickets>>

OnTicketsProcessingEvent(b) == OnTicketsStatusEvent("processing", b)
OnTicketsCompleteEvent(b) == OnTicketsStatusEvent("complete", b)
OnTicketsErrorEvent(b) == OnTicketsStatusEvent("error", b)

----------------------------------------------------------------------------
(* TicketsCreationService, the worker *)

StartTicketsJob(b) ==
    /\ ticketPc = "idle"
    /\ TicketQueue!Take(b)
    /\ ticketPc' = "find"
    /\ ticketJob' = b
    /\ ticketRuns' = [ticketRuns EXCEPT ![b] = @ + 1]
    /\ ticketRun' = ticketRuns[b] + 1
    /\ EmitTicketEvent("processing", b)
    /\ UNCHANGED <<ticketAdding, ticketAdded, found, ticketTodo, tickets, ticketSse>>

FindShowtimesByBatchId ==
    /\ ticketPc = "find"
    /\ found' = {s \in showtimes : s.batch = ticketJob}
    /\ ticketPc' = "theaters"
    /\ UNCHANGED <<ticketBusVars, ticketQueueVars, ticketJob, ticketRun, ticketRuns, ticketTodo, tickets, ticketSse>>

\* getTheaterMap: getTheater throws if a theater was deleted in the meantime.
GetTheaterMap ==
    /\ ticketPc = "theaters"
    /\ IF \A s \in found : s.theater \in theaters
       THEN ticketPc' = "save" /\ ticketTodo' = NewTickets(found, ticketRun)
       ELSE ticketPc' = "throw" /\ UNCHANGED ticketTodo
    /\ UNCHANGED <<ticketBusVars, ticketQueueVars, ticketJob, ticketRun, ticketRuns, found,
                   tickets, ticketSse>>

SaveTicket(x) ==
    /\ ticketPc = "save"
    /\ x \in ticketTodo
    /\ tickets' = tickets \cup {x}
    /\ ticketTodo' = ticketTodo \ {x}
    /\ UNCHANGED <<ticketBusVars, ticketQueueVars, ticketPc, ticketJob, ticketRun, ticketRuns,
                   found, ticketSse>>

\* Mutant: createTickets is not awaited.
TicketsNotAwaited ==
    /\ ticketPc = "save"
    /\ EmitTicketEvent("complete", ticketJob)
    /\ ticketPc' = "return"
    /\ UNCHANGED <<ticketAdding, ticketAdded, ticketQueueVars, ticketJob, ticketRun, ticketRuns, found,
                   ticketTodo, tickets, ticketSse>>

TicketsSaved ==
    /\ ticketPc = "save"
    /\ ticketTodo = {}
    /\ EmitTicketEvent("complete", ticketJob)
    /\ ticketPc' = "return"
    /\ UNCHANGED <<ticketAdding, ticketAdded, ticketQueueVars, ticketJob, ticketRun, ticketRuns, found,
                   ticketTodo, tickets, ticketSse>>

TicketsDatabaseFails ==
    /\ ticketPc \in {"find", "theaters", "save"}
    /\ ticketPc' = "throw"
    /\ ticketTodo' = {}
    /\ UNCHANGED <<ticketBusVars, ticketQueueVars, ticketJob, ticketRun, ticketRuns, found,
                   tickets, ticketSse>>

\* Mutant: the worker keeps its job.
TicketsIdleWithJob ==
    /\ ticketPc' = "idle"
    /\ ticketRun' = 0
    /\ found' = {}
    /\ ticketTodo' = {}
    /\ UNCHANGED <<ticketJob, ticketRuns>>

TicketsIdle ==
    /\ ticketPc' = "idle"
    /\ ticketJob' = NoBatch
    /\ ticketRun' = 0
    /\ found' = {}
    /\ ticketTodo' = {}
    /\ UNCHANGED ticketRuns

FinishTicketsJob ==
    /\ ticketPc = "return"
    /\ IF ticketJob \in ticketLocked
       THEN TicketQueue!Settle(ticketJob)
       ELSE UNCHANGED ticketQueueVars
    /\ TicketsIdle
    /\ UNCHANGED <<ticketBusVars, tickets, ticketSse>>

\* Mutant: there is no @OnQueueFailed handler.
FailTicketsJobSilently ==
    /\ ticketPc = "throw"
    /\ IF ticketJob \in ticketLocked
       THEN TicketQueue!Settle(ticketJob)
       ELSE UNCHANGED ticketQueueVars
    /\ TicketsIdle
    /\ UNCHANGED <<ticketBusVars, tickets, ticketSse>>

FailTicketsJob ==
    /\ ticketPc = "throw"
    /\ IF ticketJob \in ticketLocked
       THEN TicketQueue!Settle(ticketJob) /\ EmitTicketEvent("error", ticketJob)
       ELSE UNCHANGED <<ticketQueueVars, ticketBus>>
    /\ TicketsIdle
    /\ UNCHANGED <<ticketAdding, ticketAdded, tickets, ticketSse>>

----------------------------------------------------------------------------
(* Faults *)

\* Both queues count their lost locks together.
TicketsLockLapses(b) ==
    /\ lapses < MaxLapses
    /\ lapses' = lapses + 1
    /\ TicketQueue!LoseLock(b)
    /\ UNCHANGED <<ticketBusVars, ticketWorkerVars, tickets, ticketSse>>

RequeueStalledTickets(b) ==
    /\ TicketQueue!Requeue(b)
    /\ UNCHANGED <<ticketBusVars, ticketWorkerVars, tickets, ticketSse>>

FailStalledTickets(b) ==
    /\ TicketQueue!GiveUp(b)
    /\ EmitTicketEvent("error", b)
    /\ UNCHANGED <<ticketAdding, ticketAdded, ticketWorkerVars, tickets, ticketSse>>

CrashBoth ==
    /\ Crash
    /\ ticketBus' = <<>>
    /\ ticketAdding' = <<>>
    /\ ticketAdded' = <<>>
    /\ TicketsIdle
    /\ TicketQueue!LoseAllLocks
    /\ UNCHANGED <<tickets, ticketSse>>

----------------------------------------------------------------------------

TicketsDeliver(b) ==
    \/ OnTicketsRequestEvent(b)
    \/ OnTicketsProcessingEvent(b)
    \/ OnTicketsCompleteEvent(b)
    \/ OnTicketsErrorEvent(b)

TicketsWork ==
    \/ \E b \in Batch : StartTicketsJob(b)
    \/ FindShowtimesByBatchId
    \/ GetTheaterMap
    \/ \E x \in ticketTodo : SaveTicket(x)
    \/ TicketsSaved
    \/ FinishTicketsJob
    \/ FailTicketsJob

CheckStalledTickets(b) == RequeueStalledTickets(b) \/ FailStalledTickets(b)

TicketsNext ==
    \/ \E b \in Batch : TicketsDeliver(b) \/ TicketsQueueAdd(b) \/ TicketsSendWaiting(b)
    \/ TicketsWork
    \/ TicketsDatabaseFails
    \/ \E b \in Batch : CheckStalledTickets(b)

RegistrationNext ==
    \/ LocalNext /\ UNCHANGED ticketVars
    \/ TicketsNext /\ UNCHANGED vars
    \/ \E b \in Batch : OnShowtimesCreateComplete(b)
    \/ \E b \in Batch :
          /\ TicketsLockLapses(b)
          /\ UNCHANGED <<request, dbVars, busVars, queueVars, workerVars, showtimes, sse, crashes>>
    \/ CrashBoth

RegistrationInit == Init /\ TicketsInit

RegistrationSpec == RegistrationInit /\ [][RegistrationNext]_allVars

\* As in ShowtimesCreation: whatever is due in the process runs, Redis answers,
\* and stalled jobs are looked for.
RegistrationFairness ==
    /\ \A b \in Batch :
          /\ WF_allVars((Deliver(b) /\ UNCHANGED ticketVars) \/ OnShowtimesCreateComplete(b))
          /\ WF_allVars(QueueAdd(b) /\ UNCHANGED ticketVars)
          /\ WF_allVars(CheckStalled(b) /\ UNCHANGED ticketVars)
          /\ WF_allVars(TicketsDeliver(b) /\ UNCHANGED vars)
          /\ WF_allVars(TicketsQueueAdd(b) /\ UNCHANGED vars)
          /\ WF_allVars(CheckStalledTickets(b) /\ UNCHANGED vars)
    /\ WF_allVars(Work /\ UNCHANGED ticketVars)
    /\ WF_allVars(TicketsWork /\ UNCHANGED vars)

FairRegistrationSpec == RegistrationSpec /\ RegistrationFairness

----------------------------------------------------------------------------
(* Safety *)

ShowtimesOf(b) == {s \in showtimes : s.batch = b}

TicketsFor(s, x) == {k \in tickets : k.showtime = s /\ k.seat = x}

TicketsAnnounced(b, name) ==
    \/ \E i \in DOMAIN ticketBus : ticketBus[i] = [name |-> name, batch |-> b]
    \/ \E i \in DOMAIN ticketSse[b] : ticketSse[b][i] = name

\* Tickets are sold only for batches that are registered completely: every
\* ticket belongs to a saved showtime, and with it all other theaters and start
\* times of its request are saved.
TicketsOnlyForSavedBatches ==
    \A k \in tickets :
        /\ k.showtime \in showtimes
        /\ NewShowtimes(k.showtime.batch, k.showtime.run) \subseteq showtimes

\* Once the tickets of a batch are announced as complete, every seat of every
\* showtime of the batch has a ticket.
CompleteTicketsCoverBatch ==
    \A b \in Batch : TicketsAnnounced(b, "complete") =>
        /\ ShowtimesOf(b) # {}
        /\ \A s \in ShowtimesOf(b) : \A x \in SeatsOf[s.theater] : TicketsFor(s, x) # {}

\* A seat of a showtime has no more tickets than the tickets job of its batch had
\* runs: one, unless the job stalled.
TicketsPerSeatBounded ==
    \A k \in tickets :
        Cardinality(TicketsFor(k.showtime, k.seat)) <= 1 + ticketStalls[k.showtime.batch]

\* The tickets of a batch are requested once: there is one job for them at most.
AtMostOneTicketsJob ==
    \A b \in Batch :
        Cardinality({i \in DOMAIN ticketAdding : ticketAdding[i] = b})
          + Cardinality({i \in DOMAIN ticketWait : ticketWait[i] = b})
          + (IF b \in ticketActive THEN 1 ELSE 0) <= 1

\* A seat never has two tickets, whatever happened to the job that creates them.
OneTicketPerSeat ==
    \A k1, k2 \in tickets :
        (k1.showtime = k2.showtime /\ k1.seat = k2.seat) => k1 = k2

\* Nothing is under way for the batch any more.
Settled(b) ==
    /\ ~Queued(b)
    /\ \A i \in DOMAIN bus : bus[i].batch # b
    /\ \A i \in DOMAIN adding : adding[i] # b
    /\ job # b
    /\ \A i \in DOMAIN ticketBus : ticketBus[i].batch # b
    /\ \A i \in DOMAIN ticketAdding : ticketAdding[i] # b
    /\ \A i \in DOMAIN ticketWait : ticketWait[i] # b
    /\ b \notin ticketActive
    /\ ticketJob # b

\* docs/showtimes-registration.md: once showtimes are registered, the tickets of
\* them exist; here, for a batch the clients were told is complete, when nothing is
\* under way for it any more and no error was reported.
RegisteredShowtimesHaveTickets ==
    \A b \in Batch :
        /\ \E e \in Statuses(b) : e.status = "complete"
        /\ Settled(b)
        /\ ~TicketsAnnounced(b, "error")
        => \A s \in ShowtimesOf(b) : \A x \in SeatsOf[s.theater] : TicketsFor(s, x) # {}

----------------------------------------------------------------------------
(* Liveness *)

\* A completed batch gets its tickets, or the clients are told that it does not,
\* unless the process crashes.
TicketsFollowShowtimes ==
    \A b \in Batch : Announced(b, "complete") ~>
        \/ \E i \in DOMAIN ticketSse[b] : ticketSse[b][i] \in {"complete", "error"}
        \/ crashes > 0
=============================================================================
