# nest-seed: a verification development

nest-seed is a movie-theater booking system: a `gateway` process that turns HTTP
into messages, a `services` process that does the work, MongoDB for the documents,
Redis for queues and tokens. The modules of this directory model the `services` process
(the registration of showtimes, the creation of tickets and their purchase, the queries of
the showing service, customers and their tokens, theaters and movies, storage files) and the
parts of the common library that keep state (transactions, pagination, files), with what
the gateway adds to a call. TLC checks them on small instances; TLAPS proves the theorems
listed below for every value of the constants.

In paths, `S` is `src/projects/apps/services/src`, `C` is
`src/projects/libs/common/src`, `G` is `src/projects/apps/gateway/src`.

## 1. The system

### Components, their state and their operations

| Component | State | Operations | What makes it correct |
|---|---|---|---|
| Showtimes registration (`S/showtimes`) | collection `showtimes`, queue `showtimes`, SSE stream | `createShowtimes`, event handlers, worker: check movie, theaters, conflicts, save | no slot given twice, truthful verdicts, every request answered |
| Tickets creation (`S/tickets`) | collection `tickets`, queue `tickets`, SSE stream | `onShowtimesCreateComplete`, event handlers, worker: find showtimes, theaters, save a ticket per seat | tickets exactly for the registered showtimes, one per seat |
| Purchase (`S/payments`, `S/tickets`) | collections `payments`, `tickets` | `createPayment` → `notifyTicketsPurchased` | a seat sold to one customer, no sale without payment |
| Movies, theaters (`S/movies`, `S/theaters`) | their collections | create, update, delete, search, existence checks | what refers to them is still there when used |
| Showing (`S/showing`) | none | recommendation, theaters by distance, showtimes with sales statuses | consistent joins of several queries |
| Customers (`S/customers`, `G/controllers/customers.controller.ts` with its guards) | collection `customers` | create, update, delete, get, login, refresh | one account per email; a deleted customer stays out |
| Storage files (`S/storage-files`) | collection and files on disk | save (transaction and copies), download, delete | documents all or none; a document has its file |
| `JwtAuthService`, `CacheService` (`C/services`) | refresh tokens in Redis | generate, refresh | one live refresh token per user |
| `EventService`, `ServerSentEventsService` (`C/services`) | handlers due to run; an rxjs Subject | emit, sendEvent | order of delivery |
| `MongooseRepository` (`C/mongoose`) | – | `saveAll`, `existsByIds`, `findWithPagination`, `withTransaction` | all or nothing where promised |
| TypeORM transaction (`C/typeorm`) | a query runner | execute, create, update, delete, rollback | committed, rolled back or released on every path |
| Pagination (`PaginationPipe`, `PaginationOption`, `findWithPagination`) | none in the services; where the client is in its walk | clamp `take`, find and count | every document on one page |
| File reader and writer (`C/file`) | position in an open file | write, truncate, read chunks, lines, everything | the lines of the text, whatever the chunks |
| Gateway (`G`), microservice client, HTTP filters, logger, config, utilities | none | forwarding, formatting, parsing | a call fails or is answered, whatever it has written |

### How they interact

```
client --createShowtimes--> ShowtimesService --event request--> ShowtimesEventService
   ^                                                                 | queue.add
   |                                                                 v
   | SSE: waiting, processing, complete | fail | error       Bull queue `showtimes'
   |                                                                 | job
   +------ ShowtimesEventService <--events-- ShowtimesCreationService (one worker)
                                     |
                    event complete   v
                              TicketsService --event request--> TicketsEventService
                                                                     | queue.add
   SSE <-- TicketsEventService <--events-- TicketsCreationService <-- Bull queue `tickets'

client --createPayment--> PaymentsService: save payment; TicketsService: updateMany, compare
                          counts, read back

client --/showing/...--> ShowingService: two to five reads of showtimes, movies, theaters,
                         payments and tickets, one after the other
client --/customers/...--> guard (verify the token, find the customer) --> CustomersService,
                           JwtAuthService (Redis)
client --/movies with files--> MoviesService --> StorageFilesService: transaction, copies nobody
                               waits for; then the movie itself
```

* Events stay in the process. `EventService.emit` awaits `emitAsync`, but the handlers are
  registered with `{ async: true }`, so they run in later turns of the event loop, in the
  order of the emissions; nothing waits for what they do. A crash loses them.
* Queues are in Redis and survive a crash. A job whose lock was lost (the process died, or
  was blocked for too long) is put back at the head of its queue once, and fails the next
  time. One process, one worker per queue, one attempt per job.
* The database is changed one document at a time: `saveAll` is a `bulkSave` and
  `updateTicketStatus` an `updateMany`, neither in a transaction. Only storage files are
  saved in one.
* A document that is fetched, changed and saved is protected by mongoose's
  `optimisticConcurrency` (the base schema turns it on): the save matches the version read.
* The disk is not part of any of this: copies and removals of files are started and left
  alone; one that fails rejects a promise nobody handles, which ends the process.

### What is hard

Crashes between two writes, redelivery of a job that has already had effects, the worker
that goes on after its lock is gone, events and replies that overtake each other, documents
deleted between check and use, interleaved multi-document updates, the boundary cases of the
time-slot algorithm, reads of several collections while they change, checks for uniqueness and
tokens that are compared first and replaced later, commits that reject, files that are copied
while they are deleted, pages and chunks that cut a collection or a text anywhere. `PROJECT.json` lists each hazard with its line and the properties that
cover it.

## 2. The modules

| Module | Models | Correspondence |
|---|---|---|
| `Timeslots` | the conflict check (`checkForTimeConflicts`, `createTimeslotsByTheater`, `executeEvery10Mins`, `findShowtimesWithinDateRange`) | pure operators, one per function; `Step` is ten minutes |
| `BullQueue` | a Bull queue as the services use it (external) | `wait`, `active`, locks, stalled counts |
| `ShowtimesCreation` | `ShowtimesService`, `ShowtimesEventService`, `ShowtimesCreationService`, the collection | `pc` is the `await` the worker is at; `bus` the handlers due; `adding`/`added` the two halves of `await queue.add`; `sse` the statuses sent |
| `SlotLedger` | the abstract specification of the registration: a slot gets one owner and keeps it | refined by `ShowtimesCreation` with the mapping `SlotOwner` |
| `TicketsCreation` | `TicketsService.onShowtimesCreateComplete`, `TicketsEventService`, `TicketsCreationService`, composed with `ShowtimesCreation` | EXTENDS it; the event `complete` is the joint action, a crash hits both |
| `TicketPurchase` | concurrent `createPayment` calls and the tickets collection | `pc[p]` is the `await` of call `p`; `todo[p]` the documents its `updateMany` has still to change |
| `Showing` | `ShowingService` and the queries of tickets by showtime, composed with `TicketPurchase` | EXTENDS it; `stage[q]` is the read query `q` is at, `held[q]` what it holds from the last one, `before[q]` what was answered when it began |
| `Accounts` | the gateway's `CustomersController`, guards and strategies, `CustomersService`, `JwtAuthService`, the Redis keys | `step[c]` is the `await` of call `c`; `stored[a]` the refresh token on record; `ended[c]` the calls that were over when `c` arrived |
| `Catalog` | create, get, update and delete of theaters and movies | `editStep[c]` is the `await` of call `c`; `fetched[c]` the document and the `__v` it has read |
| `FileStorage` | `saveFiles` in `withTransaction`, `createMovie` on top, `getStorageFile` and the download, `deleteStorageFile`, `deleteMovie`, `Path.copy` and `Path.delete` | `fileStep[c]` is the `await` of call `c`; `copy`, `removing` and `disk` what the thread pool does; `DeleteStorageFile` is the `deleteOne`, `DeletePath` what follows its reply; `Die` ends everything at once |
| `TypeormTransactions` | `TypeormTransactionService.execute`, `TypeormTransaction`, the query runner | `txStep[x]` is the `await` of execution `x`; `connection[x]` the connection of its query runner; `holds[k]` whose changes the transaction open on connection `k` holds |
| `Paging` | `PaginationPipe`, `findWithPagination`, the walk of a client | `pageStep` is where the query and the client are; the collection is a set of entries, a document with the fields it has; `Insert`, `Update` and `Delete` change it at any time; `throughout`, `came`, `went` and `between` say what has happened to it |
| `FileTransfer` | `FileWriter`, `FileReader` | `position` of the writer, then of the reader; `leftover` the unfinished line of `readLines` |
| `MCTimeslots`, `MCShowtimesCreation`, `MCTicketsCreation`, `MCTicketPurchase`, `MCServices`, `MCStorageFiles`, `MCCommon` | instances for TLC | definitions the `.cfg` files name |
| `Timeslots_proofs`, `MCTimeslots_proofs`, `ShowtimesCreation_proofs`, `TicketsCreation_proofs`, `Showing_proofs` (with `TicketPurchase`), `Accounts_proofs`, `Catalog_proofs`, `CommonLibrary_proofs` (`FileStorage`, `TypeormTransactions`, `Paging`, `FileTransfer`) | theorems and proofs | |

Operators commented `Mutant:` are not part of a specification: each is a definition with a
plausible bug, kept beside the correct one to show that a property notices it.

### Abstractions

* A batch is one call of `createShowtimes`; its id is also the queue's job and the event's
  payload. A showtime carries, besides the fields of the schema, the run of the job that
  inserted it (`run`) and the index of the start it comes from (`nth`): they stand for the
  distinct `_id`s of equal documents. The movie id of a showtime is left out.
* The reads of the conflict check are one step: only this worker inserts showtimes and
  nothing in the services deletes them. Each of the other `await`s is a step of its own.
* `Timeslot` returns every showtime that marks a slot, where the `Map` of the code keeps the
  last one fetched (the database gives no order): the set the code can report.
* The insertions of a `bulkSave` happen in any order, and it may fail after any of them.
* `queue.add` calls and their replies keep their order (one Redis connection); the reply may
  be handled at any time after. Every handler of an event is delivered in the order of the
  emissions; the listeners of `complete` (status stream and tickets) run in one step. The
  relative order of the events of showtimes and of tickets is left open.
* A `crash` is the death of the services process; the restart needs no step of its own (the
  code recovers nothing at start-up). Bull's redelivery is a separate step.
* In `TicketPurchase` a clock of milliseconds is kept because it matters: mongoose adds
  `updatedAt` to the update, so that a ticket that is sold already is counted as modified,
  except in the same millisecond. Repeated ids in a request and ids that are no ObjectId are
  left out; an id that matches no document is not. The status `reserved` is never written by
  the code and does not occur. A database error after the payment was written is possible.
* In `Showing` registration and ticket creation are reduced to the documents they insert, one
  at a time. `LatestPayments` may take any page of the customer's payments, because the code
  sorts by `createAt`, a field payments do not have. A day has `DayLength` units of time, and
  `ZoneOffset` is how far local time is ahead of UTC. `StartOfDay` is local midnight of the day
  that was named, west of UTC as well: `convertStringToDate` makes the date in local time, and
  `setHours` keeps it.
* In `Accounts` a pair of tokens is named by the call that generated it, since each token
  carries a fresh UUID; a token may be refused as expired, and its key in Redis dropped, at
  any time. Two emails are one if the collation of the schema takes them for one. The password
  of a customer is known to whoever logs in as that customer and to nobody else. The unique
  index may be missing (`autoIndex` builds it in the background, and fails on a collection with
  duplicates): `uniqueIndex` says which, for a whole run. Redelivered or lost messages between
  gateway and services do not occur (TCP); a call may fail at any `await`, before or after what
  it was waiting for took effect.
* In `Catalog` a document is a function of its fields, a DTO one of some of them; `Assign`
  drops falsy values like the code. `location` and validation errors are left out.
* In `FileStorage` a file is named by its call and its number. Whatever rejects may have been
  applied, its reply lost: `CommitTransaction` does either when it rejects, and a call at the
  `await` behind a write (`unlink` after the deletion, `reply` after a movie was inserted or
  deleted) may still fail. A download reads the file in one step.
* Of TypeORM and PostgreSQL's driver (`package.json` names `pg`) `TypeormTransactions` assumes
  what the code relies on: `isTransactionActive` is set before `BEGIN` is sent and cleared by a
  `COMMIT` or `ROLLBACK` that succeeds; `release()` gives the connection back as it is, with a
  transaction that is still open; `BEGIN` inside of one goes on with it; a connection that breaks
  is discarded, and the server rolls back what was open on it. Whatever rejects may have been
  done. A task does not go on after one of its own changes has failed. Rows are not named: a
  transaction holds all the changes of an execution or none of them.
* In `Paging` a search condition is the set of entries that meet it, and a sort key is a number
  each entry has (`createdAt`: each document). An update changes the fields in one step; how
  concurrent updates meet is the matter of `Catalog`. In `FileTransfer` bytes are a line feed, a
  character of one byte and the two halves of a character of two.
* `MCServices` holds components that share no state side by side, three services and, from
  `MCCommon`, three parts of the library; `part`, fixed in the initial state, says which one of
  them runs.

## 3. The runs

| Run | Question | Instance | Result |
|---|---|---|---|
| `TimeslotsAligned` | is the sampled check the intersection of closed intervals, within its window? | one theater, starts on the grid in 0..8, durations 1..4 (odd ones too), one or two starts, two requests in sequence | passes |
| `TimeslotsBlindSpot` | are overlapping showtimes ever registered? | same | violated, see 5 |
| `ShowtimesFaults` | two equal requests under faults | two showtimes each; one crash, one lost lock, a database error at any await | passes |
| `ShowtimesTheaters` | different requests | two theaters, five requests (shared start, shared theater, starts out of order, inside and outside of another's window, a theater named twice), one deletion, database errors | passes |
| `TicketsFaults` | both pipelines under faults | one batch, two theaters with a seat each, two crashes, one deletion, database errors | passes |
| `TicketsLiveness` | does everything under way end, and what does a worker without its lock leave behind? | one batch, one seat, two lost locks, no crash | passes |
| `TicketsMissing` | does a completed batch have its tickets? | one crash | violated, see 5 |
| `TicketsDuplicated` | one ticket per seat? | one crash | violated, see 5 |
| `PurchaseRaces` | concurrent purchases | three calls of two customers, two tickets and an unknown id, two instants, one crash | passes |
| `TicketSoldTwice` | a ticket sold to two customers? | two calls | violated, see 5 |
| `StorageFiles` | are files whole, on record and on the disk? | three calls, the first of which saves up to two files; one death, any operation failing | passes |
| `ServicesAndLibrary` | what do queries, customers' calls and updates see and do of each other, and are transactions, pages and lines whole? | `Showing`: one query of each kind, two payments, three showtimes of two movies in two theaters, one deletion. `Accounts`: two customers, one logged in, and two more calls, with and without the index. `Catalog`: three calls about a theater and a movie. `TypeormTransactions`: two executions at a time over two connections, and one after them. `Paging`: three documents and a fourth, with three names, in three orders, up to four changes. `FileTransfer`: up to five bytes in chunks of up to three | passes |

What the properties say, in short. Registration: no theater has two showtimes with one start
from different requests or runs (`NoDoubleBookedStart`), showtimes of
different requests meet only where the check cannot see (`NoUncheckedPair`), a batch comes from one run (`OneRunPerBatch`) and is
completed once (`AtMostOneComplete`) and only when it is saved (`CompleteMeansSaved`), a
refused one has saved nothing unless its job stalled (`RefusedBatchSavesNothing`), what it is
told to conflict with does (`FailReportsConflicts`), the status stream is in order
(`StatusOrder`), and the whole implements the ledger (`ImplementsSlotLedger`). Tickets: only
for batches saved completely (`TicketsOnlyForSavedBatches`), all of them once `complete` is
announced (`CompleteTicketsCoverBatch`), no more per seat than the job had runs
(`TicketsPerSeatBounded`), one job per batch (`AtMostOneTicketsJob`). Purchase: a sold ticket
is paid (`SoldMeansPaid`), an answered client has bought (`AnsweredMeansSold`), a refusal is
a collision within one millisecond (`RefusedOnlyInSameInstant`).

Showing: sales counts add up and are never behind what was answered before
(`SalesCountsInBounds`), a query fails only for a showtime without tickets or a deletion
(`ShowingFailuresExplained`), recommendations follow the purchases
(`RecommendationsFollowPurchases`), a date that was offered leads to its showtimes
(`ShowdatesLeadToShowtimes`, for services that run in UTC). Customers: an email is shared only
after a race or an update, and never with the index (`SharedEmailsComeFromRaces`), refresh tokens
rotate (`RefreshTokensRotate`), who is deleted stays out (`DeletedCustomersStayOut`). Theaters and
movies: saved updates form one chain and deletions are final (`SavesAreSerial`). Files: documents
all or none (`FilesAllOrNothing`), disk and documents differ only for nameable reasons
(`DiskFollowsDocuments`), copies arrive and calls end (`StoredFilesArrive`). Library: the
changes of a transaction are committed all or none and as its caller was told, and its connection
comes back (`TransactionsSettle`) — but for the one path on which the code gives a connection away
with its transaction open, after the `ROLLBACK` of the catch block has rejected: the next
execution on it then commits what the failed one had changed. A walk shows what it should
(`PagesCover`), unless something before a document goes away or comes there, by an update as well
as by a deletion or insertion; documents that tie in the sort key are excepted, and the property
shows that they disturb no others. The total of a page may be wrong by what came and went between
the two queries, and by no more (`TotalFitsPage`). Lines survive any chunks (`LinesMatchContent`).

### Bounds and why they are enough

Two batches are enough for a race between batches, since the worker handles one at a time
and a third is to the second what the second is to the first. Two showtimes in a batch are
the least that can be interrupted half-way. Bull's `maxStalledCount` is 1: the second stall
gives the job up, so that two faults exhaust what can happen to a job. `ShowtimesFaults` has
one crash and one lost lock, each at any step and in either order, `TicketsFaults` two crashes
at any step of either pipeline, `TicketsLiveness` two lost locks. `MaxDeletions`, `MaxCrashes`,
`MaxLapses` and `MaxClock` are bounds of the model in the guards of the actions; the code has
none. Time in the showtimes instances is counted in slots (`Step = 1`), in `MCTimeslots` in
half slots (`Step = 2`), so that durations may end between two slots. The batches of
`ShowtimesFaults` are interchangeable and its run has no liveness property, so symmetry is
sound there. Deadlock checking is off in all runs: the system stops when no request is left.

In `ServicesAndLibrary` one query is enough, since queries do not disturb each other; two
payments of one customer are more than the page of one (`Take = 1`) a recommendation looks at,
and enough for a sale half-way and one answered. Five calls (`MaxCalls`), of which three have
happened, leave two that overlap, or follow on each other, and the tokens of all of them;
`Accounts_proofs` covers every number. Three edits are the reader, the writer and the deleter of
one document. A day of two units (`DayLength`) puts showtimes on its last unit and on the first
of the next. In `StorageFiles` only the first call saves files, so that the other two delete or
download what it saved; two files are the least that can be saved half-way, one death
(`MaxDeaths`) may strike anywhere. Of the library's parts in `ServicesAndLibrary`, two
executions race for the connections, and the third gets one that the first two have used, or
broken; one change (`MaxChanges`) is enough to be lost. Pages of one and, by the `TakeLimit`,
two documents cut three or four of them in every way; four entries that come or go
(`MCMaxAltered`) are two updates, or an insertion and a deletion around one. The condition
excludes one of the three names, so that updates move documents into it and out of it, and the
two orders by name have ties and break them forwards and backwards. Chunks of up to three bytes
(`ChunkSize`) and files of up to five (`MaxSize`) end a chunk before, inside and after a
character and a line feed.

### Fairness

Weak fairness of the event handlers of each batch, of `queue.add` and its reply, of the worker's
steps and of Bull's search for stalled jobs. The event loop and Redis give this as long as the
process lives. Nothing is assumed of clients, administrators, faults or crashes. `FileFairness`
is weak fairness of each file call and of each copy and removal: the event loop and libuv's
thread pool, as long as the process lives; a death ends what is under way, which is why
`StoredFilesArrive` excepts a file that is cut.

`RequestsAnswered` and `TicketsFollowShowtimes` except a crash, because the code does lose
requests then (section 5); `TicketsLiveness` sets `MaxCrashes = 0`, where the exception is
empty. `JobsSettle` has no exception.

## 4. What is proved

All theorems hold for any sets of batches, theaters, movies, requests, tickets, customers,
calls, queries, documents, files, executions and fields and any bounds, under the assumptions
named `...Assumption` in the modules: requests have at least one theater and one start time and
a positive duration (what the DTO's validators ensure), the special values are no elements of
the sets they mark absence in, the bounds are naturals, a collection
is finite wherever the code counts or sorts it (tickets, showtimes, movies and their genres, the
first documents of a walk). Some theorems need more, as a hypothesis or an assumption of their own
about the grid of ten minutes on which the check takes its samples: `PairsAreChecked` that
requests name times on it (`OnGrid`), `MCTimeslots_proofs` that starts are multiples of a grid of
which `Step` is a divisor (`GridAssumption`). The documentation takes such times for granted, the
DTO does not enforce them.

* `Timeslots_proofs`. `SharedStartConflicts`: a request that names a start time at which one
  of its theaters has a registered showtime always conflicts, since both first samples are
  that start. `ReportedConflictsAreReal`: a report is a registered showtime of a requested
  theater that meets a requested interval. `AlignedConflictsAreFound`: with starts on the
  grid, a showtime that begins within the window and meets a requested interval makes the
  check refuse; the later one of the two starts is a sample of both.
* `MCTimeslots_proofs`. The same for requests one after the other, on whatever they have
  registered: `ReportsAreReal` (`ConflictsAreReal`), `WindowIsChecked`
  (`WindowConflictsAreFound`), `OverlapsComeFromBefore` (`OverlapsOnlyFromBefore`). The invariant
  `CheckInv` says that what is registered comes from an accepted request (`Registered`), so that
  it is on the grid and the lemmas about one call apply to it.
* `ShowtimesCreation_proofs`. The first theorems are `TypeCorrect` (`TypeOK`), `NoDoubleBooking`
  (`NoDoubleBookedStart`), `BatchFromOneRun` (`OneRunPerBatch`), `CompleteIsSaved`
  (`CompleteMeansSaved`). `NoDoubleBookedStart` alone is not inductive: while a batch is
  being saved, the documents still to insert must be free of conflict as well. `SlotInv` adds
  that `todo` and the showtimes of the running batch belong to the current run, and that no
  other registered showtime shares a slot with them; `SharedStartConflicts` establishes it
  where the check accepts, and as long as `pc` is `save` nobody else inserts. `CompleteInv`
  adds that what is not in `todo` is saved, and that runs are counted from one.

  The others rest on where a request is. `JobsQueuedOnce`: a batch is in one place at most on its
  way from `createShowtimes` through the event bus and Redis to the worker, and runs no more often
  than its job was found stalled, and once more (`QueueInv`). `PairsAreChecked`
  (`NoUncheckedPair`) carries `AlignedConflictsAreFound` over to the whole pipeline: the pairs of a
  registered showtime and one still to be saved have been compared too (`PairInv`).
  `CompletedAtMostOnce` (`AtMostOneComplete`): while the worker inserts for a batch, no `complete`
  of it is due or sent (`CompletedOnce`), since a batch that was saved conflicts with itself when
  its job is run again. `StatusesInOrder` (`StatusOrder`): events due and statuses sent
  are, together, in order (`Orderly`), for a job that never stalled. `RefusedSavesNothing`
  (`RefusedBatchSavesNothing`) and `FailuresReportConflicts` (`FailReportsConflicts`) say what a
  `fail` means, on the bus and on the stream. `RegistrationIsLedger` (`ImplementsSlotLedger`) is
  the refinement of `SlotLedger` under the mapping `SlotOwner`: an insertion assigns a
  slot nobody owns, or, where a request names a theater or start twice, finds it owned by its own
  run already (`InsertionAssigns`), and every other step stutters.
* `TicketsCreation_proofs`, about `RegistrationSpec`, both pipelines together.
  `RegistrationStaysSafe`: the theorems on the registration survive the composition, since each
  step of it is a step of the registration or a lapse of a lock elsewhere (`RegistrationSteps`).
  Of the registration the tickets pipeline relies only on `Grows`: showtimes are never taken
  back, and a batch that was announced gets no more of them. On top of that come
  `TicketsTypeCorrect` (`TicketsTypeOK`), `TicketsRequestedOnce` (`AtMostOneTicketsJob`; the
  handler of `complete` runs once, because `complete` is emitted once), `TicketsAreForSavedBatches`
  (`TicketsOnlyForSavedBatches`), `CompleteTicketsAreAll` (`CompleteTicketsCoverBatch`) and
  `TicketsPerSeatAreBounded` (`TicketsPerSeatBounded`). `TicketsInv` adds that tickets are
  requested only for batches that were announced (`TicketsFollow`), that runs are bounded by
  stalls (`TicketRunsBounded`), and what the worker has found, saved and still to save
  (`WorkerSound`).
* `Showing_proofs`, first the purchase: `PurchaseTypeCorrect`, `SoldIsPaid`, `AnsweredIsSold`,
  `RefusalsAreContention`. The invariant `PurchaseInv` says that a call past `save` has a
  saved payment (`Saved`), what `todo` and `modified` are before an update is sent
  (`Unsent`), that the tickets no longer in `todo` are sold (`Sent`, `Changed`), that a
  ticket's `updatedAt` is that of a call that paid for it (`LastSeller`), and that
  `modified` falls short of the tickets changed only if another call changed one of them with
  the same timestamp (`Counted`). The last part is what makes the refusal theorem inductive.

  Then the queries, while all of this goes on: `SalesCountsFit` (`SalesCountsInBounds`),
  `FailuresAreExplained` (`ShowingFailuresExplained`), `RecommendationsArePurchases`
  (`RecommendationsFollowPurchases`), `DatesLeadToShowtimes` (`ShowdatesLeadToShowtimes`). No step
  takes back what a query relies on: showtimes, tickets, payments and answers only come, movies
  and theaters only go (`Later`). So what a query holds after each of its reads contains what
  there was when it began and is contained in what there is by now (`QueryInv`, one part per
  stage), and a step of anybody else keeps that (`QueryKept`).
* `Accounts_proofs`. `EmailsSharedByRaces`, `TokensRotate`, `DeletedAreOut`, for any number of
  calls. The core (`CoreInv`) is that a call refers to calls that were over when it arrived
  (`Refers`), that the step of a call fits its request (`Placed`), and that a document is that of
  the call that inserted it (`Owned`). `EmailInv` adds that a call about to insert an email has
  seen nobody older with it, save by an update. `TokenInv` adds that the token on record is one
  of a call that has reached `store` (`Recorded`), that a used token is not on record any more,
  and that a refresh past its comparison follows no refresh with the same token (`Rotated`).
  `DeleteInv` adds that a call past the guard began before the deletion was answered (`Gone`).
  A customer does not come back because only the call that created it inserts it, and that call
  was over before anybody could ask for the deletion.
* `Catalog_proofs`. `SavesSerial`. The invariant says that a call that has read a document at
  version v holds what was saved last if the version still is v (`HoldsVersion`), that the
  document is the last one saved and each saved one follows from the one before (`Serial`), and
  that an answered deletion found or left nothing (`Deleted`): the comparison of versions is what
  carries `Serial` through a save.
* `CommonLibrary_proofs`, four parts. Of `FileStorage`: `FilesAreAllOrNothing`,
  `DiskIsExplained`. Per call: how many documents it has inserted by its step (`Counted`), and
  which are committed (`Committed`); per file (`DiskInv`): a copy is queued with the insertion,
  what is not deleted is on the disk as far as it was copied, what is deleted is removed, due to
  be by a call that has come to `unlink` or by the thread pool, or a stray (`Disposed`). A death
  keeps all of them.

  Of `TypeormTransactions`: `TransactionsSettled`. Per execution, what it holds follows from
  its step: nothing before `BEGIN` (`Fresh`), nothing in the database before the commit (`Open`),
  final changes after (`Settling`). What a connection holds belongs to the execution that has it,
  or to one that failed and whose `ROLLBACK` rejected (`Pending`); this is why a commit by
  somebody else settles nobody's changes but those. Each step changes one execution, and of the
  others at most what its own connection holds of them (`Alone`), so that the invariant is
  preserved pointwise; only a connection that breaks goes through all of them.

  Of `Paging`: `WalksCover` (`PagesCover`). However the database sorts what is equal, a document
  whose key is its own is at its `Rank`, the number of documents before it and one (`SortedAt`),
  so that a page holds it if `skip` and `take` enclose that (`PageHolds`). A document that was not
  shown yet is still ahead of `skip` unless one before it went away (`Missing`); one that was
  shown is behind it unless one came before it (`Repeating`). Insertions, updates and deletions
  are one lemma (`AlterStep`): what goes can only lower a rank, what comes can only raise it. By
  `createdAt` nothing is inserted before one that was there, so that what comes before it has been
  there in another form (`History`). `TotalsFit` (`TotalFitsPage`): the documents the page was
  found in and those that are counted differ by what came and went in between (`FoundIn`).

  Of `FileTransfer`: `LinesSurviveChunks` (`LinesMatchContent`). `Split` is written by the ends of
  the lines, and the ends by a `CHOOSE`, so that no induction is needed: a finite set of numbers has
  one list in order (`SomeList`, `OneList`), hence two texts in a row are split into the lines of the
  first but its last, and those of that one with the second text (`SplitJoined`). `ReadSoFar` is the
  invariant: there is a text with the line feeds of what was read, whose lines are those yielded and
  `leftover`; it is the text of the bytes as long as no chunk has ended inside a character, since
  the halves of a character are then in one chunk (`DecodeChunk`).

Left to TLC: the liveness properties `JobsSettle`, `RequestsAnswered`, `TicketsFollowShowtimes`
and `StoredFilesArrive`: fairness and ENABLED are out of the provers' reach.
Every safety property the passing runs check is stated by a theorem.

## 5. Where code and documents disagree

* `TimeslotsBlindSpot`: `docs/showtimes-registration.md` (lines 35-36, 50-60) wants requests
  refused that overlap registered showtimes. Only showtimes that *begin* within the window of
  the request are fetched (`S/showtimes/showtimes.repository.ts:129`), so one that began
  earlier and is still on is missed. `OverlapsOnlyFromBefore` shows that, with aligned
  starts, this is the only way two batches come to overlap. Showtimes of one and the same
  request are not compared with each other at all, and starts that differ by something other
  than a multiple of ten minutes are not found to overlap; the docs assume ten-minute units,
  the DTO does not enforce them.
* `TicketsMissing`: the same document (line 48) promises tickets for registered showtimes.
  The request for them is an in-memory event (`S/tickets/tickets.service.ts:41`): a crash
  after the showtimes are saved loses it, even after `complete` was sent.
* `TicketsDuplicated`: the tests count one ticket per seat
  (`S/__tests__/tickets-purchase.spec.ts:109`). A tickets job redelivered after a crash
  inserts them again (`S/tickets/services/tickets-creation.service.ts:66`).
* `TicketSoldTwice`: `docs/tickets-purchase.md:49` wants a seat not to be sold to two
  customers. `updateTicketStatus` (`S/tickets/tickets.repository.ts:49-51`) does not look at
  the status, and the comparison of the two counts does not notice a ticket that was sold
  before, because its `updatedAt` is modified.

## 6. Not modelled, and the plan

* Logging, modules, configuration and bootstrap: no state a property could be about.
* The mapping of errors to HTTP status codes (`C/microservice`, exception filters, the
  pipes) and the formats of replies. What the models keep of it is that a call ends in a reply or
  an error. One comment there does not describe the code: the HTTP exception filter leaves errors
  of status 5xx to another filter according to `C/http/http-exception.filter.ts:28-29`, while exceptions that
  carry such a status arrive in it too; no state depends on it.
* `TypeormRepository`, its entity base class and its logger: single calls of TypeORM without steps
  of their own, used by no application.
* Pure helpers: formatting of sizes and durations, ids, string parsing, date arithmetic beyond
  `addMinutes` and the days of `Showing`, distances between coordinates (`Distance` is a constant).
* The update of a seat map between registration and ticket creation: `Catalog` has the update,
  `TicketsCreation` the lookup, but they are not composed. The tickets are then those of the
  newer seat map, which no document calls wrong.
* Theaters without seats: `bulkSave` of nothing.
* Temporary uploads: the code never deletes them.
* Subscribers of the status streams: they see the statuses sent after they came, which no model
  tells apart.

What is left of the plan are abstract specifications of the tickets pipeline and of the purchase,
like `SlotLedger` for the registration.
