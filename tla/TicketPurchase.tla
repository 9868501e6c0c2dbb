--------------------------- MODULE TicketPurchase ---------------------------
(***************************************************************************)
(* Purchase of tickets: concurrent calls of PaymentsService.createPayment. *)
(* Each saves its payment, marks its tickets as sold with one updateMany,  *)
(* compares the two counts of the result, reads the tickets back and       *)
(* answers.  Nothing ties the writes together: updateMany changes one      *)
(* document after the other, and there is no transaction.                  *)
(*                                                                         *)
(* The schemas have timestamps, so that mongoose adds                      *)
(* `$set: { updatedAt: now }' to the update: a ticket that is sold already *)
(* counts as modified again, unless it was updated in this very            *)
(* millisecond.                                                            *)
(***************************************************************************)
EXTENDS Integers, FiniteSets

CONSTANTS
    Payment,            \* the calls of createPayment, and the payments they save
    Customer,
    Ticket,             \* the ticket ids a client may name ...
    Existing,           \* ... and those of them that are in the database
    Purchases,          \* the requests clients may send (CreatePaymentDto)
    NoPurchase,
    MaxClock,           \* bound on the milliseconds that pass
    MaxCrashes          \* bound on the crashes of the process

ASSUME ExistingAssumption == Existing \subseteq Ticket

ASSUME FiniteAssumption == IsFiniteSet(Ticket)

ASSUME PurchaseAssumption ==
    /\ Purchases \subseteq [customer : Customer, tickets : (SUBSET Ticket) \ {{}}]
    /\ NoPurchase \notin Purchases

ASSUME PurchaseBoundAssumption == MaxClock \in Nat /\ MaxCrashes \in Nat

VARIABLES
    asked,              \* the createDto of each call
    pc,                 \* where each call is, or how it ended
    now,                \* the updatedAt of each call's updateMany
    todo,               \* the tickets that updateMany has still to change
    modified,           \* its modifiedCount
    payments,           \* the payments collection
    status, updatedAt,  \* the tickets collection
    clock,
    crashes

callVars == <<asked, now, todo, modified>>
ticketVars == <<status, updatedAt>>
vars == <<callVars, pc, payments, ticketVars, clock, crashes>>

Running == {"save", "update", "updating", "find"}
Ended == {"done", "refused", "error", "lost"}

PurchaseTypeOK ==
    /\ asked \in [Payment -> Purchases \cup {NoPurchase}]
    /\ pc \in [Payment -> {"none"} \cup Running \cup Ended]
    /\ \A p \in Payment : pc[p] = "none" <=> asked[p] = NoPurchase
    /\ now \in [Payment -> 0..MaxClock]
    /\ todo \in [Payment -> SUBSET Existing]
    /\ modified \in [Payment -> Nat]
    /\ payments \subseteq Payment
    /\ status \in [Existing -> {"open", "sold"}]
    /\ updatedAt \in [Existing -> -1..MaxClock]
    /\ clock \in 0..MaxClock
    /\ crashes \in 0..MaxCrashes

\* The tickets are on sale; none was updated since.
Init ==
    /\ asked = [p \in Payment |-> NoPurchase]
    /\ pc = [p \in Payment |-> "none"]
    /\ now = [p \in Payment |-> 0]
    /\ todo = [p \in Payment |-> {}]
    /\ modified = [p \in Payment |-> 0]
    /\ payments = {}
    /\ status = [t \in Existing |-> "open"]
    /\ updatedAt = [t \in Existing |-> -1]
    /\ clock = 0
    /\ crashes = 0

----------------------------------------------------------------------------

\* The tickets that _id: { $in: ticketIds } matches, sold or not.
Matched(p) == asked[p].tickets \cap Existing

GoTo(p, from, to) == pc[p] = from /\ pc' = [pc EXCEPT ![p] = to]

\* Neither the customer nor the tickets are looked up.
CreatePayment(p, d) ==
    /\ GoTo(p, "none", "save")
    /\ asked' = [asked EXCEPT ![p] = d]
    /\ UNCHANGED <<now, todo, modified, payments, ticketVars, clock, crashes>>

\* Mutant: the tickets are updated before the payment is saved.
SavePaymentLater(p) ==
    /\ GoTo(p, "save", "update")
    /\ UNCHANGED <<callVars, payments, ticketVars, clock, crashes>>

SavePayment(p) ==
    /\ GoTo(p, "save", "update")
    /\ payments' = payments \cup {p}
    /\ UNCHANGED <<callVars, ticketVars, clock, crashes>>

\* Mutant: notifyTicketsPurchased is not awaited.
SendUpdateNotAwaited(p) ==
    /\ GoTo(p, "update", "find")
    /\ now' = [now EXCEPT ![p] = clock]
    /\ todo' = [todo EXCEPT ![p] = Matched(p)]
    /\ UNCHANGED <<asked, modified, payments, ticketVars, clock, crashes>>

\* updateTicketStatus: updatedAt is taken when the command is built.
SendUpdate(p) ==
    /\ GoTo(p, "update", "updating")
    /\ now' = [now EXCEPT ![p] = clock]
    /\ todo' = [todo EXCEPT ![p] = Matched(p)]
    /\ UNCHANGED <<asked, modified, payments, ticketVars, clock, crashes>>

\* Mutant: the update does not set updatedAt, as without timestamps.
UpdateTicketOnly(p, t) ==
    /\ t \in todo[p]
    /\ todo' = [todo EXCEPT ![p] = @ \ {t}]
    /\ modified' = [modified EXCEPT ![p] = @ + (IF status[t] = "sold" THEN 0 ELSE 1)]
    /\ status' = [status EXCEPT ![t] = "sold"]
    /\ UNCHANGED <<asked, now, pc, payments, updatedAt, clock, crashes>>

\* The database changes one document.  An update that was sent goes on even if
\* the call has failed or the process is gone.
UpdateTicket(p, t) ==
    /\ t \in todo[p]
    /\ todo' = [todo EXCEPT ![p] = @ \ {t}]
    /\ modified' = [modified EXCEPT
          ![p] = @ + (IF status[t] = "sold" /\ updatedAt[t] = now[p] THEN 0 ELSE 1)]
    /\ status' = [status EXCEPT ![t] = "sold"]
    /\ updatedAt' = [updatedAt EXCEPT ![t] = now[p]]
    /\ UNCHANGED <<asked, now, pc, payments, clock, crashes>>

\* Assert.equals(matchedCount, modifiedCount): the call throws if they differ,
\* and the payment stays.
TicketsUpdated(p) ==
    /\ todo[p] = {}
    /\ GoTo(p, "updating", IF modified[p] = Cardinality(Matched(p)) THEN "find" ELSE "refused")
    /\ UNCHANGED <<callVars, payments, ticketVars, clock, crashes>>

\* findByIds; its result is dropped, and the client gets its PaymentDto.
FindTickets(p) ==
    /\ GoTo(p, "find", "done")
    /\ UNCHANGED <<callVars, payments, ticketVars, clock, crashes>>

\* Mutant: the call forgets its request.
DatabaseFailsAndForgets(p) ==
    /\ pc[p] \in Running
    /\ pc' = [pc EXCEPT ![p] = "error"]
    /\ payments' \in {payments, IF pc[p] = "save" THEN payments \cup {p} ELSE payments}
    /\ asked' = [asked EXCEPT ![p] = NoPurchase]
    /\ UNCHANGED <<now, todo, modified, ticketVars, clock, crashes>>

\* A database operation throws: the insertion may have been applied all the same.
DatabaseFails(p) ==
    /\ pc[p] \in Running
    /\ pc' = [pc EXCEPT ![p] = "error"]
    /\ payments' \in {payments, IF pc[p] = "save" THEN payments \cup {p} ELSE payments}
    /\ UNCHANGED <<callVars, ticketVars, clock, crashes>>

\* The process dies, and the calls under way with it.
Crash ==
    /\ crashes < MaxCrashes
    /\ crashes' = crashes + 1
    /\ pc' = [p \in Payment |-> IF pc[p] \in Running THEN "lost" ELSE pc[p]]
    /\ UNCHANGED <<callVars, payments, ticketVars, clock>>

Tick ==
    /\ clock < MaxClock
    /\ clock' = clock + 1
    /\ UNCHANGED <<callVars, pc, payments, ticketVars, crashes>>

----------------------------------------------------------------------------

\* The steps of the code and of the database that a running call waits for.
Proceed(p) ==
    \/ SavePayment(p)
    \/ SendUpdate(p)
    \/ TicketsUpdated(p)
    \/ FindTickets(p)

Next ==
    \/ \E p \in Payment : \/ \E d \in Purchases : CreatePayment(p, d)
                          \/ Proceed(p)
                          \/ \E t \in Existing : UpdateTicket(p, t)
                          \/ DatabaseFails(p)
    \/ Crash
    \/ Tick

Spec == Init /\ [][Next]_vars

----------------------------------------------------------------------------

\* A ticket is sold only if a payment for it is on record: no seat becomes
\* unavailable without a payment, whenever the process dies.
SoldMeansPaid ==
    \A t \in Existing : status[t] = "sold" =>
        \E p \in payments : t \in asked[p].tickets

\* A client that gets its PaymentDto has a saved payment, and all the tickets it
\* named that exist are sold.
AnsweredMeansSold ==
    \A p \in Payment : pc[p] = "done" =>
        /\ p \in payments
        /\ \A t \in Matched(p) : status[t] = "sold"

\* The assertion `The status of all tickets must be changed.' refuses a call only
\* if another call sold one of its tickets in the same millisecond.
RefusedOnlyInSameInstant ==
    \A p \in Payment : pc[p] = "refused" =>
        \E q \in payments \ {p} :
            /\ Matched(q) \cap Matched(p) # {}
            /\ now[q] = now[p]

\* docs/tickets-purchase.md: a seat is not sold to two customers at a time.
NoDoubleSale ==
    \A p, q \in Payment :
        (pc[p] = "done" /\ pc[q] = "done" /\ asked[p].customer # asked[q].customer)
            => Matched(p) \cap Matched(q) = {}
=============================================================================
