--------------------------- MODULE Showing_proofs ---------------------------
(***************************************************************************)
(* Proofs about TicketPurchase and about Showing, which reads while        *)
(* tickets are bought, for any set of calls, tickets, requests and         *)
(* queries.                                                                *)
(*                                                                         *)
(* The purchases: a call has saved its payment before it sends its update  *)
(* (Saved); every ticket that is sold was last changed by a call that has  *)
(* a payment, names the ticket and has set its own updatedAt (LastSeller); *)
(* so a call counts a ticket as not modified only if another call changed  *)
(* it with the same updatedAt (Counted).                                   *)
(*                                                                         *)
(* The queries: nothing that a query relies on is ever taken back (Later), *)
(* so what it has read lies between what there was when it began and what  *)
(* there is now (QueryInv), whatever happens between its reads.            *)
(***************************************************************************)
EXTENDS Showing, FiniteSetTheorems, TLAPS

\* The update of the call was sent, or never will be.
Past(p) == pc[p] \in {"updating", "find"} \cup Ended

Contended(p) ==
    \E q \in payments \ {p} :
        /\ Matched(q) \cap Matched(p) # {}
        /\ now[q] = now[p]
        /\ Past(q)

Saved ==
    /\ \A p \in payments : pc[p] # "none"
    /\ \A p \in Payment :
          pc[p] \in {"update", "updating", "find", "done", "refused"} => p \in payments

Unsent ==
    \A p \in Payment : pc[p] \in {"none", "save", "update"} => todo[p] = {} /\ modified[p] = 0

Sent ==
    \A p \in Payment : todo[p] # {} => p \in payments /\ todo[p] \subseteq Matched(p)

Changed ==
    \A p \in Payment : pc[p] \in {"updating", "find", "done", "refused"} =>
        /\ \A t \in Matched(p) \ todo[p] : status[t] = "sold"
        /\ pc[p] # "updating" => todo[p] = {}

LastSeller ==
    \A t \in Existing : status[t] = "sold" =>
        \E q \in payments :
            /\ t \in Matched(q) \ todo[q]
            /\ updatedAt[t] = now[q]
            /\ Past(q)

Counted ==
    \A p \in Payment :
        /\ pc[p] = "updating" =>
              \/ modified[p] = Cardinality(Matched(p) \ todo[p])
              \/ Contended(p)
        /\ pc[p] = "refused" => Contended(p)

PurchaseInv ==
    /\ PurchaseTypeOK
    /\ Saved
    /\ Unsent
    /\ Sent
    /\ Changed
    /\ LastSeller
    /\ Counted

----------------------------------------------------------------------------

LEMMA MatchedFinite ==
    ASSUME NEW p, NEW S
    PROVE  IsFiniteSet(Matched(p) \ S)
<1>1. Matched(p) \ S \in SUBSET Ticket
  BY ExistingAssumption DEF Matched
<1>2. QED
  BY <1>1, FS_Subset, FiniteAssumption

LEMMA InitPurchase == Init => PurchaseInv
BY PurchaseBoundAssumption, PurchaseAssumption
   DEF Init, PurchaseInv, PurchaseTypeOK, Saved, Unsent, Sent, Changed, LastSeller, Counted,
       Running, Ended

(* A new call has no payment, so that nobody refers to what it asks for.  *)
LEMMA CreateStep ==
    ASSUME PurchaseInv, NEW p \in Payment, NEW d \in Purchases, CreatePayment(p, d)
    PROVE  PurchaseInv'
<1> USE DEF PurchaseInv
<1>1. /\ pc[p] = "none" /\ pc' = [pc EXCEPT ![p] = "save"]
      /\ asked' = [asked EXCEPT ![p] = d]
      /\ UNCHANGED <<now, todo, modified, payments, status, updatedAt, clock, crashes>>
  BY DEF CreatePayment, GoTo, ticketVars
<1>2. PurchaseTypeOK'
  BY <1>1, PurchaseAssumption DEF PurchaseTypeOK, Running, Ended
<1>3. \A q \in payments : q # p /\ q \in Payment
  BY <1>1 DEF Saved, PurchaseTypeOK
<1>4. \A q \in Payment : q # p => /\ pc'[q] = pc[q] /\ Matched(q)' = Matched(q)
                                  /\ Past(q)' <=> Past(q)
  BY <1>1 DEF PurchaseTypeOK, Matched, Past
<1>5. pc'[p] = "save" /\ todo[p] = {} /\ modified[p] = 0
  BY <1>1 DEF PurchaseTypeOK, Unsent
<1>6. \A q \in Payment : q # p /\ Contended(q) => Contended(q)'
  BY <1>1, <1>3, <1>4 DEF Contended
<1>7. Saved' /\ Unsent' /\ Sent'
  BY <1>1, <1>3, <1>4, <1>5 DEF Saved, Unsent, Sent
<1>8. Changed'
  BY <1>1, <1>4, <1>5 DEF Changed
<1>9. LastSeller'
  BY <1>1, <1>3, <1>4 DEF LastSeller
<1>10. Counted'
  BY <1>1, <1>4, <1>5, <1>6 DEF Counted
<1>11. QED
  BY <1>2, <1>7, <1>8, <1>9, <1>10

(* Moving on without an update.  The database is left alone, but for a payment  *)
(* that may be added.                                                           *)
LEMMA MoveStep ==
    ASSUME PurchaseInv,
           pc' \in [Payment -> {"none"} \cup Running \cup Ended],
           \A p \in Payment : pc[p] = "none" <=> pc'[p] = "none",
           \A p \in Payment : Past(p) => Past(p)',
           \A p \in Payment : pc'[p] \in {"save", "update"} => pc[p] \in {"save", "update"},
           \A p \in Payment : pc'[p] = "updating" => pc[p] = "updating",
           \A p \in Payment : pc'[p] \in {"find", "done", "refused"} =>
               pc[p] \in {"updating", "find", "done", "refused"} /\ todo[p] = {},
           \A p \in Payment : pc'[p] = "refused" => pc[p] = "refused" \/ Contended(p),
           payments \subseteq payments',
           payments' \subseteq payments \cup {p \in Payment : pc[p] # "none"},
           \A p \in Payment : pc'[p] = "update" => p \in payments',
           crashes' \in 0..MaxCrashes, clock' \in 0..MaxClock,
           UNCHANGED <<asked, now, todo, modified, status, updatedAt>>
    PROVE  PurchaseInv'
<1> USE DEF PurchaseInv
<1>1. \A p \in Payment : Matched(p)' = Matched(p)
  BY DEF Matched
<1>2. payments \subseteq Payment
  BY DEF PurchaseTypeOK
<1>3. \A p \in Payment : Contended(p) => Contended(p)'
  BY <1>1, <1>2 DEF Contended
<1>4. PurchaseTypeOK'
  BY DEF PurchaseTypeOK
<1>5. Saved' /\ Sent'
  BY <1>1, <1>2 DEF Saved, Sent
<1>6. Unsent'
  BY DEF Unsent
<1>7. Changed'
  BY <1>1 DEF Changed
<1>8. LastSeller'
  BY <1>1, <1>2 DEF LastSeller
<1>9. Counted'
  BY <1>1, <1>3 DEF Counted
<1>10. QED
  BY <1>4, <1>5, <1>6, <1>7, <1>8, <1>9

LEMMA SaveStep ==
    ASSUME PurchaseInv, NEW p \in Payment, SavePayment(p)
    PROVE  PurchaseInv'
<1>1. /\ pc[p] = "save" /\ pc' = [pc EXCEPT ![p] = "update"]
      /\ payments' = payments \cup {p}
      /\ UNCHANGED <<asked, now, todo, modified, status, updatedAt, clock, crashes>>
  BY DEF SavePayment, GoTo, callVars, ticketVars
<1>2. pc \in [Payment -> {"none"} \cup Running \cup Ended] /\ payments \subseteq Payment
      /\ crashes \in 0..MaxCrashes /\ clock \in 0..MaxClock
  BY DEF PurchaseInv, PurchaseTypeOK
<1>3. \A q \in Payment : pc[q] = "update" => q \in payments
  BY DEF PurchaseInv, Saved
<1>4. \A q \in Payment : pc[q] \in {"find", "done", "refused"} => todo[q] = {}
  BY DEF PurchaseInv, Changed
<1>5. QED
  BY <1>1, <1>2, <1>3, <1>4, MoveStep DEF Past, Running, Ended

LEMMA EndStep ==
    ASSUME PurchaseInv, NEW p \in Payment,
           TicketsUpdated(p) \/ FindTickets(p) \/ DatabaseFails(p)
    PROVE  PurchaseInv'
<1>1. pc \in [Payment -> {"none"} \cup Running \cup Ended] /\ payments \subseteq Payment
      /\ crashes \in 0..MaxCrashes /\ clock \in 0..MaxClock
  BY DEF PurchaseInv, PurchaseTypeOK
<1>2. \A q \in Payment : pc[q] = "update" => q \in payments
  BY DEF PurchaseInv, Saved
<1>3. \A q \in Payment : pc[q] \in {"find", "done", "refused"} => todo[q] = {}
  BY DEF PurchaseInv, Changed
<1>4. CASE TicketsUpdated(p)
  <2>1. /\ pc[p] = "updating" /\ todo[p] = {}
        /\ pc' = [pc EXCEPT ![p] = IF modified[p] = Cardinality(Matched(p))
                                   THEN "find" ELSE "refused"]
        /\ UNCHANGED <<asked, now, todo, modified, payments, status, updatedAt, clock, crashes>>
    BY <1>4 DEF TicketsUpdated, GoTo, callVars, ticketVars
  <2>2. Matched(p) \ todo[p] = Matched(p)
    BY <2>1
  <2>3. modified[p] # Cardinality(Matched(p)) => Contended(p)
    BY <2>1, <2>2 DEF PurchaseInv, Counted
  <2>4. QED
    BY <1>1, <1>2, <1>3, <2>1, <2>3, MoveStep DEF Past, Running, Ended
<1>5. CASE FindTickets(p)
  <2>1. /\ pc[p] = "find" /\ pc' = [pc EXCEPT ![p] = "done"]
        /\ UNCHANGED <<asked, now, todo, modified, payments, status, updatedAt, clock, crashes>>
    BY <1>5 DEF FindTickets, GoTo, callVars, ticketVars
  <2>2. QED
    BY <1>1, <1>2, <1>3, <2>1, MoveStep DEF Past, Running, Ended
<1>6. CASE DatabaseFails(p)
  <2>1. /\ pc[p] \in Running /\ pc' = [pc EXCEPT ![p] = "error"]
        /\ payments' = payments \/ payments' = payments \cup {p}
        /\ UNCHANGED <<asked, now, todo, modified, status, updatedAt, clock, crashes>>
    BY <1>6 DEF DatabaseFails, callVars, ticketVars
  <2>2. QED
    BY <1>1, <1>2, <1>3, <2>1, MoveStep DEF Past, Running, Ended
<1>7. QED
  BY <1>4, <1>5, <1>6

LEMMA EnvironmentStep ==
    ASSUME PurchaseInv, Crash \/ Tick \/ UNCHANGED vars
    PROVE  PurchaseInv'
<1>1. pc \in [Payment -> {"none"} \cup Running \cup Ended] /\ payments \subseteq Payment
      /\ crashes \in 0..MaxCrashes /\ clock \in 0..MaxClock
  BY DEF PurchaseInv, PurchaseTypeOK
<1>2. \A q \in Payment : pc[q] = "update" => q \in payments
  BY DEF PurchaseInv, Saved
<1>3. \A q \in Payment : pc[q] \in {"find", "done", "refused"} => todo[q] = {}
  BY DEF PurchaseInv, Changed
<1>4. /\ pc' = pc \/ pc' = [p \in Payment |-> IF pc[p] \in Running THEN "lost" ELSE pc[p]]
      /\ crashes' \in 0..MaxCrashes /\ clock' \in 0..MaxClock
      /\ UNCHANGED <<asked, now, todo, modified, payments, status, updatedAt>>
  BY <1>1, PurchaseBoundAssumption DEF Crash, Tick, vars, callVars, ticketVars
<1>5. QED
  BY <1>1, <1>2, <1>3, <1>4, MoveStep DEF Past, Running, Ended

(* Sending the update: nobody has referred to the call yet, as it is not Past.   *)
LEMMA SendStep ==
    ASSUME PurchaseInv, NEW p \in Payment, SendUpdate(p)
    PROVE  PurchaseInv'
<1> USE DEF PurchaseInv
<1>1. /\ pc[p] = "update" /\ pc' = [pc EXCEPT ![p] = "updating"]
      /\ now' = [now EXCEPT ![p] = clock]
      /\ todo' = [todo EXCEPT ![p] = Matched(p)]
      /\ UNCHANGED <<asked, modified, payments, status, updatedAt, clock, crashes>>
  BY DEF SendUpdate, GoTo, ticketVars
<1>2. PurchaseTypeOK'
  BY <1>1 DEF PurchaseTypeOK, Running, Ended, Matched
<1>3. \A q \in Payment : /\ Matched(q)' = Matched(q)
                         /\ q # p => /\ pc'[q] = pc[q] /\ now'[q] = now[q] /\ todo'[q] = todo[q]
                                     /\ Past(q)' <=> Past(q)
  BY <1>1 DEF PurchaseTypeOK, Matched, Past
<1>4. ~Past(p) /\ pc'[p] = "updating" /\ todo'[p] = Matched(p) /\ p \in payments
      /\ modified[p] = 0 /\ payments \subseteq Payment
  BY <1>1 DEF PurchaseTypeOK, Past, Ended, Unsent, Saved
<1>5. \A q \in Payment : q # p /\ Contended(q) => Contended(q)'
  BY <1>1, <1>3, <1>4 DEF Contended
<1>6. Saved' /\ Sent'
  BY <1>1, <1>3, <1>4 DEF Saved, Sent
<1>7. Unsent'
  BY <1>1, <1>3, <1>4 DEF Unsent
<1>8. Changed'
  BY <1>1, <1>3, <1>4 DEF Changed
<1>9. LastSeller'
  BY <1>1, <1>3, <1>4 DEF LastSeller
<1>10. (Matched(p) \ todo[p])' = {}
  BY <1>3, <1>4
<1>11. Counted'
  BY <1>1, <1>3, <1>4, <1>5, <1>10, FS_EmptySet DEF Counted
<1>12. QED
  BY <1>2, <1>6, <1>7, <1>8, <1>9, <1>11

(* One document is changed: by a call that counts it, unless the last seller of *)
(* the ticket, another call, used the same updatedAt.                           *)
LEMMA UpdateStep ==
    ASSUME PurchaseInv, NEW p \in Payment, NEW t \in Existing, UpdateTicket(p, t)
    PROVE  PurchaseInv'
<1> USE DEF PurchaseInv
<1> DEFINE inc == IF status[t] = "sold" /\ updatedAt[t] = now[p] THEN 0 ELSE 1
<1>1. /\ t \in todo[p]
      /\ todo' = [todo EXCEPT ![p] = todo[p] \ {t}]
      /\ modified' = [modified EXCEPT ![p] = modified[p] + inc]
      /\ status' = [status EXCEPT ![t] = "sold"]
      /\ updatedAt' = [updatedAt EXCEPT ![t] = now[p]]
      /\ UNCHANGED <<asked, now, pc, payments, clock, crashes>>
  BY DEF UpdateTicket
<1>2. /\ p \in payments /\ t \in Matched(p) /\ Past(p)
      /\ payments \subseteq Payment /\ todo \in [Payment -> SUBSET Existing]
  BY <1>1 DEF PurchaseTypeOK, Sent, Unsent, Past, Running, Ended
<1>3. PurchaseTypeOK'
  <2>1. inc \in Nat
    OBVIOUS
  <2>2. modified' \in [Payment -> Nat]
    BY <1>1, <2>1 DEF PurchaseTypeOK
  <2>3. now[p] \in -1..MaxClock
    BY DEF PurchaseTypeOK
  <2>4. QED
    BY <1>1, <2>2, <2>3 DEF PurchaseTypeOK
<1>4. \A q \in Payment : Matched(q)' = Matched(q) /\ (Past(q)' <=> Past(q))
  BY <1>1 DEF Matched, Past
<1>5. \A q \in Payment : Contended(q) => Contended(q)'
  BY <1>1, <1>2, <1>4 DEF Contended
<1>6. Saved' /\ Sent'
  BY <1>1, <1>2, <1>4 DEF Saved, Sent
<1>7. Unsent'
  BY <1>1, <1>2 DEF Unsent, Past, Ended
<1>8. Changed'
  <2> SUFFICES ASSUME NEW q \in Payment, pc[q] \in {"updating", "find", "done", "refused"}
               PROVE  /\ \A u \in Matched(q) \ todo'[q] : status'[u] = "sold"
                      /\ pc[q] # "updating" => todo'[q] = {}
    BY <1>1, <1>4 DEF Changed
  <2>1. \A u \in Matched(q) : status[u] = "sold" => status'[u] = "sold"
    BY <1>1 DEF PurchaseTypeOK, Matched
  <2>2. \A u \in Matched(q) \ todo'[q] : u \in Matched(q) \ todo[q] \/ u = t
    BY <1>1, <1>2
  <2>3. status'[t] = "sold"
    BY <1>1 DEF PurchaseTypeOK
  <2>4. QED
    BY <1>1, <1>2, <2>1, <2>2, <2>3 DEF Changed
<1>9. LastSeller'
  <2> SUFFICES ASSUME NEW u \in Existing, status'[u] = "sold"
               PROVE  \E q \in payments : /\ u \in Matched(q) \ todo'[q]
                                          /\ updatedAt'[u] = now[q]
                                          /\ Past(q)
    BY <1>1, <1>2, <1>4 DEF LastSeller
  <2>1. CASE u = t
    <3>1. t \notin todo'[p] /\ updatedAt'[t] = now[p]
      BY <1>1, <1>2 DEF PurchaseTypeOK
    <3>2. QED
      BY <1>2, <2>1, <3>1
  <2>2. CASE u # t
    <3>1. status[u] = "sold" /\ updatedAt'[u] = updatedAt[u]
      BY <1>1, <2>2 DEF PurchaseTypeOK
    <3>2. PICK q \in payments : u \in Matched(q) \ todo[q] /\ updatedAt[u] = now[q] /\ Past(q)
      BY <3>1 DEF LastSeller
    <3>3. u \notin todo'[q]
      BY <1>1, <1>2, <3>2
    <3>4. QED
      BY <3>1, <3>2, <3>3
  <2>3. QED
    BY <2>1, <2>2
<1>10. (pc[p] = "updating" /\ ~Contended(p)) =>
           modified'[p] = Cardinality(Matched(p) \ todo'[p])
  <2> SUFFICES ASSUME pc[p] = "updating", ~Contended(p)
               PROVE  modified'[p] = Cardinality(Matched(p) \ todo'[p])
    OBVIOUS
  <2>1. ~(status[t] = "sold" /\ updatedAt[t] = now[p])
    <3> SUFFICES ASSUME status[t] = "sold", updatedAt[t] = now[p]
                 PROVE  FALSE
      OBVIOUS
    <3>1. PICK q \in payments : t \in Matched(q) \ todo[q] /\ updatedAt[t] = now[q] /\ Past(q)
      BY DEF LastSeller
    <3>2. q # p
      BY <1>1, <3>1
    <3>3. QED
      BY <1>2, <3>1, <3>2 DEF Contended
  <2>2. modified[p] = Cardinality(Matched(p) \ todo[p])
    BY DEF Counted
  <2>3. modified'[p] = modified[p] + 1
    BY <1>1, <2>1 DEF PurchaseTypeOK
  <2>4. Matched(p) \ todo'[p] = (Matched(p) \ todo[p]) \cup {t}
    BY <1>1, <1>2
  <2>5. Cardinality((Matched(p) \ todo[p]) \cup {t}) = Cardinality(Matched(p) \ todo[p]) + 1
    BY <1>1, MatchedFinite, FS_AddElement
  <2>6. QED
    BY <2>2, <2>3, <2>4, <2>5
<1>11. Counted'
  <2>1. \A q \in Payment : q # p => todo'[q] = todo[q] /\ modified'[q] = modified[q]
    BY <1>1 DEF PurchaseTypeOK
  <2>2. QED
    BY <1>1, <1>4, <1>5, <1>10, <2>1 DEF Counted
<1>12. QED
  BY <1>3, <1>6, <1>7, <1>8, <1>9, <1>11

LEMMA NextPurchase == PurchaseInv /\ [Next]_vars => PurchaseInv'
<1> SUFFICES ASSUME PurchaseInv, [Next]_vars
             PROVE  PurchaseInv'
  OBVIOUS
<1>1. ASSUME NEW p \in Payment, NEW d \in Purchases, CreatePayment(p, d) PROVE PurchaseInv'
  BY <1>1, CreateStep
<1>2. ASSUME NEW p \in Payment, SavePayment(p) PROVE PurchaseInv'
  BY <1>2, SaveStep
<1>3. ASSUME NEW p \in Payment, SendUpdate(p) PROVE PurchaseInv'
  BY <1>3, SendStep
<1>4. ASSUME NEW p \in Payment, NEW t \in Existing, UpdateTicket(p, t) PROVE PurchaseInv'
  BY <1>4, UpdateStep
<1>5. ASSUME NEW p \in Payment, TicketsUpdated(p) \/ FindTickets(p) \/ DatabaseFails(p)
      PROVE PurchaseInv'
  BY <1>5, EndStep
<1>6. CASE Crash \/ Tick \/ UNCHANGED vars
  BY <1>6, EnvironmentStep
<1>7. QED
  BY <1>1, <1>2, <1>3, <1>4, <1>5, <1>6 DEF Next, Proceed

LEMMA PurchaseInvariant == Spec => []PurchaseInv
BY InitPurchase, NextPurchase, PTL DEF Spec

----------------------------------------------------------------------------

\* Every value has its type in every reachable state of PaymentsService and the
\* two collections.
THEOREM PurchaseTypeCorrect == Spec => []PurchaseTypeOK
<1>1. PurchaseInv => PurchaseTypeOK
  BY DEF PurchaseInv
<1>2. QED
  BY <1>1, PurchaseInvariant, PTL

\* However many calls of createPayment interleave, and wherever the process dies,
\* a ticket is sold only if a saved payment names it.
THEOREM SoldIsPaid == Spec => []SoldMeansPaid
<1>1. PurchaseInv => SoldMeansPaid
  BY DEF PurchaseInv, LastSeller, SoldMeansPaid, Matched
<1>2. QED
  BY <1>1, PurchaseInvariant, PTL

\* A call of createPayment that is answered has saved its payment and sold every
\* existing ticket it named.
THEOREM AnsweredIsSold == Spec => []AnsweredMeansSold
<1>1. PurchaseInv => AnsweredMeansSold
  BY DEF PurchaseInv, Saved, Changed, AnsweredMeansSold
<1>2. QED
  BY <1>1, PurchaseInvariant, PTL

\* The assertion in notifyTicketsPurchased fails only if two calls for one ticket
\* took the same updatedAt.
THEOREM RefusalsAreContention == Spec => []RefusedOnlyInSameInstant
<1>1. PurchaseInv => RefusedOnlyInSameInstant
  BY DEF PurchaseInv, Counted, Contended, RefusedOnlyInSameInstant
<1>2. QED
  BY <1>1, PurchaseInvariant, PTL

----------------------------------------------------------------------------

(* What the collections satisfy.                                            *)
Catalogued ==
    /\ showtimes \subseteq Showtime
    /\ created \subseteq Existing
    /\ movies \subseteq Movie
    /\ \A t \in created : ShowtimeOf[t] \in showtimes
    /\ \A p \in Payment : pc[p] # "none" => Matched(p) \subseteq created
    /\ IsFiniteSet(payments)

(* There is one of each for each query.                                     *)
Indexed ==
    /\ DOMAIN request = Query
    /\ DOMAIN stage = Query
    /\ DOMAIN held = Query
    /\ DOMAIN answer = Query
    /\ DOMAIN before = Query

WorldInv == PurchaseInv /\ Catalogued

(* No step takes back what a query relies on.                               *)
Later ==
    /\ showtimes \subseteq showtimes'
    /\ created \subseteq created'
    /\ movies' \subseteq movies
    /\ theaters' \subseteq theaters
    /\ payments \subseteq payments'
    /\ \A p \in Payment : pc[p] # "none" => pc'[p] # "none" /\ asked'[p] = asked[p]
    /\ \A p \in Payment : pc[p] = "done" => pc'[p] = "done"
    /\ clock' = clock

----------------------------------------------------------------------------

LEMMA InitWorld == ShowingInit => WorldInv /\ Indexed
<1> SUFFICES ASSUME ShowingInit PROVE WorldInv /\ Indexed
  OBVIOUS
<1>1. PurchaseInv
  BY InitPurchase DEF ShowingInit
<1>2. IsFiniteSet(payments)
  BY FS_EmptySet DEF ShowingInit, Init
<1>3. \A p \in Payment : pc[p] = "none"
  BY DEF ShowingInit, Init
<1>4. QED
  BY <1>1, <1>2, <1>3, CatalogAssumption DEF ShowingInit, WorldInv, Catalogued, Indexed

(* A step of a purchase.                                                    *)
LEMMA PurchaseLater ==
    ASSUME PurchaseInv, NEW p \in Payment,
           \/ \E d \in Purchases : CreatePayment(p, d)
           \/ Proceed(p)
           \/ \E t \in Existing : UpdateTicket(p, t)
           \/ DatabaseFails(p)
    PROVE  /\ payments' = payments \/ payments' = payments \cup {p}
           /\ \A r \in Payment : pc[r] # "none" => pc'[r] # "none" /\ asked'[r] = asked[r]
           /\ \A r \in Payment : pc[r] = "done" => pc'[r] = "done"
           /\ \A r \in Payment : pc'[r] # "none" /\ pc[r] = "none" =>
                 r = p /\ \E d \in Purchases : CreatePayment(p, d)
           /\ clock' = clock
<1>1. DOMAIN pc = Payment /\ DOMAIN asked = Payment
  BY DEF PurchaseInv, PurchaseTypeOK
<1>2. CASE \E d \in Purchases : CreatePayment(p, d)
  BY <1>1, <1>2 DEF CreatePayment, GoTo
<1>3. CASE SavePayment(p)
  BY <1>1, <1>3 DEF SavePayment, GoTo, callVars
<1>4. CASE SendUpdate(p)
  BY <1>1, <1>4 DEF SendUpdate, GoTo
<1>5. CASE TicketsUpdated(p)
  BY <1>1, <1>5 DEF TicketsUpdated, GoTo, callVars
<1>6. CASE FindTickets(p)
  BY <1>1, <1>6 DEF FindTickets, GoTo, callVars
<1>7. CASE \E t \in Existing : UpdateTicket(p, t)
  BY <1>1, <1>7 DEF UpdateTicket
<1>8. CASE DatabaseFails(p)
  BY <1>1, <1>8 DEF DatabaseFails, Running, callVars
<1>9. QED
  BY <1>2, <1>3, <1>4, <1>5, <1>6, <1>7, <1>8 DEF Proceed

(* The purchases go on as without queries.                                  *)
LEMMA ShowingPurchase == PurchaseInv /\ [ShowingNext]_<<vars, showingVars>> => PurchaseInv'
<1> SUFFICES ASSUME PurchaseInv, [ShowingNext]_<<vars, showingVars>> PROVE PurchaseInv'
  OBVIOUS
<1>1. [Next]_vars
  BY DEF ShowingNext, Next, RegisterShowtime, CreateTicket, RemoveMovie, RemoveTheater, Buy, Ask,
         QueryStep, Read, End, FindShowingMovieIds, GetShowingMovies, FindLatestPayments,
         FindPaidTickets, GetWatchedMovies, FindTheaterIdsShowingMovie, GetTheatersByIds,
         FindShowtimesByShowdate, GetSalesStatuses, FindShowdates, FindTicketsByShowtimeId
<1>2. QED
  BY <1>1, NextPurchase

(* What a query does, it does to itself only.                               *)
LEMMA QueryAlone ==
    ASSUME Indexed, NEW q \in Query,
           (\E r \in QueryRequest : Ask(q, r)) \/ QueryStep(q)
    PROVE  /\ UNCHANGED <<catalogVars, vars>>
           /\ Indexed'
           /\ \A r \in Query : r # q =>
                 /\ request'[r] = request[r]
                 /\ stage'[r] = stage[r]
                 /\ held'[r] = held[r]
                 /\ answer'[r] = answer[r]
                 /\ before'[r] = before[r]
<1>1. CASE \E r \in QueryRequest : Ask(q, r)
  BY <1>1 DEF Indexed, Ask
<1>2. ASSUME NEW from, NEW to, NEW ids, NEW ms, Read(q, from, to, ids, ms)
      PROVE  /\ UNCHANGED <<catalogVars, vars, request, answer, before>>
             /\ Indexed'
             /\ \A r \in Query : r # q => stage'[r] = stage[r] /\ held'[r] = held[r]
  BY <1>2 DEF Indexed, Read
<1>3. ASSUME NEW from, NEW how, NEW result, End(q, from, how, result)
      PROVE  /\ UNCHANGED <<catalogVars, vars, request, held, before>>
             /\ Indexed'
             /\ \A r \in Query : r # q => stage'[r] = stage[r] /\ answer'[r] = answer[r]
  BY <1>3 DEF Indexed, End
<1>4. CASE QueryStep(q)
  <2>1. \/ \E from, to, ids, ms : Read(q, from, to, ids, ms)
        \/ \E from, how, result : End(q, from, how, result)
    BY <1>4 DEF QueryStep, FindShowingMovieIds, GetShowingMovies, FindLatestPayments,
         FindPaidTickets, GetWatchedMovies, FindTheaterIdsShowingMovie, GetTheatersByIds,
         FindShowtimesByShowdate, GetSalesStatuses, FindShowdates, FindTicketsByShowtimeId
  <2>2. QED
    BY <2>1, <1>2, <1>3
<1>5. QED
  BY <1>1, <1>4

LEMMA NextWorld ==
    ASSUME WorldInv, Indexed, [ShowingNext]_<<vars, showingVars>>
    PROVE  WorldInv' /\ Later
<1>0. PurchaseInv'
  BY ShowingPurchase DEF WorldInv
<1>1. CASE \/ \E s \in Showtime \ showtimes : RegisterShowtime(s)
           \/ \E t \in Existing \ created : CreateTicket(t)
           \/ \E m \in movies : RemoveMovie(m)
           \/ \E th \in theaters : RemoveTheater(th)
  <2>1. UNCHANGED <<pc, asked, payments, clock>>
    BY <1>1 DEF RegisterShowtime, CreateTicket, RemoveMovie, RemoveTheater, vars, callVars
  <2>2. Later
    BY <1>1, <2>1 DEF RegisterShowtime, CreateTicket, RemoveMovie, RemoveTheater, Later
  <2>3. \A p \in Payment : Matched(p)' = Matched(p)
    BY <2>1 DEF Matched
  <2>4. Catalogued'
    BY <1>1, <2>1, <2>3
       DEF RegisterShowtime, CreateTicket, RemoveMovie, RemoveTheater, WorldInv, Catalogued
  <2>5. QED
    BY <1>0, <2>2, <2>4 DEF WorldInv
<1>2. ASSUME NEW p \in Payment,
             \/ \E d \in Purchases : Buy(p, d)
             \/ Proceed(p) /\ UNCHANGED showingVars
             \/ \E t \in Existing : UpdateTicket(p, t) /\ UNCHANGED showingVars
             \/ DatabaseFails(p) /\ UNCHANGED showingVars
      PROVE  WorldInv' /\ Later
  <2>1. UNCHANGED <<showtimes, created, movies, theaters>>
    BY <1>2 DEF Buy, showingVars, catalogVars
  <2>2. /\ payments' = payments \/ payments' = payments \cup {p}
        /\ \A r \in Payment : pc[r] # "none" => pc'[r] # "none" /\ asked'[r] = asked[r]
        /\ \A r \in Payment : pc[r] = "done" => pc'[r] = "done"
        /\ \A r \in Payment : pc'[r] # "none" /\ pc[r] = "none" =>
              r = p /\ \E d \in Purchases : CreatePayment(p, d)
        /\ clock' = clock
    BY <1>2, PurchaseLater DEF Buy, WorldInv
  <2>3. \A r \in Payment : pc[r] # "none" => Matched(r)' = Matched(r)
    BY <2>2 DEF Matched
  <2>4. \A r \in Payment : pc'[r] # "none" => Matched(r)' \subseteq created
    <3> SUFFICES ASSUME NEW r \in Payment, pc'[r] # "none", pc[r] = "none"
                 PROVE  Matched(r)' \subseteq created
      BY <2>3 DEF WorldInv, Catalogued
    <3>1. r = p
      BY <2>2
    <3>2. PICK d \in Purchases : Buy(p, d)
      <4>1. pc'[p] # pc[p] /\ pc[p] = "none"
        BY <3>1
      <4>2. QED
        BY <1>2, <4>1 DEF Proceed, SavePayment, SendUpdate, TicketsUpdated, FindTickets, GoTo,
                          UpdateTicket, DatabaseFails, Running
    <3>3. asked'[p] = d /\ d.tickets \cap Existing \subseteq created
      BY <3>2 DEF Buy, CreatePayment, WorldInv, PurchaseInv, PurchaseTypeOK
    <3>4. QED
      BY <3>1, <3>3 DEF Matched
  <2>5. IsFiniteSet(payments')
    BY <2>2, FS_AddElement DEF WorldInv, Catalogued
  <2>6. Catalogued'
    BY <2>1, <2>4, <2>5 DEF WorldInv, Catalogued
  <2>7. QED
    BY <1>0, <2>1, <2>2, <2>6 DEF WorldInv, Later
<1>3. CASE \/ \E q \in Query : (\E r \in QueryRequest : Ask(q, r)) \/ QueryStep(q)
           \/ UNCHANGED <<vars, showingVars>>
  <2>1. UNCHANGED <<catalogVars, vars>>
    BY <1>3, QueryAlone DEF showingVars
  <2>2. UNCHANGED <<showtimes, created, movies, theaters, pc, asked, payments, clock>>
    BY <2>1 DEF catalogVars, vars, callVars
  <2>3. \A p \in Payment : Matched(p)' = Matched(p)
    BY <2>2 DEF Matched
  <2>4. QED
    BY <1>0, <2>2, <2>3 DEF WorldInv, Catalogued, Later
<1>4. QED
  BY <1>1, <1>2, <1>3 DEF ShowingNext

----------------------------------------------------------------------------

(* The payments of the customer who asks, the tickets they name, and those of them     *)
(* that were answered for before.                                                      *)
His(q) == {p \in payments : asked[p].customer = request[q].customer}

OnRecord(q) == UNION {Matched(p) : p \in His(q)}

Wanted(q) == UNION {Matched(p) : p \in before[q].payments \cap His(q)}

(* All of them are on the page that is read.                                           *)
WholePage(q) == Cardinality(His(q)) <= Take

(* The showtimes there were when the query began that are still to come.               *)
Upcoming(q) == {s \in before[q].showtimes : StartOf[s] > clock}

(* What any payment on record names.                                                  *)
SoldAtAll == UNION {Matched(p) : p \in payments}

(* Each stage is of one kind of query.                                                *)
Staged(q) ==
    /\ stage[q] \in {"showingIds", "showing", "payments", "tickets", "watched"}
          => request[q].kind = "recommend"
    /\ stage[q] \in {"theaterIds", "theaters"} => request[q].kind = "theaters"
    /\ stage[q] \in {"showtimes", "statuses"} => request[q].kind = "showtimes"
    /\ stage[q] = "showdates" => request[q].kind = "showdates"
    /\ stage[q] = "seats" => request[q].kind = "tickets"

(* What was there when the query began is still there.                                 *)
Begun(q) ==
    /\ before[q].showtimes \subseteq showtimes
    /\ before[q].tickets \subseteq created
    /\ \A p \in before[q].payments : p \in Payment /\ pc[p] = "done"

(* What a query holds in each stage, from the reads before: at most what the           *)
(* collections have by now, at least what they had when the query began.               *)
HoldsMovies(q) ==
    /\ stage[q] = "showing" =>
          /\ \A m \in Range(held[q].ids) : \E s \in showtimes : MovieOf[s] = m
          /\ \A s \in Upcoming(q) : MovieOf[s] \in Range(held[q].ids)
    /\ stage[q] \in {"payments", "tickets", "watched"} =>
          /\ held[q].movies \subseteq Movie
          /\ \A s \in Upcoming(q) : MovieOf[s] \in held[q].movies

HoldsTickets(q) ==
    stage[q] = "tickets" =>
        /\ Range(held[q].ids) \subseteq OnRecord(q)
        /\ WholePage(q) => Wanted(q) \subseteq Range(held[q].ids)

HoldsWatched(q) ==
    stage[q] = "watched" =>
        /\ \A m \in Range(held[q].ids) :
              \E t \in OnRecord(q) \cap created : m = MovieOf[ShowtimeOf[t]]
        /\ WholePage(q) => \A t \in Wanted(q) : MovieOf[ShowtimeOf[t]] \in Range(held[q].ids)

HoldsTheaters(q) ==
    stage[q] = "theaters" => \A th \in Range(held[q].ids) : \E s \in showtimes : TheaterOf[s] = th

HoldsShowtimes(q) ==
    stage[q] = "statuses" =>
        \A s \in Range(held[q].ids) : /\ s \in showtimes
                                      /\ MovieOf[s] = request[q].movie
                                      /\ TheaterOf[s] = request[q].theater

In(ts, s) == {t \in ts : ShowtimeOf[t] = s}

(* What it answers.                                                                    *)
SalesFit(q) ==
    Answered(q, "showtimes") =>
        \A s \in DOMAIN answer[q] :
            /\ answer[q][s].available + answer[q][s].sold = answer[q][s].total
            /\ answer[q][s].sold \in Nat
            /\ answer[q][s].sold >= Cardinality(In(BoughtBefore(q), s))
            /\ answer[q][s].sold <= Cardinality(In(SoldAtAll, s))
            /\ answer[q][s].total >= Cardinality(In(before[q].tickets, s))

FailureFits(q) ==
    /\ stage[q] = "broken" =>
          \E s \in showtimes : /\ MovieOf[s] = request[q].movie
                               /\ TheaterOf[s] = request[q].theater
                               /\ \A t \in before[q].tickets : ShowtimeOf[t] # s
    /\ stage[q] = "refused" =>
          \E s \in showtimes : MovieOf[s] \notin movies \/ TheaterOf[s] \notin theaters

Shared(m, ts) == \E t \in ts : GenresOf[m] \cap GenresOf[MovieOf[ShowtimeOf[t]]] # {}

RecommendationFits(q) ==
    Answered(q, "recommend") =>
        /\ \A m \in Range(answer[q]) : Shared(m, OnRecord(q))
        /\ WholePage(q) =>
              \A s \in Upcoming(q) : Shared(MovieOf[s], Wanted(q)) => MovieOf[s] \in Range(answer[q])

QueryInv(q) ==
    /\ Staged(q)
    /\ Begun(q)
    /\ HoldsMovies(q)
    /\ HoldsTickets(q)
    /\ HoldsWatched(q)
    /\ HoldsTheaters(q)
    /\ HoldsShowtimes(q)
    /\ SalesFit(q)
    /\ FailureFits(q)
    /\ RecommendationFits(q)

(* The query does not move.                                                            *)
Kept(q) ==
    /\ request'[q] = request[q]
    /\ stage'[q] = stage[q]
    /\ held'[q] = held[q]
    /\ answer'[q] = answer[q]
    /\ before'[q] = before[q]

----------------------------------------------------------------------------

LEMMA MatchedStays ==
    ASSUME WorldInv, Later
    PROVE  /\ \A p \in payments : p \in Payment /\ Matched(p)' = Matched(p) /\ asked'[p] = asked[p]
           /\ payments \subseteq payments'
<1>1. \A p \in payments : p \in Payment /\ pc[p] # "none"
  BY DEF WorldInv, PurchaseInv, PurchaseTypeOK, Saved
<1>2. QED
  BY <1>1 DEF Later, Matched

LEMMA AllFinite ==
    ASSUME WorldInv
    PROVE  /\ IsFiniteSet(Existing) /\ IsFiniteSet(created) /\ IsFiniteSet(showtimes)
           /\ \A q : IsFiniteSet(His(q))
           /\ SoldAtAll \subseteq Existing
           /\ \A q : BoughtBefore(q) \subseteq Existing /\ OnRecord(q) \subseteq Existing
                     /\ Wanted(q) \subseteq OnRecord(q)
<1>1. IsFiniteSet(Existing)
  BY ExistingAssumption, FiniteAssumption, FS_Subset
<1>2. IsFiniteSet(created) /\ IsFiniteSet(showtimes)
  BY <1>1, FiniteCatalogAssumption, FS_Subset DEF WorldInv, Catalogued
<1>3. IsFiniteSet(payments)
  BY DEF WorldInv, Catalogued
<1>4. ASSUME NEW q PROVE IsFiniteSet(His(q))
  <2>1. His(q) \in SUBSET payments
    BY DEF His
  <2>2. QED
    BY <1>3, <2>1, FS_Subset
<1>5. \A p : Matched(p) \subseteq Existing
  BY DEF Matched
<1>6. SoldAtAll \subseteq Existing /\ \A q : BoughtBefore(q) \subseteq Existing /\ OnRecord(q) \subseteq Existing
  BY <1>5 DEF SoldAtAll, BoughtBefore, OnRecord
<1>7. \A q : Wanted(q) \subseteq OnRecord(q)
  BY DEF Wanted, OnRecord
<1>8. QED
  BY <1>1, <1>2, <1>4, <1>6, <1>7

LEMMA SmallerCardinality ==
    ASSUME NEW T, IsFiniteSet(T), NEW S \in SUBSET T
    PROVE  Cardinality(S) <= Cardinality(T) /\ Cardinality(S) \in Nat /\ Cardinality(T) \in Nat
           /\ IsFiniteSet(S)
BY FS_Subset, FS_CardinalityType

(* What a query is told of the purchases grows with the payments.            *)
LEMMA RecordGrows ==
    ASSUME WorldInv, WorldInv', Later, NEW q \in Query, Begun(q), Kept(q)
    PROVE  /\ OnRecord(q) \subseteq OnRecord(q)'
           /\ Wanted(q)' = Wanted(q)
           /\ WholePage(q)' => WholePage(q)
           /\ Upcoming(q)' = Upcoming(q)
           /\ BoughtBefore(q)' = BoughtBefore(q)
           /\ SoldAtAll \subseteq SoldAtAll'
<1>1. /\ \A p \in payments : p \in Payment /\ Matched(p)' = Matched(p) /\ asked'[p] = asked[p]
      /\ payments \subseteq payments'
  BY MatchedStays
<1>2. \A p \in before[q].payments : p \in payments
  BY DEF Begun, WorldInv, PurchaseInv, Saved
<1>3. His(q) \subseteq His(q)'
  BY <1>1 DEF His, Kept
<1>4. before[q].payments \cap His(q) = before'[q].payments \cap His(q)'
  BY <1>1, <1>2, <1>3 DEF His, Kept
<1>5. OnRecord(q) \subseteq OnRecord(q)'
  <2> SUFFICES ASSUME NEW t, NEW p \in His(q), t \in Matched(p) PROVE t \in OnRecord(q)'
    BY DEF OnRecord
  <2>1. p \in His(q)' /\ t \in Matched(p)'
    BY <1>1, <1>3 DEF His
  <2>2. QED
    BY <2>1 DEF OnRecord
<1>6. Wanted(q)' = Wanted(q)
  <2>1. \A t : t \in Wanted(q) <=> \E p \in before[q].payments \cap His(q) : t \in Matched(p)
    BY DEF Wanted
  <2>2. \A t : t \in Wanted(q)' <=> \E p \in before'[q].payments \cap His(q)' : t \in Matched(p)'
    BY DEF Wanted
  <2>3. \A p \in before[q].payments \cap His(q) : Matched(p)' = Matched(p)
    BY <1>1, <1>2
  <2>4. \A t : t \in Wanted(q)' <=> t \in Wanted(q)
    BY <1>4, <2>1, <2>2, <2>3
  <2>5. QED
    BY <2>4
<1>7. WholePage(q)' => WholePage(q)
  <2>1. IsFiniteSet(His(q)')
    <3>1. His(q)' \in SUBSET payments' /\ IsFiniteSet(payments')
      BY DEF His, WorldInv, Catalogued
    <3>2. QED
      BY <3>1, FS_Subset
  <2> DEFINE H == His(q)
             K == His(q)'
  <2>2. /\ Cardinality(H) <= Cardinality(K)
        /\ Cardinality(H) \in Nat /\ Cardinality(K) \in Nat
    <3>1. H \in SUBSET K /\ IsFiniteSet(K)
      BY <1>3, <2>1
    <3> HIDE DEF H, K
    <3>2. QED
      BY <3>1, SmallerCardinality
  <2>3. WholePage(q) <=> Cardinality(H) <= Take
    BY DEF WholePage
  <2>4. WholePage(q)' <=> Cardinality(K) <= Take
    BY DEF WholePage
  <2> HIDE DEF H, K
  <2>5. QED
    BY <2>2, <2>3, <2>4, QueryAssumption
<1>8. Upcoming(q)' = Upcoming(q)
  BY DEF Upcoming, Kept, Later
<1>9. BoughtBefore(q)' = BoughtBefore(q)
  <2>1. \A p \in before[q].payments : Matched(p)' = Matched(p)
    BY <1>1, <1>2
  <2>2. \A t : t \in BoughtBefore(q) <=> \E p \in before[q].payments : t \in Matched(p)
    BY DEF BoughtBefore
  <2>3. \A t : t \in BoughtBefore(q)' <=> \E p \in before'[q].payments : t \in Matched(p)'
    BY DEF BoughtBefore
  <2>4. \A t : t \in BoughtBefore(q)' <=> t \in BoughtBefore(q)
    BY <2>1, <2>2, <2>3 DEF Kept
  <2>5. QED
    BY <2>4
<1>10. SoldAtAll \subseteq SoldAtAll'
  <2> SUFFICES ASSUME NEW t, NEW p \in payments, t \in Matched(p) PROVE t \in SoldAtAll'
    BY DEF SoldAtAll
  <2>1. p \in payments' /\ t \in Matched(p)'
    BY <1>1
  <2>2. QED
    BY <2>1 DEF SoldAtAll
<1>11. QED
  BY <1>5, <1>6, <1>7, <1>8, <1>9, <1>10

LEMMA BegunStays ==
    ASSUME Later, NEW q \in Query, Begun(q), before'[q] = before[q]
    PROVE  Begun(q)'
BY DEF Begun, Later

(* A step that leaves a query alone, whatever it does to the collections, leaves    *)
(* true what is known about the query.                                              *)
LEMMA QueryKept ==
    ASSUME WorldInv, WorldInv', Later, NEW q \in Query, QueryInv(q), Kept(q)
    PROVE  QueryInv(q)'
<1>1. Begun(q) /\ Begun(q)'
  BY BegunStays DEF QueryInv, Kept
<1>2. /\ OnRecord(q) \subseteq OnRecord(q)'
      /\ Wanted(q)' = Wanted(q)
      /\ WholePage(q)' => WholePage(q)
      /\ Upcoming(q)' = Upcoming(q)
      /\ BoughtBefore(q)' = BoughtBefore(q)
      /\ SoldAtAll \subseteq SoldAtAll'
  BY <1>1, RecordGrows
<1>3. Staged(q)'
  BY DEF QueryInv, Staged, Kept
<1>4. HoldsMovies(q)'
  <2>1. HoldsMovies(q)
    BY DEF QueryInv
  <2>2. QED
    BY <1>2, <2>1 DEF HoldsMovies, Kept, Later
<1>5. HoldsTickets(q)'
  <2>1. HoldsTickets(q)
    BY DEF QueryInv
  <2>2. QED
    BY <1>2, <2>1 DEF HoldsTickets, Kept
<1>6. HoldsWatched(q)'
  <2>1. HoldsWatched(q)
    BY DEF QueryInv
  <2>2. QED
    BY <1>2, <2>1 DEF HoldsWatched, Kept, Later
<1>7. HoldsTheaters(q)' /\ HoldsShowtimes(q)'
  BY DEF QueryInv, HoldsTheaters, HoldsShowtimes, Kept, Later
<1>8. FailureFits(q)'
  BY DEF QueryInv, FailureFits, Kept, Later
<1>9. RecommendationFits(q)'
  <2>1. RecommendationFits(q) /\ (Answered(q, "recommend")' => Answered(q, "recommend"))
    BY DEF QueryInv, Kept, Answered
  <2>2. \A m : Shared(m, OnRecord(q)) => Shared(m, OnRecord(q)')
    BY <1>2 DEF Shared
  <2>3. answer'[q] = answer[q]
    BY DEF Kept
  <2>4. QED
    BY <1>2, <2>1, <2>2, <2>3 DEF RecommendationFits, Shared
<1>10. SalesFit(q)'
  <2>1. SalesFit(q) /\ (Answered(q, "showtimes")' => Answered(q, "showtimes"))
        /\ answer'[q] = answer[q] /\ before'[q] = before[q]
    BY DEF QueryInv, Kept, Answered
  <2>2. ASSUME NEW s PROVE /\ Cardinality(In(SoldAtAll, s)) <= Cardinality(In(SoldAtAll', s))
                           /\ Cardinality(In(SoldAtAll, s)) \in Nat
                           /\ Cardinality(In(SoldAtAll', s)) \in Nat
    <3>1. IsFiniteSet(Existing) /\ SoldAtAll' \subseteq Existing
      BY AllFinite DEF SoldAtAll, Matched
    <3> DEFINE H == In(SoldAtAll, s)
               K == In(SoldAtAll', s)
    <3>2. K \in SUBSET Existing /\ H \in SUBSET K
      BY <1>2, <3>1 DEF In
    <3> HIDE DEF H, K
    <3>3. IsFiniteSet(K)
      BY <3>1, <3>2, FS_Subset
    <3>4. Cardinality(H) <= Cardinality(K) /\ Cardinality(H) \in Nat /\ Cardinality(K) \in Nat
      BY <3>2, <3>3, SmallerCardinality
    <3>5. QED
      BY <3>4 DEF H, K
  <2>3. SUFFICES ASSUME Answered(q, "showtimes"), NEW s \in DOMAIN answer[q]
                 PROVE  answer[q][s].sold <= Cardinality(In(SoldAtAll', s))
    BY <1>2, <2>1 DEF SalesFit, In
  <2>4. answer[q][s].sold \in Nat /\ answer[q][s].sold <= Cardinality(In(SoldAtAll, s))
    BY <2>1, <2>3 DEF SalesFit
  <2>5. QED
    BY <2>2, <2>4
<1>11. QED
  BY <1>1, <1>3, <1>4, <1>5, <1>6, <1>7, <1>8, <1>9, <1>10 DEF QueryInv

LEMMA NumbersUpTo ==
    ASSUME NEW m \in Nat
    PROVE  IsFiniteSet(1..m) /\ Cardinality(1..m) = m
<1>1. 1 \in Int /\ m \in Int
  OBVIOUS
<1>2. IsFiniteSet(1..m) /\ Cardinality(1..m) = IF 1 > m THEN 0 ELSE m - 1 + 1
  BY <1>1, FS_Interval
<1>3. QED
  BY <1>2

(* A set as a sequence in any order, and in the order of a key, has its elements. *)
LEMMA SeqOfSet ==
    ASSUME NEW S, IsFiniteSet(S)
    PROVE  Range(SetToSeq(S)) = S
<1> DEFINE n == Cardinality(S)
           D == 1..n
<1>1. n \in Nat /\ ExistsBijection(D, S)
  BY FS_CardinalityType
<1>2. PICK f : f \in Bijection(D, S)
  BY <1>1 DEF ExistsBijection
<1>3. f \in [D -> S] /\ IsInjective(f)
  BY <1>2 DEF Bijection, Injection, IsInjective
<1> DEFINE g == SetToSeq(S)
<1>4. g \in [D -> S] /\ IsInjective(g)
  BY <1>3 DEF SetToSeq
<1> HIDE DEF g
<1>5. g \in Injection(D, S)
  BY <1>4 DEF Injection, IsInjective
<1>6. IsFiniteSet(D) /\ Cardinality(D) = n
  BY <1>1, NumbersUpTo
<1>7. g \in Surjection(D, S)
  <2> HIDE DEF D
  <2>1. Cardinality(D) = Cardinality(S)
    BY <1>6
  <2>2. QED
    BY <1>5, <2>1, FS_Injection
<1>8. QED
  BY <1>7 DEF Surjection, Range, g

LEMMA RangeOfSorted ==
    ASSUME NEW S, IsFiniteSet(S), NEW key, NEW seq \in SortedBy(S, key)
    PROVE  Range(seq) = S
<1> DEFINE n == Cardinality(S)
           D == 1..n
<1>1. seq \in [D -> S] /\ \A i, j \in D : i # j => seq[i] # seq[j]
  BY DEF SortedBy, SetToSeqs
<1>2. seq \in Injection(D, S)
  BY <1>1 DEF Injection, IsInjective
<1>3. n \in Nat
  BY FS_CardinalityType
<1>4. IsFiniteSet(D) /\ Cardinality(D) = n
  BY <1>3, NumbersUpTo
<1>5. seq \in Surjection(D, S)
  <2> HIDE DEF D
  <2>1. Cardinality(D) = Cardinality(S)
    BY <1>4
  <2>2. QED
    BY <1>2, <2>1, FS_Injection
<1>6. QED
  BY <1>5 DEF Surjection, Range

LEMMA ImageFinite ==
    ASSUME NEW S, IsFiniteSet(S), NEW f
    PROVE  IsFiniteSet({f[x] : x \in S})
<1> DEFINE T == {f[x] : x \in S}
           g == [x \in S |-> f[x]]
<1>1. g \in Surjection(S, T)
  BY DEF Surjection
<1> HIDE DEF T, g
<1>2. IsFiniteSet(T)
  BY <1>1, FS_Surjection
<1>3. QED
  BY <1>2 DEF T

LEMMA WorldSame ==
    ASSUME UNCHANGED <<catalogVars, vars>>, NEW q \in Query,
           request'[q] = request[q], before'[q] = before[q]
    PROVE  /\ OnRecord(q)' = OnRecord(q)
           /\ Wanted(q)' = Wanted(q)
           /\ WholePage(q)' <=> WholePage(q)
           /\ Upcoming(q)' = Upcoming(q)
           /\ BoughtBefore(q)' = BoughtBefore(q)
           /\ SoldAtAll' = SoldAtAll
           /\ Begun(q)' <=> Begun(q)
           /\ showtimes' = showtimes /\ created' = created /\ movies' = movies
           /\ theaters' = theaters
<1>1. /\ showtimes' = showtimes /\ created' = created /\ movies' = movies
      /\ theaters' = theaters
      /\ UNCHANGED <<asked, pc, payments, clock>>
  BY DEF catalogVars, vars, callVars
<1>2. \A p : Matched(p)' = Matched(p)
  BY <1>1 DEF Matched
<1>3. His(q)' = His(q)
  BY <1>1 DEF His
<1>4. QED
  BY <1>1, <1>2, <1>3 DEF OnRecord, Wanted, WholePage, Upcoming, BoughtBefore, SoldAtAll, Begun

(* A query that goes on from a read.                                        *)
LEMMA ReadStep ==
    ASSUME Indexed, NEW q \in Query, QueryInv(q), NEW from, NEW to, NEW ids, NEW ms,
           Read(q, from, to, ids, ms)
    PROVE  /\ stage[q] = from /\ stage'[q] = to
           /\ held'[q].ids = ids /\ held'[q].movies = ms
           /\ request'[q] = request[q] /\ answer'[q] = answer[q] /\ before'[q] = before[q]
           /\ UNCHANGED <<catalogVars, vars>>
           /\ to \in QueryRunning /\ Staged(q)' /\ HoldsMovies(q)' /\ HoldsTickets(q)'
              /\ HoldsWatched(q)' /\ HoldsTheaters(q)' /\ HoldsShowtimes(q)'
                 => QueryInv(q)'
<1>1. /\ stage[q] = from /\ stage'[q] = to
      /\ held'[q] = [ids |-> ids, movies |-> ms]
      /\ request'[q] = request[q] /\ answer'[q] = answer[q] /\ before'[q] = before[q]
      /\ UNCHANGED <<catalogVars, vars>>
  BY DEF Read, Indexed
<1>2. Begun(q)'
  BY <1>1, WorldSame DEF QueryInv
<1>3. ASSUME to \in QueryRunning
      PROVE  SalesFit(q)' /\ FailureFits(q)' /\ RecommendationFits(q)'
  BY <1>1, <1>3 DEF SalesFit, FailureFits, RecommendationFits, Answered, QueryRunning
<1>4. QED
  BY <1>1, <1>2, <1>3 DEF QueryInv

(* A query that ends.                                                       *)
LEMMA EndStepOf ==
    ASSUME Indexed, NEW q \in Query, QueryInv(q), NEW from, NEW how, NEW result,
           how \in {"answered", "refused", "broken"}, End(q, from, how, result)
    PROVE  /\ stage[q] = from /\ stage'[q] = how
           /\ answer'[q] = result
           /\ request'[q] = request[q] /\ before'[q] = before[q]
           /\ UNCHANGED <<catalogVars, vars>>
           /\ SalesFit(q)' /\ FailureFits(q)' /\ RecommendationFits(q)' => QueryInv(q)'
<1>1. /\ stage[q] = from /\ stage'[q] = how
      /\ answer'[q] = result
      /\ request'[q] = request[q] /\ before'[q] = before[q]
      /\ UNCHANGED <<catalogVars, vars>>
  BY DEF End, Indexed
<1>2. Begun(q)'
  BY <1>1, WorldSame DEF QueryInv
<1>3. Staged(q)' /\ HoldsMovies(q)' /\ HoldsTickets(q)' /\ HoldsWatched(q)' /\ HoldsTheaters(q)'
      /\ HoldsShowtimes(q)'
  BY <1>1 DEF Staged, HoldsMovies, HoldsTickets, HoldsWatched, HoldsTheaters, HoldsShowtimes
<1>4. QED
  BY <1>1, <1>2, <1>3 DEF QueryInv

(* A read between two collections.  Only one of the parts is about the new stage.   *)
LEMMA AskStep ==
    ASSUME WorldInv, Indexed, NEW q \in Query, QueryInv(q), NEW r \in QueryRequest, Ask(q, r)
    PROVE  QueryInv(q)'
<1>1. /\ request'[q] = r /\ stage'[q] = FirstRead[r.kind]
      /\ before'[q] = [showtimes |-> showtimes, tickets |-> created,
                       payments |-> {p \in Payment : pc[p] = "done"}]
      /\ UNCHANGED <<showtimes, created, pc>>
  BY DEF Ask, Indexed, catalogVars, vars
<1>2. r.kind \in {"recommend", "theaters", "showtimes", "showdates", "tickets"}
  BY RequestAssumption
<1>3. Staged(q)' /\ stage'[q] \in {"showingIds", "theaterIds", "showtimes", "showdates", "seats"}
  BY <1>1, <1>2 DEF Staged, FirstRead
<1>4. Begun(q)'
  BY <1>1 DEF Begun
<1>5. HoldsMovies(q)' /\ HoldsTickets(q)' /\ HoldsWatched(q)' /\ HoldsTheaters(q)'
      /\ HoldsShowtimes(q)' /\ SalesFit(q)' /\ FailureFits(q)' /\ RecommendationFits(q)'
  BY <1>3 DEF HoldsMovies, HoldsTickets, HoldsWatched, HoldsTheaters, HoldsShowtimes, SalesFit,
              FailureFits, RecommendationFits, Answered
<1>6. QED
  BY <1>3, <1>4, <1>5 DEF QueryInv

LEMMA ShowingIdsStep ==
    ASSUME WorldInv, Indexed, NEW q \in Query, QueryInv(q), FindShowingMovieIds(q)
    PROVE  QueryInv(q)'
<1> DEFINE ids == SetToSeq(MovieIdsShowingAfter(clock))
<1>1. Range(ids) = {MovieOf[s] : s \in {r \in showtimes : StartOf[r] > clock}}
  <2> DEFINE S == {r \in showtimes : StartOf[r] > clock}
  <2>1. S \in SUBSET showtimes /\ IsFiniteSet(showtimes)
    BY AllFinite
  <2>2. IsFiniteSet(S)
    BY <2>1, FS_Subset
  <2> HIDE DEF S
  <2>3. IsFiniteSet({MovieOf[s] : s \in S})
    BY <2>2, ImageFinite
  <2>4. QED
    BY <2>3, SeqOfSet DEF MovieIdsShowingAfter, S
<1> HIDE DEF ids
<1>2. Read(q, "showingIds", "showing", ids, {})
  BY DEF FindShowingMovieIds, ids
<1>3. /\ stage[q] = "showingIds" /\ stage'[q] = "showing" /\ held'[q].ids = ids
      /\ request'[q] = request[q] /\ before'[q] = before[q]
      /\ UNCHANGED <<catalogVars, vars>>
  BY <1>2, ReadStep
<1>4. Upcoming(q)' = Upcoming(q) /\ showtimes' = showtimes
  BY <1>3, WorldSame
<1>5. HoldsMovies(q)'
  <2>1. \A m \in Range(ids) : \E s \in showtimes : MovieOf[s] = m
    BY <1>1
  <2>2. \A s \in Upcoming(q) : MovieOf[s] \in Range(ids)
    BY <1>1 DEF Upcoming, QueryInv, Begun
  <2>3. QED
    BY <1>3, <1>4, <2>1, <2>2 DEF HoldsMovies
<1>6. Staged(q)' /\ HoldsTickets(q)' /\ HoldsWatched(q)' /\ HoldsTheaters(q)' /\ HoldsShowtimes(q)'
  BY <1>3 DEF QueryInv, Staged, HoldsTickets, HoldsWatched, HoldsTheaters, HoldsShowtimes
<1>7. QED
  BY <1>2, <1>5, <1>6, ReadStep DEF QueryRunning

LEMMA ShowingMoviesStep ==
    ASSUME WorldInv, Indexed, NEW q \in Query, QueryInv(q), GetShowingMovies(q)
    PROVE  QueryInv(q)'
<1>1. CASE MoviesFound(held[q].ids)
  <2>1. Read(q, "showing", "payments", <<>>, Range(held[q].ids))
    BY <1>1 DEF GetShowingMovies
  <2>2. /\ stage[q] = "showing" /\ stage'[q] = "payments" /\ held'[q].movies = Range(held[q].ids)
        /\ request'[q] = request[q] /\ before'[q] = before[q]
        /\ UNCHANGED <<catalogVars, vars>>
    BY <2>1, ReadStep
  <2>3. Upcoming(q)' = Upcoming(q)
    BY <2>2, WorldSame
  <2>4. Range(held[q].ids) \subseteq Movie
    BY <1>1 DEF MoviesFound, WorldInv, Catalogued
  <2>5. HoldsMovies(q)'
    BY <2>2, <2>3, <2>4 DEF HoldsMovies, QueryInv
  <2>6. Staged(q)' /\ HoldsTickets(q)' /\ HoldsWatched(q)' /\ HoldsTheaters(q)' /\ HoldsShowtimes(q)'
    BY <2>2 DEF QueryInv, Staged, HoldsTickets, HoldsWatched, HoldsTheaters, HoldsShowtimes
  <2>7. QED
    BY <2>1, <2>5, <2>6, ReadStep DEF QueryRunning
<1>2. CASE ~MoviesFound(held[q].ids)
  <2>1. End(q, "showing", "refused", <<>>)
    BY <1>2 DEF GetShowingMovies
  <2>2. /\ stage[q] = "showing" /\ stage'[q] = "refused"
        /\ request'[q] = request[q] /\ before'[q] = before[q]
        /\ UNCHANGED <<catalogVars, vars>>
    BY <2>1, EndStepOf
  <2>3. showtimes' = showtimes /\ movies' = movies
    BY <2>2, WorldSame
  <2>4. \E s \in showtimes : MovieOf[s] \notin movies
    BY <1>2, <2>2 DEF MoviesFound, QueryInv, HoldsMovies
  <2>5. SalesFit(q)' /\ FailureFits(q)' /\ RecommendationFits(q)'
    BY <2>2, <2>3, <2>4 DEF SalesFit, FailureFits, RecommendationFits, Answered
  <2>6. QED
    BY <2>1, <2>5, EndStepOf
<1>3. QED
  BY <1>1, <1>2

LEMMA LatestPaymentsStep ==
    ASSUME WorldInv, Indexed, NEW q \in Query, QueryInv(q), FindLatestPayments(q)
    PROVE  QueryInv(q)'
<1>1. PICK ps \in LatestPayments(request[q].customer) :
         Read(q, "payments", "tickets", SetToSeq(UNION {Matched(p) : p \in ps}), held[q].movies)
  BY DEF FindLatestPayments
<1> DEFINE ids == SetToSeq(UNION {Matched(p) : p \in ps})
<1>2. ps \subseteq His(q) /\ (Cardinality(ps) = Take \/ ps = His(q))
  BY DEF LatestPayments, His
<1>3. WholePage(q) => ps = His(q)
  <2> SUFFICES ASSUME WholePage(q), Cardinality(ps) = Take PROVE ps = His(q)
    BY <1>2
  <2> DEFINE H == His(q)
  <2>1. IsFiniteSet(H) /\ ps \in SUBSET H /\ Cardinality(H) <= Take
    BY <1>2, AllFinite DEF WholePage
  <2> HIDE DEF H
  <2>2. /\ Cardinality(ps) <= Cardinality(H)
        /\ Cardinality(H) = Cardinality(ps) => H = ps
        /\ Cardinality(H) \in Nat
    BY <2>1, FS_Subset, FS_CardinalityType
  <2>3. QED
    BY <2>1, <2>2, QueryAssumption DEF H
<1>4. Range(ids) = UNION {Matched(p) : p \in ps}
  <2> DEFINE U == UNION {Matched(p) : p \in ps}
  <2>1. U \in SUBSET Existing
    BY DEF Matched
  <2>2. IsFiniteSet(U)
    BY <2>1, AllFinite, FS_Subset
  <2> HIDE DEF U
  <2>3. Range(SetToSeq(U)) = U
    BY <2>2, SeqOfSet
  <2>4. QED
    BY <2>3 DEF U
<1>5. Range(ids) \subseteq OnRecord(q)
  BY <1>2, <1>4 DEF OnRecord
<1>6. WholePage(q) => Wanted(q) \subseteq Range(ids)
  BY <1>3, <1>4 DEF Wanted
<1> HIDE DEF ids
<1>7. Read(q, "payments", "tickets", ids, held[q].movies)
  BY <1>1 DEF ids
<1>8. /\ stage[q] = "payments" /\ stage'[q] = "tickets"
      /\ held'[q].ids = ids /\ held'[q].movies = held[q].movies
      /\ request'[q] = request[q] /\ before'[q] = before[q]
      /\ UNCHANGED <<catalogVars, vars>>
  BY <1>7, ReadStep
<1>9. /\ Upcoming(q)' = Upcoming(q) /\ OnRecord(q)' = OnRecord(q) /\ Wanted(q)' = Wanted(q)
      /\ WholePage(q)' <=> WholePage(q)
  BY <1>8, WorldSame
<1>10. HoldsMovies(q)'
  BY <1>8, <1>9 DEF HoldsMovies, QueryInv
<1>11. HoldsTickets(q)'
  BY <1>5, <1>6, <1>8, <1>9 DEF HoldsTickets
<1>12. Staged(q)' /\ HoldsWatched(q)' /\ HoldsTheaters(q)' /\ HoldsShowtimes(q)'
  BY <1>8 DEF QueryInv, Staged, HoldsWatched, HoldsTheaters, HoldsShowtimes
<1>13. QED
  BY <1>7, <1>10, <1>11, <1>12, ReadStep DEF QueryRunning

LEMMA PaidTicketsStep ==
    ASSUME WorldInv, Indexed, NEW q \in Query, QueryInv(q), FindPaidTickets(q)
    PROVE  QueryInv(q)'
<1> DEFINE ts == Range(held[q].ids) \cap created
           ids == WatchedMovieIds(ts)
<1>1. Range(ids) = {MovieOf[ShowtimeOf[t]] : t \in ts}
  <2>1. ts \in SUBSET created /\ IsFiniteSet(created)
    BY AllFinite
  <2> HIDE DEF ts
  <2>2. IsFiniteSet(ts)
    BY <2>1, FS_Subset
  <2> DEFINE f == [t \in ts |-> MovieOf[ShowtimeOf[t]]]
             S == {f[t] : t \in ts}
  <2>3. IsFiniteSet(S)
    <3> HIDE DEF f
    <3>1. QED
      BY <2>2, ImageFinite
  <2>4. S = {MovieOf[ShowtimeOf[t]] : t \in ts}
    OBVIOUS
  <2> HIDE DEF S
  <2>5. Range(SetToSeq(S)) = S
    BY <2>3, SeqOfSet
  <2>6. QED
    BY <2>4, <2>5 DEF WatchedMovieIds
<1>2. stage[q] = "tickets" => \A m \in Range(ids) :
          \E t \in OnRecord(q) \cap created : m = MovieOf[ShowtimeOf[t]]
  BY <1>1 DEF QueryInv, HoldsTickets
<1>3. stage[q] = "tickets" /\ WholePage(q) =>
          \A t \in Wanted(q) : MovieOf[ShowtimeOf[t]] \in Range(ids)
  <2>1. \A p \in before[q].payments : Matched(p) \subseteq created
    BY DEF QueryInv, Begun, WorldInv, Catalogued
  <2>2. Wanted(q) \subseteq created
    BY <2>1 DEF Wanted
  <2>3. QED
    BY <1>1, <2>2 DEF QueryInv, HoldsTickets
<1>4. Read(q, "tickets", "watched", ids, held[q].movies)
  BY DEF FindPaidTickets
<1> HIDE DEF ids
<1>5. /\ stage[q] = "tickets" /\ stage'[q] = "watched"
      /\ held'[q].ids = ids /\ held'[q].movies = held[q].movies
      /\ request'[q] = request[q] /\ before'[q] = before[q]
      /\ UNCHANGED <<catalogVars, vars>>
  BY <1>4, ReadStep
<1>6. /\ Upcoming(q)' = Upcoming(q) /\ OnRecord(q)' = OnRecord(q) /\ Wanted(q)' = Wanted(q)
      /\ WholePage(q)' <=> WholePage(q)
      /\ created' = created
  BY <1>5, WorldSame
<1>7. HoldsMovies(q)'
  BY <1>5, <1>6 DEF HoldsMovies, QueryInv
<1>8. HoldsWatched(q)'
  BY <1>2, <1>3, <1>5, <1>6 DEF HoldsWatched
<1>9. Staged(q)' /\ HoldsTickets(q)' /\ HoldsTheaters(q)' /\ HoldsShowtimes(q)'
  BY <1>5 DEF QueryInv, Staged, HoldsTickets, HoldsTheaters, HoldsShowtimes
<1>10. QED
  BY <1>4, <1>7, <1>8, <1>9, ReadStep DEF QueryRunning

(* What generateRecommendedMovies keeps: the movies that share a genre with a       *)
(* watched one.                                                                      *)
LEMMA RecommendedShare ==
    ASSUME NEW showing \in SUBSET Movie, NEW watched, NEW r \in RecommendedMovies(showing, watched)
    PROVE  Range(r) = {m \in showing : \E w \in watched : GenresOf[m] \cap GenresOf[w] # {}}
<1> DEFINE count == MatchCount(showing, watched)
           S == {m \in showing : count[m] > 0}
<1>1. IsFiniteSet(S)
  BY FiniteCatalogAssumption, FS_Subset
<1>2. r \in SortedBy(S, count)
  BY DEF RecommendedMovies
<1>3. ASSUME NEW m \in showing
      PROVE  count[m] > 0 <=> \E w \in watched : GenresOf[m] \cap GenresOf[w] # {}
  <2> DEFINE G == GenresOf[m] \cap UNION {GenresOf[w] : w \in watched}
  <2>1. count[m] = Cardinality(G)
    BY DEF MatchCount
  <2>2. IsFiniteSet(G)
    <3>1. G \in SUBSET GenresOf[m] /\ IsFiniteSet(GenresOf[m])
      BY FiniteCatalogAssumption
    <3> HIDE DEF G
    <3>2. QED
      BY <3>1, FS_Subset
  <2>3. G # {} <=> \E w \in watched : GenresOf[m] \cap GenresOf[w] # {}
    OBVIOUS
  <2> HIDE DEF G, count
  <2>4. Cardinality(G) \in Nat /\ (Cardinality(G) = 0 <=> G = {})
    BY <2>2, FS_CardinalityType, FS_EmptySet
  <2>5. QED
    BY <2>1, <2>3, <2>4
<1> HIDE DEF S, count
<1>4. Range(r) = S
  BY <1>1, <1>2, RangeOfSorted
<1>5. QED
  BY <1>3, <1>4 DEF S

LEMMA WatchedMoviesStep ==
    ASSUME WorldInv, Indexed, NEW q \in Query, QueryInv(q), GetWatchedMovies(q)
    PROVE  QueryInv(q)'
<1>0. HoldsWatched(q) /\ HoldsMovies(q) /\ Begun(q) /\ Staged(q)
  BY DEF QueryInv
<1>1. CASE MoviesFound(held[q].ids)
  <2>1. PICK r \in RecommendedMovies(held[q].movies, Range(held[q].ids)) :
            End(q, "watched", "answered", r)
    BY <1>1 DEF GetWatchedMovies
  <2>2. /\ stage[q] = "watched" /\ stage'[q] = "answered" /\ answer'[q] = r
        /\ request'[q] = request[q] /\ before'[q] = before[q]
        /\ UNCHANGED <<catalogVars, vars>>
    BY <2>1, EndStepOf
  <2>3. /\ Upcoming(q)' = Upcoming(q) /\ OnRecord(q)' = OnRecord(q) /\ Wanted(q)' = Wanted(q)
        /\ WholePage(q)' <=> WholePage(q)
    BY <2>2, WorldSame
  <2>4. held[q].movies \in SUBSET Movie
    BY <1>0, <2>2 DEF HoldsMovies
  <2>5. Range(r) = {m \in held[q].movies :
                        \E w \in Range(held[q].ids) : GenresOf[m] \cap GenresOf[w] # {}}
    BY <2>4, RecommendedShare
  <2>6. \A m \in Range(r) : Shared(m, OnRecord(q))
    BY <1>0, <2>2, <2>5 DEF Shared, HoldsWatched
  <2>7. WholePage(q) =>
            \A s \in Upcoming(q) : Shared(MovieOf[s], Wanted(q)) => MovieOf[s] \in Range(r)
    <3> SUFFICES ASSUME WholePage(q), NEW s \in Upcoming(q), NEW t \in Wanted(q),
                        GenresOf[MovieOf[s]] \cap GenresOf[MovieOf[ShowtimeOf[t]]] # {}
                 PROVE  MovieOf[s] \in Range(r)
      BY DEF Shared
    <3>1. MovieOf[s] \in held[q].movies
      BY <1>0, <2>2 DEF HoldsMovies
    <3>2. MovieOf[ShowtimeOf[t]] \in Range(held[q].ids)
      BY <1>0, <2>2 DEF HoldsWatched
    <3>3. QED
      BY <2>5, <3>1, <3>2
  <2>8. RecommendationFits(q)'
    BY <2>2, <2>3, <2>6, <2>7 DEF RecommendationFits, Shared
  <2>9. SalesFit(q)' /\ FailureFits(q)'
    BY <1>0, <2>2 DEF SalesFit, FailureFits, Answered, Staged
  <2>10. QED
    BY <2>1, <2>8, <2>9, EndStepOf
<1>2. CASE ~MoviesFound(held[q].ids)
  <2>1. End(q, "watched", "refused", <<>>)
    BY <1>2 DEF GetWatchedMovies
  <2>2. /\ stage[q] = "watched" /\ stage'[q] = "refused"
        /\ request'[q] = request[q] /\ before'[q] = before[q]
        /\ UNCHANGED <<catalogVars, vars>>
    BY <2>1, EndStepOf
  <2>3. showtimes' = showtimes /\ movies' = movies
    BY <2>2, WorldSame
  <2>4. \E s \in showtimes : MovieOf[s] \notin movies
    BY <1>0, <1>2, <2>2 DEF MoviesFound, HoldsWatched, WorldInv, Catalogued
  <2>5. SalesFit(q)' /\ FailureFits(q)' /\ RecommendationFits(q)'
    BY <2>2, <2>3, <2>4 DEF SalesFit, FailureFits, RecommendationFits, Answered
  <2>6. QED
    BY <2>1, <2>5, EndStepOf
<1>3. QED
  BY <1>1, <1>2

LEMMA TheaterIdsStep ==
    ASSUME WorldInv, Indexed, NEW q \in Query, QueryInv(q), FindTheaterIdsShowingMovie(q)
    PROVE  QueryInv(q)'
<1> DEFINE ids == SetToSeq(TheaterIdsShowingMovie(request[q].movie))
<1>1. Range(ids) = {TheaterOf[s] : s \in {r \in showtimes : MovieOf[r] = request[q].movie}}
  <2> DEFINE S == {r \in showtimes : MovieOf[r] = request[q].movie}
  <2>1. S \in SUBSET showtimes /\ IsFiniteSet(showtimes)
    BY AllFinite
  <2>2. IsFiniteSet(S)
    BY <2>1, FS_Subset
  <2> HIDE DEF S
  <2>3. IsFiniteSet({TheaterOf[s] : s \in S})
    BY <2>2, ImageFinite
  <2>4. QED
    BY <2>3, SeqOfSet DEF TheaterIdsShowingMovie, S
<1>2. \A th \in Range(ids) : \E s \in showtimes : TheaterOf[s] = th
  BY <1>1
<1> HIDE DEF ids
<1>3. Read(q, "theaterIds", "theaters", ids, {})
  BY DEF FindTheaterIdsShowingMovie, ids
<1>4. /\ stage[q] = "theaterIds" /\ stage'[q] = "theaters" /\ held'[q].ids = ids
      /\ request'[q] = request[q] /\ before'[q] = before[q]
      /\ UNCHANGED <<catalogVars, vars>>
  BY <1>3, ReadStep
<1>5. showtimes' = showtimes
  BY <1>4, WorldSame
<1>6. HoldsTheaters(q)'
  BY <1>2, <1>4, <1>5 DEF HoldsTheaters
<1>7. Staged(q)' /\ HoldsMovies(q)' /\ HoldsTickets(q)' /\ HoldsWatched(q)' /\ HoldsShowtimes(q)'
  BY <1>4 DEF QueryInv, Staged, HoldsMovies, HoldsTickets, HoldsWatched, HoldsShowtimes
<1>8. QED
  BY <1>3, <1>6, <1>7, ReadStep DEF QueryRunning

LEMMA TheatersStep ==
    ASSUME WorldInv, Indexed, NEW q \in Query, QueryInv(q), GetTheatersByIds(q)
    PROVE  QueryInv(q)'
<1>0. Staged(q) /\ HoldsTheaters(q)
  BY DEF QueryInv
<1>1. CASE TheatersFound(held[q].ids)
  <2>1. PICK r : End(q, "theaters", "answered", r)
    BY <1>1 DEF GetTheatersByIds
  <2>2. stage[q] = "theaters" /\ stage'[q] = "answered" /\ request'[q] = request[q]
    BY <2>1, EndStepOf
  <2>3. SalesFit(q)' /\ FailureFits(q)' /\ RecommendationFits(q)'
    BY <1>0, <2>2 DEF SalesFit, FailureFits, RecommendationFits, Answered, Staged
  <2>4. QED
    BY <2>1, <2>3, EndStepOf
<1>2. CASE ~TheatersFound(held[q].ids)
  <2>1. End(q, "theaters", "refused", <<>>)
    BY <1>2 DEF GetTheatersByIds
  <2>2. /\ stage[q] = "theaters" /\ stage'[q] = "refused"
        /\ request'[q] = request[q] /\ before'[q] = before[q]
        /\ UNCHANGED <<catalogVars, vars>>
    BY <2>1, EndStepOf
  <2>3. showtimes' = showtimes /\ theaters' = theaters
    BY <2>2, WorldSame
  <2>4. \E s \in showtimes : TheaterOf[s] \notin theaters
    BY <1>0, <1>2, <2>2 DEF TheatersFound, HoldsTheaters
  <2>5. SalesFit(q)' /\ FailureFits(q)' /\ RecommendationFits(q)'
    BY <2>2, <2>3, <2>4 DEF SalesFit, FailureFits, RecommendationFits, Answered
  <2>6. QED
    BY <2>1, <2>5, EndStepOf
<1>3. QED
  BY <1>1, <1>2

LEMMA ShowtimesStep ==
    ASSUME WorldInv, Indexed, NEW q \in Query, QueryInv(q), FindShowtimesByShowdate(q)
    PROVE  QueryInv(q)'
<1> DEFINE S == ShowtimesByShowdate(request[q].movie, request[q].theater, request[q].date)
           ids == SetToSeq(S)
<1>1. \A s \in S : s \in showtimes /\ MovieOf[s] = request[q].movie
                   /\ TheaterOf[s] = request[q].theater
  BY DEF ShowtimesByShowdate
<1>2. Range(ids) = S
  <2>1. S \in SUBSET showtimes /\ IsFiniteSet(showtimes)
    BY <1>1, AllFinite
  <2> HIDE DEF S
  <2>2. IsFiniteSet(S)
    BY <2>1, FS_Subset
  <2>3. QED
    BY <2>2, SeqOfSet
<1>3. Read(q, "showtimes", "statuses", ids, {})
  BY DEF FindShowtimesByShowdate
<1> HIDE DEF ids, S
<1>4. /\ stage[q] = "showtimes" /\ stage'[q] = "statuses" /\ held'[q].ids = ids
      /\ request'[q] = request[q] /\ before'[q] = before[q]
      /\ UNCHANGED <<catalogVars, vars>>
  BY <1>3, ReadStep
<1>5. showtimes' = showtimes
  BY <1>4, WorldSame
<1>6. HoldsShowtimes(q)'
  BY <1>1, <1>2, <1>4, <1>5 DEF HoldsShowtimes
<1>7. Staged(q)' /\ HoldsMovies(q)' /\ HoldsTickets(q)' /\ HoldsWatched(q)' /\ HoldsTheaters(q)'
  BY <1>4 DEF QueryInv, Staged, HoldsMovies, HoldsTickets, HoldsWatched, HoldsTheaters
<1>8. QED
  BY <1>3, <1>6, <1>7, ReadStep DEF QueryRunning

(* The counts a query answers with, between what was answered before and what is on   *)
(* record.                                                                             *)
LEMMA SalesWithin ==
    ASSUME WorldInv, NEW q \in Query, Begun(q), NEW ss, NEW s \in DOMAIN SalesStatuses(ss)
    PROVE  LET sales == SalesStatuses(ss)[s]
           IN  /\ sales.available + sales.sold = sales.total
               /\ sales.sold \in Nat
               /\ sales.sold >= Cardinality(In(BoughtBefore(q), s))
               /\ sales.sold <= Cardinality(In(SoldAtAll, s))
               /\ sales.total >= Cardinality(In(before[q].tickets, s))
<1> DEFINE sales == SalesStatuses(ss)[s]
           T == TicketsOf(s)
           Sold == {t \in T : status[t] = "sold"}
           Early == In(BoughtBefore(q), s)
           Known == In(before[q].tickets, s)
           Paid == In(SoldAtAll, s)
<1>1. /\ sales.total = Cardinality(T) /\ sales.sold = Cardinality(Sold)
      /\ sales.available = Cardinality(T) - Cardinality(Sold)
  BY DEF SalesStatuses
<1>2. Early \subseteq Sold
  <2> SUFFICES ASSUME NEW p \in before[q].payments, NEW t \in Matched(p), ShowtimeOf[t] = s
               PROVE  t \in Sold
    BY DEF In, BoughtBefore
  <2>1. p \in Payment /\ pc[p] = "done"
    BY DEF Begun
  <2>2. t \in created
    BY <2>1 DEF WorldInv, Catalogued
  <2>3. status[t] = "sold"
    BY <2>1 DEF WorldInv, PurchaseInv, Changed
  <2>4. QED
    BY <2>2, <2>3 DEF TicketsOf
<1>3. Sold \subseteq Paid
  <2> SUFFICES ASSUME NEW t \in created, ShowtimeOf[t] = s, status[t] = "sold"
               PROVE  t \in SoldAtAll
    BY DEF TicketsOf, In
  <2>1. PICK p \in payments : t \in Matched(p)
    BY DEF WorldInv, Catalogued, PurchaseInv, LastSeller
  <2>2. QED
    BY <2>1 DEF SoldAtAll
<1>4. Known \subseteq T
  BY DEF In, TicketsOf, Begun
<1>5. T \in SUBSET Existing /\ Paid \in SUBSET Existing /\ IsFiniteSet(Existing)
  BY AllFinite DEF In, TicketsOf, WorldInv, Catalogued
<1>6. Sold \subseteq T
  OBVIOUS
<1> HIDE DEF sales, T, Sold, Early, Known, Paid
<1>7. IsFiniteSet(T) /\ IsFiniteSet(Paid)
  BY <1>5, FS_Subset
<1>8. Cardinality(Sold) <= Cardinality(Paid) /\ Cardinality(Sold) \in Nat
      /\ Cardinality(Paid) \in Nat /\ IsFiniteSet(Sold)
  BY <1>3, <1>7, SmallerCardinality
<1>9. Cardinality(Early) <= Cardinality(Sold) /\ Cardinality(Early) \in Nat
  BY <1>2, <1>8, SmallerCardinality
<1>10. Cardinality(Known) <= Cardinality(T) /\ Cardinality(Known) \in Nat /\ Cardinality(T) \in Nat
  BY <1>4, <1>7, SmallerCardinality
<1>11. /\ sales.available + sales.sold = sales.total
       /\ sales.sold \in Nat
       /\ sales.sold >= Cardinality(Early)
       /\ sales.sold <= Cardinality(Paid)
       /\ sales.total >= Cardinality(Known)
  BY <1>1, <1>8, <1>9, <1>10
<1>12. QED
  BY <1>11 DEF sales, Early, Known, Paid

LEMMA SalesStatusesStep ==
    ASSUME WorldInv, Indexed, NEW q \in Query, QueryInv(q), GetSalesStatuses(q)
    PROVE  QueryInv(q)'
<1> DEFINE ss == Range(held[q].ids)
<1>0. Staged(q) /\ HoldsShowtimes(q) /\ Begun(q)
  BY DEF QueryInv
<1>1. CASE ss \subseteq DOMAIN SalesStatuses(ss)
  <2>1. End(q, "statuses", "answered", SalesStatuses(ss))
    BY <1>1 DEF GetSalesStatuses
  <2>2. /\ stage[q] = "statuses" /\ stage'[q] = "answered" /\ answer'[q] = SalesStatuses(ss)
        /\ request'[q] = request[q] /\ before'[q] = before[q]
        /\ UNCHANGED <<catalogVars, vars>>
    BY <2>1, EndStepOf
  <2>3. BoughtBefore(q)' = BoughtBefore(q) /\ SoldAtAll' = SoldAtAll
    BY <2>2, WorldSame
  <2> HIDE DEF ss
  <2>4. SalesFit(q)'
    <3> SUFFICES ASSUME NEW s \in DOMAIN SalesStatuses(ss)
                 PROVE  /\ answer'[q][s].available + answer'[q][s].sold = answer'[q][s].total
                        /\ answer'[q][s].sold \in Nat
                        /\ answer'[q][s].sold >= Cardinality(In(BoughtBefore(q), s))
                        /\ answer'[q][s].sold <= Cardinality(In(SoldAtAll, s))
                        /\ answer'[q][s].total >= Cardinality(In(before[q].tickets, s))
      BY <2>2, <2>3 DEF SalesFit, In
    <3> DEFINE sales == SalesStatuses(ss)[s]
    <3>1. /\ sales.available + sales.sold = sales.total
          /\ sales.sold \in Nat
          /\ sales.sold >= Cardinality(In(BoughtBefore(q), s))
          /\ sales.sold <= Cardinality(In(SoldAtAll, s))
          /\ sales.total >= Cardinality(In(before[q].tickets, s))
      BY <1>0, SalesWithin
    <3>2. answer'[q][s] = sales
      BY <2>2
    <3> HIDE DEF sales
    <3>3. QED
      BY <3>1, <3>2
  <2>5. FailureFits(q)' /\ RecommendationFits(q)'
    BY <1>0, <2>2 DEF FailureFits, RecommendationFits, Answered, Staged
  <2>6. QED
    BY <2>1, <2>4, <2>5, EndStepOf
<1>2. CASE ~(ss \subseteq DOMAIN SalesStatuses(ss))
  <2>1. End(q, "statuses", "broken", <<>>)
    BY <1>2 DEF GetSalesStatuses
  <2>2. /\ stage[q] = "statuses" /\ stage'[q] = "broken"
        /\ request'[q] = request[q] /\ before'[q] = before[q]
        /\ UNCHANGED <<catalogVars, vars>>
    BY <2>1, EndStepOf
  <2>3. PICK s \in ss : TicketsOf(s) = {}
    BY <1>2 DEF SalesStatuses
  <2>4. /\ s \in showtimes /\ MovieOf[s] = request[q].movie /\ TheaterOf[s] = request[q].theater
    BY <1>0, <2>2, <2>3 DEF HoldsShowtimes
  <2>5. \A t \in before[q].tickets : ShowtimeOf[t] # s
    BY <1>0, <2>3 DEF Begun, TicketsOf
  <2>6. showtimes' = showtimes
    BY <2>2, WorldSame
  <2>7. SalesFit(q)' /\ FailureFits(q)' /\ RecommendationFits(q)'
    BY <2>2, <2>4, <2>5, <2>6 DEF SalesFit, FailureFits, RecommendationFits, Answered
  <2>8. QED
    BY <2>1, <2>7, EndStepOf
<1>3. QED
  BY <1>1, <1>2

LEMMA OneReadStep ==
    ASSUME WorldInv, Indexed, NEW q \in Query, QueryInv(q),
           FindShowdates(q) \/ FindTicketsByShowtimeId(q)
    PROVE  QueryInv(q)'
<1>1. ASSUME NEW from \in {"showdates", "seats"}, NEW r, End(q, from, "answered", r)
      PROVE  QueryInv(q)'
  <2>1. stage[q] = from /\ stage'[q] = "answered" /\ request'[q] = request[q]
    BY <1>1, EndStepOf
  <2>2. SalesFit(q)' /\ FailureFits(q)' /\ RecommendationFits(q)'
    BY <2>1 DEF SalesFit, FailureFits, RecommendationFits, Answered, QueryInv, Staged
  <2>3. QED
    BY <1>1, <2>2, EndStepOf
<1>2. \/ \E r : End(q, "showdates", "answered", r)
      \/ \E r : End(q, "seats", "answered", r)
  BY DEF FindShowdates, FindTicketsByShowtimeId
<1>3. QED
  BY <1>1, <1>2

LEMMA QueryStepKeeps ==
    ASSUME WorldInv, Indexed, NEW q \in Query, QueryInv(q),
           (\E r \in QueryRequest : Ask(q, r)) \/ QueryStep(q)
    PROVE  QueryInv(q)'
BY AskStep, ShowingIdsStep, ShowingMoviesStep, LatestPaymentsStep, PaidTicketsStep,
   WatchedMoviesStep, TheaterIdsStep, TheatersStep, ShowtimesStep, SalesStatusesStep, OneReadStep
   DEF QueryStep

(* The invariant. *)
ShowingInv == WorldInv /\ Indexed /\ \A q \in Query : QueryInv(q)

LEMMA InitShowing == ShowingInit => ShowingInv
<1> SUFFICES ASSUME ShowingInit PROVE ShowingInv
  OBVIOUS
<1>1. WorldInv /\ Indexed
  BY InitWorld
<1>2. ASSUME NEW q \in Query PROVE QueryInv(q)
  <2>1. stage[q] = "none" /\ before[q] = [showtimes |-> {}, tickets |-> {}, payments |-> {}]
    BY DEF ShowingInit
  <2>2. QED
    BY <2>1 DEF QueryInv, Staged, Begun, HoldsMovies, HoldsTickets, HoldsWatched, HoldsTheaters,
                HoldsShowtimes, SalesFit, FailureFits, RecommendationFits, Answered
<1>3. QED
  BY <1>1, <1>2 DEF ShowingInv

LEMMA NextShowing == ShowingInv /\ [ShowingNext]_<<vars, showingVars>> => ShowingInv'
<1> SUFFICES ASSUME ShowingInv, [ShowingNext]_<<vars, showingVars>> PROVE ShowingInv'
  OBVIOUS
<1>1. WorldInv /\ Indexed /\ \A q \in Query : QueryInv(q)
  BY DEF ShowingInv
<1>2. WorldInv' /\ Later
  BY <1>1, NextWorld
<1>3. \A q \in Query : Kept(q) => QueryInv(q)'
  BY <1>1, <1>2, QueryKept
<1>4. CASE UNCHANGED queryVars
  <2>1. Indexed' /\ \A q \in Query : Kept(q)
    BY <1>1, <1>4 DEF queryVars, Indexed, Kept
  <2>2. QED
    BY <1>2, <1>3, <2>1 DEF ShowingInv
<1>5. ASSUME NEW q \in Query, (\E r \in QueryRequest : Ask(q, r)) \/ QueryStep(q)
      PROVE  ShowingInv'
  <2>1. Indexed' /\ \A r \in Query : r # q => Kept(r)
    BY <1>1, <1>5, QueryAlone DEF Kept
  <2>2. QueryInv(q)'
    BY <1>1, <1>5, QueryStepKeeps
  <2>3. QED
    BY <1>2, <1>3, <2>1, <2>2 DEF ShowingInv
<1>6. QED
  BY <1>4, <1>5 DEF ShowingNext, RegisterShowtime, CreateTicket, RemoveMovie, RemoveTheater, Buy,
                    showingVars

LEMMA ShowingInvariant == ShowingSpec => []ShowingInv
BY InitShowing, NextShowing, PTL DEF ShowingSpec

(* The sales statuses findShowtimes answers with add up, leave out nothing that was    *)
(* answered for when the query began, and count nothing as sold that is not on a       *)
(* payment, whatever is bought, created or registered while findShowtimes reads the    *)
(* showtimes and then, with getSalesStatuses, the tickets.                             *)
THEOREM SalesCountsFit == ShowingSpec => []SalesCountsInBounds
<1>1. ShowingInv => SalesCountsInBounds
  BY DEF ShowingInv, QueryInv, SalesFit, In, SoldAtAll, SalesCountsInBounds
<1>2. QED
  BY <1>1, ShowingInvariant, PTL

(* The queries of the ShowingService break only on a showtime that had no tickets when *)
(* the query began, and are refused only because a movie or theater of a showtime was  *)
(* deleted: no concurrent purchase, registration or creation of tickets makes one fail. *)
THEOREM FailuresAreExplained == ShowingSpec => []ShowingFailuresExplained
<1>1. ShowingInv => ShowingFailuresExplained
  BY DEF ShowingInv, QueryInv, FailureFits, ShowingFailuresExplained
<1>2. QED
  BY <1>1, ShowingInvariant, PTL

(* findRecommendedMovies, in five reads of four collections, recommends every movie    *)
(* still showing that shares a genre with one the customer bought a ticket for before  *)
(* the query began, if a page holds the customer's payments, and nothing else than     *)
(* movies that share one with a movie on record for the customer.                      *)
THEOREM RecommendationsArePurchases == ShowingSpec => []RecommendationsFollowPurchases
<1>1. ASSUME ShowingInv, NEW q \in Query, Answered(q, "recommend")
      PROVE  LET his == {p \in payments : asked[p].customer = request[q].customer}
                 Shares(m, ts) == \E t \in ts : GenresOf[m] \cap GenresOf[MovieOf[ShowtimeOf[t]]] # {}
             IN  /\ \A m \in Range(answer[q]) : Shares(m, UNION {Matched(p) : p \in his})
                 /\ Cardinality(his) <= Take =>
                       \A s \in before[q].showtimes :
                           (/\ StartOf[s] > clock
                            /\ Shares(MovieOf[s], UNION {Matched(p) : p \in before[q].payments \cap his}))
                           => MovieOf[s] \in Range(answer[q])
  <2>1. RecommendationFits(q)
    BY <1>1 DEF ShowingInv, QueryInv
  <2>2. QED
    BY <1>1, <2>1 DEF RecommendationFits, Shared, OnRecord, Wanted, His, WholePage, Upcoming
<1>2. ShowingInv => RecommendationsFollowPurchases
  BY <1>1 DEF RecommendationsFollowPurchases
<1>3. QED
  BY <1>2, ShowingInvariant, PTL

(* The day in which a time falls.                                           *)
LEMMA DayOf ==
    ASSUME NEW n \in Nat, NEW k \in Nat \ {0}
    PROVE  /\ n \div k \in Nat
           /\ (n \div k) * k <= n
           /\ n <= (n \div k) * k + k - 1
OBVIOUS

(* With the services in UTC, every date findShowdates offers for a movie and a theater *)
(* has showtimes under findShowtimesByShowdate, and together the dates have all.       *)
THEOREM DatesLeadToShowtimes == ShowingSpec => []ShowdatesLeadToShowtimes
<1>1. ASSUME ShowingInv, ZoneOffset = 0, NEW m \in Movie, NEW th \in Theater
      PROVE  /\ \A d \in Showdates(m, th) : ShowtimesByShowdate(m, th, d) # {}
             /\ UNION {ShowtimesByShowdate(m, th, d) : d \in Showdates(m, th)}
                  = {s \in showtimes : MovieOf[s] = m /\ TheaterOf[s] = th}
  <2> DEFINE S == {s \in showtimes : MovieOf[s] = m /\ TheaterOf[s] = th}
  <2>1. ASSUME NEW s \in S
        PROVE  /\ StartOf[s] \div DayLength \in Showdates(m, th)
               /\ s \in ShowtimesByShowdate(m, th, StartOf[s] \div DayLength)
    <3> DEFINE n == StartOf[s]
               d == n \div DayLength
    <3>1. n \in Nat /\ DayLength \in Nat \ {0} /\ ZoneOffset = 0
      BY <1>1, <2>1, CatalogAssumption DEF ShowingInv, WorldInv, Catalogued
    <3> HIDE DEF n
    <3>2. d \in Nat /\ d * DayLength <= n /\ n <= d * DayLength + DayLength - 1
      BY <3>1, DayOf
    <3> HIDE DEF d
    <3>3. StartOfDay(d) = d * DayLength
      BY <3>1, <3>2 DEF StartOfDay
    <3>4. n >= StartOfDay(d) /\ n <= StartOfDay(d) + DayLength - 1
      BY <3>1, <3>2, <3>3
    <3>5. s \in ShowtimesByShowdate(m, th, d)
      BY <2>1, <3>4 DEF ShowtimesByShowdate, n
    <3>6. d \in Showdates(m, th)
      BY <2>1 DEF Showdates, n, d
    <3>7. QED
      BY <3>5, <3>6 DEF n, d
  <2>2. \A d : ShowtimesByShowdate(m, th, d) \subseteq S
    BY DEF ShowtimesByShowdate
  <2>3. \A d \in Showdates(m, th) : \E s \in S : d = StartOf[s] \div DayLength
    BY DEF Showdates
  <2> HIDE DEF S
  <2>4. \A d \in Showdates(m, th) : ShowtimesByShowdate(m, th, d) # {}
    BY <2>1, <2>3
  <2>5. UNION {ShowtimesByShowdate(m, th, d) : d \in Showdates(m, th)} = S
    BY <2>1, <2>2
  <2>6. QED
    BY <2>4, <2>5 DEF S
<1>2. ShowingInv => ShowdatesLeadToShowtimes
  BY <1>1 DEF ShowdatesLeadToShowtimes
<1>3. QED
  BY <1>2, ShowingInvariant, PTL
=============================================================================
