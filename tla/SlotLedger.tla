----------------------------- MODULE SlotLedger -----------------------------
(***************************************************************************)
(* What the registration of showtimes promises, without events, queues or  *)
(* crashes: a slot (a theater and a start time) is given to one owner, and *)
(* is never taken away from it nor given to another.                       *)
(***************************************************************************)
CONSTANTS Slot, Owner, Free

VARIABLE owner

LedgerTypeOK == owner \in [Slot -> Owner \cup {Free}]

LedgerInit == owner = [s \in Slot |-> Free]

Assign(s, o) ==
    /\ owner[s] = Free
    /\ owner' = [owner EXCEPT ![s] = o]

LedgerNext == \E s \in Slot, o \in Owner : Assign(s, o)

LedgerSpec == LedgerInit /\ [][LedgerNext]_owner
=============================================================================
