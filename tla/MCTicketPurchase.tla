-------------------------- MODULE MCTicketPurchase --------------------------
(* Three calls of two customers for overlapping sets of tickets; no document  *)
(* has the id t3.                                                             *)
EXTENDS TicketPurchase

CONSTANTS p1, p2, p3, c1, c2, t1, t2, t3

MCPayment == {p1, p2, p3}
MCTwoPayments == {p1, p2}
MCCustomer == {c1, c2}
MCTicket == {t1, t2, t3}
MCExisting == {t1, t2}
MCPurchases == {[customer |-> c1, tickets |-> {t1, t2}], [customer |-> c2, tickets |-> {t2, t3}]}
=============================================================================
