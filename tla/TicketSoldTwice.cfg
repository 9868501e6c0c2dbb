CONSTANTS
    p1 = p1
    p2 = p2
    p3 = p3
    c1 = c1
    c2 = c2
    t1 = t1
    t2 = t2
    t3 = t3
    Payment <- MCTwoPayments
    Customer <- MCCustomer
    Ticket <- MCTicket
    Existing <- MCExisting
    Purchases <- MCPurchases
    NoPurchase = NoPurchase
    MaxClock = 1
    MaxCrashes = 0
SPECIFICATION Spec
INVARIANTS
    NoDoubleSale
CHECK_DEADLOCK FALSE
