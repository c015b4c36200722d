CONSTANTS
    k1 = k1
    k2 = k2
    k3 = k3
    s1 = s1
    i1 = i1
    i2 = i2
    d1 = d1
    d2 = d2
    Clerk = {k1, k2, k3}
    SaleLine = {s1}
    InvoiceLine = {i1, i2}
    Sold <- MCSold
    LineTotal <- MCLineTotal
    ClientId = {d1, d2}
    NoId = NoId
    Requests <- MCRequests
    MaxRequests = 4
SPECIFICATION FairSpec
INVARIANTS TypeOK NeverOverReturned RefundsAddUp CreditedOnce
PROPERTIES PostedStays RequestsEnd
CHECK_DEADLOCK FALSE
