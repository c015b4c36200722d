SPECIFICATION FairSpec
CONSTANTS
    w1 = w1
    w2 = w2
    s1 = s1
    s2 = s2
    p1 = p1
    p2 = p2
    Worker <- MCWorker
    Store <- MCStore
    Product <- MCProduct
    Request <- MCRequest
    OpeningStock <- MCOpeningStock
    OpeningRows <- MCOpeningRows
    OpeningQty <- MCOpeningQty
    Nobody = Nobody
    NoRequest = NoRequest
    MaxRequests = 3
INVARIANTS
    TypeOK
    StoreLedger
    CompanyLedger
    TransfersBalance
PROPERTIES
    LockedReadHolds
    EveryRequestEnds
CHECK_DEADLOCK FALSE
