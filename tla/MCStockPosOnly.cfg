SPECIFICATION Spec
CONSTANTS
    w1 = w1
    w2 = w2
    w3 = w3
    s1 = s1
    p1 = p1
    p2 = p2
    Worker <- MCWorker
    Store <- MCStore
    Product <- MCProduct
    Request <- MCRequest
    OpeningStock <- MCOpeningStock
    OpeningRows <- MCOpeningRows
    OpeningQty <- MCOpeningQty
    Nobody = Nobody
    NoRequest = NoRequest
    MaxRequests = 4
SYMMETRY Symmetry
INVARIANTS
    NoNegativeStock
CHECK_DEADLOCK FALSE
