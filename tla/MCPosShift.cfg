CONSTANTS
    w1 = w1
    w2 = w2
    w3 = w3
    u1 = u1
    u2 = u2
    Nobody = Nobody
    NoRequest = NoRequest
    Worker = {w1, w2, w3}
    User = {u1, u2}
    UserOf <- Users
    Request <- EveryRequest
    Settings <- OtherSettings
    OpeningCash = 5
    MaxRequests = 3
SPECIFICATION FairSpec
INVARIANTS TypeOK OpenShiftsBounded DocumentsHaveShift
PROPERTIES ClosedShiftsSettle DocumentsInOwnShift EveryRequestEnds
CHECK_DEADLOCK FALSE
