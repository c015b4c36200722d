CONSTANTS
    w1 = w1
    w2 = w2
    w3 = w3
    u1 = u1
    u2 = u2
    Nobody = Nobody
    NoRequest = NoRequest
    Worker = {w1}
    User = {u1}
    UserOf <- OneUser
    Request <- SaleWithChange
    Settings <- OtherSettings
    OpeningCash = 5
    MaxRequests = 3
SPECIFICATION Spec
INVARIANT ExpectedIsDrawerCash
CHECK_DEADLOCK FALSE
