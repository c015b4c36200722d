SPECIFICATION FairSpec
CONSTANTS
    w1 = w1
    w2 = w2
    w3 = w3
    d1 = d1
    d2 = d2
    Worker <- MCWorker
    ClientId <- MCClientId
    Nobody = Nobody
    NoId = NoId
    MaxCloud = 1
INVARIANTS
    TypeOK
    OneDocPerClientId
    NumbersGapFree
    FreshNumber
    SameAnswer
PROPERTIES
    RefinesRegister
    EventuallyAcked
