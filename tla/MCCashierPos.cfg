CONSTANTS
    t1 = t1
    t2 = t2
    i1 = i1
    i2 = i2
    Till = {t1, t2}
    Item = {i1, i2}
    Taxed = {i1}
    NoDiscount = {i2}
    Duty <- Duties
    Discounts <- Discounted
    Overrides <- Overridden
    MaxDisc = 1
    MaxPaid = 0
    MaxCalls = 2
    MaxDocs = 2
    Faults = TRUE
SPECIFICATION FairSpec
INVARIANTS TypeOK Accounted ShortTenderExplained
PROPERTIES TillFreesUp
