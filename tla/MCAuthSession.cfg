CONSTANTS
    t1 = t1
    t2 = t2
    c1 = c1
    c2 = c2
    c3 = c3
    Tab = {t1, t2}
    Caller = {c1, c2, c3}
    TabOf <- MCTabOf
    Ops <- MCOps
    WebLocks = TRUE
    MaxCalls = 3
    MaxLogins = 2
    MaxLost = 1
    MaxAged = 2
SPECIFICATION FairSpec
INVARIANTS TypeOK OneLivePerChain NoSpuriousLogout LogoutSticks
PROPERTY CallsEnd
CHECK_DEADLOCK FALSE
