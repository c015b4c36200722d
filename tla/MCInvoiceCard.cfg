CONSTANTS
    c1 = c1
    c2 = c2
    c3 = c3
    c4 = c4
    Card = {c1, c2, c3, c4}
    Starts <- MCStarts
    Acts <- Clerks
    MaxEdits = 3
    Most <- Edits
    MaxQueue = 2
    MaxRows = 3
    Lossy = {c1, c2}
SPECIFICATION FairSpec
INVARIANTS TypeOK SavedIsStored OneInvoicePerCard
PROPERTIES RefinesDraftLife EditsSettle
CHECK_DEADLOCK FALSE
