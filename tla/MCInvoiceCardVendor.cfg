CONSTANTS
    c1 = c1
    c2 = c2
    c3 = c3
    c4 = c4
    Card = {c1, c2, c3, c4}
    Starts <- MCStarts
    Acts <- Clerks
    MaxEdits = 3
    Most <- Edits
    MaxQueue = 2
    MaxRows = 3
    Lossy = {}
SPECIFICATION Spec
INVARIANT SavedWhenSaid
CHECK_DEADLOCK FALSE
