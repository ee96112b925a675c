SPECIFICATION FairSpec
CONSTANTS
    b1 = b1
    Bills = {b1}
    Recipients = {p1}
    DueDate <- MCDueDate
    LastDay = 2
    Workers = {w1, w2}
    NoEvent = NoEvent
    MaxAttempts = 2
    MaxEdits = 1
    MaxCrashes = 1
INVARIANTS TypeOK DuplicatesHaveACause
PROPERTIES FinishedStays ImplementsLease DeliveriesEnd
