SPECIFICATION Spec
CONSTANTS
    b1 = b1
    Bills = {b1}
    Recipients = {p1}
    DueDate <- MCDueDate
    LastDay = 3
    Workers = {w1, w2}
    NoEvent = NoEvent
    MaxAttempts = 2
    MaxEdits = 1
    MaxCrashes = 1
PROPERTY D1OnItsDay
SYMMETRY WorkerSymmetry
