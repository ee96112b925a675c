CHECK_DEADLOCK FALSE
SPECIFICATION FairSpec
CONSTANTS
    p1 = p1
    p2 = p2
    t1 = t1
    t2 = t2
    Messages = {p1, p2, t1, t2}
    Kind <- MCKind
    File <- SameFile
    NoMessage = NoMessage
    Deliveries = {h1, h2}
    WebRequests = {v1}
    MaxCrashes = 1
PROPERTY ResentFileAnswered
