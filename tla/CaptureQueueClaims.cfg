\* Claims of the code or its documents that the code does not keep, one at a
\* time: the property in a comment is checked in the place of the first.
SPECIFICATION Spec
CONSTANTS
    Captures = {c1}
    NoCapture = NoCapture
    LoopWorkers = {task}
    Reconcilers = {cron}
    Handlers = {h1}
    MaxAttempts = 2
    MaxRetries = 1
    MaxCrashes = 1
PROPERTY CancelledNotResurrected
\* INVARIANT AttemptBudget    with Handlers = {h1, h2}
