SPECIFICATION Spec
CONSTANTS
    Captures = {c1}
    NoCapture = NoCapture
    LoopWorkers = {task}
    Reconcilers = {cron}
    Handlers = {h1, h2}
    MaxAttempts = 2
    MaxRetries = 1
    MaxCrashes = 1
INVARIANT FactsCreatedOnce
