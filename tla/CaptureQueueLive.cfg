SPECIFICATION FairSpec
CONSTANTS
    Captures = {c1}
    NoCapture = NoCapture
    LoopWorkers = {task}
    Reconcilers = {cron}
    Handlers = {h1}
    MaxAttempts = 2
    MaxRetries = 1
    MaxCrashes = 1
PROPERTIES JobsEnd FactsOnceInSequence
