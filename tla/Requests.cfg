\* Trades with every failure, one saga in which everything may fail, and one
\* queued job with two workers and a cancellation.
SPECIFICATION RequestsSpec
CONSTANTS
    Trades = {t1, t2}
    Restores = {r1, r2}
    NoTrade = NoTrade
    Faults = {"chain", "db", "crash"}
    SagaFaults = {"step", "chain", "record", "save", "undo", "crash"}
    Executors = {e1, e2}
    Callers = {c1}
    Attempts = 2
    QueueFaults = {"stall", "crash", "redis"}
INVARIANTS
    CompensatedIsUndone
    CompletedIsWhole
    CompletedHasEnded
    DeadLetterHasFailed
PROPERTIES
    ExecutingIsTransient
    SagaReachesOutcome
    CancelledIsNotStarted
    RequestIsSettled
CHECK_DEADLOCK FALSE
