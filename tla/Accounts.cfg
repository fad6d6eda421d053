SPECIFICATION AccountsSpec
CONSTANTS
    Retriers = {k1, k2}
    Admins = {d1}
    Pollers = {l1}
    Monitors = {m1}
    FailureHandlers = {h1}
    MaxRetries = 1
    MaxEnqueued = 2
    MaxBusy = 2
    DlqFaults = {"crash"}
    process1 = process1
    process2 = process2
    sweeper1 = sweeper1
    sweeper2 = sweeper2
    creator = creator
    Processes = {process1, process2}
    Sweepers = {sweeper1, sweeper2}
    Creator = creator
    ProcessOf <- MCProcessOf
    Operators = {o1}
    MaxFailures = 2
    Subs = {s1}
    SubCalls = {k1, k2}
    Prices = {1}
    MaxPaymentFailures = 2
    MaxPayments = 2
    HookUrls = {u1, u2}
    HookCalls = {k1, k2}
    MaxTokens = 2
    MaxDispatch = 1
    MaxPosts = 2
    StrikeLimit = 2
    Manual = {1}
    MaxHiccups = 1
VIEW FocusView
SYMMETRY CallSymmetry
INVARIANTS
    RetriesAreCounted RetriedHasJob
    PaidAtMostOnce
    RevenueIsTrue
    ActiveUrlIsProven TokenIsUsedOnce
    GivenUpWasTried
PROPERTIES
    EndedStaysEnded
CHECK_DEADLOCK FALSE
