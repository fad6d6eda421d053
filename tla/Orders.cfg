\* Creation, refills and cancels of an iceberg order with every failure, the last slice
\* smaller; a conditional order edited, cancelled, filled by hand and swept; a breaker
\* with late answers and a manual reset; requests with one idempotency key and a cache
\* that answers late, fails and expires.
SPECIFICATION OrdersSpec
CONSTANTS
    TotalAmount = 3
    DisplayAmount = 2
    Checks = {k1, k2}
    Cancels = {c1, c2}
    k1 = k1
    k2 = k2
    c1 = c1
    c2 = c2
    MaxOffers = 4
    MaxVersion = 4
    Faults = {"horizon", "timeout", "lostId", "db"}
    Evaluations = {e1}
    JobRuns = {j1}
    CancelCalls = {a1}
    UpdateCalls = {u1}
    ExecuteCalls = {x1}
    ClientVersions = {0, 2, 3}
    Groupings <- MCGroupings
    Horizon = 1
    MaxMishaps = 1
    BreakerCalls = {b1, b2, b3}
    FailureThreshold = 2
    SuccessThreshold = 2
    HalfOpenMaxProbes = 2
    MaxResets = 1
    KeyedRequests = {q1, q2, q3}
    KeyReplicas = {p1, p2}
    q1 = q1
    q2 = q2
    q3 = q3
    p1 = p1
    p2 = p2
    NoRequest = NoRequest
    Routings <- MCRoutings
    BodyOf <- MCBodyOf
    KeyFaults = {"cache", "crash", "disconnect"}
VIEW FocusView
SYMMETRY CallSymmetry
INVARIANTS
    SoldWithinTotal OneSliceShown
    OneOutcome
    ProbesBounded
    OneExecution AnswerIsOwn BusyIsServed
PROPERTIES
    TermsAreSettled
CHECK_DEADLOCK FALSE
