\* A pending retry, when nothing stalls, fails or stops.
CONSTANTS
    a1 = a1
    a2 = a2
    b1 = b1
    A = A
    B = B
    Workers = {a1, a2, b1}
    Replicas = {A, B}
    Home <- MCHome
    Chains = {c1, c2}
    MaxRetries = 2
    NoChain = NoChain
    TTL = 6
    Latency = 1
    MaxFence = 4
SPECIFICATION NoStopSpec
INVARIANT UndefinedMeansRetryPending
