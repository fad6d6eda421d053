\* Retries under stalls, crashes and Redis errors.
CONSTANTS
    a1 = a1
    a2 = a2
    b1 = b1
    A = A
    B = B
    Workers = {a1, a2}
    Replicas = {A}
    Home <- MCHome
    Chains = {c1, c2}
    MaxRetries = 2
    NoChain = NoChain
    TTL = 2
    Latency = 0
    MaxFence = 3
SPECIFICATION JobSpec
INVARIANT ChainSequential
PROPERTY ImplementsLock
SYMMETRY ChainSymmetry
