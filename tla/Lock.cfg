\* Stalled workers, failing Redis, crashes, and the runs that are calm.
CONSTANTS
    Workers = {w1, w2}
    TTL = 6
    Latency = 1
    MaxFence = 3
SPECIFICATION LockFairSpec
INVARIANTS Fencing Exclusion
PROPERTIES OrphanedLeaseExpires
