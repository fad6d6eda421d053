\* Creation, checks and cancels with every failure.
SPECIFICATION OcoFairSpec
CONSTANTS
    Checks = {k1, k2}
    Cancels = {c1}
    k1 = k1
    k2 = k2
    c1 = c1
    Faults = {"horizon", "timeout", "lostId", "db"}
INVARIANTS EndedShowsNothing ExecutedWasFilled
PROPERTIES FillEndsOrder
CHECK_DEADLOCK FALSE
