\* A check and one cancellation; nothing fails.
SPECIFICATION OcoSpec
CONSTANTS
    Checks = {k1}
    Cancels = {c1}
    k1 = k1
    c1 = c1
    Faults = {}
INVARIANTS MarkedLegWasFilled
CHECK_DEADLOCK FALSE
