SPECIFICATION IcebergFairSpec
CONSTANTS
    TotalAmount = 3
    DisplayAmount = 1
    Checks = {k1}
    Cancels = {}
    k1 = k1
    MaxOffers = 4
    MaxVersion = 10
    Faults = {}
PROPERTIES FullyExecuted
CHECK_DEADLOCK FALSE
