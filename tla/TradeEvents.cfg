SPECIFICATION FairSpec
CONSTANTS
    Trades = {t1}
    Restores = {}
    NoTrade = NoTrade
    RowOf <- MCRowOf
    Rows = {1, 2, 3}
    Relays = {r1, r2}
    BatchSize = 1
    MaxAttempts = 2
    MaxAborts = 1
    Faults = {"chain", "db", "crash"}
    RelayFaults = {"emit", "crash"}
INVARIANTS
    HeardIsTrue
PROPERTIES
    OutcomeIsAnnounced
CHECK_DEADLOCK FALSE
