\* Slow relays, failing listeners and updates, a crash; an event for a webhook.
SPECIFICATION EventsSpec
CONSTANTS
    Rows = {1, 2}
    Relays = {r1, r2}
    BatchSize = 2
    MaxAttempts = 2
    MaxAborts = 1
    Faults = {"emit", "db", "crash"}
    MaxDispatch = 2
    MaxPosts = 2
    StrikeLimit = 2
    Manual = {}
    MaxHiccups = 1
INVARIANTS
    OneClaimant
PROPERTIES
    RecordedIsSettled
    
CHECK_DEADLOCK FALSE
