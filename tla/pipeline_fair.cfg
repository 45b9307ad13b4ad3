\* One event, two dispatchers, a fault on either side, no store, fair processes.
CONSTANTS
    NumEvents = 1
    Dispatchers = {d1, d2}
    Limit = 2
    MaxFaults = 1
    Consumers = {c1}
    MaxEntries = 4
    BatchSize = 2
    MaxAttempts = 2
    Deduplicates = FALSE
    MaxStops = 1
    None = None
SPECIFICATION PipelineFairSpec
INVARIANT NothingIsDropped
INVARIANT LeaseExcludes
PROPERTY DeliversAtLeastOnce
CHECK_DEADLOCK FALSE
