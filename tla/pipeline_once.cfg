\* One event published again after a fault, two consumers, an idempotency store.
CONSTANTS
    NumEvents = 1
    Dispatchers = {d1}
    Limit = 2
    MaxFaults = 1
    Consumers = {c1, c2}
    MaxEntries = 2
    BatchSize = 2
    MaxAttempts = 2
    Deduplicates = TRUE
    MaxStops = 1
    None = None
SPECIFICATION PipelineSpec
INVARIANT PipelineTypeOK
PROPERTY DeliversAtMostOnce
CHECK_DEADLOCK FALSE
