\* Nobody stops; one of two consumers is slow.
CONSTANTS
    NumEvents = 1
    Consumers = {c1, c2}
    MaxEntries = 1
    BatchSize = 1
    MaxAttempts = 2
    Deduplicates = TRUE
    MaxStops = 0
    None = None
SPECIFICATION ConsumerSpec
INVARIANT ReservedIsSettled
CHECK_DEADLOCK FALSE
