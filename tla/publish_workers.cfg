\* Three jobs, one of another platform, two fair workers, no operators.
CONSTANTS
    Jobs = {j1, j2, j3}
    TikTokJobs = {j1, j2}
    Callers = {w1, w2}
    Workers = {w1, w2}
    MaxAttempts = 2
    AttemptCap = 2
    Limit = 1
    Delays = {}
    Codes = {"NO_CONNECTED_ACCOUNT", "OTHER"}
    RetryDelay = 1
    None = None
SPECIFICATION FairSpec
INVARIANT WorkerTypeOK
INVARIANT ProcessingHasHolder
PROPERTY ScheduledSettles
