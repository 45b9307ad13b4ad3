\* One job, two workers, an operator who claims and reports beside them.
CONSTANTS
    Jobs = {j1}
    TikTokJobs = {j1}
    Callers = {w1, w2, o1}
    Workers = {w1, w2}
    MaxAttempts = 2
    AttemptCap = 3
    Limit = 2
    Delays = {1}
    Codes = {"NO_CONNECTED_ACCOUNT", "OTHER"}
    RetryDelay = 1
    None = None
SPECIFICATION Spec
INVARIANT OneCallerPerAttempt
INVARIANT PostsCounted
PROPERTY StatusFollowsTable
