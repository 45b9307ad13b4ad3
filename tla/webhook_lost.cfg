\* One order whose webhook is delivered again, on the Postgres backend.
CONSTANTS
    Callers = {c1}
    Campaigns = {g1}
    Orders = {o1}
    Clicks = {}
    SourceRows = {r1}
    MaxMoves = 1
    MaxCorrections = 1
    MaxLinks = 1
    Backend = "postgres"
    None = None
SPECIFICATION WebhookSpec
INVARIANT DuplicateHadEffect
CHECK_DEADLOCK FALSE
