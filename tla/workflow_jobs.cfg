\* Two jobs of one tenant, two keys, two workers, no approvals requested.
CONSTANTS
    NumJobs = 2
    TenantOf <- MCOneTenant
    Keys = {k1, k2}
    Workers = {w1, w2}
    NumApprovals = 0
    MaxAttempts = 2
    ApprovalTtl = 1
    StaleRunning = 0
    BackoffTicks <- MCShortBackoff
    None = None
SPECIFICATION FairSpec
INVARIANT TypeOK
INVARIANT ClaimsBounded
INVARIANT OneHolderUnlessReconciled
INVARIANT IndexesAgree
PROPERTY JobsComeToRest
