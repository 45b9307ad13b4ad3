\* Two fair callers and three grants: a link and two refreshes.
CONSTANTS
    Callers = {c1, c2}
    MaxGrant = 3
    SealedForRow = TRUE
    None = None
SPECIFICATION FairSpec
INVARIANT TokensTypeOK
INVARIANT StoredRefreshIsCurrent
INVARIANT HerdRefreshesOnce
PROPERTY DisconnectStays
PROPERTY WaitersAnswered
