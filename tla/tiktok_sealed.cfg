\* One caller; tokens sealed the way the OAuth callback seals them.
CONSTANTS
    Callers = {c1}
    MaxGrant = 2
    SealedForRow = FALSE
    None = None
SPECIFICATION Spec
INVARIANT ConnectedIsUsable
