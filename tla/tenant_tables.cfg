\* A campaign, a click, an order, two report rows and two callers; two accounts
\* for two identities and four states; an account with three sessions and three
\* recovery tokens.  The callers are the requests of every part.
CONSTANTS
    Callers = {c1, c2}
    Campaigns = {g1}
    Orders = {o1}
    Clicks = {k1}
    SourceRows = {r1, r2}
    MaxMoves = 3
    MaxCorrections = 3
    MaxLinks = 1
    None = None
    NumUsers = 2
    Subjects = {s1, s2}
    LoginStates = {l1, l2}
    LinkStates = {a1, a2}
    Callbacks = {c1, c2}
    NoSubject = NoSubject
    AuthRequests = {c1, c2}
    SessionTokens = {z1, z2, z3}
    RecoveryTokens = {t1, t2, t3}
    MaxRecent = 1
SPECIFICATION TablesSpec
SYMMETRY MCSymmetry
INVARIANT TablesTypeOK
INVARIANT EventsTellRows
INVARIANT RecordedOnce
INVARIANT ReadsWereTrue
INVARIANT StateUsedOnce
INVARIANT OwnersAgree
INVARIANT AccountsHold
PROPERTY IdentityKeepsOwner
CHECK_DEADLOCK FALSE
