\* One order and two report rows that arrive more than once.
CONSTANTS
    Callers = {c1}
    Campaigns = {}
    Orders = {o1}
    Clicks = {}
    SourceRows = {r1, r2}
    MaxMoves = 0
    MaxCorrections = 3
    MaxLinks = 0
    None = None
SPECIFICATION Spec
INVARIANT OneCorrectionPerSourceRow
CHECK_DEADLOCK FALSE
