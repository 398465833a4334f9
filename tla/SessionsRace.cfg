CONSTANTS
    Callers = {c1, c2}
    Passwords = {p1, p2}
    AccessLife = 1
    RefreshLife = 2
    ResetLife = 1
    MaxClock = 1
    MaxOps = 5
    None = None
SPECIFICATION Spec
SYMMETRY Symmetry
CHECK_DEADLOCK FALSE
INVARIANTS
    SessionsEnd
    AuditChain
PROPERTIES
    TrialRunsOnce
    ResetsOnce
