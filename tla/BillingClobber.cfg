CONSTANTS
    Requests = {r1, r2}
    Checkouts = {c1}
    Renewals = {}
    Kinds = {"charge"}
    FreeGrants = {}
    TrialLength = 1
    Period = 2
    Grace = 1
    MaxTime = 2
    Crashes = FALSE
    NoRef = NoRef
SPECIFICATION Spec
PROPERTIES
    ExpiresOnlyWhenOverdue
