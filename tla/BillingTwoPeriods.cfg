CONSTANTS
    Requests = {r1}
    Checkouts = {c1}
    Renewals = {}
    Kinds = {"charge"}
    FreeGrants = {}
    TrialLength = 1
    Period = 2
    Grace = 1
    MaxTime = 3
    Crashes = TRUE
    NoRef = NoRef
SPECIFICATION Spec
INVARIANTS
    OnePeriodPerPayment
