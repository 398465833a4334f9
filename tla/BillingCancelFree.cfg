CONSTANTS
    Requests = {r1}
    Checkouts = {c1}
    Renewals = {}
    Kinds = {"charge"}
    FreeGrants = {2}
    TrialLength = 1
    Period = 2
    Grace = 1
    MaxTime = 2
    Crashes = FALSE
    NoRef = NoRef
SPECIFICATION Spec
INVARIANTS
    NonRenewingLapses
