CONSTANTS
    Requests = {r1}
    Checkouts = {c1}
    Renewals = {}
    Kinds = {"charge", "disable"}
    FreeGrants = {}
    TrialLength = 1
    Period = 2
    Grace = 1
    MaxTime = 2
    Crashes = FALSE
    NoRef = NoRef
SPECIFICATION Spec
INVARIANTS
    NonRenewingLapses
