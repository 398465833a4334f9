CONSTANTS
    Requests = {r1}
    Checkouts = {c1}
    Renewals = {n1}
    Kinds = {"charge", "failed", "sync", "invoice", "disable"}
    FreeGrants = {}
    TrialLength = 1
    Period = 2
    Grace = 1
    MaxTime = 3
    Crashes = FALSE
    NoRef = NoRef
SPECIFICATION FairSpec
INVARIANTS
    OnePeriodPerPayment
PROPERTIES
    LapseIsNoticed
