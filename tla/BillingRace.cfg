CONSTANTS
    Requests = {r1, r2}
    Checkouts = {c1}
    Renewals = {n1}
    Kinds = {"charge", "failed", "not_renew"}
    FreeGrants = {2}
    TrialLength = 1
    Period = 2
    Grace = 1
    MaxTime = 2
    Crashes = TRUE
    NoRef = NoRef
SPECIFICATION Spec
SYMMETRY RequestSymmetry
INVARIANTS
    OneHandlerPerEvent
    PaidMeansPaid
    SettledIsApplied
PROPERTIES
    EarlyExpiryIsStale
    SettledForGood
