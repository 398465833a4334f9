CONSTANTS
    Requests = {r1, r2}
    Fingerprints = {a, b}
    EvaluationDays = 2
    MaxDay = 1
    MaxRows = 1
    Crashes = FALSE
    Nothing = Nothing
SPECIFICATION Spec
PROPERTIES
    ResolvedOnce
