CONSTANTS
    Requests = {r1}
    Fingerprints = {a, b}
    EvaluationDays = 2
    MaxDay = 2
    MaxRows = 3
    Crashes = TRUE
    Nothing = Nothing
SPECIFICATION Spec
SYMMETRY EvidenceSymmetry
INVARIANTS
    OneOpen
PROPERTIES
    ResolvedOnce
