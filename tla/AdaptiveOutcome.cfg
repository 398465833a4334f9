CONSTANTS
    Requests = {r1}
    Fingerprints = {a, b}
    EvaluationDays = 2
    MaxDay = 3
    MaxRows = 1
    Crashes = FALSE
    Nothing = Nothing
SPECIFICATION Spec
PROPERTIES
    LookupsMeasure
