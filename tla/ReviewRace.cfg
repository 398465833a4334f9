CONSTANTS
    Habits = {h1}
    Days = {1, 2}
    IdentityIds = {i1, i2}
    BundleIds = {b1}
    Callers = {c1, c2}
    LevelFloors <- Floors
    MaxOps = 4
    Servers = {s1, s2}
    WeekDays = {1}
    Top = 1
    Attempts = 2
    MaxCrashes = 1
    None = None
SPECIFICATION Spec
SYMMETRY Symmetry
CHECK_DEADLOCK FALSE
INVARIANTS
    BundleLife
    OneGeneration
    StoredIsOver
    ReviewKept
