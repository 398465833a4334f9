SPECIFICATION Spec
CONSTANTS
    Week = 3
    Medium = 5
    Long = 7
    MinPerWeekday = 2
    StreakCap = 4
    StreakMin = 2
    TimeSample = 2
    MinActive = 2
    MinSamples = 2
    CrutchCount = 2
    ApproachDays = 1
    Listed = 1
    Tones = {"CALM", "DIRECT"}
    Scan = 3
    Dedicated = 3
    Centurion = 5
    EarlyHour = 8
    LateHour = 17
    StreakBadges = {2, 3}
    MaxDay = 5
    Entries <- MCEntries
    Habits <- MCHabits
    Companions <- MCCompanions
INVARIANTS
    PerfectIsSafe
    RiskIsAnswered
PROPERTIES
    LoggingHelps
