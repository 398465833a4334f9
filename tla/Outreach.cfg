SPECIFICATION OutreachSpec
CONSTANTS
    Phones = {phone}
    Crons = {cron}
    Situations <- MCSituations
    Preferences <- MCPreferences
    UserWeek = 2
    MaxCandidates = 1
    ScanSlack = 2
    MaxPerDay = 1
    Cooldown = 1
    Take = 4
    Retention = 0
    LastDay = 1
    MaxPushes = 2
INVARIANTS
    DayBound
    PushedOnce
    FunnelOrdered
