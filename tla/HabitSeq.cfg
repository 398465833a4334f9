CONSTANTS
    Requests = {r1}
    NumDays = 3
    Kinds = {"FULL", "MINIMUM"}
    Coins <- CoinsPerKind
    Milestones = {2, 3}
    StreakBonus <- BonusPerMilestone
    Thresholds = {3}
    IdentityBonus = 3
    Linked = TRUE
    HasFund = TRUE
    FreezeCost = 2
    Items = {1}
    ItemCost <- CostPerItem
    XpGain = 10
    BaseXp = 1000
    XpStep = 5
    ConflictAborts = TRUE
    MaxOps = 5
    NoRow = NoRow
SPECIFICATION Spec
CHECK_DEADLOCK FALSE
INVARIANTS
    BalanceMatchesLedger
    DayPaidExactly
    StreakBonusIntact
    XpFollowsCompletions
