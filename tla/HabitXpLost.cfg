CONSTANTS
    Requests = {r1, r2}
    NumDays = 2
    Kinds = {"FULL"}
    Coins <- CoinsPerKind
    Milestones = {}
    StreakBonus <- BonusPerMilestone
    Thresholds = {}
    IdentityBonus = 3
    Linked = FALSE
    HasFund = FALSE
    FreezeCost = 2
    Items = {}
    ItemCost <- CostPerItem
    XpGain = 10
    BaseXp = 1000
    XpStep = 5
    ConflictAborts = TRUE
    MaxOps = 2
    NoRow = NoRow
SPECIFICATION Spec
CHECK_DEADLOCK FALSE
INVARIANT XpFollowsCompletions
