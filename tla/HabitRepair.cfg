CONSTANTS
    Requests = {r1}
    NumDays = 1
    Kinds = {"FULL"}
    Coins <- CoinsPerKind
    Milestones = {}
    StreakBonus <- BonusPerMilestone
    Thresholds = {}
    IdentityBonus = 3
    Linked = FALSE
    HasFund = FALSE
    FreezeCost = 2
    Items = {}
    ItemCost <- CostPerItem
    XpGain = 10
    BaseXp = 1000
    XpStep = 5
    ConflictAborts = TRUE
    MaxOps = 3
    NoRow = NoRow
SPECIFICATION RepairSpec
CHECK_DEADLOCK FALSE
PROPERTY RepairReconciles
