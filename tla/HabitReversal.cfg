CONSTANTS
    Requests = {r1}
    NumDays = 3
    Kinds = {"FULL"}
    Coins <- CoinsPerKind
    Milestones = {2}
    StreakBonus <- BonusPerMilestone
    Thresholds = {}
    IdentityBonus = 3
    Linked = FALSE
    HasFund = FALSE
    FreezeCost = 2
    Items = {}
    ItemCost <- CostPerItem
    XpGain = 10
    BaseXp = 1000
    XpStep = 5
    ConflictAborts = TRUE
    MaxOps = 5
    NoRow = NoRow
SPECIFICATION Spec
CHECK_DEADLOCK FALSE
INVARIANT ReversalRetriesAreNoOps
