CONSTANTS
    Requests = {r1, r2}
    NumDays = 2
    Kinds = {"FULL", "MINIMUM"}
    Coins <- CoinsPerKind
    Milestones = {2}
    StreakBonus <- BonusPerMilestone
    Thresholds = {3}
    IdentityBonus = 3
    Linked = FALSE
    HasFund = TRUE
    FreezeCost = 2
    Items = {1}
    ItemCost <- CostPerItem
    XpGain = 10
    BaseXp = 1000
    XpStep = 5
    ConflictAborts = TRUE
    MaxOps = 4
    NoRow = NoRow
SPECIFICATION Spec
SYMMETRY RequestSymmetry
CHECK_DEADLOCK FALSE
INVARIANTS
    ReversedOnce
    BonusOncePerKey
    ChargedOnce
    AllocationsBacked
PROPERTIES
    AccountSpec
