CONSTANTS
    Requests = {r1}
    Writers = {w1}
    NumDays = 2
    Kinds = {"FULL", "MINIMUM"}
    Coins <- PlanCoinsPerKind
    Milestones = {2}
    StreakBonus <- PlanBonus
    Thresholds = {}
    IdentityBonus = 3
    Linked = FALSE
    HasFund = TRUE
    FreezeCost = 2
    Items = {}
    ItemCost <- NoItems
    XpGain = 10
    BaseXp = 1000
    XpStep = 5
    ConflictAborts = TRUE
    MaxOps = 3
    NoRow = NoRow
    Plans = {1}
    Tasks = {t1, t2}
    PlanCoins = 2
    NoTask = NoTask
    GoneTask = GoneTask
SPECIFICATION PlanSpec
SYMMETRY TaskSymmetry
CHECK_DEADLOCK FALSE
INVARIANTS
    CompletedIsPaid
    QuietDaysPaidExactly
