CONSTANTS
    Callers = {c1, c2}
    Budgets = {b1, b2}
    Expenses = {e1}
    Cost <- Costs
    Categories = {food}
    NumDays = 3
    Periods <- SomePeriods
    Scopes = {"WEEKLY", "MONTHLY"}
    Amounts = {1}
    WeekPlans <- SomeWeeks
    Allocs <- SomeAllocs
    MaxOps = 4
    None = None
SPECIFICATION Spec
SYMMETRY Symmetry
CHECK_DEADLOCK FALSE
INVARIANTS
    BudgetsAddUp
    ScopesDisjoint
    LinksInPeriod
PROPERTIES
    RepairHeals
