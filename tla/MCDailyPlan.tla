---------------------------- MODULE MCDailyPlan ----------------------------
(* The model-checking instance of DailyPlan.                                *)
EXTENDS DailyPlan, TLC

PlanCoinsPerKind == [k \in Kinds |-> IF k = "FULL" THEN 2 ELSE 1]
PlanBonus == [m \in Milestones |-> m]
NoItems == [i \in Items |-> i + 1]
TaskSymmetry == Permutations(Tasks)
=============================================================================
