--------------------------- MODULE MCHabitRewards ---------------------------
(* Model-checking instances of HabitRewards: coins, bonuses and prices      *)
(* scaled down so that a few requests reach every rule.                     *)
EXTENDS HabitRewards, TLC

CoinsPerKind == [k \in Kinds |-> IF k = "FULL" THEN 2 ELSE 1]
BonusPerMilestone == [m \in Milestones |-> m]
CostPerItem == [i \in Items |-> i + 1]
RequestSymmetry == Permutations(Requests)
=============================================================================
