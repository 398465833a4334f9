--------------------------- MODULE MCBalanceRepair ---------------------------
(* Model-checking instance of BalanceRepair with scaled-down coins.         *)
EXTENDS BalanceRepair, TLC

CoinsPerKind == [k \in Kinds |-> IF k = "FULL" THEN 2 ELSE 1]
BonusPerMilestone == [m \in Milestones |-> m]
CostPerItem == [i \in Items |-> i + 1]
=============================================================================
