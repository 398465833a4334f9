------------------------------ MODULE MCBudget ------------------------------
(* The model-checking instance of Budget: three days, periods that end at   *)
(* midnight, in the evening and before they start, none, two and a bad week.*)
EXTENDS Budget, TLC

SomePeriods == {<<0, 2>>, <<2, 5>>, <<3, 3>>, <<4, 1>>}
SomeWeeks == {<<>>, <<1, 1>>, <<2, 0>>}
SomeAllocs == [Categories -> {0, 2}]
Costs == [e \in Expenses |-> 2]
Symmetry == Permutations(Callers) \cup Permutations(Budgets)
=============================================================================
