--------------------------- MODULE MCWeeklyReview ---------------------------
(* The model-checking instance of WeeklyReview.                             *)
EXTENDS WeeklyReview, TLC

Floors == <<0, 2, 3>>

Symmetry == Permutations(Callers)
=============================================================================
