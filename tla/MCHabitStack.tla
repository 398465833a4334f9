---------------------------- MODULE MCHabitStack ----------------------------
(* Model-checking instances of HabitStack.                                  *)
EXTENDS HabitStack, TLC

HabitSymmetry == Permutations(Habits)
=============================================================================
