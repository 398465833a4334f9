----------------------------- MODULE MCSessions -----------------------------
(* The model-checking instance of Sessions.                                 *)
EXTENDS Sessions, TLC

Symmetry == Permutations(Callers)
=============================================================================
