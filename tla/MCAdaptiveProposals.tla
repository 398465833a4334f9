------------------------ MODULE MCAdaptiveProposals ------------------------
(* Model-checking instances of AdaptiveProposals: the evidence distinguishes *)
(* fingerprints only by equality, so they are interchangeable.              *)
EXTENDS AdaptiveProposals, TLC

EvidenceSymmetry == Permutations(Fingerprints)
=============================================================================
