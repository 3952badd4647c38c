------------------------- MODULE MCEvaluationReview -------------------------
(* Small instances of EvaluationReview for TLC.                            *)
EXTENDS EvaluationReview, TLC

Symmetry == Permutations(Admins) \cup Permutations(Dims)
=============================================================================
