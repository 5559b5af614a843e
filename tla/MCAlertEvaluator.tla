-------------------------- MODULE MCAlertEvaluator --------------------------
(* AlertEvaluator on a small instance: the sources are interchangeable.       *)
EXTENDS AlertEvaluator, TLC

Symmetry == Permutations(Sources)
=============================================================================
