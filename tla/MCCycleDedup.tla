---------------------------- MODULE MCCycleDedup ----------------------------
(* CycleDedup for TLC: sources and identities are interchangeable.            *)
EXTENDS CycleDedup, TLC

Interchangeable ==
  Permutations(Sources) \cup Permutations(Ids)
=============================================================================
