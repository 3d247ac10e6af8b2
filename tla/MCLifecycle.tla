----------------------------- MODULE MCLifecycle -----------------------------
(* Every lab, with two callers.                                              *)
EXTENDS Lifecycle, TLC

MCSymmetry == Permutations(Callers)
=============================================================================
