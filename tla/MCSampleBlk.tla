----------------------------- MODULE MCSampleBlk -----------------------------
(* Two programs and two CPUs on a disk of two sectors: requests of up to two *)
(* segments overlap each other and run past the end.                         *)
EXTENDS SampleBlk, TLC

MCSymmetry == Permutations(Procs) \cup Permutations(CPUs) \cup Permutations(Vals)
=============================================================================
