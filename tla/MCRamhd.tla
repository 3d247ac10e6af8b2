------------------------------- MODULE MCRamhd -------------------------------
(* Two programs and two CPUs, and a disk of two sectors of each driver.      *)
EXTENDS Ramhd, TLC

MCSymmetry == Permutations(Procs) \cup Permutations(CPUs)
=============================================================================
