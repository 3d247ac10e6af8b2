------------------------------ MODULE MCStudents ------------------------------
(* Two names, of which one is enough to clash with itself after a            *)
(* classification, and memory for four students.                             *)
EXTENDS Students, TLC

CONSTANTS Tom, Jerry

MCRoster == <<<<Tom, "m">>, <<Jerry, "f">>>>
MCSymmetry == Permutations(Addrs)
=============================================================================
