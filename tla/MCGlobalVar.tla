----------------------------- MODULE MCGlobalVar -----------------------------
(* The globalvar device with two readers and two writers: enough for two    *)
(* readers to pass the wait on one flag, and for a write to overlap both a  *)
(* read and another write.                                                  *)
EXTENDS GlobalVar
=============================================================================
