----------------------------- MODULE MCLooperPool -----------------------------
(* Two callers and a pool that may grow by a thread besides main's.          *)
EXTENDS LooperPool
=============================================================================
