---------------------------- MODULE MCBinderParcel ----------------------------
(* A 56-byte buffer with two offset entries: one object and a string fill   *)
(* it, so every order of running out of bytes and of offsets occurs.        *)
EXTENDS BinderParcel

MCItems ==
  {[kind |-> "u32", val |-> 7, len |-> 0],
   [kind |-> "str", val |-> 11, len |-> 1],
   [kind |-> "str", val |-> 12, len |-> 6],
   [kind |-> "str", val |-> 13, len |-> 40],
   [kind |-> "obj", val |-> 21, len |-> 0],
   [kind |-> "ref", val |-> 22, len |-> 0],
   [kind |-> "ref", val |-> 23, len |-> 0]}
=============================================================================
