--------------------------- MODULE MCServiceManager ---------------------------
(* Two servers that register the same name, one of which also has a second  *)
(* service and looks names up itself, and a client.  Every object has one   *)
(* valid name, as in test_server.c.                                         *)
EXTENDS ServiceManager, TLC

CONSTANTS A, B, C, oA, oB, oB2, n1, n2, nLong

MCOwner == (oA :> A) @@ (oB :> B) @@ (oB2 :> B)
MCNameLen == (n1 :> 5) @@ (n2 :> 127) @@ (nLong :> 128)
MCUid == (A :> 1000) @@ (B :> 199000) @@ (C :> 99999)

Request(p, code, name, obj, allow, n) ==
  [from |-> p, code |-> code, name |-> name, obj |-> obj, allow |-> allow, n |-> n]

MCRequests ==
  {Request(A, "ADD", n1, oA, 1, 0),
   Request(B, "ADD", n1, oB, 0, 0), Request(B, "ADD", n2, oB2, 0, 0),
   Request(B, "ADD", nLong, oB2, 0, 0), Request(B, "CHECK", n1, NoObj, 0, 0),
   Request(C, "CHECK", n1, NoObj, 0, 0), Request(C, "LIST", n1, NoObj, 0, 1),
   Request(C, "PING", n1, NoObj, 0, 0), Request(C, "BAD", n1, NoObj, 0, 0),
   Request(C, "ADD", n2, NoObj, 0, 0)}

\* The requests of the refinement and the liveness properties.
MCLiveRequests ==
  {Request(A, "ADD", n1, oA, 1, 0), Request(B, "ADD", n1, oB, 0, 0),
   Request(C, "CHECK", n1, NoObj, 0, 0)}

\* One object under two names, the first of which is taken over.
MCAliases ==
  {Request(A, "ADD", n1, oA, 0, 0), Request(A, "ADD", n2, oA, 0, 0),
   Request(B, "ADD", n1, oB, 0, 0)}
=============================================================================
