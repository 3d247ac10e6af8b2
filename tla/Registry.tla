------------------------------- MODULE Registry -------------------------------
(***************************************************************************)
(* What the service manager promises: a map from names to live services on *)
(* which every request takes effect at one instant.  A name is bound by a  *)
(* registration, possibly over an earlier one, and loses its service only  *)
(* after the service's process died.  The first registration of a name     *)
(* decides for good whether isolated callers are told of its services.     *)
(***************************************************************************)
EXTENDS Integers

CONSTANTS Procs, Objs, Names, NoObj, NoMsg, Owner, Isolated(_)

VARIABLES
  alive,   \* processes
  reg,     \* the service of each name, or NoObj
  policy,  \* allow_isolated of each name, -1 before the first
  req,     \* the request a process waits for, or NoMsg
  ans      \* the answer it has not returned from yet, or "none"

vars == <<alive, reg, policy, req, ans>>

Reqs == [code : {"ADD", "CHECK", "OTHER"}, name : Names, obj : Objs \cup {NoObj},
         allow : {0, 1}]

Init ==
  /\ alive = Procs /\ reg = [n \in Names |-> NoObj]
  /\ policy = [n \in Names |-> -1]
  /\ req = [p \in Procs |-> NoMsg] /\ ans = [p \in Procs |-> "none"]

Ask(p, r) ==
  /\ p \in alive /\ req[p] = NoMsg /\ ans[p] = "none"
  /\ req' = [req EXCEPT ![p] = r]
  /\ UNCHANGED <<alive, reg, policy, ans>>

\* The request of p is carried out; a dead p gets no answer.
Tell(p, a) ==
  /\ req' = [req EXCEPT ![p] = NoMsg]
  /\ ans' = IF p \in alive THEN [ans EXCEPT ![p] = a] ELSE ans
  /\ UNCHANGED alive

Register(p) ==
  /\ req[p] # NoMsg /\ req[p].code = "ADD" /\ req[p].obj # NoObj
  /\ reg' = [reg EXCEPT ![req[p].name] = req[p].obj]
  /\ policy' = [policy EXCEPT ![req[p].name] = IF @ = -1 THEN req[p].allow ELSE @]
  /\ Tell(p, "ok")

\* Bad arguments, or no memory.
Refuse(p) ==
  /\ req[p] # NoMsg /\ req[p].code = "ADD"
  /\ Tell(p, "fail") /\ UNCHANGED <<reg, policy>>

\* A lookup tells the current service, unless it is the caller's own or the
\* name is not for an isolated caller.
Lookup(p) ==
  /\ req[p] # NoMsg /\ req[p].code = "CHECK"
  /\ LET s == req[p].name
         told == reg[s] # NoObj /\ Owner[reg[s]] # p /\ (Isolated(p) => policy[s] = 1)
     IN  Tell(p, IF told THEN reg[s] ELSE "ok")
  /\ UNCHANGED <<reg, policy>>

\* Listing, pinging and malformed requests leave the map alone.
Other(p) ==
  /\ req[p] # NoMsg /\ req[p].code = "OTHER"
  /\ Tell(p, "ok") \/ Tell(p, "fail")
  /\ UNCHANGED <<reg, policy>>

Return(p) ==
  /\ ans[p] # "none" /\ ans' = [ans EXCEPT ![p] = "none"]
  /\ UNCHANGED <<alive, reg, policy, req>>

Die(p) ==
  /\ p \in alive /\ alive' = alive \ {p}
  /\ ans' = [ans EXCEPT ![p] = "none"]
  /\ UNCHANGED <<reg, policy, req>>

Drop(n) ==
  /\ reg[n] # NoObj /\ Owner[reg[n]] \notin alive
  /\ reg' = [reg EXCEPT ![n] = NoObj]
  /\ UNCHANGED <<alive, policy, req, ans>>

Next ==
  \/ \E p \in Procs : \/ \E r \in Reqs : Ask(p, r)
                      \/ Register(p) \/ Refuse(p) \/ Lookup(p) \/ Other(p)
                      \/ Return(p) \/ Die(p)
  \/ \E n \in Names : Drop(n)

Spec == Init /\ [][Next]_vars
=============================================================================
