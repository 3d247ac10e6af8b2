--------------------------------- MODULE Calls ---------------------------------
(***************************************************************************)
(* What a server promises to the programs that call it: a call is executed *)
(* at one instant and at most once, and binder_call returns what was then  *)
(* computed for it.  An execution fails or tells the caller a number, of   *)
(* which it is only known that so many calls have been made.  A call that  *)
(* is given up may be executed all the same, until the server has stopped. *)
(***************************************************************************)
EXTENDS Integers, FiniteSets

CONSTANTS Callers, MaxCalls

VARIABLES
  up,        \* the server executes calls
  phase,     \* each caller: "idle", "open" (in a call) or "gone"
  val,       \* what its call was executed with: -1 failed, 0 not executed
  ret,       \* what the call returned
  calls      \* calls it has made

vars == <<up, phase, val, ret, calls>>

Init ==
  /\ up = TRUE /\ phase = [c \in Callers |-> "idle"]
  /\ val = [c \in Callers |-> 0] /\ ret = [c \in Callers |-> 0]
  /\ calls = [c \in Callers |-> 0]

Made == Cardinality({x \in Callers \X (1..MaxCalls) : x[2] <= calls[x[1]]})

Ask(c) ==
  /\ phase[c] = "idle" /\ calls[c] < MaxCalls
  /\ phase' = [phase EXCEPT ![c] = "open"] /\ calls' = [calls EXCEPT ![c] = @ + 1]
  /\ val' = [val EXCEPT ![c] = 0] /\ ret' = [ret EXCEPT ![c] = 0]
  /\ UNCHANGED up

Execute(c, v) ==
  /\ up /\ phase[c] # "idle" /\ val[c] = 0
  /\ val' = [val EXCEPT ![c] = v]
  /\ UNCHANGED <<up, phase, ret, calls>>

Return(c) ==
  /\ phase[c] = "open" /\ val[c] # 0
  /\ phase' = [phase EXCEPT ![c] = "idle"] /\ ret' = [ret EXCEPT ![c] = val[c]]
  /\ UNCHANGED <<up, val, calls>>

\* The caller gives up, executed or not.
Fail(c) ==
  /\ phase[c] = "open" /\ phase' = [phase EXCEPT ![c] = "gone"]
  /\ UNCHANGED <<up, val, ret, calls>>

Stop == up /\ up' = FALSE /\ UNCHANGED <<phase, val, ret, calls>>

Next ==
  \/ Stop
  \/ \E c \in Callers : \/ Ask(c) \/ Return(c) \/ Fail(c)
                        \/ \E v \in {-1} \cup 1..Made : Execute(c, v)

Spec == Init /\ [][Next]_vars
=============================================================================
