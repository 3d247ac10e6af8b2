------------------------------ MODULE LooperPool ------------------------------
(***************************************************************************)
(* A server of binder/test_server.c and the programs that call it:         *)
(* binder_call on one side; binder_loop, binder_thread_loop, binder_parse  *)
(* and the handlers on the other, run by a pool of threads that grows when *)
(* the driver sends BR_SPAWN_LOOPER.                                       *)
(*                                                                         *)
(* An ioctl is atomic.  Between two ioctls a thread parses the commands it *)
(* read, one step each, and a handler takes a step for every access to the *)
(* static counter it shares with the other threads.                        *)
(***************************************************************************)
EXTENDS Integers, Sequences, FiniteSets

CONSTANTS
  Main, Loopers,   \* main's thread, and those pthread_create may return
  Callers,
  MaxThreads,      \* BINDER_SET_MAX_THREADS
  MaxCalls,        \* bound: calls one program makes
  Nobody

ASSUME PoolAssumption ==
  /\ Main \notin Loopers /\ IsFiniteSet(Loopers) /\ IsFiniteSet(Callers)
  /\ Nobody \notin Callers \cup Loopers \cup {Main}
  /\ MaxThreads \in Nat /\ MaxCalls \in Nat /\ Cardinality(Loopers) >= MaxThreads

Threads == {Main} \cup Loopers
Codes == {"SAYHELLO_TO", "UNKNOWN"}

\* What the driver returns to a caller.
BR(kind, val) == [br |-> kind, val |-> val]
COMPLETE == BR("TRANSACTION_COMPLETE", 0)
DEAD == BR("DEAD_REPLY", 0)
REPLY(val) == BR("REPLY", val)

VARIABLES
  up,                      \* the server process exists
  queue,                   \* driver: transactions no thread has read
  requested, started,      \* driver: threads asked for, and registered
  entered,                 \* driver: main's thread has entered the looper
  pc, inbuf,               \* each thread, and the commands it has to parse
  cur, local, rdata,       \* its transaction's sender, its copy of cnt, its reply
  scope, creator, arg,     \* the struct binder_thread_desc: in scope or not,
                           \* whose it was, what was read out of it
  unspawned,               \* pthread_create or the new thread's registration
                           \* failed: nobody will register
  cnt,                     \* static int cnt of sayhello_to
  cpc, code, consumed, todo, ret,   \* each caller; driver: its returns
  calls, runs, told        \* history: calls made, runs of a handler for the
                           \* present one and what the last of them computed

server == <<pc, inbuf, cur, local, rdata, scope, creator, arg, unspawned, cnt>>
callers == <<cpc, code, consumed, ret, calls>>
pool == <<requested, started, entered>>
history == <<runs, told>>
vars == <<up, queue, pool, server, callers, todo, history>>

All(value) == [t \in Threads |-> value]

Init ==
  /\ up = TRUE /\ queue = <<>> /\ requested = 0 /\ started = 0 /\ entered = FALSE
  /\ pc = [All("absent") EXCEPT ![Main] = "enter"]
  /\ inbuf = All(<<>>) /\ cur = All(Nobody) /\ local = All(0) /\ rdata = All(0)
  /\ scope = All(FALSE) /\ creator = All(Nobody) /\ arg = All("none")
  /\ unspawned = FALSE /\ cnt = 0
  /\ cpc = [c \in Callers |-> "idle"] /\ code = [c \in Callers |-> "UNKNOWN"]
  /\ consumed = [c \in Callers |-> FALSE] /\ todo = [c \in Callers |-> <<>>]
  /\ ret = [c \in Callers |-> 0] /\ calls = [c \in Callers |-> 0]
  /\ runs = [c \in Callers |-> 0] /\ told = [c \in Callers |-> 0]

-----------------------------------------------------------------------------
(* binder_call *)

Call(c, k) ==
  /\ cpc[c] = "idle" /\ calls[c] < MaxCalls
  /\ cpc' = [cpc EXCEPT ![c] = "ioctl"] /\ code' = [code EXCEPT ![c] = k]
  /\ consumed' = [consumed EXCEPT ![c] = FALSE]   \* bwr.write_consumed = 0
  /\ calls' = [calls EXCEPT ![c] = @ + 1] /\ ret' = [ret EXCEPT ![c] = 0]
  /\ runs' = [runs EXCEPT ![c] = 0] /\ told' = [told EXCEPT ![c] = 0]
  /\ UNCHANGED <<up, queue, pool, server, todo>>

\* Mutant: write_consumed is reset for every turn of the loop.
CallIoctl_resend(c) ==
  /\ cpc[c] = "ioctl" /\ cpc' = [cpc EXCEPT ![c] = "wait"]
  /\ queue' = Append(queue, c)
  /\ todo' = [todo EXCEPT ![c] = Append(@, COMPLETE)]
  /\ UNCHANGED <<up, pool, server, code, consumed, ret, calls, history>>

\* One turn of the loop: the write half of the ioctl.  The driver records in
\* the binder_write_read what it consumed, so the next turn writes nothing.
CallIoctl(c) ==
  /\ cpc[c] = "ioctl" /\ cpc' = [cpc EXCEPT ![c] = "wait"]
  /\ consumed' = [consumed EXCEPT ![c] = TRUE]
  /\ IF consumed[c] THEN UNCHANGED <<queue, todo>>
     ELSE IF up THEN /\ queue' = Append(queue, c)
                     /\ todo' = [todo EXCEPT ![c] = Append(@, COMPLETE)]
     ELSE /\ todo' = [todo EXCEPT ![c] = Append(@, DEAD)] /\ UNCHANGED queue
  /\ UNCHANGED <<up, pool, server, code, ret, calls, history>>

\* Mutant: binder_parse starts with r = 0, so BR_TRANSACTION_COMPLETE ends the call.
CallParse_complete(c) ==
  LET returned == {todo[c][k] : k \in DOMAIN todo[c]}
      replies == {b \in returned : b.br = "REPLY"}
  IN  /\ cpc[c] = "wait" /\ todo[c] # <<>>
      /\ todo' = [todo EXCEPT ![c] = <<>>]
      /\ cpc' = [cpc EXCEPT ![c] = IF DEAD \in returned THEN "gone" ELSE "idle"]
      /\ ret' = [ret EXCEPT ![c] = IF replies # {} THEN (CHOOSE b \in replies : TRUE).val ELSE 0]
      /\ UNCHANGED <<up, queue, pool, server, code, consumed, calls, history>>

\* The read half and binder_parse over all that was returned: r is 0 after a
\* BR_REPLY, -1 after BR_DEAD_REPLY, 1 after BR_TRANSACTION_COMPLETE alone.
\* test_client gives up when a call fails.
CallParse(c) ==
  LET returned == {todo[c][k] : k \in DOMAIN todo[c]}
      replies == {b \in returned : b.br = "REPLY"}
  IN  /\ cpc[c] = "wait" /\ todo[c] # <<>>
      /\ todo' = [todo EXCEPT ![c] = <<>>]
      /\ cpc' = [cpc EXCEPT ![c] = IF DEAD \in returned THEN "gone"
                                   ELSE IF replies # {} THEN "idle" ELSE "ioctl"]
      /\ ret' = [ret EXCEPT ![c] = IF replies # {} THEN (CHOOSE b \in replies : TRUE).val ELSE 0]
      /\ UNCHANGED <<up, queue, pool, server, code, consumed, calls, history>>

\* The ioctl fails (a signal), or the driver returns BR_FAILED_REPLY for a
\* transaction or a reply it could not deliver, or the program is killed: the
\* call is given up although it may be executed.
CallFails(c) ==
  /\ cpc[c] \in {"ioctl", "wait"} /\ cpc' = [cpc EXCEPT ![c] = "gone"]
  /\ todo' = [todo EXCEPT ![c] = <<>>]
  /\ UNCHANGED <<up, queue, pool, server, code, consumed, ret, calls, history>>

-----------------------------------------------------------------------------
(* The threads of the server *)

Goto(t, from, to) == up /\ pc[t] = from /\ pc' = [pc EXCEPT ![t] = to]

\* The process is gone; the driver tells every caller that waits for it.
Exit ==
  LET waiting(c) == /\ cpc[c] \in {"ioctl", "wait"} /\ consumed[c]
                    /\ \A k \in DOMAIN todo[c] : todo[c][k] = COMPLETE
  IN  /\ up' = FALSE /\ queue' = <<>> /\ requested' = 0 /\ started' = 0 /\ entered' = FALSE
      /\ pc' = All("absent") /\ inbuf' = All(<<>>) /\ cur' = All(Nobody)
      /\ local' = All(0) /\ rdata' = All(0) /\ scope' = All(FALSE)
      /\ creator' = All(Nobody) /\ arg' = All("none") /\ unspawned' = FALSE /\ cnt' = 0
      /\ todo' = [c \in Callers |-> IF waiting(c) THEN Append(todo[c], DEAD) ELSE todo[c]]

\* main: binder_loop writes BC_ENTER_LOOPER, and goes on when that fails.
EnterLoop ==
  /\ Goto(Main, "enter", "loop") /\ entered' \in BOOLEAN
  /\ UNCHANGED <<up, queue, requested, started, inbuf, cur, local, rdata, scope, creator, arg, unspawned, cnt,
                 callers, todo, history>>

\* binder_thread_routine reads bs and func through the pointer it was given.
\* They are those of the creator while it has not left the case block; after
\* that the storage may hold anything.
ReadArg(u) ==
  /\ Goto(u, "born", "descriptor")
  /\ \/ arg' = [arg EXCEPT ![u] = "good"]
     \/ ~scope[creator[u]] /\ arg' = [arg EXCEPT ![u] = "garbage"]
  /\ UNCHANGED <<up, queue, pool, inbuf, cur, local, rdata, scope, creator, unspawned, cnt,
                 callers, todo, history>>

\* Mutant: the thread registers, and its loop registers it again.
Register_twice(u) ==
  /\ Goto(u, "descriptor", "loop") /\ arg[u] = "good"
  /\ requested' = requested - 2 /\ started' = started + 2
  /\ arg' = [arg EXCEPT ![u] = "none"] /\ creator' = [creator EXCEPT ![u] = Nobody]
  /\ UNCHANGED <<up, queue, entered, inbuf, cur, local, rdata, scope, unspawned, cnt,
                 callers, todo, history>>

\* Mutant: the new thread says BC_ENTER_LOOPER, as binder_loop does.
Register_enter(u) ==
  /\ Goto(u, "descriptor", "loop") /\ arg[u] = "good"
  /\ arg' = [arg EXCEPT ![u] = "none"] /\ creator' = [creator EXCEPT ![u] = Nobody]
  /\ UNCHANGED <<up, queue, pool, inbuf, cur, local, rdata, scope, unspawned, cnt,
                 callers, todo, history>>

\* binder_thread_loop writes BC_REGISTER_LOOPER: one of the threads asked for.
\* When that fails it goes on too, and serves without being counted.
Register(u) ==
  /\ Goto(u, "descriptor", "loop") /\ arg[u] = "good"
  /\ \/ requested' = requested - 1 /\ started' = started + 1 /\ UNCHANGED unspawned
     \/ unspawned' = TRUE /\ UNCHANGED <<requested, started>>
  /\ arg' = [arg EXCEPT ![u] = "none"] /\ creator' = [creator EXCEPT ![u] = Nobody]
  /\ UNCHANGED <<up, queue, entered, inbuf, cur, local, rdata, scope, cnt,
                 callers, todo, history>>

\* bs->fd through a garbage pointer.
Crash(u) ==
  /\ up /\ pc[u] = "descriptor" /\ arg[u] = "garbage"
  /\ Exit
  /\ UNCHANGED <<callers, history>>

\* The ioctl of the loop, waiting for work ...
Wait(t) ==
  /\ Goto(t, "loop", "wait")
  /\ UNCHANGED <<up, queue, pool, inbuf, cur, local, rdata, scope, creator, arg, unspawned, cnt,
                 callers, todo, history>>

\* ... and returning with some.  The driver asks a thread it knows as a looper
\* for another when none is left waiting, none is on its way and the limit is
\* not reached.  (While a looper has failed to register, one is on its way.)
Read(t) ==
  LET spawn == /\ entered /\ requested = 0 /\ started < MaxThreads
               /\ \A u \in Threads \ {t} : pc[u] # "wait"
  IN  /\ queue # <<>> /\ Goto(t, "wait", "parse")
      /\ cur' = [cur EXCEPT ![t] = Head(queue)] /\ queue' = Tail(queue)
      /\ inbuf' = [inbuf EXCEPT ![t] = IF spawn THEN <<"SPAWN_LOOPER", "TRANSACTION">>
                                                ELSE <<"TRANSACTION">>]
      /\ requested' = IF spawn THEN 1 ELSE requested
      /\ UNCHANGED <<up, started, entered, local, rdata, scope, creator, arg, unspawned, cnt,
                     callers, todo, history>>

\* The ioctl fails and the loop ends: main returns, which ends the process;
\* another thread ends alone.
LoopFails(t) ==
  /\ up /\ pc[t] = "wait"
  /\ IF t = Main THEN Exit
     ELSE /\ pc' = [pc EXCEPT ![t] = "ended"]
          /\ UNCHANGED <<up, queue, pool, inbuf, cur, local, rdata, scope, creator, arg,
                         unspawned, cnt, todo>>
  /\ UNCHANGED <<callers, history>>

\* BR_SPAWN_LOOPER: pthread_create, whose result is not looked at.
Spawn(t) ==
  /\ inbuf[t] # <<>> /\ Head(inbuf[t]) = "SPAWN_LOOPER"
  /\ up /\ pc[t] = "parse"
  /\ scope' = [scope EXCEPT ![t] = TRUE] /\ inbuf' = [inbuf EXCEPT ![t] = Tail(@)]
  /\ \/ \E u \in Loopers :
          /\ pc[u] = "absent"
          /\ pc' = [pc EXCEPT ![t] = "block", ![u] = "born"]
          /\ creator' = [creator EXCEPT ![u] = t] /\ UNCHANGED unspawned
     \/ /\ pc' = [pc EXCEPT ![t] = "block"]
        /\ unspawned' = TRUE /\ UNCHANGED creator
  /\ UNCHANGED <<up, queue, pool, cur, local, rdata, arg, cnt, callers, todo, history>>

\* The end of the case block, and of the life of btd.
LeaveBlock(t) ==
  /\ Goto(t, "block", "parse") /\ scope' = [scope EXCEPT ![t] = FALSE]
  /\ UNCHANGED <<up, queue, pool, inbuf, cur, local, rdata, creator, arg, unspawned, cnt,
                 callers, todo, history>>

\* BR_TRANSACTION: test_server_handler.  An unknown code fails; sayhello_to
\* begins with the load of ++cnt.
Handle(t) ==
  LET c == cur[t]
  IN  /\ inbuf[t] # <<>> /\ Head(inbuf[t]) = "TRANSACTION"
      /\ Goto(t, "parse", IF code[c] = "UNKNOWN" THEN "reply" ELSE "store")
      /\ inbuf' = [inbuf EXCEPT ![t] = Tail(@)]
      /\ local' = [local EXCEPT ![t] = cnt]
      /\ rdata' = [rdata EXCEPT ![t] = -1]
      /\ runs' = [runs EXCEPT ![c] = @ + 1]
      /\ told' = [told EXCEPT ![c] = -1]
      /\ UNCHANGED <<up, queue, pool, cur, scope, creator, arg, unspawned, cnt, callers, todo>>

\* The store of ++cnt.
Store(t) ==
  /\ Goto(t, "store", "fetch") /\ cnt' = local[t] + 1
  /\ UNCHANGED <<up, queue, pool, inbuf, cur, local, rdata, scope, creator, arg, unspawned,
                 callers, todo, history>>

\* Mutant: the reply buffer is static.
Fetch_static(t) ==
  /\ Goto(t, "fetch", "reply") /\ rdata' = [u \in Threads |-> cnt]
  /\ told' = [told EXCEPT ![cur[t]] = cnt]
  /\ UNCHANGED <<up, queue, pool, inbuf, cur, local, scope, creator, arg, unspawned, cnt,
                 callers, todo, runs>>

\* Mutant: the result counts the call once more.
Fetch_again(t) ==
  /\ Goto(t, "fetch", "reply") /\ rdata' = [rdata EXCEPT ![t] = cnt + 1]
  /\ told' = [told EXCEPT ![cur[t]] = cnt + 1]
  /\ UNCHANGED <<up, queue, pool, inbuf, cur, local, scope, creator, arg, unspawned, cnt,
                 callers, todo, runs>>

\* return cnt, which is read again; it goes into the thread's own rdata.
Fetch(t) ==
  /\ Goto(t, "fetch", "reply") /\ rdata' = [rdata EXCEPT ![t] = cnt]
  /\ told' = [told EXCEPT ![cur[t]] = cnt]
  /\ UNCHANGED <<up, queue, pool, inbuf, cur, local, scope, creator, arg, unspawned, cnt,
                 callers, todo, runs>>

\* Mutant: a handler that failed is not answered.
Reply_silent(t) ==
  LET c == cur[t]
  IN  /\ Goto(t, "reply", "loop") /\ cur' = [cur EXCEPT ![t] = Nobody]
      /\ todo' = IF cpc[c] = "gone" \/ rdata[t] = -1 THEN todo
                 ELSE [todo EXCEPT ![c] = Append(@, REPLY(rdata[t]))]
      /\ local' = [local EXCEPT ![t] = 0] /\ rdata' = [rdata EXCEPT ![t] = 0]
      /\ UNCHANGED <<up, queue, pool, inbuf, scope, creator, arg, unspawned, cnt,
                     callers, history>>

\* binder_send_reply: the count, or the status -1 of a handler that failed.  The
\* write does not wait and its memory is the thread's own, so it fails only in
\* a process that is killed; for a reply that cannot be delivered, see CallFails.
Reply(t) ==
  LET c == cur[t]
  IN  /\ Goto(t, "reply", "loop") /\ cur' = [cur EXCEPT ![t] = Nobody]
      /\ todo' = IF cpc[c] = "gone" THEN todo ELSE [todo EXCEPT ![c] = Append(@, REPLY(rdata[t]))]
      /\ local' = [local EXCEPT ![t] = 0] /\ rdata' = [rdata EXCEPT ![t] = 0]
      /\ UNCHANGED <<up, queue, pool, inbuf, scope, creator, arg, unspawned, cnt,
                     callers, history>>

-----------------------------------------------------------------------------
thread(t) ==
  \/ Wait(t) \/ Read(t) \/ Spawn(t) \/ LeaveBlock(t)
  \/ Handle(t) \/ Store(t) \/ Fetch(t) \/ Reply(t)
  \/ t = Main /\ EnterLoop
  \/ t \in Loopers /\ (ReadArg(t) \/ Register(t) \/ Crash(t))

caller(c) == CallIoctl(c) \/ CallParse(c)

Next ==
  \/ \E t \in Threads : thread(t) \/ LoopFails(t)
  \/ \E c \in Callers : caller(c) \/ CallFails(c) \/ \E k \in Codes : Call(c, k)

Spec == Init /\ [][Next]_vars

\* Threads run; nobody has to call, and no ioctl has to fail.  A transaction
\* in the queue wakes a thread that waits.
FairSpec ==
  /\ Spec
  /\ \A t \in Threads : WF_vars(thread(t))
  /\ \A c \in Callers : WF_vars(caller(c))

-----------------------------------------------------------------------------
Pcs == {"absent", "enter", "born", "descriptor", "loop", "wait", "parse", "block",
        "store", "fetch", "reply", "ended"}

TypeOK ==
  /\ up \in BOOLEAN /\ queue \in Seq(Callers)
  /\ requested \in {0, 1} /\ started \in 0..MaxThreads /\ entered \in BOOLEAN
  /\ pc \in [Threads -> Pcs] /\ inbuf \in [Threads -> Seq({"SPAWN_LOOPER", "TRANSACTION"})]
  /\ cur \in [Threads -> Callers \cup {Nobody}]
  /\ local \in [Threads -> Nat] /\ rdata \in [Threads -> Nat \cup {-1}]
  /\ scope \in [Threads -> BOOLEAN] /\ creator \in [Threads -> Threads \cup {Nobody}]
  /\ arg \in [Threads -> {"none", "good", "garbage"}] /\ unspawned \in BOOLEAN /\ cnt \in Nat
  /\ cpc \in [Callers -> {"idle", "ioctl", "wait", "gone"}] /\ code \in [Callers -> Codes]
  /\ consumed \in [Callers -> BOOLEAN]
  /\ todo \in [Callers -> Seq([br : {"TRANSACTION_COMPLETE", "REPLY", "DEAD_REPLY"}, val : Int])]
  /\ ret \in [Callers -> Int] /\ calls \in [Callers -> Nat]
  /\ runs \in [Callers -> Nat] /\ told \in [Callers -> Int]

\* A call is executed at most once, however often binder_call goes round its
\* loop of ioctls.
AtMostOnce == \A c \in Callers : runs[c] <= 1

\* What binder_call returns is what the handler computed for this call, with
\* several handlers running at once.
OwnAnswer == \A c \in Callers : ret[c] # 0 => runs[c] = 1 /\ ret[c] = told[c]

\* A thread the driver asked for is being created, or pthread_create or the
\* write of BC_REGISTER_LOOPER failed (neither result is looked at): the request
\* does not get lost otherwise, so the pool can grow again.
SpawnAccounted ==
  up /\ requested = 1 =>
    \/ unspawned
    \/ \E t \in Threads :
         \/ \E k \in DOMAIN inbuf[t] : inbuf[t][k] = "SPAWN_LOOPER"
         \/ pc[t] \in {"born", "descriptor"}

\* The unlocked counter may repeat a number, never exceed the calls made.
CountInRange ==
  \A c \in Callers :
    told[c] <= Cardinality({x \in Callers \X (1..MaxCalls) : x[2] <= calls[x[1]]})

\* "in new thread: ... enter binder_looper": a thread that was created gets
\* the descriptor it was created with.
SpawnedGetsArgs == \A u \in Loopers : arg[u] # "garbage"

\* The call as its caller sees it ...
phase == [c \in Callers |-> IF cpc[c] \in {"ioctl", "wait"} THEN "open" ELSE cpc[c]]

\* ... and what it was executed with, once its handler has come to an end.
val == [c \in Callers |-> IF told[c] = -1 /\ code[c] # "UNKNOWN" THEN 0 ELSE told[c]]

C == INSTANCE Calls

\* The pool implements Calls: between the two ioctls of binder_call its call
\* is executed at one instant or never, by a server that is still there, and
\* what it returns is what that execution computed.
ImplementsCalls == C!Spec

\* Every call returns: with an answer, or an error once the server is gone.
CallsReturn == \A c \in Callers : cpc[c] \in {"ioctl", "wait"} ~> cpc[c] \in {"idle", "gone"}
=============================================================================
