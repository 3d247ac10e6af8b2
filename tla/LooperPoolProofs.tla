---------------------------- MODULE LooperPoolProofs ----------------------------
(***************************************************************************)
(* A server's pool of threads executes a call at most once and answers it  *)
(* with its own result, counts no more calls than were made, and loses no  *)
(* thread the driver asked for, for any sets of threads and callers.       *)
(***************************************************************************)
EXTENDS LooperPool, FiniteSetTheorems, SequenceTheorems, TLAPS

Busy == {"parse", "block", "store", "fetch", "reply"}
T1 == <<"TRANSACTION">>
S2 == <<"SPAWN_LOOPER", "TRANSACTION">>

\* What a thread has to parse and to answer follows from where it is.
ThreadInv ==
  \A t \in Threads :
    /\ cur[t] # Nobody <=> pc[t] \in Busy
    /\ pc[t] = "parse" => inbuf[t] \in {T1, S2}
    /\ pc[t] = "block" => inbuf[t] = T1
    /\ pc[t] \notin {"parse", "block"} => inbuf[t] = <<>>
    /\ ~up => pc[t] = "absent"

\* A thread that was asked for, from BR_SPAWN_LOOPER to BC_REGISTER_LOOPER.
Coming(t) == inbuf[t] = S2 \/ pc[t] \in {"born", "descriptor"}

\* The request for a thread is in one place.
SpawnInv ==
  /\ \A t, u \in Threads : Coming(t) /\ Coming(u) => t = u
  /\ unspawned => \A t \in Threads : ~Coming(t)
  /\ requested = IF unspawned \/ \E t \in Threads : Coming(t) THEN 1 ELSE 0
  /\ started + requested <= MaxThreads

InQueue(c) == \E i \in 1..Len(queue) : queue[i] = c
At(t, c) == cur[t] = c
Pending(c) == InQueue(c) \/ \E t \in Threads : At(t, c)

\* A call is in the queue once, or with one thread, which has run the handler
\* for it or not.
RouteInv ==
  /\ \A i, j \in 1..Len(queue) : queue[i] = queue[j] => i = j
  /\ \A t, u \in Threads : cur[t] = cur[u] /\ cur[t] # Nobody => t = u
  /\ \A c \in Callers : InQueue(c) => runs[c] = 0 /\ \A t \in Threads : ~At(t, c)
  /\ \A t \in Threads :
       cur[t] # Nobody => /\ runs[cur[t]] = IF pc[t] \in {"parse", "block"} THEN 0 ELSE 1
                          /\ pc[t] = "reply" => rdata[t] = told[cur[t]]
  /\ ~up => queue = <<>>

\* What a caller has to expect: nothing while it makes no call, no answer but
\* its own, and none while its call is under way.
CallerOK(c) ==
  /\ cpc[c] = "idle" => ~Pending(c) /\ todo[c] = <<>>
  /\ cpc[c] = "ioctl" /\ ~consumed[c] => ~Pending(c) /\ todo[c] = <<>> /\ runs[c] = 0
  /\ cpc[c] = "wait" => consumed[c]
  /\ cpc[c] = "gone" => todo[c] = <<>>
  /\ \A k \in 1..Len(todo[c]) :
       todo[c][k].br = "REPLY" => ~Pending(c) /\ runs[c] = 1 /\ todo[c][k].val = told[c]
  /\ \A j, k \in 1..Len(todo[c]) :
       todo[c][j].br = "DEAD_REPLY" => ~up /\ todo[c][k].br # "REPLY"
  /\ ret[c] # 0 => cpc[c] = "idle" /\ runs[c] = 1 /\ ret[c] = told[c]
  /\ runs[c] <= 1 /\ calls[c] <= MaxCalls
  /\ cpc[c] # "idle" => calls[c] >= 1

CallerInv == \A c \in Callers : CallerOK(c)

\* The present call of c has not stored the counter yet.
Uncounted(c) ==
  \/ cpc[c] = "ioctl" /\ ~consumed[c]
  \/ InQueue(c)
  \/ \E t \in Threads : At(t, c) /\ pc[t] \in {"parse", "block", "store"}

Counted == {x \in Callers \X (1..MaxCalls) :
             x[2] <= calls[x[1]] /\ ~(x[2] = calls[x[1]] /\ Uncounted(x[1]))}

\* No copy of the counter exceeds the calls whose handler has stored it.
CountInv ==
  /\ cnt <= Cardinality(Counted)
  /\ \A t \in Threads : local[t] <= Cardinality(Counted)
  /\ \A c \in Callers : told[c] <= Cardinality(Counted)

IInv == TypeOK /\ ThreadInv /\ SpawnInv /\ RouteInv /\ CallerInv /\ CountInv

-----------------------------------------------------------------------------
(* Counting *)

LEMMA CallsFinite ==
  ASSUME NEW S, S \subseteq Callers \X (1..MaxCalls)
  PROVE  IsFiniteSet(S) /\ Cardinality(S) \in Nat
  <1>1. IsFiniteSet(1..MaxCalls) BY FS_Interval, PoolAssumption
  <1>2. IsFiniteSet(Callers \X (1..MaxCalls)) BY <1>1, FS_Product, PoolAssumption
  <1>3. IsFiniteSet(S) BY <1>2, FS_Subset
  <1> QED BY <1>3, FS_CardinalityType

LEMMA CountedSize ==
  /\ IsFiniteSet(Counted) /\ Cardinality(Counted) \in Nat
  /\ IsFiniteSet(Counted') /\ Cardinality(Counted') \in Nat
  /\ Counted \subseteq Counted' => Cardinality(Counted) <= Cardinality(Counted')
  <1>1. Counted \subseteq Callers \X (1..MaxCalls) BY DEF Counted
  <1>2. Counted' \subseteq Callers \X (1..MaxCalls) BY DEF Counted
  <1> QED BY <1>1, <1>2, CallsFinite, FS_Subset

\* A step that uncounts nothing and makes no counter exceed those counted.
LEMMA CountKept ==
  ASSUME IInv, TypeOK', calls' = calls,
         \A c \in Callers : Uncounted(c)' => Uncounted(c),
         cnt' \in {0, cnt},
         \A t \in Threads : local'[t] \in {0, cnt, local[t]},
         \A c \in Callers : told'[c] \in {-1, cnt, told[c]}
  PROVE  CountInv'
  <1>1. Counted \subseteq Counted' BY DEF Counted
  <1>2. PICK m \in Nat, n \in Nat : m = Cardinality(Counted) /\ n = Cardinality(Counted') /\ m <= n
        BY <1>1, CountedSize
  <1>3. cnt <= m /\ (\A t \in Threads : local[t] <= m) /\ (\A c \in Callers : told[c] <= m)
        BY <1>2 DEF IInv, CountInv
  <1>4. cnt \in Nat /\ (\A t \in Threads : local[t] \in Nat) /\ (\A c \in Callers : told[c] \in Int)
        BY DEF IInv, TypeOK
  <1>5. cnt' <= n BY <1>2, <1>3, <1>4
  <1>6. \A t \in Threads : local'[t] <= n BY <1>2, <1>3, <1>4
  <1>7. \A c \in Callers : told'[c] <= n BY <1>2, <1>3, <1>4
  <1> QED BY <1>2, <1>5, <1>6, <1>7 DEF CountInv

-----------------------------------------------------------------------------
(* The queue *)

LEMMA QueueAppend ==
  ASSUME queue \in Seq(Callers), NEW c \in Callers, queue' = Append(queue, c)
  PROVE  /\ queue' \in Seq(Callers)
         /\ \A d : InQueue(d)' <=> InQueue(d) \/ d = c
         /\ (\A i, j \in 1..Len(queue) : queue[i] = queue[j] => i = j) /\ ~InQueue(c) =>
              \A i, j \in 1..Len(queue') : queue'[i] = queue'[j] => i = j
  <1>1. queue' \in Seq(Callers) /\ Len(queue') = Len(queue) + 1 /\ Len(queue) \in Nat OBVIOUS
  <1>2. \A i \in 1..Len(queue') : queue'[i] = IF i = Len(queue) + 1 THEN c ELSE queue[i] OBVIOUS
  <1>3. \A d : InQueue(d)' <=> InQueue(d) \/ d = c BY <1>1, <1>2 DEF InQueue
  <1> QED BY <1>1, <1>2, <1>3 DEF InQueue

LEMMA QueueHead ==
  ASSUME queue \in Seq(Callers), queue # <<>>, queue' = Tail(queue),
         \A i, j \in 1..Len(queue) : queue[i] = queue[j] => i = j
  PROVE  /\ queue' \in Seq(Callers) /\ Head(queue) \in Callers /\ InQueue(Head(queue))
         /\ \A d : InQueue(d)' <=> InQueue(d) /\ d # Head(queue)
         /\ \A i, j \in 1..Len(queue') : queue'[i] = queue'[j] => i = j
  <1>1. /\ queue' \in Seq(Callers) /\ Len(queue) \in Nat \ {0} /\ Len(queue') = Len(queue) - 1
        /\ Head(queue) = queue[1] /\ queue[1] \in Callers
        OBVIOUS
  <1>2. \A i \in 1..Len(queue') : queue'[i] = queue[i + 1] OBVIOUS
  <1>3. \A d : InQueue(d)' <=> InQueue(d) /\ d # Head(queue)
    <2> SUFFICES ASSUME NEW d PROVE InQueue(d)' <=> InQueue(d) /\ d # Head(queue) OBVIOUS
    <2>1. ASSUME InQueue(d)' PROVE InQueue(d) /\ d # Head(queue)
      <3>1. PICK i \in 1..Len(queue') : queue'[i] = d BY <2>1 DEF InQueue
      <3>2. i + 1 \in 1..Len(queue) /\ queue[i + 1] = d /\ i + 1 # 1 /\ 1 \in 1..Len(queue)
            BY <1>1, <1>2, <3>1
      <3> QED BY <3>2, <1>1 DEF InQueue
    <2>2. ASSUME InQueue(d), d # Head(queue) PROVE InQueue(d)'
      <3>1. PICK i \in 1..Len(queue) : queue[i] = d BY <2>2 DEF InQueue
      <3>2. i - 1 \in 1..Len(queue') BY <2>2, <3>1, <1>1
      <3>3. queue'[i - 1] = queue[i] BY <3>1, <3>2, <1>1, <1>2
      <3> QED BY <3>1, <3>2, <3>3 DEF InQueue
    <2> QED BY <2>1, <2>2
  <1>4. \A i, j \in 1..Len(queue') : queue'[i] = queue'[j] => i = j
    <2> TAKE i, j \in 1..Len(queue')
    <2>1. i + 1 \in 1..Len(queue) /\ j + 1 \in 1..Len(queue) BY <1>1
    <2> QED BY <2>1, <1>1, <1>2
  <1>5. InQueue(Head(queue)) BY <1>1 DEF InQueue
  <1> QED BY <1>1, <1>3, <1>4, <1>5

-----------------------------------------------------------------------------
(* Steps of the threads that touch neither the calls nor the counter *)

LEMMA InitIInv == Init => IInv
  <1> SUFFICES ASSUME Init PROVE IInv OBVIOUS
  <1> USE PoolAssumption DEF Init, All
  <1>1. TypeOK
    <2>1. pc \in [Threads -> Pcs] BY DEF Threads, Pcs
    <2>2. inbuf \in [Threads -> Seq({"SPAWN_LOOPER", "TRANSACTION"})] OBVIOUS
    <2>3. todo \in [Callers -> Seq([br : {"TRANSACTION_COMPLETE", "REPLY", "DEAD_REPLY"}, val : Int])]
          OBVIOUS
    <2>4. up \in BOOLEAN /\ unspawned \in BOOLEAN /\ entered \in BOOLEAN OBVIOUS
    <2>7. queue \in Seq(Callers) OBVIOUS
    <2>8. requested \in {0, 1} /\ started \in 0..MaxThreads /\ cnt \in Nat OBVIOUS
    <2>5. /\ cur \in [Threads -> Callers \cup {Nobody}]
          /\ local \in [Threads -> Nat] /\ rdata \in [Threads -> Nat \cup {-1}]
          /\ scope \in [Threads -> BOOLEAN] /\ creator \in [Threads -> Threads \cup {Nobody}]
          /\ arg \in [Threads -> {"none", "good", "garbage"}]
          OBVIOUS
    <2>6. /\ cpc \in [Callers -> {"idle", "ioctl", "wait", "gone"}] /\ code \in [Callers -> Codes]
          /\ consumed \in [Callers -> BOOLEAN]
          /\ ret \in [Callers -> Int] /\ calls \in [Callers -> Nat]
          /\ runs \in [Callers -> Nat] /\ told \in [Callers -> Int]
          BY DEF Codes
    <2> QED BY <2>1, <2>2, <2>3, <2>4, <2>5, <2>6, <2>7, <2>8 DEF TypeOK
  <1>2. ThreadInv BY DEF ThreadInv, Busy, Threads
  <1>3. \A t \in Threads : ~Coming(t) BY DEF Coming, S2, Threads
  <1>4. SpawnInv BY <1>3 DEF SpawnInv
  <1>5. RouteInv BY DEF RouteInv, InQueue, Threads
  <1>6. CallerInv BY DEF CallerInv, CallerOK, Pending, InQueue, At
  <1>7. CountInv BY CountedSize DEF CountInv
  <1> QED BY <1>1, <1>2, <1>4, <1>5, <1>6, <1>7 DEF IInv

\* Every thread stays where it is with its transaction, or goes in and out of
\* the case block.
LEMMA QuietThread ==
  ASSUME IInv, TypeOK', UNCHANGED <<up, queue, cur, local, rdata, cnt, callers, todo, history>>,
         \A t \in Threads : cur[t] # Nobody => \/ pc'[t] = pc[t]
                                               \/ {pc[t], pc'[t]} \subseteq {"parse", "block"}
  PROVE  RouteInv' /\ CallerInv' /\ CountInv'
  <1> USE DEF IInv
  <1>1. \A c : InQueue(c)' <=> InQueue(c) BY DEF InQueue
  <1>2. \A c : Pending(c)' <=> Pending(c) BY <1>1 DEF Pending, At
  <1>3. \A t \in Threads : cur[t] # Nobody =>
          /\ pc'[t] \in {"parse", "block"} <=> pc[t] \in {"parse", "block"}
          /\ pc'[t] = "reply" => pc[t] = "reply"
          /\ pc'[t] = "store" => pc[t] = "store"
        OBVIOUS
  <1>4. RouteInv' BY <1>1, <1>3 DEF RouteInv, At, history
  <1>5. CallerInv' BY <1>2 DEF CallerInv, CallerOK, callers, history
  <1>6. ASSUME NEW c \in Callers, Uncounted(c)' PROVE Uncounted(c)
        BY <1>1, <1>3, <1>6, PoolAssumption DEF Uncounted, At, callers
  <1>7. CountInv' BY <1>6, CountKept DEF callers, history
  <1> QED BY <1>4, <1>5, <1>7

LEMMA InLoop ==
  /\ Main \in Threads /\ Loopers \subseteq Threads
  /\ T1 # S2 /\ T1 # <<>> /\ S2 # <<>> /\ Head(T1) = "TRANSACTION" /\ Head(S2) = "SPAWN_LOOPER"
  /\ Tail(S2) = T1 /\ Tail(T1) = <<>>
  BY DEF Threads, T1, S2

\* One thread goes on; the request for another one stays where it was.
LEMMA PlainStep ==
  ASSUME IInv, NEW t \in Threads,
         (t = Main /\ EnterLoop) \/ ReadArg(t) \/ Wait(t) \/ LeaveBlock(t)
  PROVE  IInv'
  <1> USE InLoop DEF IInv
  <1>1. /\ UNCHANGED <<up, queue, requested, started, inbuf, cur, local, rdata, creator, unspawned,
                       cnt, callers, todo, history>>
        /\ entered' \in BOOLEAN
        BY DEF EnterLoop, ReadArg, Wait, LeaveBlock, pool, TypeOK
  <1>2. /\ up /\ pc' = [pc EXCEPT ![t] = pc'[t]]
        /\ \/ pc[t] = "enter" /\ pc'[t] = "loop"
           \/ pc[t] = "born" /\ pc'[t] = "descriptor"
           \/ pc[t] = "loop" /\ pc'[t] = "wait"
           \/ pc[t] = "block" /\ pc'[t] = "parse"
    <2>0. pc \in [Threads -> Pcs] BY DEF TypeOK
    <2>1. CASE EnterLoop /\ t = Main BY <2>0, <2>1 DEF EnterLoop, Goto
    <2>2. CASE ReadArg(t) BY <2>0, <2>2 DEF ReadArg, Goto
    <2>3. CASE Wait(t) BY <2>0, <2>3 DEF Wait, Goto
    <2>4. CASE LeaveBlock(t) BY <2>0, <2>4 DEF LeaveBlock, Goto
    <2> QED BY <2>1, <2>2, <2>3, <2>4
  <1>3. scope' \in [Threads -> BOOLEAN] /\ arg' \in [Threads -> {"none", "good", "garbage"}]
        BY DEF EnterLoop, ReadArg, Wait, LeaveBlock, TypeOK
  <1>4. TypeOK'
    <2>1. pc'[t] \in Pcs BY <1>2 DEF Pcs
    <2>2. pc' \in [Threads -> Pcs] BY <2>1, <1>2 DEF TypeOK
    <2> QED BY <2>2, <1>1, <1>3 DEF TypeOK, callers, history
  <1>5. \A u \in Threads : u # t => pc'[u] = pc[u] BY <1>2 DEF TypeOK
  <1>6. ThreadInv' BY <1>1, <1>2, <1>5 DEF ThreadInv, Busy
  <1>7. \A u \in Threads : Coming(u)' <=> Coming(u) BY <1>1, <1>2, <1>5 DEF Coming
  <1>8. SpawnInv' BY <1>1, <1>7 DEF SpawnInv
  <1>9. RouteInv' /\ CallerInv' /\ CountInv'
    <2>1. \A u \in Threads : cur[u] # Nobody => \/ pc'[u] = pc[u]
                                               \/ {pc[u], pc'[u]} \subseteq {"parse", "block"}
          BY <1>2, <1>5 DEF ThreadInv, Busy
    <2> QED BY <2>1, <1>1, <1>4, QuietThread
  <1> QED BY <1>4, <1>6, <1>8, <1>9

LEMMA RegisterIInv ==
  ASSUME IInv, NEW u \in Loopers, Register(u)
  PROVE  IInv'
  <1> USE InLoop DEF IInv
  <1>1. /\ UNCHANGED <<up, queue, entered, inbuf, cur, local, rdata, scope, cnt, callers, todo, history>>
        /\ up /\ pc[u] = "descriptor" /\ pc' = [pc EXCEPT ![u] = "loop"]
        /\ arg' = [arg EXCEPT ![u] = "none"] /\ creator' = [creator EXCEPT ![u] = Nobody]
        BY DEF Register, Goto
  <1>2. Coming(u) /\ requested = 1 /\ ~unspawned BY <1>1 DEF Coming, SpawnInv
  <1>3. /\ requested' = (IF unspawned' THEN 1 ELSE 0) /\ unspawned' \in BOOLEAN
        /\ started' \in 0..MaxThreads /\ started' + requested' <= MaxThreads
    <2>1. requested = 1 /\ started \in Nat /\ started + requested <= MaxThreads
          BY <1>2 DEF SpawnInv, TypeOK
    <2>2. CASE requested' = requested - 1 /\ started' = started + 1 /\ UNCHANGED unspawned
      <3>1. ~unspawned' /\ unspawned' \in BOOLEAN BY <2>2, <1>2 DEF TypeOK
      <3>2. requested' = 0 /\ started' \in 0..MaxThreads /\ started' + requested' <= MaxThreads
            BY <2>1, <2>2, PoolAssumption
      <3> QED BY <3>1, <3>2
    <2>3. CASE unspawned' = TRUE /\ UNCHANGED <<requested, started>>
          BY <2>1, <2>3, PoolAssumption
    <2> QED BY <2>2, <2>3 DEF Register
  <1>4. TypeOK' BY <1>1, <1>3 DEF TypeOK, callers, history, Pcs
  <1>5. pc'[u] = "loop" /\ \A t \in Threads : t # u => pc'[t] = pc[t] BY <1>1 DEF TypeOK
  <1>6. ThreadInv' BY <1>1, <1>5 DEF ThreadInv, Busy
  <1>7. \A t \in Threads : ~Coming(t)'
    <2>1. inbuf[u] = <<>> BY <1>1 DEF ThreadInv
    <2> QED BY <2>1, <1>1, <1>2, <1>5 DEF Coming, SpawnInv
  <1>8. SpawnInv' BY <1>3, <1>7 DEF SpawnInv
  <1>9. RouteInv' /\ CallerInv' /\ CountInv'
    <2>1. cur[u] = Nobody BY <1>1 DEF ThreadInv, Busy
    <2> QED BY <2>1, <1>1, <1>4, <1>5, QuietThread
  <1> QED BY <1>4, <1>6, <1>8, <1>9

LEMMA SpawnIInv ==
  ASSUME IInv, NEW t \in Threads, Spawn(t)
  PROVE  IInv'
  <1> USE InLoop DEF IInv
  <1>1. /\ UNCHANGED <<up, queue, pool, cur, local, rdata, arg, cnt, callers, todo, history>>
        /\ up /\ pc[t] = "parse" /\ inbuf[t] # <<>> /\ Head(inbuf[t]) = "SPAWN_LOOPER"
        /\ scope' = [scope EXCEPT ![t] = TRUE] /\ inbuf' = [inbuf EXCEPT ![t] = Tail(@)]
        BY DEF Spawn
  <1>2. inbuf[t] = S2 BY <1>1 DEF ThreadInv
  <1>3. inbuf'[t] = T1 /\ \A v \in Threads : v # t => inbuf'[v] = inbuf[v] BY <1>1, <1>2 DEF TypeOK
  <1>4. inbuf' \in [Threads -> Seq({"SPAWN_LOOPER", "TRANSACTION"})]
    <2>1. T1 \in Seq({"SPAWN_LOOPER", "TRANSACTION"}) BY DEF T1
    <2> QED BY <2>1, <1>1, <1>2 DEF TypeOK
  <1>5. Coming(t) /\ requested = 1 /\ ~unspawned BY <1>2 DEF Coming, SpawnInv
  <1>6. \A v \in Threads : v # t => ~Coming(v) BY <1>5 DEF SpawnInv
  <1>7. cur[t] # Nobody BY <1>1 DEF ThreadInv, Busy
  <1>8. ASSUME NEW u \in Loopers, pc[u] = "absent", pc' = [pc EXCEPT ![t] = "block", ![u] = "born"],
               creator' = [creator EXCEPT ![u] = t], UNCHANGED unspawned
        PROVE  IInv'
    <2>1. u # t /\ pc'[t] = "block" /\ pc'[u] = "born"
          /\ \A v \in Threads : v \notin {t, u} => pc'[v] = pc[v]
          BY <1>1, <1>8 DEF TypeOK
    <2>2. TypeOK' BY <1>1, <1>4, <1>8 DEF TypeOK, pool, callers, history, Pcs
    <2>3. cur[u] = Nobody /\ inbuf[u] = <<>> BY <1>8 DEF ThreadInv, Busy
    <2>4. ThreadInv'
      <3> SUFFICES ASSUME NEW v \in Threads
                   PROVE  /\ cur[v] # Nobody <=> pc'[v] \in Busy
                          /\ pc'[v] = "parse" => inbuf'[v] \in {T1, S2}
                          /\ pc'[v] = "block" => inbuf'[v] = T1
                          /\ pc'[v] \notin {"parse", "block"} => inbuf'[v] = <<>>
          BY <1>1 DEF ThreadInv
      <3>1. CASE v = t BY <3>1, <2>1, <1>3, <1>7 DEF Busy
      <3>2. CASE v = u BY <3>2, <2>1, <2>3, <1>3 DEF Busy
      <3>3. CASE v \notin {t, u} BY <3>3, <2>1, <1>3 DEF ThreadInv
      <3> QED BY <3>1, <3>2, <3>3
    <2>5. \A v \in Threads : Coming(v)' <=> v = u
      <3> TAKE v \in Threads
      <3>1. CASE v = t BY <3>1, <2>1, <1>3 DEF Coming
      <3>2. CASE v = u BY <3>2, <2>1 DEF Coming
      <3>3. CASE v \notin {t, u} BY <3>3, <2>1, <1>3, <1>6 DEF Coming
      <3> QED BY <3>1, <3>2, <3>3
    <2>6. SpawnInv' BY <2>5, <1>1, <1>5, <1>8 DEF SpawnInv, pool
    <2>7. RouteInv' /\ CallerInv' /\ CountInv'
          BY <2>1, <2>2, <2>3, <1>1, QuietThread
    <2> QED BY <2>2, <2>4, <2>6, <2>7
  <1>9. ASSUME pc' = [pc EXCEPT ![t] = "block"], unspawned' = TRUE, UNCHANGED creator
        PROVE  IInv'
    <2>1. pc'[t] = "block" /\ \A v \in Threads : v # t => pc'[v] = pc[v] BY <1>9 DEF TypeOK
    <2>2. TypeOK' BY <1>1, <1>4, <1>9 DEF TypeOK, pool, callers, history, Pcs
    <2>3. ThreadInv' BY <2>1, <1>1, <1>3, <1>7 DEF ThreadInv, Busy
    <2>4. \A v \in Threads : ~Coming(v)' BY <2>1, <1>3, <1>6 DEF Coming
    <2>5. SpawnInv' BY <2>4, <1>1, <1>5, <1>9 DEF SpawnInv, pool
    <2>6. RouteInv' /\ CallerInv' /\ CountInv'
          BY <2>1, <2>2, <1>1, QuietThread
    <2> QED BY <2>2, <2>3, <2>5, <2>6
  <1> QED BY <1>8, <1>9 DEF Spawn

-----------------------------------------------------------------------------
(* binder_call *)

\* A step of caller c alone: the server, the queue and the other callers' calls
\* stay as they are.
LEMMA ServerQuiet ==
  ASSUME IInv, UNCHANGED <<up, pool, server>>
  PROVE  ThreadInv' /\ SpawnInv'
  <1>1. ThreadInv' BY DEF IInv, ThreadInv, server
  <1>2. SpawnInv' BY DEF IInv, SpawnInv, Coming, server, pool
  <1> QED BY <1>1, <1>2

LEMMA CallerKept ==
  ASSUME IInv, NEW c \in Callers, Pending(c)' => Pending(c),
         UNCHANGED <<up, cpc[c], consumed[c], todo[c], ret[c], calls[c], runs[c], told[c]>>
  PROVE  CallerOK(c)'
  BY DEF IInv, CallerInv, CallerOK

LEMMA CallIInv ==
  ASSUME IInv, NEW c \in Callers, NEW k \in Codes, Call(c, k)
  PROVE  IInv'
  <1> USE DEF IInv
  <1>1. /\ cpc[c] = "idle" /\ calls[c] < MaxCalls
        /\ cpc' = [cpc EXCEPT ![c] = "ioctl"] /\ code' = [code EXCEPT ![c] = k]
        /\ consumed' = [consumed EXCEPT ![c] = FALSE]
        /\ calls' = [calls EXCEPT ![c] = @ + 1] /\ ret' = [ret EXCEPT ![c] = 0]
        /\ runs' = [runs EXCEPT ![c] = 0] /\ told' = [told EXCEPT ![c] = 0]
        /\ UNCHANGED <<up, queue, pool, server, todo>>
        BY DEF Call
  <1>2. TypeOK' BY <1>1, SMTT(30) DEF TypeOK, pool, server
  <1>3. ThreadInv' /\ SpawnInv' BY <1>1, ServerQuiet
  <1>4. ~Pending(c) /\ todo[c] = <<>> BY <1>1 DEF CallerInv, CallerOK
  <1>5. \A d : /\ InQueue(d)' <=> InQueue(d)
               /\ Pending(d)' <=> Pending(d)
        BY <1>1 DEF InQueue, Pending, At, server
  <1>6. \A d \in Callers : d # c => UNCHANGED <<cpc[d], consumed[d], calls[d], ret[d], runs[d], told[d]>>
        BY <1>1 DEF TypeOK
  <1>7. /\ cpc'[c] = "ioctl" /\ ~consumed'[c] /\ calls'[c] = calls[c] + 1 /\ ret'[c] = 0
        /\ runs'[c] = 0 /\ told'[c] = 0
        BY <1>1 DEF TypeOK
  <1>8. RouteInv'
    <2>1. \A t \in Threads : cur[t] # Nobody => cur[t] \in Callers /\ cur[t] # c
          BY <1>4 DEF Pending, At, TypeOK
    <2> QED BY <2>1, <1>1, <1>4, <1>5, <1>6 DEF RouteInv, Pending, At, server
  <1>9. CallerInv'
    <2>1. CallerOK(c)' BY <1>1, <1>4, <1>5, <1>7, PoolAssumption DEF CallerOK, TypeOK
    <2>2. ASSUME NEW d \in Callers, d # c PROVE CallerOK(d)'
          BY <2>2, <1>1, <1>5, <1>6, CallerKept
    <2> QED BY <2>1, <2>2 DEF CallerInv
  <1>10. CountInv'
    <2>1. Counted \subseteq Counted'
      <3> SUFFICES ASSUME NEW x \in Counted PROVE x \in Counted' OBVIOUS
      <3>1. x \in Callers \X (1..MaxCalls) /\ x[1] \in Callers /\ x[2] \in 1..MaxCalls /\ x[2] <= calls[x[1]]
            BY DEF Counted
      <3>2. CASE x[1] = c
        <4>1. x[2] <= calls'[x[1]] /\ x[2] # calls'[x[1]] BY <3>1, <3>2, <1>7 DEF TypeOK
        <4> QED BY <3>1, <4>1 DEF Counted
      <3>3. CASE x[1] # c
        <4>1. calls'[x[1]] = calls[x[1]] /\ (Uncounted(x[1])' => Uncounted(x[1]))
              BY <3>1, <3>3, <1>1, <1>5, <1>6 DEF Uncounted, At, server
        <4> QED BY <3>1, <4>1 DEF Counted
      <3> QED BY <3>2, <3>3
    <2>2. PICK m \in Nat, n \in Nat : m = Cardinality(Counted) /\ n = Cardinality(Counted') /\ m <= n
          BY <2>1, CountedSize
    <2>3. cnt <= m /\ (\A t \in Threads : local[t] <= m) /\ (\A d \in Callers : told[d] <= m)
          BY <2>2 DEF CountInv
    <2>4. cnt \in Nat /\ (\A t \in Threads : local[t] \in Nat) /\ (\A d \in Callers : told[d] \in Int)
          BY DEF TypeOK
    <2>5. cnt' <= n /\ \A t \in Threads : local'[t] <= n BY <2>2, <2>3, <2>4, <1>1 DEF server
    <2>6. \A d \in Callers : told'[d] <= n BY <2>2, <2>3, <2>4, <1>6, <1>7
    <2> QED BY <2>2, <2>5, <2>6 DEF CountInv
  <1> QED BY <1>2, <1>3, <1>8, <1>9, <1>10

LEMMA CallIoctlIInv ==
  ASSUME IInv, NEW c \in Callers, CallIoctl(c)
  PROVE  IInv'
  <1> USE DEF IInv
  <1>1. /\ cpc[c] = "ioctl" /\ cpc' = [cpc EXCEPT ![c] = "wait"]
        /\ consumed' = [consumed EXCEPT ![c] = TRUE]
        /\ UNCHANGED <<up, pool, server, code, ret, calls, history>>
        BY DEF CallIoctl
  <1>2. \/ consumed[c] /\ UNCHANGED <<queue, todo>>
        \/ /\ ~consumed[c] /\ up /\ queue' = Append(queue, c)
           /\ todo' = [todo EXCEPT ![c] = Append(@, COMPLETE)]
        \/ /\ ~consumed[c] /\ ~up /\ queue' = queue
           /\ todo' = [todo EXCEPT ![c] = Append(@, DEAD)]
        BY DEF CallIoctl
  <1>3. /\ cpc'[c] = "wait" /\ consumed'[c]
        /\ \A d \in Callers : d # c => UNCHANGED <<cpc[d], consumed[d], todo[d]>>
    <2>1. cpc'[c] = "wait" /\ consumed'[c] /\ \A d \in Callers : d # c => UNCHANGED <<cpc[d], consumed[d]>>
          BY <1>1 DEF TypeOK
    <2>2. \A d \in Callers : d # c => UNCHANGED todo[d] BY <1>2 DEF TypeOK
    <2> QED BY <2>1, <2>2
  <1>4. ASSUME ~consumed[c] PROVE ~Pending(c) /\ todo[c] = <<>> /\ runs[c] = 0
        BY <1>1, <1>4 DEF CallerInv, CallerOK
  <1>5. /\ queue' \in Seq(Callers)
        /\ \A i, j \in 1..Len(queue') : queue'[i] = queue'[j] => i = j
        /\ \A d : InQueue(d)' <=> InQueue(d) \/ (d = c /\ ~consumed[c] /\ up)
    <2>1. CASE queue' = queue
      <3>1. ~(~consumed[c] /\ up)
        <4>1. queue \in Seq(Callers) BY DEF TypeOK
        <4>2. Append(queue, c) # queue BY <4>1
        <4> QED BY <2>1, <4>2, <1>2
      <3> QED BY <2>1, <3>1 DEF TypeOK, RouteInv, InQueue
    <2>2. CASE ~consumed[c] /\ up /\ queue' = Append(queue, c)
          BY <2>2, <1>4, QueueAppend DEF TypeOK, RouteInv, Pending
    <2> QED BY <2>1, <2>2, <1>2
  <1>6. \A d : d # c => (Pending(d)' <=> Pending(d)) BY <1>1, <1>5 DEF Pending, At, server
  <1>7. /\ todo' \in [Callers -> Seq([br : {"TRANSACTION_COMPLETE", "REPLY", "DEAD_REPLY"}, val : Int])]
        /\ ~consumed[c] => \A k \in 1..Len(todo'[c]) :
             todo'[c][k].br # "REPLY" /\ (todo'[c][k].br = "DEAD_REPLY" => ~up)
    <2>1. CASE consumed[c] BY <2>1, <1>2 DEF TypeOK
    <2>2. CASE ~consumed[c]
      <3>1. PICK b : todo' = [todo EXCEPT ![c] = Append(todo[c], b)] /\ (b = COMPLETE \/ (b = DEAD /\ ~up))
            BY <2>2, <1>2
      <3>2. /\ b \in [br : {"TRANSACTION_COMPLETE", "REPLY", "DEAD_REPLY"}, val : Int]
            /\ b.br # "REPLY" /\ (b.br = "DEAD_REPLY" => ~up)
        <4>1. CASE b = COMPLETE BY <4>1 DEF COMPLETE, BR
        <4>2. CASE b = DEAD /\ ~up BY <4>2 DEF DEAD, BR
        <4> QED BY <3>1, <4>1, <4>2
      <3>3. todo[c] = <<>> BY <1>4, <2>2
      <3>4. Append(todo[c], b) = <<b>> BY <3>3
      <3>5. <<b>> \in Seq([br : {"TRANSACTION_COMPLETE", "REPLY", "DEAD_REPLY"}, val : Int]) BY <3>2
      <3>6. todo' = [todo EXCEPT ![c] = <<b>>] BY <3>1, <3>4
      <3>7. todo'[c] = <<b>> BY <3>6 DEF TypeOK
      <3> QED BY <3>2, <3>5, <3>6, <3>7 DEF TypeOK
    <2> QED BY <2>1, <2>2
  <1>8. TypeOK' BY <1>1, <1>5, <1>7 DEF TypeOK, pool, server, history
  <1>9. ThreadInv' /\ SpawnInv' BY <1>1, ServerQuiet
  <1>10. RouteInv'
    <2>1. \A d \in Callers : InQueue(d)' => runs[d] = 0 /\ \A t \in Threads : ~At(t, d)
          BY <1>4, <1>5 DEF RouteInv, Pending
    <2>2. ~up => queue' = <<>> BY <1>2 DEF RouteInv
    <2> QED BY <2>1, <2>2, <1>1, <1>5 DEF RouteInv, At, server, history
  <1>11. CallerInv'
    <2>1. CallerOK(c)'
      <3>1. CASE consumed[c]
        <4>1. Pending(c)' => Pending(c) BY <3>1, <1>1, <1>5 DEF Pending, At, server
        <4>2. todo' = todo BY <3>1, <1>2
        <4> QED BY <4>1, <4>2, <3>1, <1>1, <1>3 DEF CallerInv, CallerOK, history
      <3>2. CASE ~consumed[c]
        <4>1. \A k \in 1..Len(todo'[c]) : todo'[c][k].br # "REPLY" /\ (todo'[c][k].br = "DEAD_REPLY" => ~up')
              BY <3>2, <1>1, <1>7
        <4> QED BY <4>1, <3>2, <1>1, <1>3 DEF CallerInv, CallerOK, history
      <3> QED BY <3>1, <3>2
    <2>2. ASSUME NEW d \in Callers, d # c PROVE CallerOK(d)'
          BY <2>2, <1>1, <1>3, <1>6, CallerKept DEF history
    <2> QED BY <2>1, <2>2 DEF CallerInv
  <1>12. CountInv'
    <2>1. ASSUME NEW d \in Callers, Uncounted(d)' PROVE Uncounted(d)
          BY <2>1, <1>1, <1>3, <1>5 DEF Uncounted, At, server
    <2> QED BY <2>1, <1>1, <1>8, CountKept DEF server, history
  <1> QED BY <1>8, <1>9, <1>10, <1>11, <1>12

LEMMA CallParseIInv ==
  ASSUME IInv, NEW c \in Callers, CallParse(c)
  PROVE  IInv'
  <1> USE DEF IInv
  <1> DEFINE returned == {todo[c][k] : k \in DOMAIN todo[c]}
             replies == {b \in returned : b.br = "REPLY"}
  <1>1. /\ cpc[c] = "wait" /\ todo[c] # <<>> /\ todo' = [todo EXCEPT ![c] = <<>>]
        /\ cpc' = [cpc EXCEPT ![c] = IF DEAD \in returned THEN "gone"
                                     ELSE IF replies # {} THEN "idle" ELSE "ioctl"]
        /\ ret' = [ret EXCEPT ![c] = IF replies # {} THEN (CHOOSE b \in replies : TRUE).val ELSE 0]
        /\ UNCHANGED <<up, queue, pool, server, code, consumed, calls, history>>
        BY DEF CallParse
  <1>2. consumed[c] /\ ret[c] = 0 /\ calls[c] >= 1 BY <1>1 DEF CallerInv, CallerOK
  <1>3. ASSUME replies # {}
        PROVE  /\ (CHOOSE b \in replies : TRUE).val = told[c] /\ ~Pending(c) /\ runs[c] = 1
    <2>1. PICK b : b = (CHOOSE x \in replies : TRUE) /\ b \in replies BY <1>3
    <2>2. PICK k \in DOMAIN todo[c] : b = todo[c][k] /\ b.br = "REPLY" BY <2>1
    <2>3. k \in 1..Len(todo[c]) BY <2>2 DEF TypeOK
    <2>4. b.val = told[c] /\ ~Pending(c) /\ runs[c] = 1 BY <2>2, <2>3 DEF CallerInv, CallerOK
    <2> QED BY <2>1, <2>4, Zenon
  <1>10. ASSUME replies # {}, DEAD \in returned PROVE FALSE
    <2>1. PICK k \in DOMAIN todo[c] : todo[c][k].br = "REPLY" BY <1>10
    <2>2. PICK j \in DOMAIN todo[c] : todo[c][j].br = "DEAD_REPLY" BY <1>10 DEF DEAD, BR
    <2>3. DOMAIN todo[c] = 1..Len(todo[c]) BY DEF TypeOK
    <2> QED BY <2>1, <2>2, <2>3 DEF CallerInv, CallerOK
  <1> HIDE DEF replies, returned
  <1>4. \A d : /\ InQueue(d)' <=> InQueue(d)
               /\ Pending(d)' <=> Pending(d)
        BY <1>1 DEF InQueue, Pending, At, server
  <1>5. TypeOK'
    <2>1. ret' \in [Callers -> Int] BY <1>1, <1>3 DEF TypeOK
    <2>2. <<>> \in Seq([br : {"TRANSACTION_COMPLETE", "REPLY", "DEAD_REPLY"}, val : Int]) OBVIOUS
    <2>3. todo' \in [Callers -> Seq([br : {"TRANSACTION_COMPLETE", "REPLY", "DEAD_REPLY"}, val : Int])]
          BY <2>2, <1>1 DEF TypeOK
    <2>4. cpc' \in [Callers -> {"idle", "ioctl", "wait", "gone"}] BY <1>1 DEF TypeOK
    <2> QED BY <2>1, <2>3, <2>4, <1>1 DEF TypeOK, pool, server, history
  <1>6. ThreadInv' /\ SpawnInv' BY <1>1, ServerQuiet
  <1>7. RouteInv' BY <1>1, <1>4 DEF RouteInv, At, server, history
  <1>8. /\ \A d \in Callers : d # c => UNCHANGED <<cpc[d], todo[d], ret[d]>>
        /\ cpc'[c] \in {"gone", "idle", "ioctl"} /\ todo'[c] = <<>>
        /\ cpc'[c] = "idle" => replies # {}
        /\ ret'[c] # 0 => replies # {} /\ ret'[c] = told[c]
    <2>1. \A d \in Callers : d # c => UNCHANGED <<cpc[d], todo[d], ret[d]>> BY <1>1 DEF TypeOK
    <2>2. cpc'[c] \in {"gone", "idle", "ioctl"} /\ todo'[c] = <<>> /\ (cpc'[c] = "idle" => replies # {})
          BY <1>1 DEF TypeOK
    <2>3. ret'[c] # 0 => replies # {} /\ ret'[c] = told[c] BY <1>1, <1>3 DEF TypeOK
    <2> QED BY <2>1, <2>2, <2>3
  <1>9. replies # {} => cpc'[c] = "idle" BY <1>1, <1>10 DEF TypeOK
  <1>11. CallerInv'
    <2>1. CallerOK(c)' BY <1>1, <1>2, <1>3, <1>4, <1>8, <1>9 DEF CallerInv, CallerOK, history
    <2>2. ASSUME NEW d \in Callers, d # c PROVE CallerOK(d)'
          BY <2>2, <1>1, <1>4, <1>8, CallerKept DEF history
    <2> QED BY <2>1, <2>2 DEF CallerInv
  <1>12. CountInv'
    <2>1. ASSUME NEW d \in Callers, Uncounted(d)' PROVE Uncounted(d)
          BY <2>1, <1>1, <1>2, <1>4, <1>8 DEF Uncounted, At, server
    <2> QED BY <2>1, <1>1, <1>5, CountKept DEF server, history
  <1> QED BY <1>5, <1>6, <1>7, <1>11, <1>12

LEMMA CallFailsIInv ==
  ASSUME IInv, NEW c \in Callers, CallFails(c)
  PROVE  IInv'
  <1> USE DEF IInv
  <1>1. /\ cpc[c] \in {"ioctl", "wait"} /\ cpc' = [cpc EXCEPT ![c] = "gone"]
        /\ todo' = [todo EXCEPT ![c] = <<>>]
        /\ UNCHANGED <<up, queue, pool, server, code, consumed, ret, calls, history>>
        BY DEF CallFails
  <1>2. \A d : /\ InQueue(d)' <=> InQueue(d)
               /\ Pending(d)' <=> Pending(d)
        BY <1>1 DEF InQueue, Pending, At, server
  <1>3. TypeOK'
    <2>1. <<>> \in Seq([br : {"TRANSACTION_COMPLETE", "REPLY", "DEAD_REPLY"}, val : Int]) OBVIOUS
    <2>2. todo' \in [Callers -> Seq([br : {"TRANSACTION_COMPLETE", "REPLY", "DEAD_REPLY"}, val : Int])]
          BY <2>1, <1>1 DEF TypeOK
    <2> QED BY <2>2, <1>1 DEF TypeOK, pool, server, history
  <1>4. ThreadInv' /\ SpawnInv' BY <1>1, ServerQuiet
  <1>5. RouteInv' BY <1>1, <1>2 DEF RouteInv, At, server, history
  <1>6. /\ cpc'[c] = "gone" /\ todo'[c] = <<>>
        /\ \A d \in Callers : d # c => UNCHANGED <<cpc[d], todo[d]>>
        BY <1>1 DEF TypeOK
  <1>7. CallerInv'
    <2>1. CallerOK(c)' BY <1>1, <1>6 DEF CallerInv, CallerOK, history
    <2>2. ASSUME NEW d \in Callers, d # c PROVE CallerOK(d)'
          BY <2>2, <1>1, <1>2, <1>6, CallerKept DEF history
    <2> QED BY <2>1, <2>2 DEF CallerInv
  <1>8. CountInv'
    <2>1. ASSUME NEW d \in Callers, Uncounted(d)' PROVE Uncounted(d)
          BY <2>1, <1>1, <1>2, <1>6 DEF Uncounted, At, server
    <2> QED BY <2>1, <1>1, <1>3, CountKept DEF server, history
  <1> QED BY <1>3, <1>4, <1>5, <1>7, <1>8

-----------------------------------------------------------------------------
(* Steps of the threads with a transaction *)

\* No caller's call changes hands by a step that leaves the callers alone.
LEMMA CallersKept ==
  ASSUME IInv, UNCHANGED <<up, callers, todo, history>>,
         \A c \in Callers : Pending(c)' => Pending(c)
  PROVE  CallerInv'
  BY DEF IInv, CallerInv, CallerOK, callers, history

LEMMA ReadIInv ==
  ASSUME IInv, NEW t \in Threads, Read(t)
  PROVE  IInv'
  <1> USE InLoop, PoolAssumption DEF IInv
  <1> DEFINE spawn == /\ entered /\ requested = 0 /\ started < MaxThreads
                      /\ \A u \in Threads \ {t} : pc[u] # "wait"
             c == Head(queue)
  <1>1. /\ queue # <<>> /\ up /\ pc[t] = "wait" /\ pc' = [pc EXCEPT ![t] = "parse"]
        /\ cur' = [cur EXCEPT ![t] = c] /\ queue' = Tail(queue)
        /\ inbuf' = [inbuf EXCEPT ![t] = IF spawn THEN S2 ELSE T1]
        /\ requested' = IF spawn THEN 1 ELSE requested
        /\ UNCHANGED <<up, started, entered, local, rdata, scope, creator, arg, unspawned, cnt, callers,
                       todo, history>>
        BY DEF Read, Goto, S2, T1
  <1>2. /\ queue' \in Seq(Callers) /\ c \in Callers /\ InQueue(c)
        /\ \A d : InQueue(d)' <=> InQueue(d) /\ d # c
        /\ \A i, j \in 1..Len(queue') : queue'[i] = queue'[j] => i = j
        BY <1>1, QueueHead DEF TypeOK, RouteInv
  <1>3. spawn => requested = 0 /\ started < MaxThreads OBVIOUS
  <1> HIDE DEF spawn, c
  <1>4. /\ pc'[t] = "parse" /\ cur'[t] = c /\ inbuf'[t] = IF spawn THEN S2 ELSE T1
        /\ \A u \in Threads : u # t => UNCHANGED <<pc[u], cur[u], inbuf[u]>>
        BY <1>1 DEF TypeOK
  <1>5. cur[t] = Nobody /\ c # Nobody /\ runs[c] = 0 /\ \A u \in Threads : ~At(u, c)
        BY <1>1, <1>2 DEF ThreadInv, Busy, RouteInv
  <1>6. TypeOK'
    <2>1. S2 \in Seq({"SPAWN_LOOPER", "TRANSACTION"}) /\ T1 \in Seq({"SPAWN_LOOPER", "TRANSACTION"})
          BY DEF S2, T1
    <2>2. inbuf' \in [Threads -> Seq({"SPAWN_LOOPER", "TRANSACTION"})] BY <2>1, <1>1 DEF TypeOK
    <2>3. pc' \in [Threads -> Pcs] BY <1>1 DEF TypeOK, Pcs
    <2>4. cur' \in [Threads -> Callers \cup {Nobody}] BY <1>1, <1>2 DEF TypeOK
    <2>5. requested' \in {0, 1} BY <1>1 DEF TypeOK
    <2> QED BY <2>2, <2>3, <2>4, <2>5, <1>1, <1>2 DEF TypeOK, callers, history
  <1>7. ThreadInv' BY <1>1, <1>4, <1>5 DEF ThreadInv, Busy
  <1>8. SpawnInv'
    <2>1. ~Coming(t) BY <1>1 DEF Coming, ThreadInv
    <2>2. Coming(t)' <=> spawn BY <1>4 DEF Coming
    <2>3. \A u \in Threads : u # t => (Coming(u)' <=> Coming(u)) BY <1>4 DEF Coming
    <2>4. CASE spawn
      <3>1. ~unspawned /\ \A u \in Threads : ~Coming(u) BY <2>4, <1>3 DEF SpawnInv
      <3>2. started' + requested' <= MaxThreads BY <2>4, <1>1, <1>3 DEF TypeOK
      <3> QED BY <2>2, <2>3, <2>4, <3>1, <3>2, <1>1 DEF SpawnInv
    <2>5. CASE ~spawn BY <2>1, <2>2, <2>3, <2>5, <1>1 DEF SpawnInv
    <2> QED BY <2>4, <2>5
  <1>9. RouteInv'
    <2>1. \A u, v \in Threads : cur'[u] = cur'[v] /\ cur'[u] # Nobody => u = v
          BY <1>4, <1>5 DEF RouteInv, At
    <2>2. \A d \in Callers : InQueue(d)' => runs[d] = 0 /\ \A u \in Threads : ~At(u, d)'
          BY <1>2, <1>4 DEF RouteInv, At
    <2>3. \A u \in Threads : cur'[u] # Nobody =>
            /\ runs[cur'[u]] = IF pc'[u] \in {"parse", "block"} THEN 0 ELSE 1
            /\ pc'[u] = "reply" => rdata[u] = told[cur'[u]]
          BY <1>4, <1>5 DEF RouteInv
    <2> QED BY <2>1, <2>2, <2>3, <1>1, <1>2 DEF RouteInv, history
  <1>10. \A d \in Callers : Pending(d)' => Pending(d)
         BY <1>2, <1>4 DEF Pending, At
  <1>11. CallerInv' BY <1>10, <1>1, CallersKept
  <1>12. CountInv'
    <2>1. ASSUME NEW d \in Callers, Uncounted(d)' PROVE Uncounted(d)
          BY <2>1, <1>1, <1>2, <1>4 DEF Uncounted, At, callers
    <2> QED BY <2>1, <1>1, <1>6, CountKept DEF callers, history
  <1> QED BY <1>6, <1>7, <1>8, <1>9, <1>11, <1>12

LEMMA HandleIInv ==
  ASSUME IInv, NEW t \in Threads, Handle(t), NEW c, c = cur[t]
  PROVE  IInv'
  <1> USE InLoop, PoolAssumption DEF IInv
  <1> DEFINE to == IF code[c] = "UNKNOWN" THEN "reply" ELSE "store"
  <1>1. /\ inbuf[t] # <<>> /\ Head(inbuf[t]) = "TRANSACTION"
        /\ up /\ pc[t] = "parse" /\ pc' = [pc EXCEPT ![t] = to]
        /\ inbuf' = [inbuf EXCEPT ![t] = Tail(inbuf[t])]
        /\ local' = [local EXCEPT ![t] = cnt] /\ rdata' = [rdata EXCEPT ![t] = -1]
        /\ runs' = [runs EXCEPT ![c] = runs[c] + 1] /\ told' = [told EXCEPT ![c] = -1]
        /\ UNCHANGED <<up, queue, pool, cur, scope, creator, arg, unspawned, cnt, callers, todo>>
        BY DEF Handle, Goto
  <1>2. to \in {"reply", "store"} OBVIOUS
  <1>3. inbuf[t] = T1 /\ Tail(inbuf[t]) = <<>> /\ c \in Callers /\ c # Nobody
        BY <1>1 DEF ThreadInv, Busy, TypeOK
  <1>4. runs[c] = 0 /\ ~InQueue(c) /\ Pending(c) BY <1>1, <1>3 DEF RouteInv, Pending, At
  <1> HIDE DEF to
  <1>5. /\ pc'[t] = to /\ inbuf'[t] = <<>> /\ local'[t] = cnt /\ rdata'[t] = -1
        /\ \A u \in Threads : u # t => UNCHANGED <<pc[u], inbuf[u], local[u], rdata[u]>>
        BY <1>1, <1>3 DEF TypeOK
  <1>6. /\ runs'[c] = 1 /\ told'[c] = -1
        /\ \A d \in Callers : d # c => UNCHANGED <<runs[d], told[d]>>
        BY <1>1, <1>3, <1>4 DEF TypeOK
  <1>7. TypeOK'
    <2>1. inbuf' \in [Threads -> Seq({"SPAWN_LOOPER", "TRANSACTION"})]
      <3>1. <<>> \in Seq({"SPAWN_LOOPER", "TRANSACTION"}) OBVIOUS
      <3> QED BY <3>1, <1>1, <1>3 DEF TypeOK
    <2>2. pc' \in [Threads -> Pcs] BY <1>1, <1>2 DEF TypeOK, Pcs
    <2>3. local' \in [Threads -> Nat] /\ rdata' \in [Threads -> Nat \cup {-1}] BY <1>1 DEF TypeOK
    <2>4. runs' \in [Callers -> Nat] /\ told' \in [Callers -> Int]
      <3>1. runs' = [runs EXCEPT ![c] = 1] BY <1>1, <1>4
      <3>2. told' = [told EXCEPT ![c] = -1] BY <1>1
      <3>3. runs' \in [Callers -> Nat] BY <3>1 DEF TypeOK
      <3>4. -1 \in Int OBVIOUS
      <3>5. told' \in [Callers -> Int] BY <3>2, <3>4 DEF TypeOK
      <3> QED BY <3>3, <3>5
    <2> QED BY <2>1, <2>2, <2>3, <2>4, <1>1 DEF TypeOK, pool, callers
  <1>8. ThreadInv' BY <1>1, <1>2, <1>3, <1>5 DEF ThreadInv, Busy
  <1>9. SpawnInv'
    <2>1. \A u \in Threads : Coming(u)' <=> Coming(u) BY <1>1, <1>2, <1>3, <1>5 DEF Coming
    <2> QED BY <2>1, <1>1 DEF SpawnInv, pool
  <1>10. \A d : /\ InQueue(d)' <=> InQueue(d)
                /\ Pending(d)' <=> Pending(d)
         BY <1>1 DEF InQueue, Pending, At
  <1>11. RouteInv'
    <2>1. \A u \in Threads : u # t /\ cur[u] # Nobody => cur[u] \in Callers /\ cur[u] # c
          BY <1>3 DEF RouteInv, TypeOK
    <2>2. \A d \in Callers : InQueue(d)' => runs'[d] = 0 /\ \A u \in Threads : ~At(u, d)'
          BY <1>1, <1>4, <1>6, <1>10 DEF RouteInv, At
    <2>3. \A u \in Threads : cur[u] # Nobody =>
            /\ runs'[cur[u]] = IF pc'[u] \in {"parse", "block"} THEN 0 ELSE 1
            /\ pc'[u] = "reply" => rdata'[u] = told'[cur[u]]
          BY <2>1, <1>2, <1>5, <1>6 DEF RouteInv
    <2> QED BY <2>2, <2>3, <1>1 DEF RouteInv
  <1>12. CallerInv'
    <2>1. CallerOK(c)'
      <3>1. CallerOK(c) BY <1>3 DEF CallerInv
      <3>2. Pending(c)' BY <1>4, <1>10
      <3>3. ret[c] = 0 BY <3>1, <1>4 DEF CallerOK
      <3>4. /\ cpc[c] # "idle" /\ ~(cpc[c] = "ioctl" /\ ~consumed[c])
            /\ \A k \in 1..Len(todo[c]) : todo[c][k].br # "REPLY"
            BY <3>1, <1>4 DEF CallerOK
      <3> QED BY <3>1, <3>2, <3>3, <3>4, <1>1, <1>6 DEF CallerOK, callers
    <2>2. ASSUME NEW d \in Callers, d # c PROVE CallerOK(d)'
          BY <2>2, <1>1, <1>6, <1>10, CallerKept DEF callers
    <2> QED BY <2>1, <2>2 DEF CallerInv
  <1>13. CountInv'
    <2>1. ASSUME NEW d \in Callers, Uncounted(d)' PROVE Uncounted(d)
          BY <2>1, <1>1, <1>2, <1>5, <1>10 DEF Uncounted, At, callers
    <2>2. \A u \in Threads : local'[u] \in {0, cnt, local[u]} BY <1>5
    <2>3. \A d \in Callers : told'[d] \in {-1, cnt, told[d]} BY <1>6
    <2> QED BY <2>1, <2>2, <2>3, <1>1, <1>7, CountKept DEF callers
  <1> QED BY <1>7, <1>8, <1>9, <1>11, <1>12, <1>13

\* The transaction a thread handles belongs to a caller that waits for it or
\* has given up.
LEMMA Served ==
  ASSUME IInv, NEW t \in Threads, NEW c, c = cur[t], pc[t] \in Busy
  PROVE  /\ c \in Callers /\ c # Nobody /\ Pending(c) /\ ~InQueue(c)
         /\ \A u \in Threads : At(u, c) => u = t
         /\ cpc[c] # "idle" /\ ~(cpc[c] = "ioctl" /\ ~consumed[c])
         /\ calls[c] \in 1..MaxCalls /\ ret[c] = 0
         /\ \A k \in 1..Len(todo[c]) : todo[c][k].br # "REPLY"
  <1> USE PoolAssumption DEF IInv
  <1>1. c \in Callers /\ c # Nobody BY DEF ThreadInv, TypeOK
  <1>2. Pending(c) /\ ~InQueue(c) BY <1>1 DEF Pending, At, RouteInv
  <1>3. \A u \in Threads : At(u, c) => u = t BY <1>1 DEF At, RouteInv
  <1>4. CallerOK(c) BY <1>1 DEF CallerInv
  <1>5. calls[c] \in 1..MaxCalls BY <1>1, <1>2, <1>4 DEF CallerOK, TypeOK
  <1> QED BY <1>1, <1>2, <1>3, <1>4, <1>5 DEF CallerOK

LEMMA StoreIInv ==
  ASSUME IInv, NEW t \in Threads, Store(t), NEW c, c = cur[t]
  PROVE  IInv'
  <1> USE InLoop, PoolAssumption DEF IInv
  <1>1. /\ up /\ pc[t] = "store" /\ pc' = [pc EXCEPT ![t] = "fetch"] /\ cnt' = local[t] + 1
        /\ UNCHANGED <<up, queue, pool, inbuf, cur, local, rdata, scope, creator, arg, unspawned, callers, todo, history>>
        BY DEF Store, Goto
  <1>2. /\ c \in Callers /\ c # Nobody /\ ~InQueue(c)
        /\ \A u \in Threads : At(u, c) => u = t
        /\ ~(cpc[c] = "ioctl" /\ ~consumed[c]) /\ calls[c] \in 1..MaxCalls
        BY <1>1, Served DEF Busy
  <1>3. pc'[t] = "fetch" /\ \A u \in Threads : u # t => UNCHANGED pc[u] BY <1>1 DEF TypeOK
  <1>4. TypeOK'
    <2>1. pc' \in [Threads -> Pcs] BY <1>1 DEF TypeOK, Pcs
    <2>2. cnt' \in Nat BY <1>1 DEF TypeOK
    <2> QED BY <2>1, <2>2, <1>1 DEF TypeOK, pool, callers, history
  <1>5. ThreadInv' BY <1>1, <1>3 DEF ThreadInv, Busy
  <1>6. SpawnInv'
    <2>1. \A u \in Threads : Coming(u)' <=> Coming(u) BY <1>1, <1>3 DEF Coming
    <2> QED BY <2>1, <1>1 DEF SpawnInv, pool
  <1>7. \A d : /\ InQueue(d)' <=> InQueue(d)
               /\ Pending(d)' <=> Pending(d)
        BY <1>1 DEF InQueue, Pending, At
  <1>8. RouteInv'
    <2>1. \A u \in Threads : cur[u] # Nobody =>
            /\ runs[cur[u]] = IF pc'[u] \in {"parse", "block"} THEN 0 ELSE 1
            /\ pc'[u] = "reply" => rdata[u] = told[cur[u]]
          BY <1>1, <1>3 DEF RouteInv
    <2> QED BY <2>1, <1>1, <1>7 DEF RouteInv, At, history
  <1>9. CallerInv' BY <1>1, <1>7, CallersKept
  <1>10. CountInv'
    <2> DEFINE x == <<c, calls[c]>>
    <2>1. \A d \in Callers : Uncounted(d)' => Uncounted(d) /\ d # c
          BY <1>1, <1>2, <1>3, <1>7 DEF Uncounted, At, callers
    <2>2. Uncounted(c) BY <1>1 DEF Uncounted, At
    <2>3. x \notin Counted BY <2>2 DEF Counted
    <2>4. Counted \cup {x} \subseteq Counted' BY <2>1, <1>1, <1>2 DEF Counted, callers
    <2>5. PICK m \in Nat, n \in Nat : m = Cardinality(Counted) /\ n = Cardinality(Counted')
          BY CountedSize
    <2>6. IsFiniteSet(Counted \cup {x}) /\ Cardinality(Counted \cup {x}) = m + 1
          BY <2>3, <2>5, CountedSize, FS_AddElement
    <2>7. m + 1 <= n BY <2>4, <2>5, <2>6, CountedSize, FS_Subset
    <2>8. cnt <= m /\ (\A u \in Threads : local[u] <= m) /\ (\A d \in Callers : told[d] <= m)
          BY <2>5 DEF CountInv
    <2>9. cnt \in Nat /\ (\A u \in Threads : local[u] \in Nat) /\ (\A d \in Callers : told[d] \in Int)
          BY DEF TypeOK
    <2>10. cnt' <= n BY <1>1, <2>5, <2>7, <2>8, <2>9
    <2>11. \A u \in Threads : local'[u] <= n BY <1>1, <2>5, <2>7, <2>8, <2>9
    <2>12. \A d \in Callers : told'[d] <= n BY <1>1, <2>5, <2>7, <2>8, <2>9 DEF history
    <2> QED BY <2>5, <2>10, <2>11, <2>12 DEF CountInv
  <1> QED BY <1>4, <1>5, <1>6, <1>8, <1>9, <1>10

LEMMA FetchIInv ==
  ASSUME IInv, NEW t \in Threads, Fetch(t), NEW c, c = cur[t]
  PROVE  IInv'
  <1> USE InLoop, PoolAssumption DEF IInv
  <1>1. /\ up /\ pc[t] = "fetch" /\ pc' = [pc EXCEPT ![t] = "reply"]
        /\ rdata' = [rdata EXCEPT ![t] = cnt] /\ told' = [told EXCEPT ![c] = cnt]
        /\ UNCHANGED <<up, queue, pool, inbuf, cur, local, scope, creator, arg, unspawned, cnt, callers, todo, runs>>
        BY DEF Fetch, Goto
  <1>2. /\ c \in Callers /\ c # Nobody /\ Pending(c)
        /\ cpc[c] # "idle" /\ ret[c] = 0
        /\ \A k \in 1..Len(todo[c]) : todo[c][k].br # "REPLY"
        BY <1>1, Served DEF Busy
  <1>3. /\ pc'[t] = "reply" /\ rdata'[t] = cnt /\ \A u \in Threads : u # t => UNCHANGED <<pc[u], rdata[u]>>
        /\ told'[c] = cnt /\ \A d \in Callers : d # c => told'[d] = told[d]
        BY <1>1, <1>2 DEF TypeOK
  <1>4. TypeOK'
    <2>1. pc' \in [Threads -> Pcs] BY <1>1 DEF TypeOK, Pcs
    <2>2. rdata' \in [Threads -> Nat \cup {-1}] BY <1>1 DEF TypeOK
    <2>0. cnt \in Int /\ told \in [Callers -> Int] BY DEF TypeOK
    <2>3. told' \in [Callers -> Int] BY <2>0, <1>1
    <2> QED BY <2>1, <2>2, <2>3, <1>1 DEF TypeOK, pool, callers
  <1>5. ThreadInv' BY <1>1, <1>3 DEF ThreadInv, Busy
  <1>6. SpawnInv'
    <2>1. \A u \in Threads : Coming(u)' <=> Coming(u) BY <1>1, <1>3 DEF Coming
    <2> QED BY <2>1, <1>1 DEF SpawnInv, pool
  <1>7. \A d : /\ InQueue(d)' <=> InQueue(d)
               /\ Pending(d)' <=> Pending(d)
        BY <1>1 DEF InQueue, Pending, At
  <1>8. RouteInv'
    <2>1. \A u \in Threads : u # t /\ cur[u] # Nobody => cur[u] \in Callers /\ cur[u] # c
          BY <1>2 DEF RouteInv, TypeOK
    <2>2. \A u \in Threads : cur[u] # Nobody =>
            /\ runs[cur[u]] = IF pc'[u] \in {"parse", "block"} THEN 0 ELSE 1
            /\ pc'[u] = "reply" => rdata'[u] = told'[cur[u]]
          BY <2>1, <1>1, <1>3 DEF RouteInv
    <2> QED BY <2>2, <1>1, <1>7 DEF RouteInv, At
  <1>9. CallerInv'
    <2>1. CallerOK(c) BY <1>2 DEF CallerInv
    <2>2. CallerOK(c)' BY <2>1, <1>1, <1>2, <1>7 DEF CallerOK, callers
    <2>3. ASSUME NEW d \in Callers, d # c PROVE CallerOK(d)'
          BY <2>3, <1>1, <1>3, <1>7, CallerKept DEF callers
    <2> QED BY <2>2, <2>3 DEF CallerInv
  <1>10. CountInv'
    <2>1. ASSUME NEW d \in Callers, Uncounted(d)' PROVE Uncounted(d)
          BY <2>1, <1>1, <1>3, <1>7 DEF Uncounted, At, callers
    <2>2. \A d \in Callers : told'[d] \in {-1, cnt, told[d]} BY <1>3
    <2> QED BY <2>1, <2>2, <1>1, <1>4, CountKept DEF callers
  <1> QED BY <1>4, <1>5, <1>6, <1>8, <1>9, <1>10

LEMMA ReplyIInv ==
  ASSUME IInv, NEW t \in Threads, Reply(t), NEW c, c = cur[t]
  PROVE  IInv'
  <1> USE InLoop, PoolAssumption DEF IInv
  <1>1. /\ up /\ pc[t] = "reply" /\ pc' = [pc EXCEPT ![t] = "loop"] /\ cur' = [cur EXCEPT ![t] = Nobody]
        /\ todo' = IF cpc[c] = "gone" THEN todo
                   ELSE [todo EXCEPT ![c] = Append(todo[c], REPLY(rdata[t]))]
        /\ local' = [local EXCEPT ![t] = 0] /\ rdata' = [rdata EXCEPT ![t] = 0]
        /\ UNCHANGED <<up, queue, pool, inbuf, scope, creator, arg, unspawned, cnt, callers, history>>
        BY DEF Reply, Goto
  <1>2. /\ c \in Callers /\ c # Nobody /\ Pending(c) /\ ~InQueue(c)
        /\ \A u \in Threads : At(u, c) => u = t
        /\ cpc[c] # "idle" /\ ~(cpc[c] = "ioctl" /\ ~consumed[c])
        /\ \A k \in 1..Len(todo[c]) : todo[c][k].br # "REPLY"
        BY <1>1, Served DEF Busy
  <1>3. runs[c] = 1 /\ rdata[t] = told[c] BY <1>1, <1>2 DEF RouteInv
  <1>4. /\ pc'[t] = "loop" /\ cur'[t] = Nobody /\ local'[t] = 0 /\ rdata'[t] = 0
        /\ \A u \in Threads : u # t => UNCHANGED <<pc[u], cur[u], local[u], rdata[u]>>
        BY <1>1 DEF TypeOK
  <1>5. /\ \A d \in Callers : d # c => todo'[d] = todo[d]
        /\ todo' \in [Callers -> Seq([br : {"TRANSACTION_COMPLETE", "REPLY", "DEAD_REPLY"}, val : Int])]
        /\ cpc[c] = "gone" => todo'[c] = todo[c]
        /\ \A k \in 1..Len(todo'[c]) :
             /\ todo'[c][k].br = "REPLY" => todo'[c][k].val = told[c]
             /\ todo'[c][k].br # "DEAD_REPLY"
    <2> DEFINE B == [br : {"TRANSACTION_COMPLETE", "REPLY", "DEAD_REPLY"}, val : Int]
               b == REPLY(rdata[t])
    <2>0. CallerOK(c) BY <1>2 DEF CallerInv
    <2>1. /\ todo \in [Callers -> Seq(B)] /\ todo[c] \in Seq(B)
          /\ \A k \in 1..Len(todo[c]) : todo[c][k].br # "REPLY" /\ todo[c][k].br # "DEAD_REPLY"
          BY <2>0, <1>1, <1>2 DEF TypeOK, CallerOK
    <2>2. CASE cpc[c] = "gone" BY <2>1, <2>2, <1>1
    <2>3. CASE cpc[c] # "gone"
      <3>1. told[c] \in Int BY <1>2 DEF TypeOK
      <3>2. b \in B /\ b.br = "REPLY" /\ b.val = told[c] BY <3>1, <1>3 DEF REPLY, BR
      <3> HIDE DEF B, b
      <3>3. todo' = [todo EXCEPT ![c] = Append(todo[c], b)] BY <2>3, <1>1 DEF b
      <3>4. PICK s : s = Append(todo[c], b) OBVIOUS
      <3>5. s \in Seq(B) /\ Len(s) = Len(todo[c]) + 1 /\ Len(todo[c]) \in Nat BY <3>2, <3>4, <2>1
      <3>6. \A k \in 1..Len(s) : s[k] = IF k = Len(todo[c]) + 1 THEN b ELSE todo[c][k] BY <3>4, <2>1, <3>2
      <3>7. \A k \in 1..Len(s) : k = Len(todo[c]) + 1 \/ k \in 1..Len(todo[c]) BY <3>5
      <3>8. \A k \in 1..Len(s) : (s[k].br = "REPLY" => s[k].val = told[c]) /\ s[k].br # "DEAD_REPLY"
            BY <3>2, <3>6, <3>7, <2>1
      <3>9. todo' = [todo EXCEPT ![c] = s] BY <3>3, <3>4
      <3>10. todo'[c] = s /\ todo' \in [Callers -> Seq(B)] BY <3>9, <3>5, <2>1, <1>2
      <3>11. \A d \in Callers : d # c => todo'[d] = todo[d] BY <3>9, <2>1
      <3> QED BY <2>3, <3>8, <3>10, <3>11 DEF B
    <2> QED BY <2>2, <2>3
  <1>6. TypeOK'
    <2>1. pc' \in [Threads -> Pcs] BY <1>1 DEF TypeOK, Pcs
    <2>2. cur' \in [Threads -> Callers \cup {Nobody}] BY <1>1 DEF TypeOK
    <2>3. local' \in [Threads -> Nat] /\ rdata' \in [Threads -> Nat \cup {-1}] BY <1>1 DEF TypeOK
    <2> QED BY <2>1, <2>2, <2>3, <1>1, <1>5 DEF TypeOK, pool, callers, history
  <1>7. ThreadInv' BY <1>1, <1>4 DEF ThreadInv, Busy
  <1>8. SpawnInv'
    <2>1. \A u \in Threads : Coming(u)' <=> Coming(u) BY <1>1, <1>4 DEF Coming
    <2> QED BY <2>1, <1>1 DEF SpawnInv, pool
  <1>9. /\ \A d : InQueue(d)' <=> InQueue(d)
        /\ \A d \in Callers : Pending(d)' => Pending(d) /\ d # c
    <2>1. \A d : InQueue(d)' <=> InQueue(d) BY <1>1 DEF InQueue
    <2> QED BY <2>1, <1>2, <1>4 DEF Pending, At
  <1>10. RouteInv'
    <2>1. \A u, v \in Threads : cur'[u] = cur'[v] /\ cur'[u] # Nobody => u = v
          BY <1>4 DEF RouteInv
    <2>2. \A d \in Callers : InQueue(d)' => runs[d] = 0 /\ \A u \in Threads : ~At(u, d)'
          BY <1>4, <1>9 DEF RouteInv, At
    <2>3. \A u \in Threads : cur'[u] # Nobody =>
            /\ runs[cur'[u]] = IF pc'[u] \in {"parse", "block"} THEN 0 ELSE 1
            /\ pc'[u] = "reply" => rdata'[u] = told[cur'[u]]
          BY <1>4 DEF RouteInv
    <2> QED BY <2>1, <2>2, <2>3, <1>1 DEF RouteInv, history
  <1>11. CallerInv'
    <2>1. CallerOK(c) BY <1>2 DEF CallerInv
    <2>2. CallerOK(c)' BY <2>1, <1>1, <1>2, <1>3, <1>5, <1>9 DEF CallerOK, callers, history
    <2>3. ASSUME NEW d \in Callers, d # c PROVE CallerOK(d)'
          BY <2>3, <1>1, <1>5, <1>9, CallerKept DEF callers, history
    <2> QED BY <2>2, <2>3 DEF CallerInv
  <1>12. CountInv'
    <2>1. ASSUME NEW d \in Callers, Uncounted(d)' PROVE Uncounted(d)
          BY <2>1, <1>1, <1>4, <1>9 DEF Uncounted, At, callers
    <2>2. \A u \in Threads : local'[u] \in {0, cnt, local[u]} BY <1>4
    <2> QED BY <2>1, <2>2, <1>1, <1>6, CountKept DEF callers, history
  <1> QED BY <1>6, <1>7, <1>8, <1>10, <1>11, <1>12

-----------------------------------------------------------------------------
(* The end of the process, and of a thread *)

LEMMA ExitIInv ==
  ASSUME IInv, Exit, UNCHANGED <<callers, history>>
  PROVE  IInv'
  <1> USE PoolAssumption DEF IInv
  <1> DEFINE B == [br : {"TRANSACTION_COMPLETE", "REPLY", "DEAD_REPLY"}, val : Int]
             waiting(c) == /\ cpc[c] \in {"ioctl", "wait"} /\ consumed[c]
                           /\ \A k \in DOMAIN todo[c] : todo[c][k] = COMPLETE
  <1>1. /\ up' = FALSE /\ queue' = <<>> /\ requested' = 0 /\ started' = 0 /\ entered' = FALSE
        /\ pc' = All("absent") /\ inbuf' = All(<<>>) /\ cur' = All(Nobody)
        /\ local' = All(0) /\ rdata' = All(0) /\ scope' = All(FALSE)
        /\ creator' = All(Nobody) /\ arg' = All("none") /\ unspawned' = FALSE /\ cnt' = 0
        /\ todo' = [c \in Callers |-> IF waiting(c) THEN Append(todo[c], DEAD) ELSE todo[c]]
        BY DEF Exit
  <1>2. \A t \in Threads : pc'[t] = "absent" /\ inbuf'[t] = <<>> /\ cur'[t] = Nobody /\ local'[t] = 0
        BY <1>1 DEF All
  <1>3. ASSUME NEW c \in Callers
        PROVE  /\ todo'[c] \in Seq(B)
               /\ todo'[c] # todo[c] =>
                    /\ cpc[c] \in {"ioctl", "wait"} /\ consumed[c]
                    /\ \A k \in 1..Len(todo'[c]) : todo'[c][k].br # "REPLY"
    <2>1. todo[c] \in Seq(B) /\ DOMAIN todo[c] = 1..Len(todo[c]) BY DEF TypeOK
    <2>2. CASE ~waiting(c) BY <2>1, <2>2, <1>1
    <2>3. CASE waiting(c)
      <3>1. DEAD \in B /\ DEAD.br # "REPLY" /\ COMPLETE.br # "REPLY" BY DEF DEAD, COMPLETE, BR
      <3>2. PICK s : s = Append(todo[c], DEAD) OBVIOUS
      <3>3. todo'[c] = s BY <3>2, <2>3, <1>1
      <3>4. \A k \in 1..Len(todo[c]) : todo[c][k].br # "REPLY" BY <2>1, <2>3, <3>1
      <3> HIDE DEF B
      <3>5. s \in Seq(B) /\ Len(s) = Len(todo[c]) + 1 /\ Len(todo[c]) \in Nat BY <3>1, <3>2, <2>1
      <3>6. \A k \in 1..Len(s) : s[k] = IF k = Len(todo[c]) + 1 THEN DEAD ELSE todo[c][k] BY <3>1, <3>2, <2>1
      <3>7. \A k \in 1..Len(s) : s[k].br # "REPLY" BY <3>1, <3>4, <3>5, <3>6
      <3> QED BY <2>3, <3>3, <3>5, <3>7
    <2> QED BY <2>2, <2>3
  <1>4. TypeOK'
    <2>1. todo' \in [Callers -> Seq(B)] BY <1>1, <1>3
    <2>2. pc' \in [Threads -> Pcs] BY <1>1 DEF All, Pcs
    <2>3. inbuf' \in [Threads -> Seq({"SPAWN_LOOPER", "TRANSACTION"})] BY <1>1 DEF All
    <2>4. /\ cur' \in [Threads -> Callers \cup {Nobody}]
          /\ local' \in [Threads -> Nat] /\ rdata' \in [Threads -> Nat \cup {-1}]
          /\ scope' \in [Threads -> BOOLEAN] /\ creator' \in [Threads -> Threads \cup {Nobody}]
          /\ arg' \in [Threads -> {"none", "good", "garbage"}]
          BY <1>1 DEF All
    <2>5. up' \in BOOLEAN /\ unspawned' \in BOOLEAN /\ entered' \in BOOLEAN BY <1>1
    <2>6. queue' \in Seq(Callers) BY <1>1
    <2>7. requested' \in {0, 1} /\ started' \in 0..MaxThreads /\ cnt' \in Nat BY <1>1
    <2> QED BY <2>1, <2>2, <2>3, <2>4, <2>5, <2>6, <2>7 DEF TypeOK, callers, history
  <1> HIDE DEF B, waiting
  <1>5. ThreadInv' BY <1>1, <1>2 DEF ThreadInv, Busy
  <1>6. SpawnInv'
    <2>1. \A t \in Threads : ~Coming(t)' BY <1>2, InLoop DEF Coming
    <2> QED BY <2>1, <1>1 DEF SpawnInv
  <1>7. \A c \in Callers : ~InQueue(c)' /\ ~Pending(c)' BY <1>1, <1>2 DEF InQueue, Pending, At
  <1>8. RouteInv' BY <1>1, <1>2, <1>7 DEF RouteInv
  <1>9. ASSUME NEW c \in Callers PROVE CallerOK(c)'
    <2>1. CallerOK(c) BY DEF CallerInv
    <2>2. CASE todo'[c] = todo[c]
          BY <2>1, <2>2, <1>1, <1>7 DEF CallerOK, callers, history
    <2>3. CASE todo'[c] # todo[c]
          BY <2>1, <2>3, <1>1, <1>3, <1>7 DEF CallerOK, callers, history
    <2> QED BY <2>2, <2>3
  <1>10. CountInv'
    <2>1. ASSUME NEW c \in Callers, Uncounted(c)' PROVE Uncounted(c)
          BY <2>1, <1>2, <1>7 DEF Uncounted, callers
    <2> QED BY <2>1, <1>1, <1>2, <1>4, CountKept DEF callers, history
  <1> QED BY <1>4, <1>5, <1>6, <1>8, <1>9, <1>10 DEF CallerInv

LEMMA LoopFailsIInv ==
  ASSUME IInv, NEW t \in Threads, LoopFails(t)
  PROVE  IInv'
  <1> USE InLoop DEF IInv
  <1>1. CASE t = Main BY <1>1, ExitIInv DEF LoopFails
  <1>2. CASE t # Main
    <2>1. /\ up /\ pc[t] = "wait" /\ pc' = [pc EXCEPT ![t] = "ended"]
          /\ UNCHANGED <<up, queue, pool, inbuf, cur, local, rdata, scope, creator, arg,
                         unspawned, cnt, todo, callers, history>>
          BY <1>2 DEF LoopFails
    <2>2. pc'[t] = "ended" /\ \A u \in Threads : u # t => pc'[u] = pc[u] BY <2>1 DEF TypeOK
    <2>3. TypeOK'
      <3>1. pc' \in [Threads -> Pcs] BY <2>1 DEF TypeOK, Pcs
      <3> QED BY <3>1, <2>1 DEF TypeOK, pool, callers, history
    <2>4. ThreadInv' BY <2>1, <2>2 DEF ThreadInv, Busy
    <2>5. \A u \in Threads : Coming(u)' <=> Coming(u) BY <2>1, <2>2 DEF Coming
    <2>6. SpawnInv' BY <2>1, <2>5 DEF SpawnInv, pool
    <2>7. \A u \in Threads : cur[u] # Nobody => pc'[u] = pc[u] BY <2>1, <2>2 DEF ThreadInv, Busy
    <2>8. RouteInv' /\ CallerInv' /\ CountInv' BY <2>1, <2>3, <2>7, QuietThread
    <2> QED BY <2>3, <2>4, <2>6, <2>8
  <1> QED BY <1>1, <1>2

-----------------------------------------------------------------------------
(* The specification *)

LEMMA NextIInv == IInv /\ [Next]_vars => IInv'
  <1> SUFFICES ASSUME IInv, [Next]_vars PROVE IInv' OBVIOUS
  <1>1. ASSUME NEW t \in Threads, thread(t) PROVE IInv'
    <2>1. PICK c : c = cur[t] OBVIOUS
    <2>2. CASE (t = Main /\ EnterLoop) \/ Wait(t) \/ LeaveBlock(t) BY <2>2, PlainStep
    <2>3. CASE Read(t) BY <2>3, ReadIInv
    <2>4. CASE Spawn(t) BY <2>4, SpawnIInv
    <2>5. CASE Handle(t) BY <2>1, <2>5, HandleIInv
    <2>6. CASE Store(t) BY <2>1, <2>6, StoreIInv
    <2>7. CASE Fetch(t) BY <2>1, <2>7, FetchIInv
    <2>8. CASE Reply(t) BY <2>1, <2>8, ReplyIInv
    <2>9. CASE t \in Loopers /\ ReadArg(t) BY <2>9, PlainStep
    <2>10. CASE t \in Loopers /\ Register(t) BY <2>10, RegisterIInv
    <2>11. CASE t \in Loopers /\ Crash(t) BY <2>11, ExitIInv DEF Crash
    <2> QED BY <1>1, <2>2, <2>3, <2>4, <2>5, <2>6, <2>7, <2>8, <2>9, <2>10, <2>11 DEF thread
  <1>2. ASSUME NEW t \in Threads, LoopFails(t) PROVE IInv' BY <1>2, LoopFailsIInv
  <1>3. ASSUME NEW c \in Callers, caller(c) PROVE IInv'
        BY <1>3, CallIoctlIInv, CallParseIInv DEF caller
  <1>4. ASSUME NEW c \in Callers, CallFails(c) PROVE IInv' BY <1>4, CallFailsIInv
  <1>5. ASSUME NEW c \in Callers, NEW k \in Codes, Call(c, k) PROVE IInv' BY <1>5, CallIInv
  <1>6. CASE UNCHANGED vars
    <2>1. UNCHANGED <<up, queue, pool, server, callers, todo, history>> BY <1>6 DEF vars
    <2>2. TypeOK' BY <2>1 DEF IInv, TypeOK, pool, server, callers, history
    <2>3. ThreadInv' /\ SpawnInv' BY <2>1, ServerQuiet
    <2>4. RouteInv' /\ CallerInv' /\ CountInv' BY <2>1, <2>2, QuietThread DEF server
    <2> QED BY <2>2, <2>3, <2>4 DEF IInv
  <1> QED BY <1>1, <1>2, <1>3, <1>4, <1>5, <1>6 DEF Next

\* The facts about threads, requests, calls and the counter hold together.
THEOREM Inductive == Spec => []IInv
  BY InitIInv, NextIInv, PTL DEF Spec

\* Every variable keeps its type: the driver asks for one thread at a time and
\* never for more than BINDER_SET_MAX_THREADS.
THEOREM TypeCorrect == Spec => []TypeOK
  <1>1. IInv => TypeOK BY DEF IInv
  <1> QED BY <1>1, Inductive, PTL

\* binder_call's loop of ioctls makes the server execute its call at most once.
THEOREM AtMostOnceTheorem == Spec => []AtMostOnce
  <1>1. IInv => AtMostOnce BY DEF IInv, CallerInv, CallerOK, AtMostOnce
  <1> QED BY <1>1, Inductive, PTL

\* What binder_call returns is what a handler computed for this very call.
THEOREM OwnAnswerTheorem == Spec => []OwnAnswer
  <1>1. IInv => OwnAnswer BY DEF IInv, CallerInv, CallerOK, OwnAnswer
  <1> QED BY <1>1, Inductive, PTL

\* A thread that BR_SPAWN_LOOPER asked for is on its way, or pthread_create or
\* its registration failed.
THEOREM SpawnTheorem == Spec => []SpawnAccounted
  <1>1. IInv => SpawnAccounted
    <2> SUFFICES ASSUME IInv, requested = 1, ~unspawned
                 PROVE  \E t \in Threads : \/ \E k \in DOMAIN inbuf[t] : inbuf[t][k] = "SPAWN_LOOPER"
                                           \/ pc[t] \in {"born", "descriptor"}
        BY DEF SpawnAccounted
    <2>1. PICK t \in Threads : Coming(t) BY DEF IInv, SpawnInv
    <2>2. 1 \in DOMAIN S2 /\ S2[1] = "SPAWN_LOOPER" BY DEF S2
    <2> QED BY <2>1, <2>2 DEF Coming
  <1> QED BY <1>1, Inductive, PTL

\* However the unlocked increments of cnt interleave, no caller is told a
\* number greater than that of the calls made.
THEOREM CountTheorem == Spec => []CountInRange
  <1>1. IInv => CountInRange
    <2> SUFFICES ASSUME IInv, NEW c \in Callers
                 PROVE  told[c] <= Cardinality({x \in Callers \X (1..MaxCalls) : x[2] <= calls[x[1]]})
        BY DEF CountInRange
    <2> DEFINE S == {x \in Callers \X (1..MaxCalls) : x[2] <= calls[x[1]]}
    <2>1. S \subseteq Callers \X (1..MaxCalls) /\ Counted \subseteq S BY DEF Counted
    <2> HIDE DEF S
    <2>2. Cardinality(S) \in Nat /\ Cardinality(Counted) \in Nat /\ Cardinality(Counted) <= Cardinality(S)
          BY <2>1, CallsFinite, CountedSize, FS_Subset
    <2>3. told[c] \in Int /\ told[c] <= Cardinality(Counted) BY DEF IInv, TypeOK, CountInv
    <2>4. told[c] <= Cardinality(S) BY <2>2, <2>3
    <2> QED BY <2>4 DEF S
  <1> QED BY <1>1, Inductive, PTL

-----------------------------------------------------------------------------
(* The pool implements Calls *)

\* What the present call of c was executed with, 0 until its handler has ended.
Told(c) == IF told[c] = -1 /\ code[c] # "UNKNOWN" THEN 0 ELSE told[c]

\* A thread inside sayhello_to has told nobody anything; one that replies has.
TellOK(t) ==
  /\ pc[t] \in {"store", "fetch"} => code[cur[t]] # "UNKNOWN" /\ told[cur[t]] = -1
  /\ pc[t] = "fetch" => cnt >= 1
  /\ pc[t] = "reply" => Told(cur[t]) # 0

\* A reply on its way is that of a handler that has ended.
ReplyOK(c) ==
  /\ runs[c] = 0 => told[c] = 0
  /\ \A k \in 1..Len(todo[c]) : todo[c][k].br = "REPLY" => Told(c) # 0

AnswerInv == (\A t \in Threads : TellOK(t)) /\ (\A c \in Callers : ReplyOK(c))

LEMMA InitAnswer == Init => AnswerInv
  <1> SUFFICES ASSUME Init PROVE AnswerInv OBVIOUS
  <1>1. \A t \in Threads : pc[t] \in {"absent", "enter"} BY DEF Init, All
  <1>2. \A c \in Callers : told[c] = 0 /\ todo[c] = <<>> BY DEF Init
  <1> QED BY <1>1, <1>2 DEF AnswerInv, TellOK, ReplyOK

\* A step that tells nobody anything and takes no thread into a handler.
LEMMA AnswerQuiet ==
  ASSUME AnswerInv, UNCHANGED <<code, told, runs, cnt, todo>>,
         \A t \in Threads : \/ pc'[t] = pc[t] /\ cur'[t] = cur[t]
                            \/ pc'[t] \notin {"store", "fetch", "reply"}
  PROVE  AnswerInv'
  <1>1. \A c : Told(c)' = Told(c) BY DEF Told
  <1>2. \A c \in Callers : ReplyOK(c)' BY <1>1 DEF AnswerInv, ReplyOK
  <1>3. \A t \in Threads : TellOK(t)' BY <1>1 DEF AnswerInv, TellOK
  <1> QED BY <1>2, <1>3 DEF AnswerInv

LEMMA PlainAnswer ==
  ASSUME IInv, AnswerInv, NEW t \in Threads,
         (t = Main /\ EnterLoop) \/ ReadArg(t) \/ Wait(t) \/ LeaveBlock(t) \/ Register(t)
  PROVE  AnswerInv'
  <1>1. UNCHANGED <<cur, cnt, callers, todo, history>>
        BY DEF EnterLoop, ReadArg, Wait, LeaveBlock, Register
  <1>2. \E to \in {"loop", "descriptor", "wait", "parse"} : pc' = [pc EXCEPT ![t] = to]
        BY DEF EnterLoop, ReadArg, Wait, LeaveBlock, Register, Goto
  <1>3. \A u \in Threads : pc'[u] = pc[u] \/ pc'[u] \notin {"store", "fetch", "reply"}
        BY <1>2 DEF IInv, TypeOK
  <1> QED BY <1>1, <1>3, AnswerQuiet DEF callers, history

LEMMA SpawnAnswer ==
  ASSUME IInv, AnswerInv, NEW t \in Threads, Spawn(t)
  PROVE  AnswerInv'
  <1>1. UNCHANGED <<cur, cnt, callers, todo, history>> BY DEF Spawn
  <1>2. \/ \E u \in Loopers : pc' = [pc EXCEPT ![t] = "block", ![u] = "born"]
        \/ pc' = [pc EXCEPT ![t] = "block"]
        BY DEF Spawn
  <1>3. \A u \in Threads : pc'[u] = pc[u] \/ pc'[u] \notin {"store", "fetch", "reply"}
        BY <1>2 DEF IInv, TypeOK
  <1> QED BY <1>1, <1>3, AnswerQuiet DEF callers, history

LEMMA ReadAnswer ==
  ASSUME IInv, AnswerInv, NEW t \in Threads, Read(t)
  PROVE  AnswerInv'
  <1>1. UNCHANGED <<cnt, callers, todo, history>> /\ pc' = [pc EXCEPT ![t] = "parse"]
        /\ cur' = [cur EXCEPT ![t] = Head(queue)]
        BY DEF Read, Goto
  <1>2. \A u \in Threads : \/ pc'[u] = pc[u] /\ cur'[u] = cur[u]
                           \/ pc'[u] \notin {"store", "fetch", "reply"}
        BY <1>1 DEF IInv, TypeOK
  <1> QED BY <1>1, <1>2, AnswerQuiet DEF callers, history

\* A step of the callers that leaves the calls and the server alone, and
\* brings no reply.
LEMMA CallerAnswer ==
  ASSUME AnswerInv, UNCHANGED <<server, code, history>>,
         \A c \in Callers : \/ todo'[c] = todo[c]
                            \/ \A k \in 1..Len(todo'[c]) : todo'[c][k].br # "REPLY"
  PROVE  AnswerInv'
  <1>1. UNCHANGED <<pc, cur, cnt, code, told, runs>> BY DEF server, history
  <1>2. \A c : Told(c)' = Told(c) BY <1>1 DEF Told
  <1>3. \A c \in Callers : ReplyOK(c)' BY <1>1, <1>2 DEF AnswerInv, ReplyOK
  <1>4. \A t \in Threads : TellOK(t)' BY <1>1, <1>2 DEF AnswerInv, TellOK
  <1> QED BY <1>3, <1>4 DEF AnswerInv

LEMMA CallIoctlAnswer ==
  ASSUME IInv, AnswerInv, NEW c \in Callers, CallIoctl(c)
  PROVE  AnswerInv'
  <1>1. UNCHANGED <<server, code, history>> /\ cpc[c] = "ioctl" BY DEF CallIoctl
  <1>2. CASE consumed[c]
    <2>1. todo' = todo BY <1>2 DEF CallIoctl
    <2> QED BY <1>1, <2>1, CallerAnswer
  <1>3. CASE ~consumed[c]
    <2>1. PICK b : todo' = [todo EXCEPT ![c] = Append(todo[c], b)] /\ (b = COMPLETE \/ b = DEAD)
          BY <1>3 DEF CallIoctl
    <2>2. b.br # "REPLY" BY <2>1 DEF COMPLETE, DEAD, BR
    <2>3. todo[c] = <<>> BY <1>1, <1>3 DEF IInv, CallerInv, CallerOK
    <2>4. Append(todo[c], b) = <<b>> BY <2>3
    <2>5. todo' = [todo EXCEPT ![c] = <<b>>] BY <2>1, <2>4
    <2>6. todo'[c] = <<b>> /\ \A d \in Callers : d # c => todo'[d] = todo[d]
          BY <2>5 DEF IInv, TypeOK
    <2>7. \A k \in 1..Len(todo'[c]) : todo'[c][k].br # "REPLY" BY <2>2, <2>6
    <2>8. \A d \in Callers : \/ todo'[d] = todo[d]
                             \/ \A k \in 1..Len(todo'[d]) : todo'[d][k].br # "REPLY"
          BY <2>6, <2>7
    <2> QED BY <1>1, <2>8, CallerAnswer
  <1> QED BY <1>2, <1>3

LEMMA EmptyAnswer ==
  ASSUME IInv, AnswerInv, NEW c \in Callers, CallParse(c) \/ CallFails(c)
  PROVE  AnswerInv'
  <1>1. UNCHANGED <<server, code, history>> /\ todo' = [todo EXCEPT ![c] = <<>>]
        BY DEF CallParse, CallFails
  <1>2. todo'[c] = <<>> /\ \A d \in Callers : d # c => todo'[d] = todo[d]
        BY <1>1 DEF IInv, TypeOK
  <1>3. \A k \in 1..Len(todo'[c]) : todo'[c][k].br # "REPLY" BY <1>2
  <1>4. \A d \in Callers : \/ todo'[d] = todo[d]
                           \/ \A k \in 1..Len(todo'[d]) : todo'[d][k].br # "REPLY"
        BY <1>2, <1>3
  <1> QED BY <1>1, <1>4, CallerAnswer

\* A step that changes only what is known of the call of c.
LEMMA OthersAnswer ==
  ASSUME IInv, AnswerInv, NEW c \in Callers,
         \A d \in Callers : d # c => UNCHANGED <<code[d], told[d], runs[d], todo[d]>>
  PROVE  /\ \A d \in Callers : d # c => ReplyOK(d)' /\ Told(d)' = Told(d)
         /\ \A u \in Threads : ~At(u, c) /\ (cnt' = cnt \/ cnt' >= 1)
              /\ UNCHANGED <<pc[u], cur[u]>> => TellOK(u)'
  <1>1. \A d \in Callers : d # c => Told(d)' = Told(d) BY DEF Told
  <1>2. \A d \in Callers : d # c => ReplyOK(d)' BY <1>1 DEF AnswerInv, ReplyOK
  <1>3. ASSUME NEW u \in Threads, ~At(u, c), cnt' = cnt \/ cnt' >= 1, UNCHANGED <<pc[u], cur[u]>>
        PROVE  TellOK(u)'
    <2>1. CASE pc[u] \notin {"store", "fetch", "reply"} BY <1>3, <2>1 DEF TellOK
    <2>2. CASE pc[u] \in {"store", "fetch", "reply"}
      <3>1. cur[u] \in Callers /\ cur[u] # c BY <1>3, <2>2 DEF IInv, ThreadInv, TypeOK, Busy, At
      <3>2. PICK d \in Callers : d = cur[u] /\ d # c BY <3>1
      <3>3. Told(d)' = Told(d) /\ UNCHANGED <<code[d], told[d]>> BY <1>1, <3>2
      <3>4. TellOK(u) BY DEF AnswerInv
      <3>5. cur'[u] = d /\ pc'[u] = pc[u] BY <1>3, <3>2
      <3> QED BY <1>3, <3>2, <3>3, <3>4, <3>5 DEF TellOK, Told
    <2> QED BY <2>1, <2>2
  <1> QED BY <1>1, <1>2, <1>3

LEMMA CallAnswer ==
  ASSUME IInv, AnswerInv, NEW c \in Callers, NEW k \in Codes, Call(c, k)
  PROVE  AnswerInv'
  <1>1. /\ cpc[c] = "idle" /\ code' = [code EXCEPT ![c] = k]
        /\ runs' = [runs EXCEPT ![c] = 0] /\ told' = [told EXCEPT ![c] = 0]
        /\ UNCHANGED <<pc, cur, cnt, todo>>
        BY DEF Call, server
  <1>2. ~Pending(c) /\ todo[c] = <<>> BY <1>1 DEF IInv, CallerInv, CallerOK
  <1>3. told'[c] = 0 /\ \A d \in Callers : d # c => UNCHANGED <<code[d], told[d], runs[d], todo[d]>>
        BY <1>1 DEF IInv, TypeOK
  <1>4. ReplyOK(c)' BY <1>1, <1>2, <1>3 DEF ReplyOK
  <1>5. \A u \in Threads : ~At(u, c) BY <1>2 DEF Pending
  <1>6. \A d \in Callers : d # c => ReplyOK(d)' BY <1>3, OthersAnswer
  <1>7. \A u \in Threads : TellOK(u)' BY <1>1, <1>3, <1>5, OthersAnswer
  <1> QED BY <1>4, <1>6, <1>7 DEF AnswerInv

LEMMA HandleAnswer ==
  ASSUME IInv, AnswerInv, NEW t \in Threads, Handle(t), NEW c, c = cur[t]
  PROVE  AnswerInv'
  <1>1. /\ up /\ pc[t] = "parse"
        /\ pc' = [pc EXCEPT ![t] = IF code[c] = "UNKNOWN" THEN "reply" ELSE "store"]
        /\ runs' = [runs EXCEPT ![c] = runs[c] + 1] /\ told' = [told EXCEPT ![c] = -1]
        /\ UNCHANGED <<cur, cnt, callers, todo>>
        BY DEF Handle, Goto
  <1>2. /\ c \in Callers /\ \A u \in Threads : At(u, c) => u = t
        /\ \A k \in 1..Len(todo[c]) : todo[c][k].br # "REPLY"
        BY <1>1, Served DEF Busy
  <1>3. runs[c] = 0 BY <1>1, <1>2, PoolAssumption DEF IInv, RouteInv
  <1>4. /\ told'[c] = -1 /\ runs'[c] = 1 /\ code' = code
        /\ \A d \in Callers : d # c => UNCHANGED <<code[d], told[d], runs[d], todo[d]>>
        BY <1>1, <1>2, <1>3 DEF IInv, TypeOK, callers
  <1>5. /\ code[c] = "UNKNOWN" => pc'[t] = "reply"
        /\ code[c] # "UNKNOWN" => pc'[t] = "store"
        /\ \A u \in Threads : u # t => pc'[u] = pc[u]
        BY <1>1 DEF IInv, TypeOK
  <1>6. ReplyOK(c)' BY <1>1, <1>2, <1>4 DEF ReplyOK
  <1>7. TellOK(t)'
    <2>1. cur'[t] = c BY <1>1
    <2>2. CASE code[c] = "UNKNOWN" BY <1>4, <1>5, <2>1, <2>2 DEF TellOK, Told
    <2>3. CASE code[c] # "UNKNOWN" BY <1>4, <1>5, <2>1, <2>3 DEF TellOK, Told
    <2> QED BY <2>2, <2>3
  <1>8. \A u \in Threads : u # t => TellOK(u)' BY <1>1, <1>2, <1>4, <1>5, OthersAnswer
  <1>9. \A d \in Callers : d # c => ReplyOK(d)' BY <1>2, <1>4, OthersAnswer
  <1> QED BY <1>6, <1>7, <1>8, <1>9 DEF AnswerInv

LEMMA StoreAnswer ==
  ASSUME IInv, AnswerInv, NEW t \in Threads, Store(t), NEW c, c = cur[t]
  PROVE  AnswerInv'
  <1>1. /\ pc[t] = "store" /\ pc' = [pc EXCEPT ![t] = "fetch"] /\ cnt' = local[t] + 1
        /\ UNCHANGED <<cur, callers, todo, history>>
        BY DEF Store, Goto
  <1>2. cnt' >= 1 BY <1>1 DEF IInv, TypeOK
  <1>3. UNCHANGED <<code, told, runs>> BY <1>1 DEF callers, history
  <1>4. \A d : Told(d)' = Told(d) BY <1>3 DEF Told
  <1>5. \A d \in Callers : ReplyOK(d)' BY <1>1, <1>3, <1>4 DEF AnswerInv, ReplyOK
  <1>6. pc'[t] = "fetch" /\ \A u \in Threads : u # t => pc'[u] = pc[u] BY <1>1 DEF IInv, TypeOK
  <1>7. TellOK(t)' BY <1>1, <1>2, <1>3, <1>6 DEF AnswerInv, TellOK
  <1>8. ASSUME NEW u \in Threads, u # t PROVE TellOK(u)'
        BY <1>1, <1>2, <1>3, <1>4, <1>6, <1>8 DEF AnswerInv, TellOK
  <1> QED BY <1>5, <1>7, <1>8 DEF AnswerInv

LEMMA FetchAnswer ==
  ASSUME IInv, AnswerInv, NEW t \in Threads, Fetch(t), NEW c, c = cur[t]
  PROVE  AnswerInv'
  <1>1. /\ pc[t] = "fetch" /\ pc' = [pc EXCEPT ![t] = "reply"]
        /\ told' = [told EXCEPT ![c] = cnt]
        /\ UNCHANGED <<cur, cnt, callers, todo, runs>>
        BY DEF Fetch, Goto
  <1>2. /\ c \in Callers /\ c # Nobody /\ \A u \in Threads : At(u, c) => u = t
        /\ \A k \in 1..Len(todo[c]) : todo[c][k].br # "REPLY"
        BY <1>1, Served DEF Busy
  <1>3. cnt \in Nat /\ cnt >= 1 BY <1>1 DEF IInv, TypeOK, AnswerInv, TellOK
  <1>4. /\ told'[c] = cnt /\ code' = code
        /\ \A d \in Callers : d # c => UNCHANGED <<code[d], told[d], runs[d], todo[d]>>
        BY <1>1, <1>2 DEF IInv, TypeOK, callers
  <1>5. pc'[t] = "reply" /\ \A u \in Threads : u # t => pc'[u] = pc[u] BY <1>1 DEF IInv, TypeOK
  <1>6. runs[c] = 1 BY <1>1, <1>2 DEF IInv, RouteInv
  <1>7. ReplyOK(c)' BY <1>1, <1>2, <1>6 DEF ReplyOK
  <1>8. TellOK(t)'
    <2>1. cur'[t] = c /\ told'[c] # -1 /\ told'[c] # 0 BY <1>1, <1>3, <1>4
    <2> QED BY <1>5, <2>1 DEF TellOK, Told
  <1>9. \A u \in Threads : u # t => TellOK(u)' BY <1>1, <1>2, <1>4, <1>5, OthersAnswer
  <1>10. \A d \in Callers : d # c => ReplyOK(d)' BY <1>2, <1>4, OthersAnswer
  <1> QED BY <1>7, <1>8, <1>9, <1>10 DEF AnswerInv

LEMMA ReplyAnswer ==
  ASSUME IInv, AnswerInv, NEW t \in Threads, Reply(t), NEW c, c = cur[t]
  PROVE  AnswerInv'
  <1>1. /\ pc[t] = "reply" /\ pc' = [pc EXCEPT ![t] = "loop"] /\ cur' = [cur EXCEPT ![t] = Nobody]
        /\ todo' = IF cpc[c] = "gone" THEN todo
                   ELSE [todo EXCEPT ![c] = Append(todo[c], REPLY(rdata[t]))]
        /\ UNCHANGED <<cnt, callers, history>>
        BY DEF Reply, Goto
  <1>2. c \in Callers BY <1>1, Served DEF Busy
  <1>3. UNCHANGED <<code, told, runs>> BY <1>1 DEF callers, history
  <1>4. \A d : Told(d)' = Told(d) BY <1>3 DEF Told
  <1>5. Told(c) # 0 BY <1>1 DEF AnswerInv, TellOK
  <1>6. \A d \in Callers : d # c => todo'[d] = todo[d] BY <1>1 DEF IInv, TypeOK
  <1>7. ReplyOK(c)' BY <1>2, <1>3, <1>4, <1>5 DEF AnswerInv, ReplyOK
  <1>8. \A d \in Callers : d # c => ReplyOK(d)' BY <1>3, <1>4, <1>6 DEF AnswerInv, ReplyOK
  <1>9. pc'[t] = "loop" /\ \A u \in Threads : u # t => UNCHANGED <<pc[u], cur[u]>>
        BY <1>1 DEF IInv, TypeOK
  <1>10. TellOK(t)' BY <1>9 DEF TellOK
  <1>11. ASSUME NEW u \in Threads, u # t PROVE TellOK(u)'
         BY <1>1, <1>3, <1>4, <1>9, <1>11 DEF AnswerInv, TellOK
  <1> QED BY <1>7, <1>8, <1>10, <1>11 DEF AnswerInv

\* The driver's BR_DEAD_REPLY is no reply.
LEMMA ExitAnswer ==
  ASSUME IInv, AnswerInv, Exit, UNCHANGED <<callers, history>>
  PROVE  AnswerInv'
  <1> DEFINE waiting(c) == /\ cpc[c] \in {"ioctl", "wait"} /\ consumed[c]
                           /\ \A k \in DOMAIN todo[c] : todo[c][k] = COMPLETE
  <1>1. /\ pc' = All("absent")
        /\ todo' = [c \in Callers |-> IF waiting(c) THEN Append(todo[c], DEAD) ELSE todo[c]]
        BY DEF Exit
  <1>2. UNCHANGED <<code, told, runs>> BY DEF callers, history
  <1>3. \A d : Told(d)' = Told(d) BY <1>2 DEF Told
  <1>4. \A t \in Threads : TellOK(t)' BY <1>1 DEF TellOK, All
  <1>5. ASSUME NEW c \in Callers PROVE ReplyOK(c)'
    <2>1. CASE ~waiting(c)
      <3>1. todo'[c] = todo[c] BY <1>1, <2>1
      <3> QED BY <1>2, <1>3, <3>1 DEF AnswerInv, ReplyOK
    <2>2. CASE waiting(c)
      <3> DEFINE B == [br : {"TRANSACTION_COMPLETE", "REPLY", "DEAD_REPLY"}, val : Int]
      <3>1. todo[c] \in Seq(B) /\ DEAD \in B BY DEF IInv, TypeOK, DEAD, BR
      <3> HIDE DEF B
      <3>2. PICK s : s = Append(todo[c], DEAD) OBVIOUS
      <3>3. todo'[c] = s BY <1>1, <2>2, <3>2
      <3>4. /\ Len(s) = Len(todo[c]) + 1 /\ Len(todo[c]) \in Nat /\ DOMAIN todo[c] = 1..Len(todo[c])
            /\ \A k \in 1..Len(s) : s[k] = IF k = Len(todo[c]) + 1 THEN DEAD ELSE todo[c][k]
            BY <3>1, <3>2
      <3>5. DEAD.br # "REPLY" /\ COMPLETE.br # "REPLY" BY DEF DEAD, COMPLETE, BR
      <3>6. \A k \in 1..Len(todo[c]) : todo[c][k] = COMPLETE BY <2>2, <3>4
      <3>7. \A k \in 1..Len(s) : s[k].br # "REPLY"
        <4> TAKE k \in 1..Len(s)
        <4>1. s[k] = DEAD \/ (k \in 1..Len(todo[c]) /\ s[k] = todo[c][k]) BY <3>4
        <4> QED BY <3>5, <3>6, <4>1
      <3> QED BY <1>2, <3>3, <3>7 DEF AnswerInv, ReplyOK
    <2> QED BY <2>1, <2>2
  <1> QED BY <1>4, <1>5 DEF AnswerInv

LEMMA LoopFailsAnswer ==
  ASSUME IInv, AnswerInv, NEW t \in Threads, LoopFails(t)
  PROVE  AnswerInv'
  <1>1. CASE t = Main BY <1>1, ExitAnswer DEF LoopFails
  <1>2. CASE t # Main
    <2>1. pc' = [pc EXCEPT ![t] = "ended"] /\ UNCHANGED <<cur, cnt, todo, callers, history>>
          BY <1>2 DEF LoopFails
    <2>2. \A u \in Threads : pc'[u] = pc[u] \/ pc'[u] \notin {"store", "fetch", "reply"}
          BY <2>1 DEF IInv, TypeOK
    <2> QED BY <2>1, <2>2, AnswerQuiet DEF callers, history
  <1> QED BY <1>1, <1>2

LEMMA NextAnswer == IInv /\ AnswerInv /\ [Next]_vars => AnswerInv'
  <1> SUFFICES ASSUME IInv, AnswerInv, [Next]_vars PROVE AnswerInv' OBVIOUS
  <1>1. ASSUME NEW t \in Threads, thread(t) PROVE AnswerInv'
    <2>1. PICK c : c = cur[t] OBVIOUS
    <2>2. CASE (t = Main /\ EnterLoop) \/ Wait(t) \/ LeaveBlock(t) BY <2>2, PlainAnswer
    <2>3. CASE Read(t) BY <2>3, ReadAnswer
    <2>4. CASE Spawn(t) BY <2>4, SpawnAnswer
    <2>5. CASE Handle(t) BY <2>1, <2>5, HandleAnswer
    <2>6. CASE Store(t) BY <2>1, <2>6, StoreAnswer
    <2>7. CASE Fetch(t) BY <2>1, <2>7, FetchAnswer
    <2>8. CASE Reply(t) BY <2>1, <2>8, ReplyAnswer
    <2>9. CASE ReadArg(t) \/ Register(t) BY <2>9, PlainAnswer
    <2>10. CASE Crash(t) BY <2>10, ExitAnswer DEF Crash
    <2> QED BY <1>1, <2>2, <2>3, <2>4, <2>5, <2>6, <2>7, <2>8, <2>9, <2>10 DEF thread
  <1>2. ASSUME NEW t \in Threads, LoopFails(t) PROVE AnswerInv' BY <1>2, LoopFailsAnswer
  <1>3. ASSUME NEW c \in Callers, caller(c) PROVE AnswerInv'
        BY <1>3, CallIoctlAnswer, EmptyAnswer DEF caller
  <1>4. ASSUME NEW c \in Callers, CallFails(c) PROVE AnswerInv' BY <1>4, EmptyAnswer
  <1>5. ASSUME NEW c \in Callers, NEW k \in Codes, Call(c, k) PROVE AnswerInv' BY <1>5, CallAnswer
  <1>6. CASE UNCHANGED vars
        BY <1>6, AnswerQuiet DEF vars, server, callers, history
  <1> QED BY <1>1, <1>2, <1>3, <1>4, <1>5, <1>6 DEF Next

\* The pool's steps that no caller can tell from the outside.
LEMMA Unseen ==
  ASSUME UNCHANGED <<up, cpc, code, told, ret, calls>>
  PROVE  UNCHANGED C!vars
  <1>1. phase' = phase /\ val' = val BY DEF phase, val
  <1> QED BY <1>1 DEF C!vars

LEMMA ValTold == \A c \in Callers : val[c] = Told(c) /\ val'[c] = Told(c)'
  BY DEF val, Told

\* The calls made bound what a handler may tell.
LEMMA MadeBound ==
  ASSUME IInv
  PROVE  C!Made \in Nat /\ cnt <= C!Made
  <1> DEFINE S == {x \in Callers \X (1..MaxCalls) : x[2] <= calls[x[1]]}
  <1>1. S \subseteq Callers \X (1..MaxCalls) /\ Counted \subseteq S BY DEF Counted
  <1>2. C!Made = Cardinality(S)
    <2>1. C!Made = C!Cardinality(S) BY DEF C!Made
    <2>2. \A T : C!Cardinality(T) = Cardinality(T) BY Zenon DEF C!Cardinality, Cardinality
    <2> QED BY <2>1, <2>2, Zenon
  <1> HIDE DEF S
  <1>3. Cardinality(S) \in Nat /\ Cardinality(Counted) \in Nat /\ Cardinality(Counted) <= Cardinality(S)
        BY <1>1, CallsFinite, CountedSize, FS_Subset
  <1>4. cnt \in Nat /\ cnt <= Cardinality(Counted) BY DEF IInv, TypeOK, CountInv
  <1> QED BY <1>2, <1>3, <1>4

LEMMA CallStep ==
  ASSUME IInv, NEW c \in Callers, NEW k \in Codes, Call(c, k)
  PROVE  C!Ask(c)
  <1>1. /\ cpc[c] = "idle" /\ calls[c] < MaxCalls /\ cpc' = [cpc EXCEPT ![c] = "ioctl"]
        /\ calls' = [calls EXCEPT ![c] = @ + 1] /\ ret' = [ret EXCEPT ![c] = 0]
        /\ code' = [code EXCEPT ![c] = k] /\ told' = [told EXCEPT ![c] = 0] /\ up' = up
        BY DEF Call
  <1>2. phase[c] = "idle" BY <1>1 DEF phase
  <1>3. phase' = [phase EXCEPT ![c] = "open"] BY <1>1 DEF phase, IInv, TypeOK
  <1>4. val' = [val EXCEPT ![c] = 0] BY <1>1 DEF val, IInv, TypeOK
  <1> QED BY <1>1, <1>2, <1>3, <1>4 DEF C!Ask

LEMMA CallIoctlStep ==
  ASSUME IInv, NEW c \in Callers, CallIoctl(c)
  PROVE  UNCHANGED C!vars
  <1>1. /\ cpc[c] = "ioctl" /\ cpc' = [cpc EXCEPT ![c] = "wait"]
        /\ UNCHANGED <<up, code, told, ret, calls>>
        BY DEF CallIoctl, history
  <1>2. phase' = phase BY <1>1 DEF phase, IInv, TypeOK
  <1>3. val' = val BY <1>1 DEF val
  <1> QED BY <1>1, <1>2, <1>3 DEF C!vars

LEMMA CallFailsStep ==
  ASSUME IInv, NEW c \in Callers, cpc[c] \in {"ioctl", "wait"}, cpc' = [cpc EXCEPT ![c] = "gone"],
         UNCHANGED <<up, code, told, ret, calls>>
  PROVE  C!Fail(c)
  <1>1. phase[c] = "open" BY DEF phase
  <1>2. phase' = [phase EXCEPT ![c] = "gone"] BY DEF phase, IInv, TypeOK
  <1>3. val' = val BY DEF val
  <1> QED BY <1>1, <1>2, <1>3 DEF C!Fail

\* binder_parse returns the result that was executed, gives the call up, or
\* lets the loop go on.
LEMMA CallParseStep ==
  ASSUME IInv, AnswerInv, NEW c \in Callers, CallParse(c)
  PROVE  C!Return(c) \/ C!Fail(c) \/ UNCHANGED C!vars
  <1> DEFINE returned == {todo[c][k] : k \in DOMAIN todo[c]}
             replies == {b \in returned : b.br = "REPLY"}
  <1>1. /\ cpc[c] = "wait"
        /\ cpc' = [cpc EXCEPT ![c] = IF DEAD \in returned THEN "gone"
                                     ELSE IF replies # {} THEN "idle" ELSE "ioctl"]
        /\ ret' = [ret EXCEPT ![c] = IF replies # {} THEN (CHOOSE b \in replies : TRUE).val ELSE 0]
        /\ UNCHANGED <<up, code, told, calls>>
        BY DEF CallParse, history
  <1>2. ret[c] = 0 BY <1>1 DEF IInv, CallerInv, CallerOK
  <1>3. ASSUME replies # {}
        PROVE  (CHOOSE b \in replies : TRUE).val = told[c] /\ Told(c) # 0 /\ DEAD \notin returned
    <2>1. PICK b : b = (CHOOSE x \in replies : TRUE) /\ b \in replies BY <1>3
    <2>2. PICK k \in DOMAIN todo[c] : b = todo[c][k] /\ b.br = "REPLY" BY <2>1
    <2>3. DOMAIN todo[c] = 1..Len(todo[c]) BY DEF IInv, TypeOK
    <2>4. b.val = told[c] BY <2>2, <2>3 DEF IInv, CallerInv, CallerOK
    <2>5. Told(c) # 0 BY <2>2, <2>3 DEF AnswerInv, ReplyOK
    <2>6. DEAD \notin returned
      <3> SUFFICES ASSUME DEAD \in returned PROVE FALSE OBVIOUS
      <3>1. PICK j \in DOMAIN todo[c] : todo[c][j].br = "DEAD_REPLY" BY DEF DEAD, BR
      <3> QED BY <2>2, <2>3, <3>1 DEF IInv, CallerInv, CallerOK
    <2>7. (CHOOSE x \in replies : TRUE).val = told[c] BY <2>1, <2>4, Zenon
    <2> QED BY <2>5, <2>6, <2>7
  <1> HIDE DEF returned, replies
  <1>4. CASE replies # {}
    <2>1. cpc' = [cpc EXCEPT ![c] = "idle"] /\ ret' = [ret EXCEPT ![c] = told[c]] BY <1>1, <1>3, <1>4
    <2>2. phase[c] = "open" BY <1>1 DEF phase
    <2>3. phase' = [phase EXCEPT ![c] = "idle"] BY <2>1 DEF phase, IInv, TypeOK
    <2>4. val[c] # 0 /\ val[c] = told[c] BY <1>3, <1>4, ValTold DEF Told
    <2>5. val' = val BY <1>1 DEF val
    <2> QED BY <1>1, <2>1, <2>2, <2>3, <2>4, <2>5 DEF C!Return
  <1>5. CASE replies = {}
    <2>1. ret' = ret BY <1>1, <1>2, <1>5 DEF IInv, TypeOK
    <2>2. CASE DEAD \in returned BY <1>1, <2>1, <2>2, CallFailsStep
    <2>3. CASE DEAD \notin returned
      <3>1. cpc' = [cpc EXCEPT ![c] = "ioctl"] BY <1>1, <1>5, <2>3
      <3>2. phase' = phase BY <1>1, <3>1 DEF phase, IInv, TypeOK
      <3>3. val' = val BY <1>1 DEF val
      <3> QED BY <1>1, <2>1, <3>2, <3>3 DEF C!vars
    <2> QED BY <2>2, <2>3
  <1> QED BY <1>4, <1>5

\* An unknown code fails at once; sayhello_to has not come to its end.
LEMMA HandleStep ==
  ASSUME IInv, AnswerInv, NEW t \in Threads, Handle(t), NEW c, c = cur[t]
  PROVE  (c \in Callers /\ C!Execute(c, -1)) \/ UNCHANGED C!vars
  <1>1. /\ up /\ pc[t] = "parse" /\ told' = [told EXCEPT ![c] = -1]
        /\ UNCHANGED <<up, cpc, code, ret, calls>>
        BY DEF Handle, Goto, callers
  <1>2. c \in Callers /\ cpc[c] # "idle" BY <1>1, Served DEF Busy
  <1>3. runs[c] = 0 BY <1>1, <1>2, PoolAssumption DEF IInv, RouteInv
  <1>4. told[c] = 0 BY <1>2, <1>3 DEF AnswerInv, ReplyOK
  <1>5. phase[c] # "idle" /\ phase' = phase BY <1>1, <1>2 DEF phase
  <1>6. told'[c] = -1 /\ \A d \in Callers : d # c => told'[d] = told[d] BY <1>1, <1>2 DEF IInv, TypeOK
  <1>7. val[c] = 0 BY <1>2, <1>4 DEF val
  <1>8. CASE code[c] = "UNKNOWN"
    <2>1. val' = [val EXCEPT ![c] = -1] BY <1>1, <1>2, <1>6, <1>8 DEF val
    <2> QED BY <1>1, <1>2, <1>5, <1>7, <2>1 DEF C!Execute
  <1>9. CASE code[c] # "UNKNOWN"
    <2>1. \A d \in Callers : val'[d] = val[d] BY <1>1, <1>2, <1>6, <1>7, <1>9 DEF val
    <2>2. val' = val BY <2>1 DEF val
    <2> QED BY <1>1, <1>5, <2>2 DEF C!vars
  <1> QED BY <1>8, <1>9

LEMMA FetchStep ==
  ASSUME IInv, AnswerInv, NEW t \in Threads, Fetch(t), NEW c, c = cur[t]
  PROVE  c \in Callers /\ cnt \in 1..C!Made /\ C!Execute(c, cnt)
  <1>1. /\ up /\ pc[t] = "fetch" /\ told' = [told EXCEPT ![c] = cnt]
        /\ UNCHANGED <<up, cpc, code, ret, calls>>
        BY DEF Fetch, Goto, callers
  <1>2. c \in Callers /\ cpc[c] # "idle" BY <1>1, Served DEF Busy
  <1>3. told[c] = -1 /\ code[c] # "UNKNOWN" /\ cnt >= 1 BY <1>1 DEF AnswerInv, TellOK
  <1>4. cnt \in Nat /\ cnt \in 1..C!Made
    <2>1. cnt \in Nat BY DEF IInv, TypeOK
    <2> QED BY <1>3, <2>1, MadeBound
  <1>5. phase[c] # "idle" /\ phase' = phase BY <1>1, <1>2 DEF phase
  <1>6. told'[c] = cnt /\ cnt # -1 /\ \A d \in Callers : d # c => told'[d] = told[d]
        BY <1>1, <1>2, <1>4 DEF IInv, TypeOK
  <1>7. val[c] = 0 BY <1>2, <1>3 DEF val
  <1>8. val' = [val EXCEPT ![c] = cnt] BY <1>1, <1>2, <1>6, ZenonT(30) DEF val
  <1> QED BY <1>1, <1>2, <1>4, <1>5, <1>7, <1>8 DEF C!Execute

LEMMA ExitStep ==
  ASSUME up, Exit, UNCHANGED <<callers, history>>
  PROVE  C!Stop
  <1>1. up' = FALSE /\ UNCHANGED <<cpc, code, told, ret, calls>> BY DEF Exit, callers, history
  <1>2. phase' = phase /\ val' = val BY <1>1 DEF phase, val
  <1> QED BY <1>1, <1>2 DEF C!Stop

LEMMA InitCalls == Init => C!Init
  BY DEF Init, C!Init, phase, val

LEMMA NextCalls == IInv /\ AnswerInv /\ [Next]_vars => [C!Next]_C!vars
  <1> SUFFICES ASSUME IInv, AnswerInv, [Next]_vars PROVE [C!Next]_C!vars OBVIOUS
  <1>1. ASSUME NEW t \in Threads, thread(t) PROVE [C!Next]_C!vars
    <2>1. PICK c : c = cur[t] OBVIOUS
    <2>2. CASE EnterLoop \/ Wait(t) \/ LeaveBlock(t) \/ Read(t) \/ Spawn(t) \/ Store(t)
               \/ Reply(t) \/ ReadArg(t) \/ Register(t)
      <3>1. UNCHANGED <<up, cpc, code, told, ret, calls>>
            BY <2>2 DEF EnterLoop, Wait, LeaveBlock, Read, Spawn, Store, Reply, ReadArg, Register,
                        callers, history
      <3> QED BY <3>1, Unseen
    <2>3. CASE Handle(t)
      <3>1. (c \in Callers /\ C!Execute(c, -1)) \/ UNCHANGED C!vars BY <2>1, <2>3, HandleStep
      <3> QED BY <3>1 DEF C!Next
    <2>4. CASE Fetch(t)
      <3>1. c \in Callers /\ cnt \in 1..C!Made /\ C!Execute(c, cnt) BY <2>1, <2>4, FetchStep
      <3> QED BY <3>1 DEF C!Next
    <2>5. CASE Crash(t)
      <3>1. C!Stop BY <2>5, ExitStep DEF Crash
      <3> QED BY <3>1 DEF C!Next
    <2> QED BY <1>1, <2>2, <2>3, <2>4, <2>5 DEF thread
  <1>2. ASSUME NEW t \in Threads, LoopFails(t) PROVE [C!Next]_C!vars
    <2>1. CASE t = Main
      <3>1. C!Stop BY <1>2, <2>1, ExitStep DEF LoopFails
      <3> QED BY <3>1 DEF C!Next
    <2>2. CASE t # Main
      <3>1. UNCHANGED <<up, cpc, code, told, ret, calls>>
            BY <1>2, <2>2 DEF LoopFails, callers, history
      <3> QED BY <3>1, Unseen
    <2> QED BY <2>1, <2>2
  <1>3. ASSUME NEW c \in Callers, CallIoctl(c) PROVE [C!Next]_C!vars BY <1>3, CallIoctlStep
  <1>4. ASSUME NEW c \in Callers, CallParse(c) PROVE [C!Next]_C!vars
    <2>1. C!Return(c) \/ C!Fail(c) \/ UNCHANGED C!vars BY <1>4, CallParseStep
    <2> QED BY <2>1 DEF C!Next
  <1>5. ASSUME NEW c \in Callers, CallFails(c) PROVE [C!Next]_C!vars
    <2>1. C!Fail(c) BY <1>5, CallFailsStep DEF CallFails, history
    <2> QED BY <2>1 DEF C!Next
  <1>6. ASSUME NEW c \in Callers, NEW k \in Codes, Call(c, k) PROVE [C!Next]_C!vars
    <2>1. C!Ask(c) BY <1>6, CallStep
    <2> QED BY <2>1 DEF C!Next
  <1>7. CASE UNCHANGED vars
        BY <1>7, Unseen DEF vars, server, callers, history
  <1> QED BY <1>1, <1>2, <1>3, <1>4, <1>5, <1>6, <1>7 DEF Next, caller

\* binder_call against binder_loop and its threads is a call executed at one
\* instant, at most once and only by a server that is there, which returns what
\* that execution computed: the pool implements Calls.
THEOREM CallsTheorem == Spec => ImplementsCalls
  <1>1. Init => IInv /\ AnswerInv /\ C!Init BY InitIInv, InitAnswer, InitCalls
  <1>2. IInv /\ AnswerInv /\ [Next]_vars => (IInv /\ AnswerInv)' /\ [C!Next]_C!vars
        BY NextIInv, NextAnswer, NextCalls
  <1> QED BY <1>1, <1>2, PTL DEF Spec, ImplementsCalls, C!Spec
=============================================================================
