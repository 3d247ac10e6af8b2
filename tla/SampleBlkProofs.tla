---------------------------- MODULE SampleBlkProofs ----------------------------
(***************************************************************************)
(* sample_blk serves every request once, answers reads with what was       *)
(* written, uses no memory it has freed and undoes a failed start, for any *)
(* number of programs and CPUs and any size of the disk and of a request.  *)
(***************************************************************************)
EXTENDS SampleBlk, BlockLayerProofs, FiniteSetTheorems, TLAPS

\* The way of a request: submitted by a program that has the device open, in
\* the queue, with one CPU.
RouteInv ==
  /\ \A p \in Procs : p \in queue => Active(p) /\ \A c \in CPUs : cur[c] # p
  /\ \A p \in Procs : Active(p) => p \in opened /\ (p \in queue \/ \E c \in CPUs : cur[c] = p)
  /\ \A c \in CPUs : /\ cur[c] = Idle <=> cpc[c] \in {"idle", "fetch"}
                     /\ cur[c] # Idle => Active(cur[c])
  /\ \A c, d \in CPUs : cur[c] = cur[d] /\ cur[c] # Idle => c = d

\* What is allocated after n allocations, and what is left when sampleblk_free
\* has come to its n-th step.
Held(n) == {"major"} \cup {AllocOrder[i] : i \in 1..n}
Left(n) == {FreeOrder[i] : i \in n..5}

\* The module's resources follow from where it is; it is in use only while it
\* is loaded completely, and a CPU may still be in the request function when
\* sampleblk_free begins.
LoadInv ==
  /\ mod = "out" => res = {}
  /\ mod = "alloc" => stage \in 1..4 /\ res = Held(stage - 1)
  /\ mod = "undo" => stage \in 0..3 /\ res = Held(stage)
  /\ mod = "loaded" => res = Held(0) \/ res = Held(4)
  /\ mod = "exit" => stage \in 1..5 /\ res = Left(stage)
  /\ opened # {} => mod = "loaded" /\ res = Held(4)
  /\ \A c \in CPUs : cpc[c] # "idle" => mod \in {"loaded", "exit"} /\ res = Held(4)

\* How far a CPU is with its request.
Serve(c) ==
  /\ cpc[c] = "segment" => /\ InBounds(req[cur[c]])
                           /\ seg[c] \in 1..req[cur[c]].segs
                           /\ Done(cur[c], seg[c] - 1)
  /\ cpc[c] = "end" => /\ InBounds(req[cur[c]]) <=> rv[c] = 0
                       /\ rv[c] = 0 => Done(cur[c], req[cur[c]].segs)

ServeInv == \A c \in CPUs : Serve(c)

IInv == TypeOK /\ RouteInv /\ LoadInv /\ DataInv /\ ServeInv

-----------------------------------------------------------------------------
(* The operators *)

LEMMA HeldValues ==
  /\ Held(0) = {"major"} /\ Held(1) = {"major", "dev"}
  /\ Held(2) = {"major", "dev", "data"} /\ Held(3) = {"major", "dev", "data", "queue"}
  /\ Held(4) = {"major", "dev", "data", "queue", "disk"}
  <1>1. /\ 1..0 = {} /\ 1..1 = {1} /\ 1..2 = {1, 2} /\ 1..3 = {1, 2, 3} /\ 1..4 = {1, 2, 3, 4}
        OBVIOUS
  <1>2. /\ AllocOrder[1] = "dev" /\ AllocOrder[2] = "data"
        /\ AllocOrder[3] = "queue" /\ AllocOrder[4] = "disk"
        BY DEF AllocOrder
  <1> QED BY <1>1, <1>2 DEF Held

LEMMA LeftValues ==
  /\ Left(1) = Held(4) /\ Left(2) = {"disk", "data", "dev", "major"}
  /\ Left(3) = {"data", "dev", "major"} /\ Left(4) = {"dev", "major"} /\ Left(5) = {"major"}
  <1>1. /\ 1..5 = {1, 2, 3, 4, 5} /\ 2..5 = {2, 3, 4, 5} /\ 3..5 = {3, 4, 5}
        /\ 4..5 = {4, 5} /\ 5..5 = {5}
        OBVIOUS
  <1>2. /\ FreeOrder[1] = "queue" /\ FreeOrder[2] = "disk" /\ FreeOrder[3] = "data"
        /\ FreeOrder[4] = "dev" /\ FreeOrder[5] = "major"
        BY DEF FreeOrder
  <1> QED BY <1>1, <1>2, HeldValues DEF Left

LEMMA HeldSteps ==
  ASSUME NEW n \in 1..4
  PROVE  /\ Held(n) = Held(n - 1) \cup {AllocOrder[n]}
         /\ Held(n) \ {AllocOrder[n]} = Held(n - 1)
         /\ Held(n) \subseteq {"major", "dev", "data", "queue", "disk"}
  <1>1. CASE n = 1 BY <1>1, HeldValues DEF AllocOrder
  <1>2. CASE n = 2 BY <1>2, HeldValues DEF AllocOrder
  <1>3. CASE n = 3 BY <1>3, HeldValues DEF AllocOrder
  <1>4. CASE n = 4 BY <1>4, HeldValues DEF AllocOrder
  <1> QED BY <1>1, <1>2, <1>3, <1>4

LEMMA OrderLens ==
  /\ Len(AllocOrder) = 4 /\ Len(FreeOrder) = 5
  /\ AllocOrder[1] = "dev" /\ AllocOrder[2] = "data"
  /\ AllocOrder[3] = "queue" /\ AllocOrder[4] = "disk"
  /\ FreeOrder[1] = "queue" /\ FreeOrder[2] = "disk" /\ FreeOrder[3] = "data"
  /\ FreeOrder[4] = "dev" /\ FreeOrder[5] = "major"
  BY DEF AllocOrder, FreeOrder

-----------------------------------------------------------------------------
(* A CPU that serves a request while others take steps *)

LEMMA BusyCPU ==
  ASSUME IInv, NEW c \in CPUs, cpc[c] \in {"segment", "end"}
  PROVE  cur[c] \in Procs /\ Active(cur[c]) /\ req[cur[c]] \in Requests
  BY SMTT(30) DEF IInv, RouteInv, Active, TypeOK, IoTypeOK

LEMMA ServeKept ==
  ASSUME IInv, NEW c \in CPUs, UNCHANGED <<cpc[c], cur[c], seg[c], rv[c]>>,
         cpc[c] \in {"segment", "end"} => Kept(cur[c])
  PROVE  Serve(c)'
  <1> USE DEF IInv, ServeInv
  <1>1. Serve(c) OBVIOUS
  <1>2. CASE cpc[c] = "segment"
    <2>1. Kept(cur[c]) /\ req[cur[c]] \in Requests BY <1>2, BusyCPU
    <2>2. InBounds(req[cur[c]]) /\ seg[c] \in 1..req[cur[c]].segs /\ Done(cur[c], seg[c] - 1)
          BY <1>1, <1>2 DEF Serve
    <2>3. seg[c] - 1 \in 0..req[cur[c]].segs BY <2>1, <2>2, RequestFields
    <2>4. Done(cur[c], seg[c] - 1)' BY <2>1, <2>2, <2>3, DoneKept DEF Done
    <2> QED BY <1>2, <2>1, <2>2, <2>4 DEF Serve, Kept
  <1>3. CASE cpc[c] = "end"
    <2>1. Kept(cur[c]) /\ req[cur[c]] \in Requests BY <1>3, BusyCPU
    <2>2. InBounds(req[cur[c]]) <=> rv[c] = 0 BY <1>1, <1>3 DEF Serve
    <2>3. ASSUME rv[c] = 0 PROVE Done(cur[c], req[cur[c]].segs)'
      <3>1. Done(cur[c], req[cur[c]].segs) BY <2>3, <1>1, <1>3 DEF Serve
      <3>2. req[cur[c]].segs \in 0..req[cur[c]].segs BY <2>1, RequestFields, BlockAssumption
      <3> QED BY <2>1, <2>2, <2>3, <3>1, <3>2, DoneKept DEF Done, Kept
    <2> QED BY <1>3, <2>1, <2>2, <2>3 DEF Serve, Kept
  <1>4. CASE cpc[c] \notin {"segment", "end"} BY <1>4 DEF Serve
  <1> QED BY <1>2, <1>3, <1>4

-----------------------------------------------------------------------------
(* Loading and unloading: no request is in flight, or nothing of it changes *)

LEMMA InitIInv == Init => IInv
  <1> SUFFICES ASSUME Init PROVE IInv OBVIOUS
  <1>1. IoTypeOK /\ DataInv BY InitData DEF Init
  <1>2. TypeOK BY <1>1, BlockAssumption DEF Init, TypeOK
  <1>3. RouteInv BY OneDisk DEF Init, IoInit, RouteInv, Active
  <1>4. LoadInv BY DEF Init, LoadInv
  <1>5. ServeInv BY DEF Init, ServeInv, Serve
  <1> QED BY <1>1, <1>2, <1>3, <1>4, <1>5 DEF IInv

\* A step that leaves the requests and the disk alone, for the CPUs that take
\* no part in it.
LEMMA OtherCPUs ==
  ASSUME IInv, UNCHANGED io, NEW c \in CPUs, UNCHANGED <<cpc[c], cur[c], seg[c], rv[c]>>
  PROVE  Serve(c)'
  <1>1. \A q \in Procs : Kept(q) BY DataQuiet DEF IInv, TypeOK
  <1> QED BY <1>1, BusyCPU, ServeKept

LEMMA QuietStep ==
  ASSUME IInv, UNCHANGED <<io, cpus>>
  PROVE  IoTypeOK' /\ DataInv' /\ ServeInv'
  <1>1. IoTypeOK' /\ DataInv' BY DataQuiet DEF IInv, TypeOK
  <1>2. ServeInv' BY OtherCPUs DEF ServeInv, cpus
  <1> QED BY <1>1, <1>2

LEMMA ModuleIInv ==
  ASSUME IInv, sampleblk_init \/ AllocFails \/ AllocUndo \/ sampleblk_exit \/ sampleblk_free
  PROVE  IInv'
  <1>1. UNCHANGED <<io, opened, queue, cpus>>
        BY DEF sampleblk_init, AllocFails, AllocUndo, sampleblk_exit, sampleblk_free
  <1>2. IoTypeOK' /\ DataInv' /\ ServeInv' BY <1>1, QuietStep
  <1>3. RouteInv' BY <1>1 DEF IInv, RouteInv, Active, io, cpus
  <1>4. (opened \subseteq Procs)' /\ (queue \subseteq Procs)'
        /\ (cpc \in [CPUs -> {"idle", "fetch", "segment", "end"}])'
        /\ (cur \in [CPUs -> Procs \cup {Idle}])'
        /\ (seg \in [CPUs -> 0..(MaxSegs + 1)])' /\ (rv \in [CPUs -> {0, EIO}])'
        BY <1>1 DEF IInv, TypeOK, cpus
  <1>5. LoadInv' /\ mod' \in {"out", "alloc", "undo", "loaded", "exit", "oops"}
        /\ stage' \in 0..5 /\ res' \subseteq {"major", "dev", "data", "queue", "disk"}
    <2> USE HeldValues, LeftValues, OrderLens DEF IInv, TypeOK, LoadInv, cpus
    <2>1. CASE sampleblk_init BY <2>1, <1>1 DEF sampleblk_init
    <2>2. CASE AllocFails BY <2>2, <1>1 DEF AllocFails
    <2>3. CASE AllocUndo
      <3>1. CASE stage = 0 BY <2>3, <3>1, <1>1 DEF AllocUndo
      <3>2. CASE stage # 0
        <4>1. stage \in 1..3 /\ res = Held(stage) /\ res' = res \ {AllocOrder[stage]}
              /\ stage' = stage - 1 /\ mod' = "undo" /\ mod = "undo"
              BY <2>3, <3>2 DEF AllocUndo
        <4>2. res' = Held(stage') /\ stage' \in 0..3
              /\ res' \subseteq {"major", "dev", "data", "queue", "disk"}
              BY ONLY <4>1, HeldSteps
        <4>3. opened = {} /\ \A c \in CPUs : cpc[c] = "idle" BY <4>1
        <4> QED BY <4>1, <4>2, <4>3, <1>1
      <3> QED BY <3>1, <3>2
    <2>4. CASE sampleblk_exit BY <2>4, <1>1 DEF sampleblk_exit
    <2>5. CASE sampleblk_free BY <2>5, <1>1 DEF sampleblk_free, Drained
    <2> QED BY <2>1, <2>2, <2>3, <2>4, <2>5
  <1> QED BY <1>2, <1>3, <1>4, <1>5 DEF IInv, TypeOK

LEMMA AllocNextIInv ==
  ASSUME IInv, AllocNext
  PROVE  IInv'
  <1> USE DEF IInv, AllocNext
  <1>1. mod = "alloc" /\ stage \in {1, 2, 3, 4} BY DEF LoadInv
  <1>2. opened = {} /\ \A c \in CPUs : cpc[c] = "idle" BY <1>1 DEF LoadInv
  <1>3. \A p \in Procs : req[p] = NoReq BY <1>2 DEF RouteInv, Active
  <1>4. UNCHANGED <<req, pages, seen, opened, queue, cpus>> OBVIOUS
  <1>5. \/ UNCHANGED <<data, stable>>
        \/ data' = [x \in Cells |-> Blank] /\ stable' = [x \in Cells |-> {Blank}]
        OBVIOUS
  <1>6. TypeOK'
    <2>1. IoTypeOK' BY <1>4, <1>5 DEF TypeOK, IoTypeOK
    <2>2. mod' \in {"alloc", "loaded"} /\ stage' \in 0..5 BY <1>1, OrderLens
    <2>3. res' \subseteq {"major", "dev", "data", "queue", "disk"}
      <3>1. res' = Held(stage - 1) \cup {AllocOrder[stage]} BY <1>1 DEF LoadInv
      <3> QED BY <3>1, <1>1, HeldSteps
    <2> QED BY <2>1, <2>2, <2>3, <1>4 DEF TypeOK, cpus
  <1>7. RouteInv' BY <1>4 DEF RouteInv, Active, cpus
  <1>8. LoadInv'
    <2> USE HeldValues, OrderLens, <1>2, <1>4 DEF LoadInv, cpus
    <2>1. CASE stage = 1 BY <2>1, <1>1
    <2>2. CASE stage = 2 BY <2>2, <1>1
    <2>3. CASE stage = 3 BY <2>3, <1>1
    <2>4. CASE stage = 4 BY <2>4, <1>1
    <2> QED BY <1>1, <2>1, <2>2, <2>3, <2>4
  <1>9. DataInv'
    <2>1. \A p \in Procs : ~Active(p)' BY <1>3, <1>4 DEF Active
    <2>2. \A x \in Cells : data'[x] \in stable'[x] \cup Writing(x)'
          BY <1>3, <1>4, <1>5 DEF DataInv, Writing
    <2> QED BY <2>1, <2>2 DEF DataInv
  <1>10. ServeInv' BY <1>2, <1>4 DEF ServeInv, Serve, cpus
  <1> QED BY <1>6, <1>7, <1>8, <1>9, <1>10

-----------------------------------------------------------------------------
(* Programs *)

LEMMA OpenCloseIInv ==
  ASSUME IInv, NEW p \in Procs, Open(p) \/ Close(p)
  PROVE  IInv'
  <1>1. UNCHANGED <<io, mod, stage, res, queue, cpus>> BY DEF Open, Close
  <1>2. IoTypeOK' /\ DataInv' /\ ServeInv' BY <1>1, QuietStep
  <1>3. TypeOK' BY <1>1, <1>2 DEF IInv, TypeOK, cpus, Open, Close
  <1>4. RouteInv' BY <1>1 DEF IInv, RouteInv, Active, io, cpus, Open, Close
  <1>5. LoadInv' BY <1>1, HeldValues DEF IInv, LoadInv, io, cpus, Open, Close
  <1> QED BY <1>2, <1>3, <1>4, <1>5 DEF IInv

LEMMA SubmitIInv ==
  ASSUME IInv, NEW p \in Procs, NEW r \in Requests, Submit(p, r)
  PROVE  IInv'
  <1> USE DEF IInv
  <1>1. p \in opened /\ queue' = queue \cup {p} /\ UNCHANGED <<module, cpus>>
        BY DEF Submit
  <1>2. /\ IoTypeOK' /\ DataInv' /\ req[p] = NoReq /\ req' = [req EXCEPT ![p] = r]
        /\ \A q \in Procs : q # p /\ Active(q) => Kept(q)
        BY SubmitData DEF Submit, TypeOK
  <1>3. TypeOK' BY <1>1, <1>2 DEF TypeOK, module, cpus
  <1>4. \A c \in CPUs : cur[c] # p BY <1>2, OneDisk DEF RouteInv, Active
  <1>5. RouteInv'
    <2>1. r # NoReq BY RequestFields
    <2> QED BY <2>1, <1>1, <1>2, <1>4 DEF RouteInv, Active, cpus, module, TypeOK, IoTypeOK
  <1>6. LoadInv' BY <1>1 DEF LoadInv, module, cpus
  <1>7. ASSUME NEW c \in CPUs PROVE Serve(c)'
        BY <1>1, <1>2, <1>4, BusyCPU, ServeKept DEF cpus
  <1> QED BY <1>2, <1>3, <1>5, <1>6, <1>7 DEF ServeInv

-----------------------------------------------------------------------------
(* sampleblk_request *)

LEMMA RunQueueIInv ==
  ASSUME IInv, NEW c \in CPUs, RunQueue(c) \/ FetchNone(c)
  PROVE  IInv'
  <1> USE DEF IInv
  <1>1. UNCHANGED <<io, module, queue, cur, seg>> BY DEF RunQueue, FetchNone
  <1>2. /\ cpc[c] \in {"idle", "fetch"} /\ cpc'[c] \in {"idle", "fetch"}
        /\ cpc' = [cpc EXCEPT ![c] = cpc'[c]]
        /\ rv' \in [CPUs -> {0, EIO}] /\ \A d \in CPUs : d # c => rv'[d] = rv[d]
        BY DEF RunQueue, FetchNone, Goto, TypeOK
  <1>3. DataInv' /\ IoTypeOK' BY <1>1, DataQuiet DEF TypeOK
  <1>4. TypeOK' BY <1>1, <1>2, <1>3 DEF TypeOK, module
  <1>5. RouteInv' BY <1>1, <1>2 DEF RouteInv, Active, io, module, TypeOK
  <1>6. LoadInv'
    <2>1. cpc'[c] # "idle" => mod \in {"loaded", "exit"} /\ res = Held(4)
          BY <1>1 DEF RunQueue, FetchNone, Goto, RouteInv, LoadInv, TypeOK
    <2> QED BY <2>1, <1>1, <1>2 DEF LoadInv, TypeOK, module
  <1>7. ServeInv'
    <2>1. Serve(c)' BY <1>2 DEF Serve
    <2>2. ASSUME NEW d \in CPUs, d # c PROVE Serve(d)'
          BY <2>2, <1>1, <1>2, OtherCPUs DEF TypeOK
    <2> QED BY <2>1, <2>2 DEF ServeInv
  <1> QED BY <1>3, <1>4, <1>5, <1>6, <1>7

LEMMA FetchIInv ==
  ASSUME IInv, NEW c \in CPUs, NEW p \in Procs, Fetch(c, p)
  PROVE  IInv'
  <1> USE DEF IInv
  <1>1. /\ UNCHANGED <<io, module>> /\ p \in queue /\ queue' = queue \ {p} /\ cpc[c] = "fetch"
        /\ cpc' = [cpc EXCEPT ![c] = IF Beyond(req[p]) THEN "end" ELSE "segment"]
        /\ cur' = [cur EXCEPT ![c] = p] /\ seg' = [seg EXCEPT ![c] = 1]
        /\ rv' = IF Beyond(req[p]) THEN [rv EXCEPT ![c] = EIO] ELSE rv
        BY DEF Fetch, Goto
  <1>2. p # Idle /\ Active(p) /\ req[p] \in Requests /\ cur[c] = Idle
        BY <1>1, OneDisk DEF RouteInv, Active, TypeOK, IoTypeOK
  <1>3. DataInv' /\ IoTypeOK' BY <1>1, DataQuiet DEF TypeOK
  <1>4. TypeOK' BY <1>1, <1>3, BlockAssumption DEF TypeOK, module
  <1>5. RouteInv'
    <2>1. /\ cpc'[c] \in {"segment", "end"} /\ cur'[c] = p
          /\ \A d \in CPUs : d # c => cpc'[d] = cpc[d] /\ cur'[d] = cur[d]
          BY <1>1 DEF TypeOK
    <2>2. req' = req /\ opened' = opened BY <1>1 DEF io, module
    <2>3. \A q \in Procs : q \in queue' => Active(q)' /\ \A d \in CPUs : cur'[d] # q
          BY <1>1, <2>1, <2>2 DEF RouteInv, Active
    <2>4. \A q \in Procs : Active(q)' => q \in opened' /\ (q \in queue' \/ \E d \in CPUs : cur'[d] = q)
      <3> SUFFICES ASSUME NEW q \in Procs, Active(q)
                   PROVE  q \in opened' /\ (q \in queue' \/ \E d \in CPUs : cur'[d] = q)
          BY <2>2 DEF Active
      <3>1. q \in opened' BY <2>2 DEF RouteInv
      <3>2. CASE q = p BY <3>1, <3>2, <2>1
      <3>3. CASE q # p /\ q \in queue BY <3>1, <3>3, <1>1
      <3>4. CASE q # p /\ q \notin queue
        <4>1. PICK d \in CPUs : cur[d] = q BY <3>4 DEF RouteInv
        <4>2. d # c BY <4>1, <1>2, OneDisk
        <4> QED BY <4>1, <4>2, <2>1, <3>1
      <3> QED BY <3>2, <3>3, <3>4
    <2>5. \A d \in CPUs : /\ cur'[d] = Idle <=> cpc'[d] \in {"idle", "fetch"}
                          /\ cur'[d] # Idle => req'[cur'[d]] # NoReq
          BY <2>1, <2>2, <1>2 DEF RouteInv, Active
    <2>6. \A d, e \in CPUs : cur'[d] = cur'[e] /\ cur'[d] # Idle => d = e
          BY <2>1, <1>1, <1>2 DEF RouteInv
    <2> QED BY <2>3, <2>4, <2>5, <2>6 DEF RouteInv, Active
  <1>6. LoadInv'
    <2>1. mod \in {"loaded", "exit"} /\ res = Held(4) BY <1>1 DEF LoadInv
    <2> QED BY <2>1, <1>1 DEF LoadInv, TypeOK, module
  <1>7. ServeInv'
    <2>1. Serve(c)'
      <3>1. req[p].segs \in 1..MaxSegs /\ req[p].pos \in 0..(NSects - 1) BY <1>2, RequestFields
      <3>2. Beyond(req[p]) <=> ~InBounds(req[p])
            BY <3>1, BlockAssumption DEF Beyond, InBounds
      <3>3. cur'[c] = p /\ seg'[c] = 1 /\ req' = req /\ data' = data /\ pages' = pages /\ seen' = seen
            BY <1>1 DEF io, TypeOK
      <3>4. CASE Beyond(req[p])
        <4>1. cpc'[c] = "end" /\ rv'[c] # 0 BY <1>1, <3>4 DEF TypeOK, EIO
        <4> QED BY <4>1, <3>2, <3>3, <3>4 DEF Serve
      <3>5. CASE ~Beyond(req[p])
        <4>1. cpc'[c] = "segment" BY <1>1, <3>5 DEF TypeOK
        <4>2. Done(p, 0)' BY DEF Done
        <4>3. 1 \in 1..req[p].segs /\ 1 - 1 = 0 BY <3>1, BlockAssumption
        <4> QED BY <4>1, <4>2, <4>3, <3>2, <3>3, <3>5 DEF Serve, Done
      <3> QED BY <3>4, <3>5
    <2>2. ASSUME NEW d \in CPUs, d # c PROVE Serve(d)'
          BY <2>2, <1>1, OtherCPUs DEF TypeOK
    <2> QED BY <2>1, <2>2 DEF ServeInv
  <1> QED BY <1>3, <1>4, <1>5, <1>6, <1>7

LEMMA SegmentIInv ==
  ASSUME IInv, NEW c \in CPUs, Segment(c), NEW p, p = cur[c], NEW k, k = seg[c]
  PROVE  IInv'
  <1> USE DEF IInv
  <1>1. /\ UNCHANGED <<module, queue, cur>> /\ cpc[c] = "segment"
        /\ cpc' = [cpc EXCEPT ![c] = IF k = req[p].segs THEN "end" ELSE "segment"]
        /\ seg' = [seg EXCEPT ![c] = @ + 1] /\ rv' = [rv EXCEPT ![c] = 0]
        BY DEF Segment, Goto
  <1>2. p \in Procs /\ Active(p) /\ req[p].segs \in 1..MaxSegs BY <1>1, BusyCPU, RequestFields
  <1>3. InBounds(req[p]) /\ k \in 1..req[p].segs /\ Done(p, k - 1)
        BY <1>1 DEF ServeInv, Serve
  <1>4. /\ IoTypeOK' /\ DataInv' /\ Done(p, k)' /\ req' = req
        /\ \A q \in Procs : q # p /\ Active(q) => Kept(q)
        BY <1>2, <1>3, CopyData DEF Segment, TypeOK
  <1>5. TypeOK'
    <2>1. seg' \in [CPUs -> 0..(MaxSegs + 1)]
          BY <1>1, <1>2, <1>3, BlockAssumption DEF TypeOK
    <2> QED BY <2>1, <1>1, <1>4 DEF TypeOK, module
  <1>6. RouteInv' BY <1>1, <1>4 DEF RouteInv, Active, module, TypeOK
  <1>7. LoadInv' BY <1>1 DEF LoadInv, module, TypeOK
  <1>8. Serve(c)'
    <2>1. cur'[c] = p /\ seg'[c] = k + 1 /\ rv'[c] = 0
          /\ cpc'[c] = IF k = req[p].segs THEN "end" ELSE "segment"
          BY <1>1 DEF TypeOK
    <2>2. CASE k = req[p].segs BY <2>1, <2>2, <1>3, <1>4 DEF Serve, Done
    <2>3. CASE k # req[p].segs
      <3>1. k + 1 \in 1..req[p].segs /\ (k + 1) - 1 = k BY <2>3, <1>2, <1>3
      <3> QED BY <2>1, <2>3, <3>1, <1>3, <1>4 DEF Serve, Done
    <2> QED BY <2>2, <2>3
  <1>9. ASSUME NEW d \in CPUs, d # c PROVE Serve(d)'
    <2>1. UNCHANGED <<cpc[d], cur[d], seg[d], rv[d]>> BY <1>9, <1>1 DEF TypeOK
    <2>2. cpc[d] \in {"segment", "end"} => cur[d] \in Procs /\ Active(cur[d]) /\ cur[d] # p
          BY <1>9, BusyCPU, OneDisk DEF RouteInv
    <2> QED BY <2>1, <2>2, <1>4, ServeKept
  <1> QED BY <1>4, <1>5, <1>6, <1>7, <1>8, <1>9 DEF ServeInv

LEMMA EndIInv ==
  ASSUME IInv, NEW c \in CPUs, End(c), NEW p, p = cur[c]
  PROVE  IInv'
  <1> USE DEF IInv
  <1>1. /\ UNCHANGED <<module, queue, rv>> /\ cpc[c] = "end"
        /\ cpc' = [cpc EXCEPT ![c] = "fetch"]
        /\ cur' = [cur EXCEPT ![c] = Idle] /\ seg' = [seg EXCEPT ![c] = 0]
        BY DEF End, Goto
  <1>2. p \in Procs /\ Active(p) /\ req[p] \in Requests BY <1>1, BusyCPU
  <1>3. /\ InBounds(req[p]) <=> rv[c] = 0
        /\ rv[c] = 0 => Done(p, req[p].segs)
        BY <1>1 DEF ServeInv, Serve
  <1>4. /\ IoTypeOK' /\ DataInv' /\ req' = [req EXCEPT ![p] = NoReq]
        /\ \A q \in Procs : q # p /\ Active(q) => Kept(q)
        BY <1>2, <1>3, EndData DEF End, TypeOK
  <1>5. req'[p] = NoReq /\ \A q \in Procs : q # p => req'[q] = req[q]
        BY <1>2, <1>4 DEF TypeOK, IoTypeOK
  <1>6. TypeOK' BY <1>1, <1>4, BlockAssumption DEF TypeOK, module
  <1>7. RouteInv'
    <2>1. /\ cpc'[c] = "fetch" /\ cur'[c] = Idle
          /\ \A d \in CPUs : d # c => cpc'[d] = cpc[d] /\ cur'[d] = cur[d]
          BY <1>1 DEF TypeOK
    <2>2. \A d \in CPUs : cur'[d] # p BY <2>1, <1>2, OneDisk DEF RouteInv
    <2>3. p \notin queue BY <1>2 DEF RouteInv
    <2>4. \A q \in Procs : q \in queue' => Active(q)' /\ \A d \in CPUs : cur'[d] # q
          BY <2>1, <2>3, <1>1, <1>5, OneDisk DEF RouteInv, Active
    <2>5. \A q \in Procs : Active(q)' => q \in opened' /\ (q \in queue' \/ \E d \in CPUs : cur'[d] = q)
      <3> SUFFICES ASSUME NEW q \in Procs, q # p, Active(q)
                   PROVE  q \in opened /\ (q \in queue \/ \E d \in CPUs : cur'[d] = q)
          BY <1>1, <1>5 DEF Active, module
      <3>1. q \in opened /\ (q \in queue \/ \E d \in CPUs : cur[d] = q) BY DEF RouteInv
      <3> QED BY <3>1, <2>1
    <2>6. \A d \in CPUs : /\ cur'[d] = Idle <=> cpc'[d] \in {"idle", "fetch"}
                          /\ cur'[d] # Idle => req'[cur'[d]] # NoReq
      <3> TAKE d \in CPUs
      <3>1. CASE d = c BY <3>1, <2>1
      <3>2. CASE d # c
        <4>1. cur'[d] # Idle => cur'[d] \in Procs /\ req[cur'[d]] # NoReq
              BY <3>2, <2>1 DEF RouteInv, Active, TypeOK
        <4> QED BY <3>2, <4>1, <2>1, <2>2, <1>5 DEF RouteInv
      <3> QED BY <3>1, <3>2
    <2>7. \A d, e \in CPUs : cur'[d] = cur'[e] /\ cur'[d] # Idle => d = e
          BY <2>1 DEF RouteInv
    <2> QED BY <2>4, <2>5, <2>6, <2>7 DEF RouteInv, Active
  <1>8. LoadInv'
    <2>1. mod \in {"loaded", "exit"} /\ res = Held(4) BY <1>1 DEF LoadInv
    <2> QED BY <2>1, <1>1 DEF LoadInv, TypeOK, module
  <1>9. Serve(c)' BY <1>1 DEF Serve, TypeOK
  <1>10. ASSUME NEW d \in CPUs, d # c PROVE Serve(d)'
    <2>1. UNCHANGED <<cpc[d], cur[d], seg[d], rv[d]>> BY <1>10, <1>1 DEF TypeOK
    <2>2. cpc[d] \in {"segment", "end"} => cur[d] \in Procs /\ Active(cur[d]) /\ cur[d] # p
          BY <1>10, BusyCPU, OneDisk DEF RouteInv
    <2> QED BY <2>1, <2>2, <1>4, ServeKept
  <1> QED BY <1>4, <1>6, <1>7, <1>8, <1>9, <1>10 DEF ServeInv

-----------------------------------------------------------------------------
(* The results *)

LEMMA NextIInv == IInv /\ [Next]_vars => IInv'
  <1> SUFFICES ASSUME IInv, [Next]_vars PROVE IInv' OBVIOUS
  <1>1. CASE sampleblk_init \/ AllocFails \/ AllocUndo \/ sampleblk_exit \/ sampleblk_free
        BY <1>1, ModuleIInv
  <1>2. CASE AllocNext BY <1>2, AllocNextIInv
  <1>3. ASSUME NEW p \in Procs, Open(p) \/ Close(p) PROVE IInv' BY <1>3, OpenCloseIInv
  <1>4. ASSUME NEW p \in Procs, NEW r \in Requests, Submit(p, r) PROVE IInv' BY <1>4, SubmitIInv
  <1>5. ASSUME NEW c \in CPUs, sampleblk_request(c) PROVE IInv'
        BY <1>5, RunQueueIInv, FetchIInv, SegmentIInv, EndIInv DEF sampleblk_request
  <1>6. CASE UNCHANGED vars
    <2>1. IoTypeOK' /\ DataInv' /\ ServeInv' BY <1>6, QuietStep DEF vars
    <2> QED BY <2>1, <1>6 DEF IInv, TypeOK, RouteInv, LoadInv, Active, vars, module, cpus, io
  <1> QED BY <1>1, <1>2, <1>3, <1>4, <1>5, <1>6 DEF Next

THEOREM Inductive == Spec => []IInv
  BY InitIInv, NextIInv, PTL DEF Spec

\* The structures of the driver and of the block layer keep their types.
THEOREM TypeCorrect == Spec => []TypeOK
  <1>1. IInv => TypeOK BY DEF IInv
  <1> QED BY Inductive, <1>1, PTL

\* Whatever the CPUs interleave, a request that is ended is ended with its own
\* result, and a read returns the last write of each cell or one that
\* overlapped it.
THEOREM EndsRightTheorem == Spec => []EndsRight
  <1>1. IInv => EndsRight
    <2> SUFFICES ASSUME IInv, NEW c \in CPUs, cpc[c] = "end" PROVE GoodEnd(cur[c], rv[c])
        BY DEF EndsRight
    <2>1. Serve(c) BY DEF IInv, ServeInv
    <2> QED BY <2>1 DEF Serve, GoodEnd, Done, IsWrite
  <1> QED BY Inductive, <1>1, PTL

\* A request is in the queue or with exactly one CPU until it is ended: none
\* is lost between the lock's two critical sections and none is ended twice.
THEOREM ServedOnceTheorem == Spec => []ServedOnce
  <1>1. IInv => ServedOnce
    <2> SUFFICES ASSUME IInv, NEW p \in Procs
                 PROVE  Cardinality({c \in CPUs : cur[c] = p}) + (IF p \in queue THEN 1 ELSE 0)
                          = IF req[p] = NoReq THEN 0 ELSE 1
        BY DEF ServedOnce
    <2> USE DEF IInv, RouteInv, Active
    <2>1. CASE \E c \in CPUs : cur[c] = p
      <3>1. PICK c \in CPUs : cur[c] = p BY <2>1
      <3>2. p # Idle BY OneDisk
      <3>3. {d \in CPUs : cur[d] = p} = {c} BY <3>1, <3>2
      <3>4. Cardinality({c}) = 1 BY FS_Singleton
      <3> QED BY <3>1, <3>2, <3>3, <3>4
    <2>2. CASE ~\E c \in CPUs : cur[c] = p
      <3>1. {d \in CPUs : cur[d] = p} = {} BY <2>2
      <3>2. Cardinality({}) = 0 BY FS_EmptySet
      <3> QED BY <2>2, <3>1, <3>2
    <2> QED BY <2>1, <2>2
  <1> QED BY Inductive, <1>1, PTL

\* The request function runs only on memory that is there: sampleblk_free
\* begins with blk_cleanup_queue, which waits for every CPU.
THEOREM MemoryLiveTheorem == Spec => []MemoryLive
  <1>1. IInv => MemoryLive BY HeldValues DEF IInv, LoadInv, MemoryLive
  <1> QED BY Inductive, <1>1, PTL

\* The labels of sampleblk_alloc undo exactly what was done.
THEOREM FailureUndoneTheorem == Spec => []FailureUndone
  <1>1. IInv => FailureUndone BY HeldValues DEF IInv, LoadInv, FailureUndone
  <1> QED BY Inductive, <1>1, PTL
=============================================================================
