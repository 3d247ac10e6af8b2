------------------------------ MODULE RamhdProofs ------------------------------
(***************************************************************************)
(* The drivers ramhd_mkreq.c and ramhd_req.c end every request as a disk   *)
(* must, and the reads of ramhd_req.c are snapshots, for any number of     *)
(* programs, CPUs and disks and any size of a disk and of a request.       *)
(***************************************************************************)
EXTENDS Ramhd, BlockLayerProofs, TLAPS

\* A request of Sd waits or is with the CPU that serves its disk.
Served(p) == Active(p) /\ req[p].dev \in Sd /\ InBounds(req[p]) /\ pc[p] = "idle"

RouteInv ==
  /\ \A p \in Procs : p \in queue => Served(p) /\ \A c \in CPUs : cur[c] # p
  /\ \A p \in Procs : pc[p] # "idle" => Active(p) /\ req[p].dev \in Hd
  /\ \A c \in CPUs :
       /\ cur[c] # Idle <=> cpc[c] \in {"chunk", "end_cur"}
       /\ cur[c] # Idle => Served(cur[c]) /\ req[cur[c]].dev = disk[c]

\* The lock of a disk is held by the one CPU that runs its request function.
LockInv ==
  \A c \in CPUs : /\ disk[c] # Idle <=> cpc[c] # "idle"
                  /\ disk[c] # Idle => lock[disk[c]] = c

\* How far a program is in ramhd_make_request ...
Serve(p) ==
  /\ pc[p] = "segment" => /\ InBounds(req[p]) /\ err[p] = 0
                          /\ pseg[p] \in 1..req[p].segs /\ Done(p, pseg[p] - 1)
  /\ pc[p] = "out" => /\ InBounds(req[p]) <=> err[p] = 0
                      /\ err[p] = 0 => Done(p, req[p].segs)

\* ... and a CPU in ramhd_req_func, where what is read is still on the disk.
Snapshot(p, n) == ~IsWrite(p) => \A k \in 1..n : pages[p][k] = data[Cell(req[p], k)]

ServeC(c) ==
  /\ cpc[c] = "chunk" => /\ cseg[c] \in 1..req[cur[c]].segs
                         /\ Done(cur[c], cseg[c] - 1) /\ Snapshot(cur[c], cseg[c] - 1)
  /\ cpc[c] = "end_cur" => /\ cseg[c] \in 1..req[cur[c]].segs
                           /\ Done(cur[c], cseg[c]) /\ Snapshot(cur[c], cseg[c])

ServeInv == (\A p \in Procs : Serve(p)) /\ (\A c \in CPUs : ServeC(c))

IInv == TypeOK /\ RouteInv /\ LockInv /\ DataInv /\ ServeInv

-----------------------------------------------------------------------------
(* Those that serve a request while others take steps *)

LEMMA BusyProgram ==
  ASSUME IInv, NEW p \in Procs, pc[p] # "idle"
  PROVE  Active(p) /\ req[p] \in Requests /\ req[p].dev \in Hd /\ req[p].segs \in 1..MaxSegs
  <1>1. Active(p) /\ req[p] \in Requests /\ req[p].dev \in Hd
        BY DEF IInv, RouteInv, Active, TypeOK, IoTypeOK
  <1> QED BY <1>1, RequestFields

LEMMA BusyCPU ==
  ASSUME IInv, NEW c \in CPUs, cpc[c] \in {"chunk", "end_cur"}
  PROVE  /\ cur[c] \in Procs /\ Active(cur[c]) /\ req[cur[c]] \in Requests
         /\ InBounds(req[cur[c]]) /\ pc[cur[c]] = "idle"
         /\ req[cur[c]].dev = disk[c] /\ disk[c] \in Sd
         /\ req[cur[c]].segs \in 1..MaxSegs
  <1>1. cur[c] \in Procs /\ Served(cur[c]) /\ req[cur[c]].dev = disk[c]
        BY DEF IInv, RouteInv, TypeOK
  <1>2. req[cur[c]] \in Requests BY <1>1 DEF IInv, Served, Active, TypeOK, IoTypeOK
  <1> QED BY <1>1, <1>2, RequestFields DEF Served

\* No two CPUs serve the same disk, let alone the same request.
LEMMA OwnDisk ==
  ASSUME IInv, NEW c \in CPUs, NEW d \in CPUs, c # d,
         cpc[c] \in {"chunk", "end_cur"}, cpc[d] \in {"chunk", "end_cur"}
  PROVE  req[cur[c]].dev # req[cur[d]].dev /\ cur[c] # cur[d]
  <1>1. disk[c] # disk[d] BY DEF IInv, LockInv
  <1> QED BY <1>1, BusyCPU

LEMMA ServeKept ==
  ASSUME IInv, NEW p \in Procs, UNCHANGED <<pc[p], pseg[p], err[p]>>,
         pc[p] # "idle" => Kept(p)
  PROVE  Serve(p)'
  <1> USE DEF IInv, ServeInv
  <1>1. Serve(p) OBVIOUS
  <1>2. CASE pc[p] = "idle" BY <1>2 DEF Serve
  <1>3. CASE pc[p] = "segment"
    <2>1. Kept(p) /\ req[p] \in Requests /\ req[p].segs \in 1..MaxSegs BY <1>3, BusyProgram
    <2>2. InBounds(req[p]) /\ pseg[p] \in 1..req[p].segs /\ Done(p, pseg[p] - 1)
          BY <1>1, <1>3 DEF Serve
    <2>3. pseg[p] - 1 \in 0..req[p].segs BY <2>1, <2>2
    <2>4. Done(p, pseg[p] - 1)' BY <2>1, <2>2, <2>3, DoneKept DEF Done
    <2> QED BY <1>1, <1>3, <2>1, <2>4 DEF Serve, Kept
  <1>4. CASE pc[p] = "out"
    <2>1. Kept(p) /\ req[p] \in Requests /\ req[p].segs \in 1..MaxSegs BY <1>4, BusyProgram
    <2>2. ASSUME err[p] = 0 PROVE Done(p, req[p].segs)'
      <3>1. InBounds(req[p]) /\ Done(p, req[p].segs) BY <2>2, <1>1, <1>4 DEF Serve
      <3>2. req[p].segs \in 0..req[p].segs BY <2>1, BlockAssumption
      <3> QED BY <2>1, <3>1, <3>2, DoneKept DEF Done, Kept
    <2> QED BY <1>1, <1>4, <2>1, <2>2 DEF Serve, Kept
  <1> QED BY <1>2, <1>3, <1>4 DEF TypeOK

\* A step of others that spares the request a CPU serves, snapshot included.
Spared(q) == Kept(q) /\ (~IsWrite(q) => \A y \in Touches(req[q]) : data'[y] = data[y])

LEMMA SnapshotKept ==
  ASSUME NEW q, req[q] \in Requests, InBounds(req[q]), Spared(q),
         NEW n \in 0..req[q].segs, Snapshot(q, n)
  PROVE  Snapshot(q, n)'
  <1>1. \A k \in 1..n : Cell(req[q], k) \in Touches(req[q]) BY TouchesCells, RequestFields
  <1> QED BY <1>1 DEF Snapshot, Spared, Kept, IsWrite

LEMMA ServeCKept ==
  ASSUME IInv, NEW c \in CPUs, UNCHANGED <<cpc[c], cur[c], cseg[c]>>,
         cpc[c] \in {"chunk", "end_cur"} => Spared(cur[c])
  PROVE  ServeC(c)'
  <1> USE DEF IInv, ServeInv
  <1>1. ServeC(c) OBVIOUS
  <1>2. CASE cpc[c] \in {"chunk", "end_cur"}
    <2>1. /\ Spared(cur[c]) /\ Kept(cur[c]) /\ req[cur[c]] \in Requests /\ InBounds(req[cur[c]])
          /\ req[cur[c]].segs \in 1..MaxSegs
          BY <1>2, BusyCPU DEF Spared
    <2>2. cseg[c] \in 1..req[cur[c]].segs BY <1>1, <1>2 DEF ServeC
    <2>3. cseg[c] \in 0..req[cur[c]].segs /\ cseg[c] - 1 \in 0..req[cur[c]].segs BY <2>1, <2>2
    <2>4. \A n \in 0..req[cur[c]].segs :
            Done(cur[c], n) /\ Snapshot(cur[c], n) =>
              \A k \in 1..n :
                /\ IF IsWrite(cur[c]) THEN data'[Cell(req[cur[c]], k)] \in {req[cur[c]].val} \cup seen'[cur[c]][Cell(req[cur[c]], k)]
                   ELSE pages'[cur[c]][k] \in seen'[cur[c]][Cell(req[cur[c]], k)]
                /\ ~IsWrite(cur[c]) => pages'[cur[c]][k] = data'[Cell(req[cur[c]], k)]
          BY <2>1, DoneKept, SnapshotKept DEF Done, Snapshot, Kept, IsWrite
    <2> QED BY <1>1, <1>2, <2>1, <2>2, <2>3, <2>4 DEF ServeC, Kept, Done, Snapshot, IsWrite
  <1>3. CASE cpc[c] \notin {"chunk", "end_cur"} BY <1>3 DEF ServeC
  <1> QED BY <1>2, <1>3

-----------------------------------------------------------------------------
(* ramhd_make_request *)

LEMMA InitIInv == Init => IInv
  <1> SUFFICES ASSUME Init PROVE IInv OBVIOUS
  <1>1. IoTypeOK /\ DataInv BY InitData DEF Init
  <1>2. TypeOK BY <1>1, BlockAssumption DEF Init, TypeOK
  <1>3. RouteInv BY RamhdAssumption DEF Init, RouteInv
  <1>4. LockInv BY DEF Init, LockInv
  <1>5. ServeInv BY DEF Init, ServeInv, Serve, ServeC
  <1> QED BY <1>1, <1>2, <1>3, <1>4, <1>5 DEF IInv

\* A request that begins: nobody serves one of this program.
LEMMA FreshRequest ==
  ASSUME IInv, NEW p \in Procs, NEW r \in Requests, SubmitReq(p, r)
  PROVE  /\ IoTypeOK' /\ DataInv' /\ pc[p] = "idle" /\ p \notin queue
         /\ req'[p] = r /\ r # NoReq /\ \A q \in Procs : q # p => req'[q] = req[q]
         /\ \A c \in CPUs : cur[c] # p
         /\ \A q \in Procs : q # p /\ Active(q) => Spared(q)
  <1> USE DEF IInv
  <1>1. /\ IoTypeOK' /\ DataInv' /\ req[p] = NoReq /\ req' = [req EXCEPT ![p] = r]
        /\ \A q \in Procs : q # p /\ Active(q) => Kept(q)
        BY SubmitData DEF TypeOK
  <1>2. pc[p] = "idle" /\ p \notin queue BY <1>1 DEF RouteInv, Served, Active
  <1>3. \A c \in CPUs : cur[c] # p BY <1>1, RamhdAssumption DEF RouteInv, Served, Active
  <1>4. req'[p] = r /\ r # NoReq /\ \A q \in Procs : q # p => req'[q] = req[q]
        BY <1>1, RequestFields DEF TypeOK, IoTypeOK
  <1>5. data' = data BY DEF SubmitReq
  <1> QED BY <1>1, <1>2, <1>3, <1>4, <1>5 DEF Spared

LEMMA MakeRequestIInv ==
  ASSUME IInv, NEW p \in Procs, NEW r \in Requests, MakeRequest(p, r)
  PROVE  IInv'
  <1> USE DEF IInv
  <1>1. /\ r.dev \in Hd /\ UNCHANGED <<queue, lock, cpus>>
        /\ pc' = [pc EXCEPT ![p] = IF Beyond(r) THEN "out" ELSE "segment"]
        /\ err' = [err EXCEPT ![p] = IF Beyond(r) THEN EIO ELSE 0]
        /\ pseg' = [pseg EXCEPT ![p] = 1]
        BY DEF MakeRequest, Goto
  <1>2. /\ IoTypeOK' /\ DataInv' /\ pc[p] = "idle" /\ p \notin queue
        /\ req'[p] = r /\ r # NoReq /\ \A q \in Procs : q # p => req'[q] = req[q]
        /\ \A c \in CPUs : cur[c] # p
        /\ \A q \in Procs : q # p /\ Active(q) => Spared(q)
        BY FreshRequest DEF MakeRequest
  <1>3. TypeOK' BY <1>1, <1>2, BlockAssumption DEF TypeOK, cpus
  <1>4. pc'[p] # "idle" /\ \A q \in Procs : q # p => pc'[q] = pc[q] BY <1>1 DEF TypeOK
  <1>5. RouteInv'
    <2>1. \A q \in Procs : q # p /\ Served(q) => Served(q)' BY <1>2, <1>4 DEF Served, Active
    <2>2. \A q \in Procs : pc'[q] # "idle" => Active(q)' /\ req'[q].dev \in Hd
          BY <1>1, <1>2, <1>4 DEF RouteInv, Active
    <2>3. \A q \in Procs : q \in queue' => Served(q)' /\ \A c \in CPUs : cur'[c] # q
          BY <1>1, <1>2, <2>1 DEF RouteInv, cpus
    <2>4. \A c \in CPUs : cur[c] # Idle => cur[c] \in Procs /\ Served(cur[c]) /\ req'[cur[c]] = req[cur[c]]
          BY <1>2 DEF RouteInv, TypeOK
    <2> QED BY <1>1, <1>2, <2>1, <2>2, <2>3, <2>4 DEF RouteInv, cpus, Served, Active
  <1>6. LockInv' BY <1>1 DEF LockInv, cpus
  <1>7. Serve(p)'
    <2>1. r.segs \in 1..MaxSegs /\ r.pos \in 0..(NSects - 1) BY RequestFields
    <2>2. Beyond(r) <=> ~InBounds(r) BY <2>1, BlockAssumption DEF Beyond, InBounds
    <2>3. CASE Beyond(r)
      <3>1. pc'[p] = "out" /\ err'[p] # 0 BY <2>3, <1>1 DEF TypeOK, EIO
      <3> QED BY <3>1, <2>2, <2>3, <1>2 DEF Serve
    <2>4. CASE ~Beyond(r)
      <3>1. pc'[p] = "segment" /\ err'[p] = 0 /\ pseg'[p] = 1 BY <2>4, <1>1 DEF TypeOK
      <3>2. 1 \in 1..r.segs /\ 1 - 1 = 0 BY <2>1, BlockAssumption
      <3> QED BY <3>1, <3>2, <2>2, <2>4, <1>2 DEF Serve, Done
    <2> QED BY <2>3, <2>4
  <1>8. ASSUME NEW q \in Procs, q # p PROVE Serve(q)'
    <2>1. UNCHANGED <<pc[q], pseg[q], err[q]>> BY <1>8, <1>1 DEF TypeOK
    <2>2. pc[q] # "idle" => Kept(q) BY <1>8, <1>2, BusyProgram DEF Spared
    <2> QED BY <2>1, <2>2, ServeKept
  <1>9. ASSUME NEW c \in CPUs PROVE ServeC(c)'
        BY <1>1, <1>2, BusyCPU, ServeCKept DEF cpus
  <1> QED BY <1>2, <1>3, <1>5, <1>6, <1>7, <1>8, <1>9 DEF ServeInv

\* The copy of a segment spares the disks of the other driver.
LEMMA SegmentIInv ==
  ASSUME IInv, NEW p \in Procs, Segment(p), NEW k, k = pseg[p]
  PROVE  IInv'
  <1> USE DEF IInv
  <1>1. /\ UNCHANGED <<err, queue, lock, cpus>> /\ pc[p] = "segment"
        /\ pc' = [pc EXCEPT ![p] = IF k = req[p].segs THEN "out" ELSE "segment"]
        /\ pseg' = [pseg EXCEPT ![p] = @ + 1]
        BY DEF Segment, Goto
  <1>2. Active(p) /\ req[p] \in Requests /\ req[p].dev \in Hd /\ req[p].segs \in 1..MaxSegs
        BY <1>1, BusyProgram
  <1>3. InBounds(req[p]) /\ err[p] = 0 /\ k \in 1..req[p].segs /\ Done(p, k - 1)
        BY <1>1 DEF ServeInv, Serve
  <1>4. /\ IoTypeOK' /\ DataInv' /\ Done(p, k)' /\ req' = req
        /\ \A q \in Procs : q # p /\ Active(q) => Kept(q)
        /\ \A y \in Cells : y[1] # req[p].dev => data'[y] = data[y]
        BY <1>2, <1>3, CopyData DEF Segment, TypeOK
  <1>5. TypeOK'
    <2>1. pseg' \in [Procs -> 0..(MaxSegs + 1)]
          BY <1>1, <1>2, <1>3, BlockAssumption DEF TypeOK
    <2> QED BY <2>1, <1>1, <1>4 DEF TypeOK, cpus
  <1>6. RouteInv' BY <1>1, <1>2, <1>4 DEF RouteInv, Served, Active, cpus, TypeOK
  <1>7. LockInv' BY <1>1 DEF LockInv, cpus
  <1>8. Serve(p)'
    <2>1. pseg'[p] = k + 1 /\ err'[p] = 0 /\ pc'[p] = IF k = req[p].segs THEN "out" ELSE "segment"
          BY <1>1, <1>3 DEF TypeOK
    <2>2. CASE k = req[p].segs BY <2>1, <2>2, <1>3, <1>4 DEF Serve, Done
    <2>3. CASE k # req[p].segs
      <3>1. k + 1 \in 1..req[p].segs /\ (k + 1) - 1 = k BY <2>3, <1>2, <1>3
      <3> QED BY <2>1, <2>3, <3>1, <1>3, <1>4 DEF Serve, Done
    <2> QED BY <2>2, <2>3
  <1>9. ASSUME NEW q \in Procs, q # p PROVE Serve(q)'
    <2>1. UNCHANGED <<pc[q], pseg[q], err[q]>> BY <1>9, <1>1 DEF TypeOK
    <2>2. pc[q] # "idle" => Kept(q) BY <1>9, <1>4, BusyProgram
    <2> QED BY <2>1, <2>2, ServeKept
  <1>10. ASSUME NEW c \in CPUs PROVE ServeC(c)'
    <2>1. ASSUME cpc[c] \in {"chunk", "end_cur"} PROVE Spared(cur[c])
      <3>1. /\ cur[c] \in Procs /\ Active(cur[c]) /\ cur[c] # p /\ req[cur[c]] \in Requests
            /\ req[cur[c]].dev \in Sd
            BY <2>1, <1>1, BusyCPU
      <3>2. \A y \in Touches(req[cur[c]]) : y \in Cells /\ y[1] = req[cur[c]].dev
            BY <3>1, TouchesCells DEF Cell
      <3>3. req[cur[c]].dev # req[p].dev BY <3>1, <1>2, RamhdAssumption
      <3> QED BY <3>1, <3>2, <3>3, <1>4 DEF Spared
    <2> QED BY <2>1, <1>1, ServeCKept DEF cpus
  <1> QED BY <1>4, <1>5, <1>6, <1>7, <1>8, <1>9, <1>10 DEF ServeInv

LEMMA OutIInv ==
  ASSUME IInv, NEW p \in Procs, Out(p)
  PROVE  IInv'
  <1> USE DEF IInv
  <1>1. /\ UNCHANGED <<queue, lock, cpus>> /\ pc[p] = "out" /\ pc' = [pc EXCEPT ![p] = "idle"]
        /\ pseg' = [pseg EXCEPT ![p] = 0] /\ err' = [err EXCEPT ![p] = 0]
        BY DEF Out, Goto
  <1>2. Active(p) /\ req[p].dev \in Hd BY <1>1, BusyProgram
  <1>3. InBounds(req[p]) <=> err[p] = 0 BY <1>1 DEF ServeInv, Serve
  <1>4. err[p] = 0 => Done(p, req[p].segs) BY <1>1 DEF ServeInv, Serve
  <1>5. /\ IoTypeOK' /\ DataInv' /\ req' = [req EXCEPT ![p] = NoReq] /\ data' = data
        /\ \A q \in Procs : q # p /\ Active(q) => Kept(q)
    <2>1. EndReq(p, err[p]) BY DEF Out
    <2>2. data' = data BY <2>1 DEF EndReq
    <2> QED BY <2>1, <2>2, <1>2, <1>3, <1>4, EndData DEF TypeOK
  <1>6. TypeOK' BY <1>1, <1>5, BlockAssumption DEF TypeOK, cpus
  <1>7. p \notin queue /\ \A c \in CPUs : cur[c] # p
        BY <1>1, RamhdAssumption DEF RouteInv, Served
  <1>8. \A q \in Procs : q # p => req'[q] = req[q] /\ pc'[q] = pc[q]
        BY <1>1, <1>5 DEF TypeOK, IoTypeOK
  <1>9. RouteInv'
    <2>1. \A q \in Procs : q # p /\ Served(q) => Served(q)' BY <1>8 DEF Served, Active
    <2>2. \A q \in Procs : pc'[q] # "idle" => Active(q)' /\ req'[q].dev \in Hd
          BY <1>1, <1>8 DEF RouteInv, Active, TypeOK
    <2>3. \A q \in Procs : q \in queue' => Served(q)' /\ \A c \in CPUs : cur'[c] # q
          BY <1>1, <1>7, <2>1 DEF RouteInv, cpus
    <2>4. \A c \in CPUs : cur[c] # Idle => cur[c] \in Procs /\ Served(cur[c]) /\ req'[cur[c]] = req[cur[c]]
          BY <1>7, <1>8 DEF RouteInv, TypeOK
    <2> QED BY <1>1, <1>7, <2>1, <2>2, <2>3, <2>4 DEF RouteInv, cpus, Served, Active
  <1>10. LockInv' BY <1>1 DEF LockInv, cpus
  <1>11. Serve(p)' BY <1>1 DEF Serve, TypeOK
  <1>12. ASSUME NEW q \in Procs, q # p PROVE Serve(q)'
    <2>1. UNCHANGED <<pc[q], pseg[q], err[q]>> BY <1>12, <1>1 DEF TypeOK
    <2>2. pc[q] # "idle" => Kept(q) BY <1>12, <1>5, BusyProgram
    <2> QED BY <2>1, <2>2, ServeKept
  <1>13. ASSUME NEW c \in CPUs PROVE ServeC(c)'
        BY <1>1, <1>5, <1>7, BusyCPU, ServeCKept DEF cpus, Spared
  <1> QED BY <1>5, <1>6, <1>9, <1>10, <1>11, <1>12, <1>13 DEF ServeInv

-----------------------------------------------------------------------------
(* ramhd_req_func *)

LEMMA SubmitIInv ==
  ASSUME IInv, NEW p \in Procs, NEW r \in Requests, Submit(p, r)
  PROVE  IInv'
  <1> USE DEF IInv
  <1>1. /\ r.dev \in Sd /\ InBounds(r) /\ UNCHANGED <<mkreq, lock, cpus>>
        /\ queue' = queue \cup {p}
        BY DEF Submit
  <1>2. /\ IoTypeOK' /\ DataInv' /\ pc[p] = "idle" /\ p \notin queue
        /\ req'[p] = r /\ r # NoReq /\ \A q \in Procs : q # p => req'[q] = req[q]
        /\ \A c \in CPUs : cur[c] # p
        /\ \A q \in Procs : q # p /\ Active(q) => Spared(q)
        BY FreshRequest DEF Submit
  <1>3. TypeOK' BY <1>1, <1>2 DEF TypeOK, mkreq, cpus
  <1>4. RouteInv'
    <2>1. \A q \in Procs : q # p /\ Served(q) => Served(q)' BY <1>1, <1>2 DEF Served, Active, mkreq
    <2>2. Served(p)' BY <1>1, <1>2 DEF Served, Active, mkreq
    <2>3. \A q \in Procs : pc'[q] # "idle" => Active(q)' /\ req'[q].dev \in Hd
          BY <1>1, <1>2 DEF RouteInv, Active, mkreq
    <2>4. \A q \in Procs : q \in queue' => Served(q)' /\ \A c \in CPUs : cur'[c] # q
          BY <1>1, <1>2, <2>1, <2>2 DEF RouteInv, cpus
    <2>5. \A c \in CPUs : cur[c] # Idle => cur[c] \in Procs /\ Served(cur[c]) /\ req'[cur[c]] = req[cur[c]]
          BY <1>2 DEF RouteInv, TypeOK
    <2> QED BY <1>1, <1>2, <2>1, <2>3, <2>4, <2>5 DEF RouteInv, cpus, mkreq, Served, Active
  <1>5. LockInv' BY <1>1 DEF LockInv, cpus
  <1>6. ASSUME NEW q \in Procs PROVE Serve(q)'
    <2>1. UNCHANGED <<pc[q], pseg[q], err[q]>> BY <1>1 DEF mkreq
    <2>2. pc[q] # "idle" => Kept(q) BY <1>2, BusyProgram DEF Spared
    <2> QED BY <2>1, <2>2, ServeKept
  <1>7. ASSUME NEW c \in CPUs PROVE ServeC(c)'
        BY <1>1, <1>2, BusyCPU, ServeCKept DEF cpus
  <1> QED BY <1>2, <1>3, <1>4, <1>5, <1>6, <1>7 DEF ServeInv

\* A step that leaves the requests and the disks alone.
LEMMA QuietStep ==
  ASSUME IInv, UNCHANGED <<io, mkreq>>
  PROVE  /\ IoTypeOK' /\ DataInv' /\ \A p \in Procs : Serve(p)'
         /\ \A c \in CPUs : UNCHANGED <<cpc[c], cur[c], cseg[c]>> => ServeC(c)'
  <1>1. IoTypeOK' /\ DataInv' /\ \A q \in Procs : Kept(q) BY DataQuiet DEF IInv, TypeOK
  <1>2. \A q \in Procs : Spared(q) BY <1>1 DEF Spared, io
  <1>3. ASSUME NEW p \in Procs PROVE Serve(p)' BY <1>1, ServeKept DEF mkreq
  <1>4. ASSUME NEW c \in CPUs, UNCHANGED <<cpc[c], cur[c], cseg[c]>> PROVE ServeC(c)'
        BY <1>2, <1>4, BusyCPU, ServeCKept
  <1> QED BY <1>1, <1>3, <1>4

LEMMA RunQueueIInv ==
  ASSUME IInv, NEW c \in CPUs, NEW d \in Sd, RunQueue(c, d)
  PROVE  IInv'
  <1> USE DEF IInv
  <1>1. /\ lock[d] = Idle /\ cpc[c] = "idle" /\ cpc' = [cpc EXCEPT ![c] = "fetch"]
        /\ lock' = [lock EXCEPT ![d] = c] /\ disk' = [disk EXCEPT ![c] = d]
        /\ UNCHANGED <<io, mkreq, queue, cur, cseg>>
        BY DEF RunQueue, GotoC
  <1>2. /\ IoTypeOK' /\ DataInv' /\ \A p \in Procs : Serve(p)'
        /\ \A e \in CPUs : UNCHANGED <<cpc[e], cur[e], cseg[e]>> => ServeC(e)'
        BY <1>1, QuietStep
  <1>3. TypeOK' BY <1>1, <1>2 DEF TypeOK, mkreq
  <1>4. \A e \in CPUs : e # c => cpc'[e] = cpc[e] /\ disk'[e] = disk[e] BY <1>1 DEF TypeOK
  <1>5. RouteInv'
    <2>1. cur[c] = Idle BY <1>1 DEF RouteInv
    <2> QED BY <2>1, <1>1, <1>4 DEF RouteInv, Served, Active, io, mkreq, TypeOK
  <1>6. LockInv'
    <2>1. cpc'[c] = "fetch" /\ disk'[c] = d /\ lock'[d] = c BY <1>1 DEF TypeOK
    <2>2. \A e \in Sd : e # d => lock'[e] = lock[e] BY <1>1 DEF TypeOK
    <2>3. ASSUME NEW e \in CPUs, e # c, disk[e] # Idle PROVE disk[e] # d /\ disk[e] \in Sd
          BY <2>3, <1>1, RamhdAssumption DEF LockInv, TypeOK
    <2>4. d # Idle BY RamhdAssumption
    <2> QED BY <2>1, <2>2, <2>3, <2>4, <1>4 DEF LockInv
  <1>7. ServeC(c)' BY <1>1 DEF ServeC, TypeOK
  <1> QED BY <1>1, <1>2, <1>3, <1>4, <1>5, <1>6, <1>7 DEF ServeInv

LEMMA FetchIInv ==
  ASSUME IInv, NEW c \in CPUs, NEW p \in Procs, Fetch(c, p)
  PROVE  IInv'
  <1> USE DEF IInv
  <1>1. /\ p \in queue /\ req[p].dev = disk[c] /\ queue' = queue \ {p}
        /\ cpc[c] = "fetch" /\ cpc' = [cpc EXCEPT ![c] = "chunk"]
        /\ cur' = [cur EXCEPT ![c] = p] /\ cseg' = [cseg EXCEPT ![c] = 1]
        /\ UNCHANGED <<io, mkreq, lock, disk>>
        BY DEF Fetch, GotoC
  <1>2. /\ IoTypeOK' /\ DataInv' /\ \A q \in Procs : Serve(q)'
        /\ \A e \in CPUs : UNCHANGED <<cpc[e], cur[e], cseg[e]>> => ServeC(e)'
        BY <1>1, QuietStep
  <1>3. TypeOK' BY <1>1, <1>2, BlockAssumption DEF TypeOK, mkreq
  <1>4. /\ cpc'[c] = "chunk" /\ cur'[c] = p /\ cseg'[c] = 1
        /\ \A e \in CPUs : e # c => cpc'[e] = cpc[e] /\ cur'[e] = cur[e] /\ cseg'[e] = cseg[e]
        BY <1>1 DEF TypeOK
  <1>5. Served(p) /\ p # Idle BY <1>1, RamhdAssumption DEF RouteInv
  <1>6. \A q : Served(q)' <=> Served(q) BY <1>1 DEF Served, Active, io, mkreq
  <1>7. RouteInv'
    <2>1. \A q \in Procs : q \in queue' => Served(q)' /\ \A e \in CPUs : cur'[e] # q
          BY <1>1, <1>4, <1>6 DEF RouteInv
    <2>2. \A e \in CPUs : /\ cur'[e] # Idle <=> cpc'[e] \in {"chunk", "end_cur"}
                          /\ cur'[e] # Idle => Served(cur'[e]) /\ req[cur'[e]].dev = disk[e]
          BY <1>1, <1>4, <1>5 DEF RouteInv
    <2> QED BY <2>1, <2>2, <1>1, <1>6 DEF RouteInv, Served, Active, io, mkreq
  <1>8. LockInv' BY <1>1, <1>4 DEF LockInv
  <1>9. ServeC(c)'
    <2>1. req[p].segs \in 1..MaxSegs BY <1>5, RequestFields DEF Served, Active, TypeOK, IoTypeOK
    <2>2. 1 \in 1..req[p].segs /\ 1 - 1 = 0 BY <2>1, BlockAssumption
    <2> QED BY <2>2, <1>1, <1>4 DEF ServeC, Done, Snapshot, io
  <1> QED BY <1>2, <1>3, <1>4, <1>7, <1>8, <1>9 DEF ServeInv

LEMMA FetchNoneIInv ==
  ASSUME IInv, NEW c \in CPUs, FetchNone(c)
  PROVE  IInv'
  <1> USE DEF IInv
  <1>1. /\ cpc[c] = "fetch" /\ cpc' = [cpc EXCEPT ![c] = "idle"]
        /\ lock' = [lock EXCEPT ![disk[c]] = Idle] /\ disk' = [disk EXCEPT ![c] = Idle]
        /\ UNCHANGED <<io, mkreq, queue, cur, cseg>>
        BY DEF FetchNone, GotoC
  <1>2. /\ IoTypeOK' /\ DataInv' /\ \A q \in Procs : Serve(q)'
        /\ \A e \in CPUs : UNCHANGED <<cpc[e], cur[e], cseg[e]>> => ServeC(e)'
        BY <1>1, QuietStep
  <1>3. disk[c] # Idle /\ disk[c] \in Sd /\ lock[disk[c]] = c BY <1>1 DEF LockInv, TypeOK
  <1>4. TypeOK' BY <1>1, <1>2 DEF TypeOK, mkreq
  <1>5. /\ cpc'[c] = "idle" /\ disk'[c] = Idle
        /\ \A e \in CPUs : e # c => cpc'[e] = cpc[e] /\ disk'[e] = disk[e]
        BY <1>1 DEF TypeOK
  <1>6. RouteInv'
    <2>1. cur[c] = Idle BY <1>1 DEF RouteInv
    <2> QED BY <2>1, <1>1, <1>5 DEF RouteInv, Served, Active, io, mkreq
  <1>7. LockInv'
    <2>1. \A e \in Sd : e # disk[c] => lock'[e] = lock[e] BY <1>1 DEF TypeOK
    <2>2. \A e \in CPUs : e # c /\ disk[e] # Idle => disk[e] \in Sd /\ disk[e] # disk[c]
          BY <1>3 DEF LockInv, TypeOK
    <2> QED BY <2>1, <2>2, <1>5 DEF LockInv
  <1>8. ServeC(c)' BY <1>5 DEF ServeC
  <1> QED BY <1>1, <1>2, <1>4, <1>5, <1>6, <1>7, <1>8 DEF ServeInv

\* The copy of a chunk spares the programs in ramhd_make_request and the CPUs
\* that serve other disks.
LEMMA ChunkIInv ==
  ASSUME IInv, NEW c \in CPUs, Chunk(c), NEW p, p = cur[c], NEW k, k = cseg[c]
  PROVE  IInv'
  <1> USE DEF IInv
  <1>1. /\ cpc[c] = "chunk" /\ cpc' = [cpc EXCEPT ![c] = "end_cur"]
        /\ UNCHANGED <<mkreq, queue, lock, disk, cur, cseg>>
        BY DEF Chunk, GotoC
  <1>2. /\ p \in Procs /\ Active(p) /\ req[p] \in Requests /\ InBounds(req[p]) /\ pc[p] = "idle"
        /\ req[p].dev \in Sd /\ req[p].segs \in 1..MaxSegs
        BY <1>1, BusyCPU
  <1>3. k \in 1..req[p].segs /\ Done(p, k - 1) /\ Snapshot(p, k - 1)
        BY <1>1 DEF ServeInv, ServeC
  <1>4. /\ IoTypeOK' /\ DataInv' /\ Done(p, k)' /\ req' = req
        /\ \A q \in Procs : q # p /\ Active(q) => Kept(q)
        /\ \A y \in Cells : y[1] # req[p].dev => data'[y] = data[y]
        /\ ~IsWrite(p) => /\ data' = data
                          /\ pages'[p][k] = data[Cell(req[p], k)]
                          /\ \A l \in 1..MaxSegs : l # k => pages'[p][l] = pages[p][l]
    <2>1. Copy(p, k, req[p].pos + k - 1) BY DEF Chunk
    <2> QED BY <2>1, <1>2, <1>3, CopyData DEF TypeOK
  <1>5. TypeOK' BY <1>1, <1>4 DEF TypeOK, mkreq
  <1>6. \A e \in CPUs : e # c => cpc'[e] = cpc[e] BY <1>1 DEF TypeOK
  <1>7. RouteInv' BY <1>1, <1>4 DEF RouteInv, Served, Active, mkreq, TypeOK
  <1>8. LockInv' BY <1>1 DEF LockInv, TypeOK
  <1>9. ServeC(c)'
    <2>1. ASSUME ~IsWrite(p), NEW l \in 1..k PROVE pages'[p][l] = data'[Cell(req[p], l)]
      <3>1. CASE l = k BY <3>1, <2>1, <1>4
      <3>2. CASE l # k
        <4>1. l \in 1..(k - 1) /\ l \in 1..MaxSegs BY <3>2, <1>2, <1>3, BlockAssumption
        <4>2. pages[p][l] = data[Cell(req[p], l)] BY <4>1, <2>1, <1>3 DEF Snapshot
        <4> QED BY <4>1, <4>2, <3>2, <2>1, <1>4
      <3> QED BY <3>1, <3>2
    <2>2. cpc'[c] = "end_cur" /\ cur'[c] = p /\ cseg'[c] = k BY <1>1 DEF TypeOK
    <2> QED BY <2>1, <2>2, <1>3, <1>4 DEF ServeC, Done, Snapshot, IsWrite
  <1>10. ASSUME NEW q \in Procs PROVE Serve(q)'
    <2>1. UNCHANGED <<pc[q], pseg[q], err[q]>> BY <1>1 DEF mkreq
    <2>2. pc[q] # "idle" => Kept(q) BY <1>2, <1>4, BusyProgram
    <2> QED BY <2>1, <2>2, ServeKept
  <1>11. ASSUME NEW e \in CPUs, e # c PROVE ServeC(e)'
    <2>1. ASSUME cpc[e] \in {"chunk", "end_cur"} PROVE Spared(cur[e])
      <3>1. /\ cur[e] \in Procs /\ Active(cur[e]) /\ req[cur[e]] \in Requests
            /\ cur[e] # p /\ req[cur[e]].dev # req[p].dev
            BY <2>1, <1>1, <1>11, BusyCPU, OwnDisk
      <3>2. \A y \in Touches(req[cur[e]]) : y \in Cells /\ y[1] = req[cur[e]].dev
            BY <3>1, TouchesCells DEF Cell
      <3> QED BY <3>1, <3>2, <1>4 DEF Spared
    <2> QED BY <2>1, <1>1, <1>6, <1>11, ServeCKept
  <1> QED BY <1>4, <1>5, <1>7, <1>8, <1>9, <1>10, <1>11 DEF ServeInv

LEMMA EndCurIInv ==
  ASSUME IInv, NEW c \in CPUs, EndCur(c), NEW p, p = cur[c], NEW k, k = cseg[c]
  PROVE  IInv'
  <1> USE DEF IInv
  <1>1. cpc[c] = "end_cur" /\ UNCHANGED <<mkreq, queue, lock, disk>> BY DEF EndCur
  <1>2. /\ p \in Procs /\ Active(p) /\ req[p] \in Requests /\ InBounds(req[p]) /\ pc[p] = "idle"
        /\ req[p].dev \in Sd /\ req[p].segs \in 1..MaxSegs
        BY <1>1, BusyCPU
  <1>3. k \in 1..req[p].segs /\ Done(p, k) /\ Snapshot(p, k) BY <1>1 DEF ServeInv, ServeC
  <1>4. CASE ~LastChunk(c)
    <2>1. /\ k # req[p].segs /\ cpc' = [cpc EXCEPT ![c] = "chunk"]
          /\ cseg' = [cseg EXCEPT ![c] = @ + 1] /\ UNCHANGED <<io, cur>>
          BY <1>4 DEF EndCur, EndMore, GotoC, LastChunk
    <2>2. /\ IoTypeOK' /\ DataInv' /\ \A q \in Procs : Serve(q)'
          /\ \A e \in CPUs : UNCHANGED <<cpc[e], cur[e], cseg[e]>> => ServeC(e)'
          BY <1>1, <2>1, QuietStep
    <2>3. k + 1 \in 1..req[p].segs /\ (k + 1) - 1 = k /\ k + 1 \in 0..MaxSegs
          BY <2>1, <1>2, <1>3, BlockAssumption
    <2>4. TypeOK' BY <1>1, <2>1, <2>2, <2>3 DEF TypeOK, mkreq
    <2>5. /\ cpc'[c] = "chunk" /\ cseg'[c] = k + 1
          /\ \A e \in CPUs : e # c => cpc'[e] = cpc[e] /\ cseg'[e] = cseg[e]
          BY <2>1 DEF TypeOK
    <2>6. RouteInv' BY <1>1, <2>1, <2>5 DEF RouteInv, Served, Active, io, mkreq
    <2>7. LockInv' BY <1>1, <2>5 DEF LockInv
    <2>8. ServeC(c)'
          BY <2>1, <2>3, <2>5, <1>3 DEF ServeC, Done, Snapshot, IsWrite, io
    <2> QED BY <2>1, <2>2, <2>4, <2>5, <2>6, <2>7, <2>8 DEF ServeInv
  <1>5. CASE LastChunk(c)
    <2>1. /\ k = req[p].segs /\ cpc' = [cpc EXCEPT ![c] = "fetch"] /\ EndReq(p, 0)
          /\ cur' = [cur EXCEPT ![c] = Idle] /\ cseg' = [cseg EXCEPT ![c] = 0]
          BY <1>5 DEF EndCur, EndLast, GotoC, LastChunk
    <2>2. data' = data BY <2>1 DEF EndReq
    <2>3. /\ IoTypeOK' /\ DataInv' /\ req' = [req EXCEPT ![p] = NoReq]
          /\ \A q \in Procs : q # p /\ Active(q) => Kept(q)
          BY <2>1, <1>2, <1>3, EndData DEF TypeOK
    <2>4. TypeOK' BY <1>1, <2>1, <2>3, BlockAssumption DEF TypeOK, mkreq
    <2>5. /\ cpc'[c] = "fetch" /\ cur'[c] = Idle
          /\ \A e \in CPUs : e # c => cpc'[e] = cpc[e] /\ cur'[e] = cur[e] /\ cseg'[e] = cseg[e]
          BY <2>1 DEF TypeOK
    <2>6. \A q \in Procs : q # p => req'[q] = req[q] BY <2>3 DEF TypeOK, IoTypeOK
    <2>7. p \notin queue /\ \A e \in CPUs : e # c /\ cur[e] # Idle => cur[e] \in Procs /\ cur[e] # p
      <3>1. p \notin queue BY <1>2 DEF RouteInv
      <3>2. ASSUME NEW e \in CPUs, e # c, cur[e] # Idle PROVE cur[e] \in Procs /\ cur[e] # p
        <4>1. cpc[e] \in {"chunk", "end_cur"} BY <3>2 DEF RouteInv
        <4> QED BY <4>1, <3>2, <1>1, BusyCPU, OwnDisk
      <3> QED BY <3>1, <3>2
    <2>8. RouteInv'
      <3>1. \A q \in Procs : q # p => (Served(q)' <=> Served(q)) BY <1>1, <2>6 DEF Served, Active, mkreq
      <3>2. \A q \in Procs : q \in queue' => Served(q)' /\ \A e \in CPUs : cur'[e] # q
            BY <1>1, <2>5, <2>7, <3>1, RamhdAssumption DEF RouteInv
      <3>3. \A q \in Procs : pc'[q] # "idle" => Active(q)' /\ req'[q].dev \in Hd
            BY <1>1, <1>2, <2>6 DEF RouteInv, Active, mkreq
      <3>4. ASSUME NEW e \in CPUs
            PROVE  /\ cur'[e] # Idle <=> cpc'[e] \in {"chunk", "end_cur"}
                   /\ cur'[e] # Idle => /\ req'[cur'[e]] # NoReq /\ req'[cur'[e]].dev \in Sd
                                        /\ InBounds(req'[cur'[e]]) /\ pc'[cur'[e]] = "idle"
                                        /\ req'[cur'[e]].dev = disk'[e]
        <4>1. CASE e = c BY <4>1, <2>5
        <4>2. CASE e # c BY <4>2, <1>1, <2>5, <2>6, <2>7 DEF RouteInv, Served, Active, mkreq
        <4> QED BY <4>1, <4>2
      <3> QED BY <3>2, <3>3, <3>4 DEF RouteInv, Served, Active
    <2>9. LockInv' BY <1>1, <2>5 DEF LockInv
    <2>10. ServeC(c)' BY <2>5 DEF ServeC
    <2>11. ASSUME NEW q \in Procs PROVE Serve(q)'
      <3>1. UNCHANGED <<pc[q], pseg[q], err[q]>> BY <1>1 DEF mkreq
      <3>2. pc[q] # "idle" => Kept(q) BY <1>2, <2>3, BusyProgram
      <3> QED BY <3>1, <3>2, ServeKept
    <2>12. ASSUME NEW e \in CPUs, e # c PROVE ServeC(e)'
      <3>1. ASSUME cpc[e] \in {"chunk", "end_cur"} PROVE Spared(cur[e])
            BY <3>1, <2>12, <2>2, <2>3, <1>1, BusyCPU, OwnDisk DEF Spared
      <3> QED BY <3>1, <2>5, <2>12, ServeCKept
    <2> QED BY <2>3, <2>4, <2>8, <2>9, <2>10, <2>11, <2>12 DEF ServeInv
  <1> QED BY <1>4, <1>5

-----------------------------------------------------------------------------
(* The results *)

LEMMA NextIInv == IInv /\ [Next]_vars => IInv'
  <1> SUFFICES ASSUME IInv, [Next]_vars PROVE IInv' OBVIOUS
  <1>1. ASSUME NEW p \in Procs, ramhd_make_request(p) PROVE IInv'
        BY <1>1, MakeRequestIInv, SegmentIInv, OutIInv DEF ramhd_make_request
  <1>2. ASSUME NEW p \in Procs, NEW r \in Requests, Submit(p, r) PROVE IInv' BY <1>2, SubmitIInv
  <1>3. ASSUME NEW c \in CPUs, ramhd_req_func(c) PROVE IInv'
        BY <1>3, FetchIInv, FetchNoneIInv, ChunkIInv, EndCurIInv DEF ramhd_req_func
  <1>4. ASSUME NEW c \in CPUs, NEW d \in Sd, RunQueue(c, d) PROVE IInv' BY <1>4, RunQueueIInv
  <1>5. CASE UNCHANGED vars
    <2>1. /\ IoTypeOK' /\ DataInv' /\ \A p \in Procs : Serve(p)'
          /\ \A c \in CPUs : UNCHANGED <<cpc[c], cur[c], cseg[c]>> => ServeC(c)'
          BY <1>5, QuietStep DEF vars
    <2> QED BY <2>1, <1>5 DEF IInv, TypeOK, RouteInv, Served, Active, LockInv, ServeInv, vars, io, mkreq, cpus
  <1> QED BY <1>1, <1>2, <1>3, <1>4, <1>5 DEF Next

THEOREM Inductive == Spec => []IInv
  BY InitIInv, NextIInv, PTL DEF Spec

\* The structures of both drivers and of the block layer keep their types.
THEOREM TypeCorrect == Spec => []TypeOK
  <1>1. IInv => TypeOK BY DEF IInv
  <1> QED BY Inductive, <1>1, PTL

\* Both drivers end every request as a disk must, also ramhd_make_request,
\* which copies without any lock.
THEOREM EndsRightTheorem == Spec => []EndsRight
  <1>1. IInv => EndsRight
    <2> SUFFICES ASSUME IInv PROVE EndsRight OBVIOUS
    <2>1. ASSUME NEW p \in Procs, pc[p] = "out" PROVE GoodEnd(p, err[p])
      <3>1. Serve(p) BY DEF IInv, ServeInv
      <3> QED BY <3>1, <2>1 DEF Serve, GoodEnd, Done, IsWrite
    <2>2. ASSUME NEW c \in CPUs, Ending(c) PROVE GoodEnd(cur[c], 0)
      <3>1. ServeC(c) /\ InBounds(req[cur[c]]) BY <2>2, BusyCPU DEF IInv, ServeInv, Ending
      <3> QED BY <3>1, <2>2 DEF ServeC, GoodEnd, Done, IsWrite, Ending, LastChunk
    <2> QED BY <2>1, <2>2 DEF EndsRight
  <1> QED BY Inductive, <1>1, PTL

\* The lock that ramhd_req_func keeps from the first chunk to the last makes
\* each of its reads a snapshot, whatever the other driver copies meanwhile.
THEOREM SnapshotTheorem == Spec => []ReadIsSnapshot
  <1>1. IInv => ReadIsSnapshot
    <2> SUFFICES ASSUME IInv, NEW c \in CPUs, Ending(c), req[cur[c]].dir = "READ",
                        NEW k \in 1..req[cur[c]].segs
                 PROVE  pages[cur[c]][k] = data[Cell(req[cur[c]], k)]
        BY DEF ReadIsSnapshot
    <2>1. ServeC(c) BY DEF IInv, ServeInv
    <2> QED BY <2>1 DEF ServeC, Snapshot, IsWrite, Ending, LastChunk
  <1> QED BY Inductive, <1>1, PTL
=============================================================================
