--------------------------------- MODULE Ramhd ---------------------------------
(***************************************************************************)
(* The two ram disk drivers ramdisk-lab/ramhd_mkreq.c (disks "ramhd") and  *)
(* ramdisk-lab/ramhd_req.c (disks "ramsd"), loaded side by side.           *)
(*                                                                         *)
(* ramhd_make_request runs in the program that submits, with no lock, so   *)
(* the copies of several requests interleave segment by segment.           *)
(* ramhd_req_func runs on some CPU, keeps the queue lock of its disk from  *)
(* the first fetch to the last and serves a request chunk by chunk.  It    *)
(* has no check of its own: that a request lies within the disk is what    *)
(* the block layer makes sure of, from set_capacity.                       *)
(***************************************************************************)
EXTENDS BlockLayer

CONSTANTS
  Hd, Sd,    \* the disks of ramhd_mkreq.c and of ramhd_req.c
  CPUs, Idle

ASSUME RamhdAssumption ==
  /\ Devs = Hd \cup Sd /\ Hd \cap Sd = {}
  /\ Idle \notin CPUs \cup Procs \cup Devs

EIO == -5

VARIABLES
  pc, pseg, err,        \* each program in ramhd_make_request
  queue,                \* requests of Sd that are not fetched
  lock,                 \* the CPU that holds the queue lock of each disk
  cpc, disk, cur, cseg  \* each CPU in ramhd_req_func

mkreq == <<pc, pseg, err>>
cpus == <<cpc, disk, cur, cseg>>
vars == <<io, mkreq, queue, lock, cpus>>

Init ==
  /\ IoInit
  /\ pc = [p \in Procs |-> "idle"] /\ pseg = [p \in Procs |-> 0] /\ err = [p \in Procs |-> 0]
  /\ queue = {} /\ lock = [d \in Sd |-> Idle]
  /\ cpc = [c \in CPUs |-> "idle"] /\ disk = [c \in CPUs |-> Idle]
  /\ cur = [c \in CPUs |-> Idle] /\ cseg = [c \in CPUs |-> 0]

-----------------------------------------------------------------------------
(* ramhd_make_request *)

Goto(p, from, to) == pc[p] = from /\ pc' = [pc EXCEPT ![p] = to]

\* Mutant: a request that ends with the disk is refused.
Beyond_at_end(r) == r.pos + r.segs >= NSects

Beyond(r) == r.pos + r.segs > NSects

\* A bio for one of its disks arrives: the range is checked.
MakeRequest(p, r) ==
  /\ r.dev \in Hd
  /\ Goto(p, "idle", IF Beyond(r) THEN "out" ELSE "segment")
  /\ SubmitReq(p, r)
  /\ err' = [err EXCEPT ![p] = IF Beyond(r) THEN EIO ELSE 0]
  /\ pseg' = [pseg EXCEPT ![p] = 1]
  /\ UNCHANGED <<queue, lock, cpus>>

\* bio_for_each_segment: one memcpy, pRHdata advances.
Segment(p) ==
  /\ Goto(p, "segment", IF pseg[p] = req[p].segs THEN "out" ELSE "segment")
  /\ Copy(p, pseg[p], req[p].pos + pseg[p] - 1)
  /\ pseg' = [pseg EXCEPT ![p] = @ + 1]
  /\ UNCHANGED <<err, queue, lock, cpus>>

\* bio_endio
Out(p) ==
  /\ Goto(p, "out", "idle")
  /\ EndReq(p, err[p])
  /\ pseg' = [pseg EXCEPT ![p] = 0] /\ err' = [err EXCEPT ![p] = 0]
  /\ UNCHANGED <<queue, lock, cpus>>

ramhd_make_request(p) == Segment(p) \/ Out(p) \/ \E r \in Requests : MakeRequest(p, r)

-----------------------------------------------------------------------------
(* ramhd_req_func *)

GotoC(c, from, to) == cpc[c] = from /\ cpc' = [cpc EXCEPT ![c] = to]

\* The block layer queues a request within the capacity, under the lock.
Submit(p, r) ==
  /\ r.dev \in Sd /\ InBounds(r) /\ lock[r.dev] = Idle
  /\ SubmitReq(p, r)
  /\ queue' = queue \cup {p}
  /\ UNCHANGED <<mkreq, lock, cpus>>

\* It calls the request function of a disk that has requests, with the lock.
RunQueue(c, d) ==
  /\ lock[d] = Idle /\ \E p \in queue : req[p].dev = d
  /\ GotoC(c, "idle", "fetch")
  /\ lock' = [lock EXCEPT ![d] = c] /\ disk' = [disk EXCEPT ![c] = d]
  /\ UNCHANGED <<io, mkreq, queue, cur, cseg>>

\* blk_fetch_request
Fetch(c, p) ==
  /\ p \in queue /\ req[p].dev = disk[c]
  /\ GotoC(c, "fetch", "chunk")
  /\ queue' = queue \ {p}
  /\ cur' = [cur EXCEPT ![c] = p] /\ cseg' = [cseg EXCEPT ![c] = 1]
  /\ UNCHANGED <<io, mkreq, lock, disk>>

\* It returned NULL: the function returns and the lock is released.
FetchNone(c) ==
  /\ \A p \in queue : req[p].dev # disk[c]
  /\ GotoC(c, "fetch", "idle")
  /\ lock' = [lock EXCEPT ![disk[c]] = Idle] /\ disk' = [disk EXCEPT ![c] = Idle]
  /\ UNCHANGED <<io, mkreq, queue, cur, cseg>>

\* The current chunk is copied at blk_rq_pos.
Chunk(c) ==
  /\ GotoC(c, "chunk", "end_cur")
  /\ Copy(cur[c], cseg[c], req[cur[c]].pos + cseg[c] - 1)
  /\ UNCHANGED <<mkreq, queue, lock, disk, cur, cseg>>

LastChunk(c) == cseg[c] = req[cur[c]].segs

\* The chunk just copied was the last: the request ends.
EndLast(c) ==
  /\ GotoC(c, "end_cur", "fetch") /\ EndReq(cur[c], 0)
  /\ cur' = [cur EXCEPT ![c] = Idle] /\ cseg' = [cseg EXCEPT ![c] = 0]

EndMore(c) ==
  /\ GotoC(c, "end_cur", "chunk")
  /\ cseg' = [cseg EXCEPT ![c] = @ + 1] /\ UNCHANGED <<io, cur>>

\* Mutant: the lock is dropped from chunk to chunk, as sample_blk.c drops it.
EndCur_unlocks(c) ==
  /\ cpc[c] = "end_cur"
  /\ IF LastChunk(c) THEN EndLast(c) ELSE EndMore(c)
  /\ lock' = [lock EXCEPT ![disk[c]] = Idle]
  /\ UNCHANGED <<mkreq, queue, disk>>

\* __blk_end_request_cur ends the chunk; with the last one the request ends
\* and the next is fetched.
EndCur(c) ==
  /\ cpc[c] = "end_cur"
  /\ IF LastChunk(c) THEN EndLast(c) ELSE EndMore(c)
  /\ UNCHANGED <<mkreq, queue, lock, disk>>

ramhd_req_func(c) == (\E p \in Procs : Fetch(c, p)) \/ FetchNone(c) \/ Chunk(c) \/ EndCur(c)

-----------------------------------------------------------------------------
Next ==
  \/ \E p \in Procs : ramhd_make_request(p) \/ \E r \in Requests : Submit(p, r)
  \/ \E c \in CPUs : ramhd_req_func(c) \/ \E d \in Sd : RunQueue(c, d)

Spec == Init /\ [][Next]_vars

-----------------------------------------------------------------------------
TypeOK ==
  /\ IoTypeOK
  /\ pc \in [Procs -> {"idle", "segment", "out"}]
  /\ pseg \in [Procs -> 0..(MaxSegs + 1)] /\ err \in [Procs -> {0, EIO}]
  /\ queue \subseteq Procs /\ lock \in [Sd -> CPUs \cup {Idle}]
  /\ cpc \in [CPUs -> {"idle", "fetch", "chunk", "end_cur"}]
  /\ disk \in [CPUs -> Sd \cup {Idle}] /\ cur \in [CPUs -> Procs \cup {Idle}]
  /\ cseg \in [CPUs -> 0..MaxSegs]

Ending(c) == cpc[c] = "end_cur" /\ LastChunk(c)

\* Every request ends as a disk must end it, in ramhd_make_request without any
\* lock as in ramhd_req_func: in range with the data last written or being
\* written, out of range with an error and without a trace.
EndsRight ==
  /\ \A p \in Procs : pc[p] = "out" => GoodEnd(p, err[p])
  /\ \A c \in CPUs : Ending(c) => GoodEnd(cur[c], 0)

\* Under the lock of ramhd_req.c a read is a snapshot: its sectors are as they
\* were at one instant, which the other two drivers do not promise.
ReadIsSnapshot ==
  \A c \in CPUs : Ending(c) /\ req[cur[c]].dir = "READ" =>
    \A k \in 1..req[cur[c]].segs : pages[cur[c]][k] = data[Cell(req[cur[c]], k)]
=============================================================================
