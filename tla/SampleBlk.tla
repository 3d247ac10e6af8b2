------------------------------- MODULE SampleBlk -------------------------------
(***************************************************************************)
(* ramdisk-lab/sample_blk.c: a ram disk behind a request queue.  The       *)
(* request function drops the queue lock while it serves a request, so     *)
(* several CPUs run it at once; the module is loaded, with allocations     *)
(* that fail, and unloaded around that.                                    *)
(***************************************************************************)
EXTENDS BlockLayer, Sequences

CONSTANTS CPUs, Idle

EIO == -5

VARIABLES
  mod,      \* "out", in sampleblk_alloc ("alloc", "undo"), "loaded", "exit", "oops"
  stage,    \* how far alloc, its error labels or sampleblk_free have come
  res,      \* what is allocated or registered
  opened,   \* programs with the device open
  queue,    \* requests no CPU has fetched (the elevator may reorder them)
  cpc, cur, seg, rv   \* each CPU in sampleblk_request

module == <<mod, stage, res, opened>>
cpus == <<cpc, cur, seg, rv>>
vars == <<io, module, queue, cpus>>

ASSUME OneDisk == Cardinality(Devs) = 1 /\ Idle \notin Procs

Init ==
  /\ IoInit
  /\ mod = "out" /\ stage = 0 /\ res = {} /\ opened = {} /\ queue = {}
  /\ cpc = [c \in CPUs |-> "idle"] /\ cur = [c \in CPUs |-> Idle]
  /\ seg = [c \in CPUs |-> 0] /\ rv = [c \in CPUs |-> 0]

-----------------------------------------------------------------------------
(* Loading and unloading *)

\* The allocations of sampleblk_alloc in order; on a failure its labels undo
\* them backwards.
AllocOrder == <<"dev", "data", "queue", "disk">>

\* sampleblk_init: register_blkdev (nothing happens when it fails).
sampleblk_init ==
  /\ mod = "out" /\ mod' = "alloc" /\ stage' = 1 /\ res' = {"major"}
  /\ UNCHANGED <<io, opened, queue, cpus>>

\* The next allocation succeeds.  vmalloc does not clear what it returns;
\* after add_disk the module is loaded.
AllocNext ==
  /\ mod = "alloc"
  /\ res' = res \cup {AllocOrder[stage]}
  /\ IF stage = Len(AllocOrder) THEN mod' = "loaded" /\ stage' = 0
                                ELSE stage' = stage + 1 /\ UNCHANGED mod
  /\ IF AllocOrder[stage] = "data"
     THEN data' = [x \in Cells |-> Blank] /\ stable' = [x \in Cells |-> {Blank}]
     ELSE UNCHANGED <<data, stable>>
  /\ UNCHANGED <<req, pages, seen, opened, queue, cpus>>

\* It fails: goto the label that undoes the one before.
AllocFails ==
  /\ mod = "alloc" /\ mod' = "undo" /\ stage' = stage - 1
  /\ UNCHANGED <<io, res, opened, queue, cpus>>

\* Mutant: the label before the one of the last success.
AllocUndo_skips ==
  /\ mod = "undo"
  /\ IF stage = 0 THEN mod' = "loaded" /\ UNCHANGED <<stage, res>>
     ELSE /\ res' = res \ {AllocOrder[stage]}
          /\ stage' = IF stage > 1 THEN stage - 2 ELSE 0
          /\ UNCHANGED mod
  /\ UNCHANGED <<io, opened, queue, cpus>>

\* A label, falling through to the next; sampleblk_init logs the error and
\* returns 0 all the same.
AllocUndo ==
  /\ mod = "undo"
  /\ IF stage = 0 THEN mod' = "loaded" /\ UNCHANGED <<stage, res>>
     ELSE res' = res \ {AllocOrder[stage]} /\ stage' = stage - 1 /\ UNCHANGED mod
  /\ UNCHANGED <<io, opened, queue, cpus>>

\* Mutant: the device goes before its queue.
FreeOrder_dev_first == <<"dev", "queue", "disk", "data", "major">>

\* sampleblk_free, after del_gendisk, and unregister_blkdev.
FreeOrder == <<"queue", "disk", "data", "dev", "major">>

\* sampleblk_exit.  The kernel unloads no module whose device is open.
\* sampleblk_dev is NULL or dangling when its allocation was undone.
sampleblk_exit ==
  /\ mod = "loaded" /\ opened = {}
  /\ IF "dev" \in res THEN mod' = "exit" /\ stage' = 1
                      ELSE mod' = "oops" /\ UNCHANGED stage
  /\ UNCHANGED <<io, res, opened, queue, cpus>>

\* blk_cleanup_queue waits until the queue is empty and no request function
\* runs; the other calls do not wait.
Drained == queue = {} /\ \A c \in CPUs : cpc[c] = "idle"

sampleblk_free ==
  /\ mod = "exit"
  /\ FreeOrder[stage] = "queue" => Drained
  /\ res' = res \ {FreeOrder[stage]}
  /\ IF stage = Len(FreeOrder) THEN mod' = "out" /\ stage' = 0
                               ELSE stage' = stage + 1 /\ UNCHANGED mod
  /\ UNCHANGED <<io, opened, queue, cpus>>

-----------------------------------------------------------------------------
(* Programs *)

Open(p) ==
  /\ mod = "loaded" /\ "disk" \in res /\ p \notin opened
  /\ opened' = opened \cup {p}
  /\ UNCHANGED <<io, mod, stage, res, queue, cpus>>

Close(p) ==
  /\ p \in opened /\ req[p] = NoReq
  /\ opened' = opened \ {p}
  /\ UNCHANGED <<io, mod, stage, res, queue, cpus>>

Submit(p, r) ==
  /\ p \in opened
  /\ SubmitReq(p, r)
  /\ queue' = queue \cup {p}
  /\ UNCHANGED <<module, cpus>>

-----------------------------------------------------------------------------
(* sampleblk_request *)

Goto(c, from, to) == cpc[c] = from /\ cpc' = [cpc EXCEPT ![c] = to]

\* The block layer calls the request function of a queue with requests.
RunQueue(c) ==
  /\ queue # {}
  /\ Goto(c, "idle", "fetch")
  /\ UNCHANGED <<io, module, queue, cur, seg, rv>>

\* blk_fetch_request found nothing: return.
FetchNone(c) ==
  /\ queue = {}
  /\ Goto(c, "fetch", "idle")
  /\ rv' = [rv EXCEPT ![c] = 0]
  /\ UNCHANGED <<io, module, queue, cur, seg>>

Beyond(r) == r.pos + r.segs > NSects

\* Mutant: a refused request is skipped without ending it.
Fetch_drops(c, p) ==
  /\ p \in queue /\ queue' = queue \ {p}
  /\ Goto(c, "fetch", IF Beyond(req[p]) THEN "fetch" ELSE "segment")
  /\ IF Beyond(req[p]) THEN UNCHANGED <<cur, seg>>
     ELSE cur' = [cur EXCEPT ![c] = p] /\ seg' = [seg EXCEPT ![c] = 1]
  /\ UNCHANGED <<io, module, rv>>

\* blk_fetch_request under the lock, which is then dropped; a request that
\* ends beyond the disk is refused.
Fetch(c, p) ==
  /\ p \in queue /\ queue' = queue \ {p}
  /\ Goto(c, "fetch", IF Beyond(req[p]) THEN "end" ELSE "segment")
  /\ cur' = [cur EXCEPT ![c] = p] /\ seg' = [seg EXCEPT ![c] = 1]
  /\ rv' = IF Beyond(req[p]) THEN [rv EXCEPT ![c] = EIO] ELSE rv
  /\ UNCHANGED <<io, module>>

\* Mutant: the result of the segment is not stored.
Segment_keeps_rv(c) ==
  LET p == cur[c]
  IN  /\ Goto(c, "segment", IF seg[c] = req[p].segs THEN "end" ELSE "segment")
      /\ Copy(p, seg[c], req[p].pos + seg[c] - 1)
      /\ seg' = [seg EXCEPT ![c] = @ + 1]
      /\ UNCHANGED <<module, queue, cur, rv>>

\* rq_for_each_segment: sampleblk_handle_io copies a segment and returns 0.
Segment(c) ==
  LET p == cur[c]
  IN  /\ Goto(c, "segment", IF seg[c] = req[p].segs THEN "end" ELSE "segment")
      /\ Copy(p, seg[c], req[p].pos + seg[c] - 1)
      /\ seg' = [seg EXCEPT ![c] = @ + 1] /\ rv' = [rv EXCEPT ![c] = 0]
      /\ UNCHANGED <<module, queue, cur>>

\* blk_end_request_all; the lock is taken for the next fetch.
End(c) ==
  /\ Goto(c, "end", "fetch")
  /\ EndReq(cur[c], rv[c])
  /\ cur' = [cur EXCEPT ![c] = Idle] /\ seg' = [seg EXCEPT ![c] = 0]
  /\ UNCHANGED <<module, queue, rv>>

sampleblk_request(c) ==
  RunQueue(c) \/ FetchNone(c) \/ (\E p \in Procs : Fetch(c, p)) \/ Segment(c) \/ End(c)

-----------------------------------------------------------------------------
Next ==
  \/ sampleblk_init \/ AllocNext \/ AllocFails \/ AllocUndo
  \/ sampleblk_exit \/ sampleblk_free
  \/ \E p \in Procs : Open(p) \/ Close(p) \/ \E r \in Requests : Submit(p, r)
  \/ \E c \in CPUs : sampleblk_request(c)

Spec == Init /\ [][Next]_vars

-----------------------------------------------------------------------------
TypeOK ==
  /\ IoTypeOK
  /\ mod \in {"out", "alloc", "undo", "loaded", "exit", "oops"} /\ stage \in 0..5
  /\ res \subseteq {"major", "dev", "data", "queue", "disk"}
  /\ opened \subseteq Procs /\ queue \subseteq Procs
  /\ cpc \in [CPUs -> {"idle", "fetch", "segment", "end"}]
  /\ cur \in [CPUs -> Procs \cup {Idle}]
  /\ seg \in [CPUs -> 0..(MaxSegs + 1)] /\ rv \in [CPUs -> {0, EIO}]

\* Every request is ended with its own fate: rv is not cleared between two
\* requests of one run, and other CPUs serve other requests meanwhile, yet a
\* request in range succeeds with the right data and one out of range fails.
EndsRight == \A c \in CPUs : cpc[c] = "end" => GoodEnd(cur[c], rv[c])

\* A submitted request is in the queue or with one CPU: it is ended once.
ServedOnce ==
  \A p \in Procs :
    Cardinality({c \in CPUs : cur[c] = p}) + (IF p \in queue THEN 1 ELSE 0)
      = IF req[p] = NoReq THEN 0 ELSE 1

\* No CPU uses memory that was freed: the queue and the lock inside
\* sampleblk_dev while it fetches, the disk's data while it copies.  A CPU
\* still has the lock to take when the last program has its answer, closes
\* the device and the module goes.
MemoryLive ==
  \A c \in CPUs :
    /\ cpc[c] # "idle" => {"dev", "queue"} \subseteq res
    /\ cpc[c] = "segment" => "data" \in res

\* A failed sampleblk_alloc leaves nothing behind.
FailureUndone == mod = "loaded" /\ "disk" \notin res => res = {"major"}
=============================================================================
