------------------------------ MODULE BlockLayer ------------------------------
(***************************************************************************)
(* The kernel's block layer as the drivers of ramdisk-lab meet it: programs*)
(* with a request in flight, the pages it carries, and what a disk that is *)
(* used by several programs at once has to give back.                      *)
(*                                                                         *)
(* memcpy moves a word at a time, so what holds of a sector under          *)
(* concurrent requests holds of its words: a sector stands for one of its  *)
(* words and a segment of a request for one sector.                        *)
(***************************************************************************)
EXTENDS Integers, FiniteSets

CONSTANTS
  Procs,     \* programs, each with one request at a time
  Devs,      \* the disks of the driver
  NSects,    \* capacity of a disk in sectors
  Vals,      \* what programs write
  Blank,     \* what a disk holds before anything is written
  MaxSegs,   \* bound: segments of a request
  NoReq

ASSUME BlockAssumption ==
  /\ NSects \in Nat \ {0} /\ MaxSegs \in Nat \ {0} /\ Blank \notin Vals

Sects == 0..(NSects - 1)
Cells == Devs \X Sects

\* A request may start at any sector and run past the end of the disk.
Requests ==
  [dev : Devs, dir : {"READ"}, pos : Sects, segs : 1..MaxSegs, val : {Blank}]
    \cup [dev : Devs, dir : {"WRITE"}, pos : Sects, segs : 1..MaxSegs, val : Vals]

ASSUME NoReqAssumption == NoReq \notin Requests

VARIABLES
  data,     \* the memory of the disks
  req,      \* the request of each program, NoReq if it has none
  pages,    \* the pages of the request: one value per segment
  stable,   \* history: what a read with no write around it may return
  seen      \* history: for the cells of a request, what was there when it
            \* was submitted and every write that overlapped it in time

io == <<data, req, pages, stable, seen>>

Cell(r, k) == <<r.dev, r.pos + k - 1>>
InBounds(r) == r.pos + r.segs <= NSects

\* The cells a request may change or read: none if it must be refused.
Touches(r) == IF InBounds(r) THEN {Cell(r, k) : k \in 1..r.segs} ELSE {}

NoCells == [x \in Cells |-> {}]
NoPages == [k \in 1..MaxSegs |-> Blank]

IoInit ==
  /\ data = [x \in Cells |-> Blank]
  /\ req = [p \in Procs |-> NoReq] /\ pages = [p \in Procs |-> NoPages]
  /\ stable = [x \in Cells |-> {Blank}] /\ seen = [p \in Procs |-> NoCells]

\* Values being written to cell x.
Writing(x) ==
  {req[q].val : q \in {q \in Procs : req[q] # NoReq /\ req[q].dir = "WRITE" /\ x \in Touches(req[q])}}

\* A program submits r and waits.
SubmitReq(p, r) ==
  /\ req[p] = NoReq
  /\ req' = [req EXCEPT ![p] = r]
  /\ pages' = [pages EXCEPT ![p] = [k \in 1..MaxSegs |-> IF r.dir = "WRITE" THEN r.val ELSE Blank]]
  /\ seen' = [q \in Procs |-> [x \in Cells |->
               IF q = p
               THEN IF x \in Touches(r) THEN Writing(x) \cup (IF r.dir = "READ" THEN stable[x] ELSE {}) ELSE {}
               ELSE IF /\ req[q] # NoReq /\ r.dir = "WRITE"
                       /\ x \in Touches(r) \cap Touches(req[q])
                    THEN seen[q][x] \cup {r.val} ELSE seen[q][x]]]
  /\ UNCHANGED <<data, stable>>

\* The driver ends the request of p, with err.
EndReq(p, err) ==
  /\ req' = [req EXCEPT ![p] = NoReq]
  /\ pages' = [pages EXCEPT ![p] = NoPages]
  /\ seen' = [seen EXCEPT ![p] = NoCells]
  /\ stable' = IF req[p].dir = "WRITE" /\ err = 0
               THEN [x \in Cells |-> IF x \in Touches(req[p]) THEN {req[p].val} \cup seen[p][x] ELSE stable[x]]
               ELSE stable
  /\ UNCHANGED data

\* memcpy between the k-th segment and the disk at sector s.
Copy(p, k, s) ==
  LET x == <<req[p].dev, s>>
  IN  /\ IF req[p].dir = "WRITE"
         THEN data' = [data EXCEPT ![x] = pages[p][k]] /\ UNCHANGED pages
         ELSE pages' = [pages EXCEPT ![p][k] = data[x]] /\ UNCHANGED data
      /\ UNCHANGED <<req, stable, seen>>

IoTypeOK ==
  /\ data \in [Cells -> Vals \cup {Blank}]
  /\ req \in [Procs -> Requests \cup {NoReq}]
  /\ pages \in [Procs -> [1..MaxSegs -> Vals \cup {Blank}]]
  /\ stable \in [Cells -> SUBSET (Vals \cup {Blank})]
  /\ seen \in [Procs -> [Cells -> SUBSET (Vals \cup {Blank})]]

\* The request of p may be ended with err: beyond the end it fails, within the
\* disk it succeeds, and a read then returns in every segment what the last
\* write of that cell left there, or a write that overlapped it in time.
GoodEnd(p, err) ==
  /\ InBounds(req[p]) <=> err = 0
  /\ err = 0 /\ req[p].dir = "READ" =>
       \A k \in 1..req[p].segs : pages[p][k] \in seen[p][Cell(req[p], k)]
=============================================================================
