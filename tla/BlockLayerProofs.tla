--------------------------- MODULE BlockLayerProofs ---------------------------
(***************************************************************************)
(* What a driver has to do so that every read returns the last write of    *)
(* each sector, or one that overlapped it in time: copy the segments of a  *)
(* request within the disk one after the other, in any interleaving with   *)
(* the copies of other requests.  The proofs of the drivers rest on this.  *)
(***************************************************************************)
EXTENDS BlockLayer, TLAPS

Active(p) == req[p] # NoReq
IsWrite(p) == req[p].dir = "WRITE"

\* What a request in flight may find, and leave, in the cells it touches: a
\* cell holds what a read may return now or what is being written, everyone
\* who touches it has seen the values being written by others, a write's
\* pages hold its value and a read has seen what is on the disk.
DataInv ==
  /\ \A x \in Cells : data[x] \in stable[x] \cup Writing(x)
  /\ \A p, q \in Procs :
       p # q /\ Active(p) /\ Active(q) /\ IsWrite(p) =>
         \A x \in Touches(req[p]) \cap Touches(req[q]) : req[p].val \in seen[q][x]
  /\ \A p \in Procs :
       Active(p) => IF IsWrite(p) THEN \A k \in 1..MaxSegs : pages[p][k] = req[p].val
                    ELSE \A x \in Touches(req[p]) : data[x] \in seen[p][x]

\* The first n segments of the request of p are done: read from the disk, or
\* on the disk unless a write that overlapped this one came after it.
Done(p, n) ==
  \A k \in 1..n :
    LET x == Cell(req[p], k)
    IN  IF IsWrite(p) THEN data[x] \in {req[p].val} \cup seen[p][x]
        ELSE pages[p][k] \in seen[p][x]

\* A step of others that spares the request of q: what q may see only grows,
\* and what they write into its cells is among it.
Kept(q) ==
  /\ req'[q] = req[q] /\ pages'[q] = pages[q]
  /\ \A x \in Touches(req[q]) : /\ seen[q][x] \subseteq seen'[q][x]
                                /\ data'[x] = data[x] \/ data'[x] \in seen'[q][x]

-----------------------------------------------------------------------------
(* The operators *)

LEMMA RequestFields ==
  ASSUME NEW r \in Requests
  PROVE  /\ r.dev \in Devs /\ r.pos \in 0..(NSects - 1) /\ r.segs \in 1..MaxSegs
         /\ r.dir \in {"READ", "WRITE"} /\ r.val \in Vals \cup {Blank}
         /\ r # NoReq
  BY NoReqAssumption DEF Requests, Sects

\* The cells of a request within the disk are cells of the disk.
LEMMA TouchesCells ==
  ASSUME NEW r \in Requests
  PROVE  /\ Touches(r) \subseteq Cells
         /\ InBounds(r) => \A k \in 1..r.segs : Cell(r, k) \in Touches(r)
         /\ ~InBounds(r) => Touches(r) = {}
         /\ \A x \in Touches(r) : InBounds(r) /\ \E k \in 1..r.segs : x = Cell(r, k)
  <1> USE BlockAssumption
  <1>1. ASSUME InBounds(r), NEW k \in 1..r.segs PROVE Cell(r, k) \in Cells
        <2>1. r.pos + k - 1 \in 0..(NSects - 1) BY <1>1, RequestFields DEF InBounds
        <2> QED BY <2>1, RequestFields DEF Cell, Cells, Sects
  <1> QED BY <1>1 DEF Touches

\* Two segments of a request are two cells.
LEMMA CellsDiffer ==
  ASSUME NEW r \in Requests, NEW k \in 1..r.segs, NEW l \in 1..r.segs, Cell(r, k) = Cell(r, l)
  PROVE  k = l
  BY RequestFields, BlockAssumption DEF Cell

LEMMA DoneKept ==
  ASSUME NEW q, req[q] \in Requests, InBounds(req[q]), Kept(q),
         NEW n \in 0..req[q].segs, Done(q, n)
  PROVE  Done(q, n)'
  <1>1. \A k \in 1..n : Cell(req[q], k) \in Touches(req[q]) BY TouchesCells, RequestFields
  <1>2. req'[q] = req[q] BY DEF Kept
  <1>3. ASSUME NEW k \in 1..n
        PROVE  IF IsWrite(q) THEN data'[Cell(req[q], k)] \in {req[q].val} \cup seen'[q][Cell(req[q], k)]
               ELSE pages'[q][k] \in seen'[q][Cell(req[q], k)]
    <2>1. IF IsWrite(q) THEN data[Cell(req[q], k)] \in {req[q].val} \cup seen[q][Cell(req[q], k)]
          ELSE pages[q][k] \in seen[q][Cell(req[q], k)]
          BY <1>3 DEF Done
    <2> QED BY <2>1, <1>1 DEF Kept
  <1> QED BY <1>2, <1>3 DEF Done, IsWrite

-----------------------------------------------------------------------------
(* The steps *)

LEMMA InitData == IoInit => IoTypeOK /\ DataInv
  BY BlockAssumption DEF IoInit, IoTypeOK, NoCells, NoPages, DataInv, Active

LEMMA DataQuiet ==
  ASSUME IoTypeOK, DataInv, UNCHANGED io
  PROVE  /\ IoTypeOK' /\ DataInv'
         /\ \A q \in Procs : Kept(q)
  <1>1. DataInv' BY DEF DataInv, Active, IsWrite, Writing, io
  <1>2. IoTypeOK' BY DEF IoTypeOK, io
  <1>3. \A q \in Procs : Kept(q) BY DEF Kept, io
  <1> QED BY <1>1, <1>2, <1>3

LEMMA SubmitData ==
  ASSUME IoTypeOK, DataInv, NEW p \in Procs, NEW r \in Requests, SubmitReq(p, r)
  PROVE  /\ IoTypeOK' /\ DataInv'
         /\ req[p] = NoReq /\ req' = [req EXCEPT ![p] = r]
         /\ \A q \in Procs : q # p /\ Active(q) => Kept(q)
  <1>1. req[p] = NoReq /\ UNCHANGED <<data, stable>> BY DEF SubmitReq
  <1>2. req' = [req EXCEPT ![p] = r] BY DEF SubmitReq
  <1>3. pages' = [pages EXCEPT ![p] = [k \in 1..MaxSegs |-> IF r.dir = "WRITE" THEN r.val ELSE Blank]]
        BY DEF SubmitReq
  <1>4. \A x \in Cells : Writing(x) \subseteq Vals \cup {Blank}
        BY RequestFields DEF Writing, IoTypeOK
  <1>5. /\ seen' \in [Procs -> [Cells -> SUBSET (Vals \cup {Blank})]]
        /\ \A x \in Touches(r) : seen'[p][x] = Writing(x) \cup (IF r.dir = "READ" THEN stable[x] ELSE {})
        /\ \A q \in Procs \ {p} : \A x \in Cells :
             seen'[q][x] = IF /\ req[q] # NoReq /\ r.dir = "WRITE"
                              /\ x \in Touches(r) \cap Touches(req[q])
                           THEN seen[q][x] \cup {r.val} ELSE seen[q][x]
    <2>1. seen' = [q \in Procs |-> [x \in Cells |->
               IF q = p
               THEN IF x \in Touches(r) THEN Writing(x) \cup (IF r.dir = "READ" THEN stable[x] ELSE {}) ELSE {}
               ELSE IF /\ req[q] # NoReq /\ r.dir = "WRITE"
                       /\ x \in Touches(r) \cap Touches(req[q])
                    THEN seen[q][x] \cup {r.val} ELSE seen[q][x]]]
          BY DEF SubmitReq
    <2> QED BY <2>1, <1>4, RequestFields, TouchesCells DEF IoTypeOK
  <1>6. IoTypeOK' BY <1>1, <1>2, <1>3, <1>5, RequestFields DEF IoTypeOK
  <1>9. \A q \in Procs : q # p => req'[q] = req[q] /\ pages'[q] = pages[q]
                                  /\ \A x \in Cells : seen[q][x] \subseteq seen'[q][x]
    <2> SUFFICES ASSUME NEW q \in Procs, q # p
                 PROVE  req'[q] = req[q] /\ pages'[q] = pages[q]
                        /\ \A x \in Cells : seen[q][x] \subseteq seen'[q][x]
        OBVIOUS
    <2>1. req'[q] = req[q] /\ pages'[q] = pages[q] BY <1>2, <1>3 DEF IoTypeOK
    <2>2. \A x \in Cells : seen[q][x] \subseteq seen'[q][x] BY <1>5
    <2> QED BY <2>1, <2>2
  <1>10. req'[p] = r /\ \A k \in 1..MaxSegs : pages'[p][k] = IF r.dir = "WRITE" THEN r.val ELSE Blank
         BY <1>2, <1>3 DEF IoTypeOK
  <1>11. \A x \in Cells : Writing(x) \subseteq Writing(x)'
         BY <1>1, <1>9 DEF Writing
  <1>12. DataInv'
    <2>1. \A x \in Cells : data'[x] \in stable'[x] \cup Writing(x)'
          BY <1>1, <1>11 DEF DataInv
    <2>2. ASSUME NEW a \in Procs, NEW b \in Procs, a # b, Active(a)', Active(b)', IsWrite(a)',
                 NEW x \in Touches(req'[a]) \cap Touches(req'[b])
          PROVE  req'[a].val \in seen'[b][x]
      <3>1. x \in Cells BY <2>2, TouchesCells, <1>6 DEF Active, IoTypeOK
      <3>2. CASE a = p
        <4>1. req'[b] = req[b] /\ req[b] # NoReq /\ r.dir = "WRITE" /\ b # p
              /\ x \in Touches(r) \cap Touches(req[b])
              BY <3>2, <2>2, <1>9, <1>10 DEF Active, IsWrite
        <4> QED BY <4>1, <3>1, <3>2, <1>5, <1>10
      <3>3. CASE b = p
        <4>1. req[a] # NoReq /\ req[a].dir = "WRITE" /\ x \in Touches(req[a]) /\ x \in Touches(r)
              BY <3>3, <2>2, <1>9, <1>10 DEF Active, IsWrite
        <4>2. req[a].val \in Writing(x) BY <4>1 DEF Writing
        <4> QED BY <4>1, <4>2, <3>3, <2>2, <1>5, <1>9
      <3>4. CASE a # p /\ b # p
            BY <3>1, <3>4, <2>2, <1>9 DEF DataInv, Active, IsWrite
      <3> QED BY <3>2, <3>3, <3>4
    <2>3. ASSUME NEW a \in Procs, Active(a)', IsWrite(a)', NEW k \in 1..MaxSegs
          PROVE  pages'[a][k] = req'[a].val
          BY <2>3, <1>9, <1>10 DEF DataInv, Active, IsWrite
    <2>4. ASSUME NEW a \in Procs, Active(a)', ~IsWrite(a)', NEW x \in Touches(req'[a])
          PROVE  data'[x] \in seen'[a][x]
      <3>1. x \in Cells BY <2>4, TouchesCells, <1>6 DEF Active, IoTypeOK
      <3>2. CASE a = p
        <4>1. r.dir = "READ" /\ x \in Touches(r) BY <3>2, <2>4, <1>10, RequestFields DEF IsWrite
        <4>2. data[x] \in stable[x] \cup Writing(x) BY <3>1 DEF DataInv
        <4> QED BY <4>1, <4>2, <3>2, <1>1, <1>5
      <3>3. CASE a # p BY <3>1, <3>3, <2>4, <1>1, <1>9 DEF DataInv, Active, IsWrite
      <3> QED BY <3>2, <3>3
    <2> QED BY <2>1, <2>2, <2>3, <2>4 DEF DataInv
  <1>13. ASSUME NEW q \in Procs, q # p, Active(q) PROVE Kept(q)
    <2>1. Touches(req[q]) \subseteq Cells BY <1>13, TouchesCells DEF Active, IoTypeOK
    <2> QED BY <2>1, <1>1, <1>9, <1>13 DEF Kept
  <1> QED BY <1>1, <1>2, <1>6, <1>12, <1>13

LEMMA CopyData ==
  ASSUME IoTypeOK, DataInv, NEW p \in Procs, Active(p), InBounds(req[p]),
         NEW k \in 1..req[p].segs, Done(p, k - 1), Copy(p, k, req[p].pos + k - 1)
  PROVE  /\ IoTypeOK' /\ DataInv' /\ Done(p, k)'
         /\ UNCHANGED req
         /\ \A q \in Procs : q # p /\ Active(q) => Kept(q)
         /\ \A y \in Cells : y[1] # req[p].dev => data'[y] = data[y]
         /\ ~IsWrite(p) => /\ data' = data
                           /\ pages'[p][k] = data[Cell(req[p], k)]
                           /\ \A l \in 1..MaxSegs : l # k => pages'[p][l] = pages[p][l]
  <1> DEFINE x == Cell(req[p], k)
  <1>1. UNCHANGED <<req, stable, seen>> BY DEF Copy
  <1>2. req[p] \in Requests BY DEF Active, IoTypeOK
  <1>3. /\ req[p].segs \in 1..MaxSegs /\ k \in 1..MaxSegs
        /\ x \in Touches(req[p]) /\ x \in Cells
        BY <1>2, RequestFields, TouchesCells, BlockAssumption
  <1>5. IF IsWrite(p) THEN data' = [data EXCEPT ![x] = req[p].val] /\ pages' = pages
        ELSE pages' = [pages EXCEPT ![p] = [pages[p] EXCEPT ![k] = data[x]]] /\ data' = data
    <2>1. IF req[p].dir = "WRITE"
          THEN data' = [data EXCEPT ![x] = pages[p][k]] /\ pages' = pages
          ELSE pages' = [pages EXCEPT ![p] = [pages[p] EXCEPT ![k] = data[x]]] /\ data' = data
          BY DEF Copy, Cell
    <2>2. IsWrite(p) => pages[p][k] = req[p].val BY <1>2, <1>3 DEF DataInv
    <2> QED BY <2>1, <2>2 DEF IsWrite
  <1>15. ~IsWrite(p) => /\ pages' \in [Procs -> [1..MaxSegs -> Vals \cup {Blank}]]
                        /\ pages'[p][k] = data[x]
                        /\ \A l \in 1..MaxSegs : l # k => pages'[p][l] = pages[p][l]
    <2> HIDE DEF x
    <2>1. pages \in [Procs -> [1..MaxSegs -> Vals \cup {Blank}]] /\ data[x] \in Vals \cup {Blank}
          BY <1>3 DEF IoTypeOK
    <2>2. pages[p] \in [1..MaxSegs -> Vals \cup {Blank}] BY <2>1, <1>2
    <2>3. [pages[p] EXCEPT ![k] = data[x]] \in [1..MaxSegs -> Vals \cup {Blank}] BY <2>1, <2>2
    <2>4. ~IsWrite(p) => /\ pages' \in [Procs -> [1..MaxSegs -> Vals \cup {Blank}]]
                         /\ pages'[p] = [pages[p] EXCEPT ![k] = data[x]]
          BY <2>1, <2>3, <1>2, <1>5
    <2> QED BY <2>2, <2>4, <1>3
  <1>6. \A y \in Cells : data'[y] = data[y] \/ (IsWrite(p) /\ y = x /\ data'[y] = req[p].val)
        BY <1>3, <1>5 DEF IoTypeOK
  <1>7. \A q \in Procs : q # p => pages'[q] = pages[q]
        BY <1>3, <1>5 DEF IoTypeOK
  <1>8. ASSUME NEW q \in Procs, q # p, Active(q), NEW y \in Touches(req[q])
        PROVE  data'[y] = data[y] \/ data'[y] \in seen[q][y]
    <2>1. y \in Cells BY <1>8, TouchesCells DEF Active, IoTypeOK
    <2>2. CASE IsWrite(p) /\ y = x /\ data'[y] = req[p].val
      <3>1. req[p].val \in seen[q][y] BY <2>2, <1>8, <1>2, <1>3 DEF DataInv
      <3> QED BY <3>1, <2>2
    <2> QED BY <2>1, <2>2, <1>6
  <1>9. IoTypeOK'
    <2>1. data[x] \in Vals \cup {Blank} /\ req[p].val \in Vals \cup {Blank}
          BY <1>2, <1>3, RequestFields DEF IoTypeOK
    <2>2. CASE IsWrite(p) BY <2>1, <2>2, <1>1, <1>5 DEF IoTypeOK
    <2>3. CASE ~IsWrite(p) BY <2>3, <1>1, <1>5, <1>15 DEF IoTypeOK
    <2> QED BY <2>2, <2>3
  <1>12. DataInv'
    <2>1. \A y \in Cells : Writing(y)' = Writing(y) BY <1>1 DEF Writing
    <2>2. \A y \in Cells : data'[y] \in stable'[y] \cup Writing(y)'
      <3> TAKE y \in Cells
      <3>1. CASE data'[y] = data[y] BY <3>1, <2>1, <1>1 DEF DataInv
      <3>2. CASE IsWrite(p) /\ y = x /\ data'[y] = req[p].val
        <4>1. req[p].val \in Writing(y) BY <3>2, <1>2, <1>3 DEF Writing, IsWrite, Active
        <4> QED BY <4>1, <3>2, <2>1
      <3> QED BY <3>1, <3>2, <1>6
    <2>3. ASSUME NEW q \in Procs, Active(q), IsWrite(q), NEW l \in 1..MaxSegs
          PROVE  pages'[q][l] = req[q].val
      <3>1. pages'[q] = pages[q] BY <2>3, <1>5, <1>7
      <3> QED BY <3>1, <2>3 DEF DataInv
    <2>4. ASSUME NEW q \in Procs, Active(q), ~IsWrite(q), NEW y \in Touches(req[q])
          PROVE  data'[y] \in seen[q][y]
      <3>1. CASE q = p BY <3>1, <2>4, <1>5 DEF DataInv
      <3>2. CASE q # p BY <3>2, <2>4, <1>8 DEF DataInv
      <3> QED BY <3>1, <3>2
    <2> QED BY <2>2, <2>3, <2>4, <1>1 DEF DataInv, Active, IsWrite
  <1>13. Done(p, k)'
    <2>1. ASSUME NEW l \in 1..k
          PROVE  IF IsWrite(p) THEN data'[Cell(req[p], l)] \in {req[p].val} \cup seen[p][Cell(req[p], l)]
                 ELSE pages'[p][l] \in seen[p][Cell(req[p], l)]
      <3>0. l \in 1..req[p].segs /\ l \in 1..MaxSegs BY <1>3, BlockAssumption
      <3>1. CASE l = k
        <4>1. CASE IsWrite(p) BY <3>1, <4>1, <1>3, <1>5 DEF IoTypeOK
        <4>2. CASE ~IsWrite(p)
          <5>1. pages'[p][k] = data[x] BY <4>2, <1>15
          <5>2. data[x] \in seen[p][x] BY <4>2, <1>2, <1>3 DEF DataInv
          <5> QED BY <5>1, <5>2, <3>1, <4>2
        <4> QED BY <4>1, <4>2
      <3>2. CASE l # k
        <4>1. l \in 1..(k - 1) BY <3>2, <1>3
        <4>2. IF IsWrite(p) THEN data[Cell(req[p], l)] \in {req[p].val} \cup seen[p][Cell(req[p], l)]
              ELSE pages[p][l] \in seen[p][Cell(req[p], l)]
              BY <4>1, <1>3 DEF Done
        <4>3. Cell(req[p], l) # x BY <3>0, <3>2, <1>2, <1>3, CellsDiffer
        <4>4. CASE IsWrite(p) BY <4>2, <4>3, <4>4, <1>5, <1>3, <3>0, <1>2, <1>3, TouchesCells DEF IoTypeOK
        <4>5. CASE ~IsWrite(p)
          <5>1. pages'[p][l] = pages[p][l] BY <3>0, <3>2, <4>5, <1>15
          <5> QED BY <5>1, <4>2, <4>5
        <4> QED BY <4>4, <4>5
      <3> QED BY <3>1, <3>2
    <2> QED BY <2>1, <1>1 DEF Done, IsWrite
  <1>14. ASSUME NEW q \in Procs, q # p, Active(q) PROVE Kept(q)
         BY <1>14, <1>1, <1>7, <1>8 DEF Kept
  <1>16. \A y \in Cells : y[1] # req[p].dev => data'[y] = data[y]
    <2>1. x[1] = req[p].dev BY DEF Cell
    <2> QED BY <2>1, <1>6
  <1> QED BY <1>1, <1>5, <1>9, <1>12, <1>13, <1>14, <1>15, <1>16

LEMMA EndData ==
  ASSUME IoTypeOK, DataInv, NEW p \in Procs, Active(p), NEW err,
         InBounds(req[p]) <=> err = 0, err = 0 => Done(p, req[p].segs), EndReq(p, err)
  PROVE  /\ IoTypeOK' /\ DataInv'
         /\ req' = [req EXCEPT ![p] = NoReq]
         /\ \A q \in Procs : q # p /\ Active(q) => Kept(q)
  <1>1. data' = data BY DEF EndReq
  <1>2. req[p] \in Requests BY DEF Active, IoTypeOK
  <1>3. /\ req' = [req EXCEPT ![p] = NoReq] /\ pages' = [pages EXCEPT ![p] = NoPages]
        /\ seen' = [seen EXCEPT ![p] = NoCells]
        /\ stable' = IF req[p].dir = "WRITE" /\ err = 0
                     THEN [x \in Cells |-> IF x \in Touches(req[p]) THEN {req[p].val} \cup seen[p][x]
                                           ELSE stable[x]]
                     ELSE stable
        BY DEF EndReq
  <1>4. req'[p] = NoReq /\ \A q \in Procs : q # p => req'[q] = req[q] /\ pages'[q] = pages[q]
                                                     /\ seen'[q] = seen[q]
        BY <1>2, <1>3 DEF IoTypeOK
  <1>6. IoTypeOK'
    <2>1. stable' \in [Cells -> SUBSET (Vals \cup {Blank})]
      <3>1. req[p].val \in Vals \cup {Blank} BY <1>2, RequestFields
      <3>2. \A x \in Cells : stable[x] \subseteq Vals \cup {Blank} /\ seen[p][x] \subseteq Vals \cup {Blank}
            BY <1>2 DEF IoTypeOK
      <3>3. CASE req[p].dir = "WRITE" /\ err = 0 BY <3>1, <3>2, <3>3, <1>3
      <3>4. CASE ~(req[p].dir = "WRITE" /\ err = 0) BY <3>4, <1>3 DEF IoTypeOK
      <3> QED BY <3>3, <3>4
    <2>2. NoPages \in [1..MaxSegs -> Vals \cup {Blank}] BY DEF NoPages
    <2>3. NoCells \in [Cells -> SUBSET (Vals \cup {Blank})] BY DEF NoCells
    <2> QED BY <2>1, <2>2, <2>3, <1>1, <1>3 DEF IoTypeOK
  <1>9. DataInv'
    <2>1. ASSUME NEW x \in Cells PROVE data[x] \in stable'[x] \cup Writing(x)'
      <3>1. CASE IsWrite(p) /\ x \in Touches(req[p])
        <4>1. InBounds(req[p]) BY <3>1, <1>2, TouchesCells
        <4>2. PICK k \in 1..req[p].segs : x = Cell(req[p], k) BY <3>1, <1>2, TouchesCells
        <4>3. data[x] \in {req[p].val} \cup seen[p][x] BY <4>1, <4>2, <3>1 DEF Done
        <4>4. stable'[x] = {req[p].val} \cup seen[p][x] BY <4>1, <3>1, <1>3 DEF IsWrite
        <4> QED BY <4>3, <4>4
      <3>2. CASE ~(IsWrite(p) /\ x \in Touches(req[p]))
        <4>1. stable'[x] = stable[x] BY <3>2, <1>3 DEF IsWrite, IoTypeOK
        <4>2. Writing(x) \subseteq Writing(x)' BY <3>2, <1>4 DEF Writing, IsWrite
        <4> QED BY <4>1, <4>2 DEF DataInv
      <3> QED BY <3>1, <3>2
    <2>2. \A q \in Procs : Active(q)' => q # p /\ Active(q) BY <1>4 DEF Active
    <2>3. ASSUME NEW a \in Procs, NEW b \in Procs, a # b, Active(a)', Active(b)', IsWrite(a)',
                 NEW x \in Touches(req'[a]) \cap Touches(req'[b])
          PROVE  req'[a].val \in seen'[b][x]
          BY <2>2, <2>3, <1>4 DEF DataInv, IsWrite
    <2>4. ASSUME NEW a \in Procs, Active(a)', IsWrite(a)', NEW k \in 1..MaxSegs
          PROVE  pages'[a][k] = req'[a].val
          BY <2>2, <2>4, <1>4 DEF DataInv, IsWrite
    <2>5. ASSUME NEW a \in Procs, Active(a)', ~IsWrite(a)', NEW x \in Touches(req'[a])
          PROVE  data'[x] \in seen'[a][x]
          BY <2>2, <2>5, <1>1, <1>4 DEF DataInv, IsWrite
    <2> QED BY <2>1, <2>3, <2>4, <2>5, <1>1 DEF DataInv
  <1>10. ASSUME NEW q \in Procs, q # p, Active(q) PROVE Kept(q)
         BY <1>10, <1>1, <1>4 DEF Kept
  <1> QED BY <1>3, <1>6, <1>9, <1>10
=============================================================================
