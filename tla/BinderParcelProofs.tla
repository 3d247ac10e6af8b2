-------------------------- MODULE BinderParcelProofs --------------------------
(***************************************************************************)
(* Proofs about BinderParcel, for a buffer, a table of offsets and items of *)
(* any size and number.                                                     *)
(***************************************************************************)
EXTENDS BinderParcel, TLAPS

\* The bytes an item takes when all of it fits.
Chars(len) == 2 * (len + 1)
Extent(it) ==
  CASE it.kind = "u32" -> 4
    [] it.kind = "str" -> 4 + Aligned(Chars(it.len))
    [] it.kind \in {"obj", "ref"} -> 16

Cells == [off : Nat, type : {"u32", "chars", "obj"}, val : Nat]
Cell(o, t, v) == [off |-> o, type |-> t, val |-> v]

With(m, c) == m \cup {c}

Listed(io, p) == \E k \in 1..Len(io.offs) : io.offs[k] = p

\* The whole of item `it' lies at offset p.
Stored(io, it, p) ==
  /\ it.kind = "u32" => Cell(p, "u32", it.val) \in io.mem
  /\ it.kind = "str" => /\ Cell(p, "u32", it.len) \in io.mem
                        /\ Cell(p + 4, "chars", it.val) \in io.mem
  /\ it.kind \in {"obj", "ref"} => Cell(p, "obj", it.val) \in io.mem /\ Listed(io, p)

\* The first item that did not fit, at p: however much is put afterwards, the
\* buffer ends before its bytes would, or no entry of the table names it.
Room(io) == io.data + io.data_avail
Stuck(io, it, p) ==
  /\ it.kind = "u32" => Room(io) < p + 4
  /\ it.kind = "str" => \/ Room(io) < p + 4
                        \/ /\ Cell(p, "u32", it.len) \in io.mem
                           /\ Room(io) < p + 4 + Aligned(Chars(it.len))
  /\ it.kind \in {"obj", "ref"} => \/ Room(io) < p + 16
                                   \/ io.offs_avail = 0 /\ ~Listed(io, p)

\* No two cells of a type share an offset, and nothing lies past the cursor.
MemInv(io) ==
  /\ \A c \in io.mem : c.off < io.data
  /\ \A c, d \in io.mem : c.off = d.off /\ c.type = d.type => c = d
  /\ \A k \in 1..Len(io.offs) : io.offs[k] < io.data
  /\ \A k \in 1..Len(io.offs) : \E c \in io.mem : c.off = io.offs[k] /\ c.type = "obj"

\* Taking s bytes of the buffer, storing a cell, taking an entry of the table.
Take(io, s) == [io EXCEPT !.data = @ + s, !.data_avail = @ - s]
Keep(io, c) == [io EXCEPT !.mem = With(@, c)]
Note(io, p) == [io EXCEPT !.offs_avail = @ - 1, !.offs = Append(@, p)]

\* What any put leaves of the buffer before it.
Grown(a, b) ==
  /\ b \in IO
  /\ a.data <= b.data /\ Room(b) = Room(a)
  /\ a.mem \subseteq b.mem /\ a.flags \subseteq b.flags
  /\ Len(a.offs) <= Len(b.offs)
  /\ \A k \in 1..Len(a.offs) : b.offs[k] = a.offs[k]
  /\ \A k \in 1..Len(b.offs) : k > Len(a.offs) => b.offs[k] >= a.data
  /\ Len(b.offs) + b.offs_avail = Len(a.offs) + a.offs_avail

\* The outcomes of a put: b is a after a cell c of s bytes or an object was
\* stored, or after the item was refused (its bytes may be gone all the same).
CellPut(a, b, s, c) ==
  /\ s <= a.data_avail
  /\ b.data = a.data + s /\ b.data_avail = a.data_avail - s /\ b.flags = a.flags
  /\ b.mem = With(a.mem, c) /\ b.offs = a.offs /\ b.offs_avail = a.offs_avail
Refused(a, b) ==
  /\ a.data <= b.data /\ Room(b) = Room(a) /\ b.flags = a.flags \cup {"OVERFLOW"}
  /\ b.mem = a.mem /\ b.offs = a.offs /\ b.offs_avail = a.offs_avail
ObjectPut(a, b, v) ==
  /\ 16 <= a.data_avail /\ a.offs_avail > 0
  /\ b.data = a.data + 16 /\ b.data_avail = a.data_avail - 16 /\ b.flags = a.flags
  /\ b.mem = With(a.mem, Cell(a.data, "obj", v))
  /\ Len(b.offs) = Len(a.offs) + 1 /\ b.offs[Len(a.offs) + 1] = a.data
  /\ \A k \in 1..Len(a.offs) : b.offs[k] = a.offs[k]
  /\ b.offs_avail = a.offs_avail - 1

\* The first n items lie one after the other, item k at pos[k]; n is short of
\* Len(asked) only if the next item did not fit.
Layout(n, pos) ==
  /\ pos[1] = 0
  /\ \A k \in 1..(n + 1) : pos[k] <= wr.data
  /\ \A k \in 1..n : Stored(wr, asked[k], pos[k]) /\ pos[k + 1] = pos[k] + Extent(asked[k])
  /\ n = Len(asked) => pos[n + 1] = wr.data
  /\ n < Len(asked) => "OVERFLOW" \in wr.flags /\ Stuck(wr, asked[n + 1], pos[n + 1])

\* A reader over the cells and the table of a buffer w.
Over(r, w) ==
  /\ r \in IO /\ r.mem = w.mem /\ r.offs = w.offs /\ r.offs_avail = Len(w.offs)

\* The receiver has read the items in place up to its cursor, or is exhausted.
Reading(n, pos) ==
  /\ Over(rd, wr)
  /\ Len(got) <= n => rd.data = pos[Len(got) + 1] /\ rd.data_avail = wr.data - rd.data
  /\ Len(got) > n => rd.data_avail = 0
  /\ \A k \in 1..Len(got) : got[k] = IF k <= n THEN Seen(asked[k]) ELSE 0


ParcelInv ==
  \E n \in 0..Len(asked) : \E pos \in [1..(n + 1) -> Nat] :
    /\ Layout(n, pos)
    /\ phase \in {"call", "reply"} => Reading(n, pos)
    /\ phase = "call" => n = Len(asked)

\* A status is one word and no table: whatever the first get asks for leaves
\* nothing behind it.
StatusInv ==
  phase = "status" =>
    /\ rd.offs = <<>> /\ rd.offs_avail = 0 /\ rd.mem = {Cell(0, "u32", Failure)}
    /\ Len(got) = 0 => rd.data = 0 /\ rd.data_avail = 4
    /\ Len(got) > 0 => rd.data_avail = 0

ProgressInv ==
  /\ Len(got) <= Len(asked)
  /\ phase = "build" => got = <<>>

\* Whatever is taken of the bytes and of the table is no longer left.
SpaceInv ==
  LET n == MaxOffs * SizeofSizeT
  IN  /\ wr.data + wr.data_avail = IF n <= MaxData THEN MaxData - n ELSE 0
      /\ Len(wr.offs) + wr.offs_avail = IF n <= MaxData THEN MaxOffs ELSE 0

IInv ==
  /\ TypeOK /\ SpaceInv /\ MemInv(wr)
  /\ ProgressInv /\ ParcelInv /\ StatusInv /\ FailureIsSeen

LEMMA SizeMaxFacts == SizeMax \in Nat /\ SizeMax > 64
  BY SizeMaxAssumption

LEMMA AlignedFacts ==
  ASSUME NEW size \in Nat, size + 3 < SizeMax
  PROVE  Aligned(size) \in Nat /\ size <= Aligned(size) /\ Aligned(size) <= size + 3
<1>1. (size + 3) % SizeMax = size + 3
  BY SizeMaxFacts
<1>2. (size + 3) % 4 \in 0..3
  OBVIOUS
<1>3. Aligned(size) = (size + 3) - ((size + 3) % 4)
  BY <1>1 DEF Aligned
<1>4. QED
  BY <1>2, <1>3

LEMMA AlignedSizes ==
  /\ Aligned(0) = 0 /\ Aligned(2) = 4
  /\ Aligned(SizeofU32) = 4 /\ Aligned(SizeofObject) = 16
<1>1. 3 % SizeMax = 3 /\ 5 % SizeMax = 5 /\ 7 % SizeMax = 7 /\ 19 % SizeMax = 19
  BY SizeMaxFacts
<1>2. 3 % 4 = 3 /\ 5 % 4 = 1 /\ 7 % 4 = 3 /\ 19 % 4 = 3
  OBVIOUS
<1>3. QED
  BY <1>1, <1>2 DEF Aligned, SizeofU32, SizeofObject

-----------------------------------------------------------------------------
(* The puts. *)

LEMMA Fields ==
  ASSUME NEW io \in IO
  PROVE  /\ io.data \in Nat /\ io.data_avail \in Nat /\ io.offs \in Seq(Nat)
         /\ io.offs_avail \in Nat /\ io.flags \in SUBSET BioFlags
         /\ io.mem \in SUBSET [off : Nat, type : {"u32", "chars", "obj"}, val : Nat]
BY DEF IO

LEMMA Parts ==
  ASSUME NEW io \in IO
  PROVE  /\ Len(io.offs) \in Nat /\ \A k \in 1..Len(io.offs) : io.offs[k] \in Nat
         /\ \A c \in io.mem : c.off \in Nat
<1>1. io.offs \in Seq(Nat)
  BY Fields
<1>2. \A c \in io.mem : c \in [off : Nat, type : {"u32", "chars", "obj"}, val : Nat]
  BY Fields
<1>3. \A c \in io.mem : c.off \in Nat
  BY <1>2
<1>4. QED
  BY <1>1, <1>3

LEMMA TakeFacts ==
  ASSUME NEW io \in IO, NEW s \in Nat, s <= io.data_avail
  PROVE  /\ Take(io, s) \in IO
         /\ Take(io, s).data = io.data + s /\ Take(io, s).data_avail = io.data_avail - s
         /\ Take(io, s).offs = io.offs /\ Take(io, s).offs_avail = io.offs_avail
         /\ Take(io, s).flags = io.flags /\ Take(io, s).mem = io.mem
<1>1. io.data + s \in Nat /\ io.data_avail - s \in Nat
  BY Fields
<1>2. QED
  BY <1>1 DEF IO, Take

LEMMA KeepFacts ==
  ASSUME NEW io \in IO, NEW c \in Cells
  PROVE  /\ Keep(io, c) \in IO
         /\ Keep(io, c).data = io.data /\ Keep(io, c).data_avail = io.data_avail
         /\ Keep(io, c).offs = io.offs /\ Keep(io, c).offs_avail = io.offs_avail
         /\ Keep(io, c).flags = io.flags /\ Keep(io, c).mem = With(io.mem, c)
<1>1. PICK m \in SUBSET [off : Nat, type : {"u32", "chars", "obj"}, val : Nat] :
        m = With(io.mem, c)
  BY Fields DEF With, Cells
<1>2. Keep(io, c) = [io EXCEPT !.mem = m]
  BY <1>1 DEF Keep
<1>3. QED
  BY <1>1, <1>2 DEF IO

LEMMA StoreCell ==
  ASSUME NEW io, NEW o \in Nat, NEW v \in Nat, NEW t
  PROVE  /\ Store(io, o, t, v) = Keep(io, Cell(o, t, v))
         /\ t \in {"u32", "chars", "obj"} => Cell(o, t, v) \in Cells
BY DEF Store, Keep, Cell, With, Cells

LEMMA NoteFacts ==
  ASSUME NEW io \in IO, io.offs_avail > 0, NEW p \in Nat
  PROVE  /\ Note(io, p) \in IO
         /\ Note(io, p).data = io.data /\ Note(io, p).data_avail = io.data_avail
         /\ Note(io, p).offs = Append(io.offs, p)
         /\ Note(io, p).offs_avail = io.offs_avail - 1
         /\ Note(io, p).flags = io.flags /\ Note(io, p).mem = io.mem
<1>1. io.offs_avail - 1 \in Nat /\ Append(io.offs, p) \in Seq(Nat)
  BY Fields
<1>2. QED
  BY <1>1 DEF IO, Note

LEMMA OverflowFacts ==
  ASSUME NEW io \in IO
  PROVE  /\ Overflow(io) \in IO
         /\ Overflow(io).data = io.data /\ Overflow(io).data_avail = io.data_avail
         /\ Overflow(io).offs = io.offs /\ Overflow(io).offs_avail = io.offs_avail
         /\ Overflow(io).mem = io.mem /\ Overflow(io).flags = io.flags \cup {"OVERFLOW"}
BY DEF IO, BioFlags, Overflow

LEMMA ExhaustFacts ==
  ASSUME NEW io \in IO
  PROVE  /\ Exhaust(io) \in IO
         /\ Exhaust(io).data = io.data /\ Exhaust(io).data_avail = 0
         /\ Exhaust(io).offs = io.offs /\ Exhaust(io).offs_avail = io.offs_avail
         /\ Exhaust(io).mem = io.mem
BY DEF IO, BioFlags, Exhaust

LEMMA PutWord ==
  ASSUME NEW io \in IO, NEW n \in Nat, NEW b, b = bio_put_uint32(io, n)
  PROVE  /\ b \in IO
         /\ 4 <= io.data_avail => CellPut(io, b, 4, Cell(io.data, "u32", n))
         /\ ~(4 <= io.data_avail) => Refused(io, b) /\ b.data = io.data
<1>1. CASE 4 <= io.data_avail
  <2>1. PICK a : a = Take(io, 4)
    OBVIOUS
  <2>2. b = Store(a, io.data, "u32", n)
    BY <1>1, <2>1, AlignedSizes DEF bio_put_uint32, bio_alloc, AllocFits, Take
  <2>3. io.data \in Nat
    BY Fields
  <2>4. /\ a \in IO
        /\ a.data = io.data + 4 /\ a.data_avail = io.data_avail - 4 /\ a.offs = io.offs
        /\ a.offs_avail = io.offs_avail /\ a.flags = io.flags /\ a.mem = io.mem
    BY <1>1, <2>1, TakeFacts
  <2>5. /\ b \in IO /\ b.data = a.data /\ b.data_avail = a.data_avail /\ b.offs = a.offs
        /\ b.offs_avail = a.offs_avail /\ b.flags = a.flags
        /\ b.mem = With(a.mem, Cell(io.data, "u32", n))
    <3>1. PICK c \in Cells : c = Cell(io.data, "u32", n) /\ b = Keep(a, c)
      BY <2>3, <2>4, <2>2, StoreCell
    <3>2. QED
      BY <2>3, <2>4, <3>1, KeepFacts
  <2>6. QED
    BY <1>1, <2>4, <2>5 DEF CellPut
<1>2. CASE ~(4 <= io.data_avail)
  <2>1. b = Overflow(io)
    BY <1>2, AlignedSizes DEF bio_put_uint32, bio_alloc, AllocFits
  <2>2. QED
    BY <1>2, <2>1, OverflowFacts, Fields DEF Refused, Room
<1>3. QED
  BY <1>1, <1>2

LEMMA PutObject ==
  ASSUME NEW io \in IO, NEW ptr \in Nat, NEW b, b = bio_put_obj(io, ptr)
  PROVE  /\ b \in IO
         /\ 16 <= io.data_avail /\ io.offs_avail > 0 => ObjectPut(io, b, ptr)
         /\ ~(16 <= io.data_avail /\ io.offs_avail > 0) => Refused(io, b)
<1> USE AlignedSizes
<1>0. io.data \in Nat /\ io.data_avail \in Nat /\ io.offs_avail \in Nat
  BY Fields
<1>1. CASE 16 <= io.data_avail /\ io.offs_avail > 0
  <2> DEFINE a == Take(io, 16)
             d == Note(a, io.data)
  <2>1. b = Store(d, io.data, "obj", ptr)
    BY <1>1 DEF bio_put_obj, bio_alloc_obj, bio_alloc, AllocFits, ObjFits, Take, Note
  <2>2. /\ a \in IO /\ a.offs_avail > 0
        /\ a.data = io.data + 16 /\ a.data_avail = io.data_avail - 16 /\ a.offs = io.offs
        /\ a.offs_avail = io.offs_avail /\ a.flags = io.flags /\ a.mem = io.mem
    BY <1>1, TakeFacts
  <2> HIDE DEF a
  <2>3. /\ d \in IO
        /\ d.data = a.data /\ d.data_avail = a.data_avail /\ d.offs = Append(a.offs, io.data)
        /\ d.offs_avail = a.offs_avail - 1 /\ d.flags = a.flags /\ d.mem = a.mem
    BY <1>0, <2>2, NoteFacts
  <2> HIDE DEF d
  <2>5. /\ b \in IO /\ b.data = d.data /\ b.data_avail = d.data_avail /\ b.offs = d.offs
        /\ b.offs_avail = d.offs_avail /\ b.flags = d.flags
        /\ b.mem = With(d.mem, Cell(io.data, "obj", ptr))
    <3>1. PICK c \in Cells : c = Cell(io.data, "obj", ptr) /\ b = Keep(d, c)
      BY <1>0, <2>3, <2>1, StoreCell
    <3>2. QED
      BY <1>0, <2>3, <3>1, KeepFacts
  <2>6. io.offs \in Seq(Nat) /\ b.offs = Append(io.offs, io.data)
    BY <2>2, <2>3, <2>5, Fields
  <2>7. /\ Len(b.offs) = Len(io.offs) + 1 /\ b.offs[Len(io.offs) + 1] = io.data
        /\ \A k \in 1..Len(io.offs) : b.offs[k] = io.offs[k]
    BY <1>0, <2>6
  <2>8. /\ b.data = io.data + 16 /\ b.data_avail = io.data_avail - 16 /\ b.flags = io.flags
        /\ b.mem = With(io.mem, Cell(io.data, "obj", ptr)) /\ b.offs_avail = io.offs_avail - 1
    BY <2>2, <2>3, <2>5
  <2>9. QED
    BY <1>1, <2>5, <2>7, <2>8 DEF ObjectPut
<1>2. CASE 16 <= io.data_avail /\ ~(io.offs_avail > 0)
  <2>1. PICK a : a = Take(io, 16)
    OBVIOUS
  <2>2. b = Overflow(a)
    BY <1>2, <2>1 DEF bio_put_obj, bio_alloc_obj, bio_alloc, AllocFits, ObjFits, Take
  <2>3. /\ a \in IO
        /\ a.data = io.data + 16 /\ a.data_avail = io.data_avail - 16 /\ a.offs = io.offs
        /\ a.offs_avail = io.offs_avail /\ a.flags = io.flags /\ a.mem = io.mem
    BY <1>2, <2>1, TakeFacts
  <2>4. QED
    BY <1>0, <1>2, <2>2, <2>3, OverflowFacts DEF Room, Refused
<1>3. CASE ~(16 <= io.data_avail)
  <2>1. b = Overflow(Overflow(io))
    BY <1>3 DEF bio_put_obj, bio_alloc_obj, bio_alloc, AllocFits, ObjFits
  <2>2. QED
    BY <1>0, <1>3, <2>1, OverflowFacts DEF Room, Refused
<1>4. QED
  BY <1>1, <1>2, <1>3

LEMMA StringSize ==
  ASSUME NEW len \in Nat, len < MaxLen
  PROVE  /\ Chars(len) \in Nat /\ Chars(len) + 3 < SizeMax
         /\ (2 * (len + 1)) % SizeMax = Chars(len)
         /\ Aligned(Chars(len)) \in Nat /\ Aligned(Chars(len)) > 0
<1>1. Chars(len) \in Nat /\ Chars(len) + 3 < SizeMax /\ Chars(len) >= 2
  BY ParcelAssumption, SizeMaxFacts DEF Chars
<1>2. (2 * (len + 1)) % SizeMax = Chars(len)
  BY <1>1, SizeMaxFacts DEF Chars
<1>3. QED
  BY <1>1, <1>2, AlignedFacts

LEMMA PutString ==
  ASSUME NEW io \in IO, NEW str \in Nat, NEW len \in Nat, str # 0, len < MaxLen,
         NEW a, a = bio_put_uint32(io, len),
         NEW b, b = bio_put_string16(io, str, len, MaxLen),
         NEW s \in Nat, s = Aligned(Chars(len))
  PROVE  /\ b \in IO
         /\ s <= a.data_avail => CellPut(a, b, s, Cell(a.data, "chars", str))
         /\ ~(s <= a.data_avail) => Refused(a, b)
<1>1. s = Aligned(Chars(len))
  OBVIOUS
<1>2. a \in IO /\ a.data \in Nat
  BY PutWord, Fields
<1>3. MaxLen \in Nat /\ ~(str = 0 \/ len >= MaxLen) /\ (2 * (len + 1)) % SizeMax = Chars(len)
  BY ParcelAssumption, StringSize
<1>4. b = IF s <= a.data_avail THEN Store(bio_alloc(a, Chars(len)), a.data, "chars", str)
          ELSE bio_alloc(a, Chars(len))
  BY <1>1, <1>3 DEF bio_put_string16, AllocFits
<1>5. CASE s <= a.data_avail
  <2>1. PICK d : d = Take(a, s)
    OBVIOUS
  <2>2. b = Store(d, a.data, "chars", str)
    BY <1>1, <1>4, <1>5, <2>1 DEF bio_alloc, AllocFits, Take
  <2>3. /\ d \in IO
        /\ d.data = a.data + s /\ d.data_avail = a.data_avail - s /\ d.offs = a.offs
        /\ d.offs_avail = a.offs_avail /\ d.flags = a.flags /\ d.mem = a.mem
    BY <1>1, <1>2, <1>5, <2>1, TakeFacts
  <2>5. /\ b \in IO /\ b.data = d.data /\ b.data_avail = d.data_avail /\ b.offs = d.offs
        /\ b.offs_avail = d.offs_avail /\ b.flags = d.flags
        /\ b.mem = With(d.mem, Cell(a.data, "chars", str))
    <3>1. PICK c \in Cells : c = Cell(a.data, "chars", str) /\ b = Keep(d, c)
      BY <1>2, <2>3, <2>2, StoreCell
    <3>2. QED
      BY <1>2, <2>3, <3>1, KeepFacts
  <2>6. QED
    BY <1>5, <2>3, <2>5 DEF CellPut
<1>6. CASE ~(s <= a.data_avail)
  <2>1. b = Overflow(a)
    BY <1>1, <1>4, <1>6 DEF bio_alloc, AllocFits
  <2>2. QED
    BY <1>2, <1>6, <2>1, OverflowFacts, Fields DEF Refused, Room
<1>7. QED
  BY <1>5, <1>6

LEMMA SameMem ==
  ASSUME NEW a \in IO, MemInv(a), NEW b \in IO, Refused(a, b)
  PROVE  Grown(a, b) /\ MemInv(b)
<1>0. /\ a.data <= b.data /\ Room(b) = Room(a) /\ b.mem = a.mem /\ a.flags \subseteq b.flags
      /\ b.offs = a.offs /\ b.offs_avail = a.offs_avail
  BY DEF Refused
<1>1. Grown(a, b)
  BY <1>0, Fields, Parts DEF Grown
<1>2. a.data \in Nat /\ b.data \in Nat /\ (\A c \in a.mem : c.off \in Nat)
      /\ (\A k \in 1..Len(a.offs) : a.offs[k] \in Nat)
  BY Fields, Parts
<1>3. (\A c \in b.mem : c.off < b.data) /\ (\A k \in 1..Len(b.offs) : b.offs[k] < b.data)
  BY <1>0, <1>2 DEF MemInv
<1>4. QED
  BY <1>0, <1>1, <1>3 DEF MemInv

LEMMA OneCell ==
  ASSUME NEW a \in IO, MemInv(a), NEW b \in IO, NEW s \in Nat, s > 0,
         NEW c \in Cells, c.off = a.data, CellPut(a, b, s, c)
  PROVE  Grown(a, b) /\ MemInv(b)
<1>0. /\ b.data = a.data + s /\ b.data_avail = a.data_avail - s /\ b.flags = a.flags
      /\ b.mem = With(a.mem, c) /\ b.offs = a.offs /\ b.offs_avail = a.offs_avail
  BY DEF CellPut
<1>1. a.data \in Nat /\ b.data \in Nat /\ a.data_avail \in Nat /\ a.data < b.data
      /\ (\A d \in a.mem : d.off \in Nat) /\ (\A k \in 1..Len(a.offs) : a.offs[k] \in Nat)
  BY <1>0, Fields, Parts
<1>2. Room(b) = Room(a)
  BY <1>0, <1>1 DEF Room
<1>3. Grown(a, b)
  <2>1. a.mem \subseteq b.mem /\ a.flags \subseteq b.flags
    BY <1>0 DEF With
  <2>2. QED
    BY <1>0, <1>1, <1>2, <2>1, Fields, Parts DEF Grown
<1>4. \A d \in b.mem : d = c \/ d \in a.mem
  BY <1>0 DEF With
<1>5. (\A d \in b.mem : d.off < b.data) /\ (\A k \in 1..Len(b.offs) : b.offs[k] < b.data)
  BY <1>0, <1>1, <1>4 DEF MemInv
<1>6. \A d, e \in b.mem : d.off = e.off /\ d.type = e.type => d = e
  BY <1>0, <1>1, <1>4 DEF MemInv
<1>7. \A k \in 1..Len(b.offs) : \E d \in b.mem : d.off = b.offs[k] /\ d.type = "obj"
  BY <1>0, <1>3 DEF MemInv, Grown
<1>8. QED
  BY <1>3, <1>5, <1>6, <1>7 DEF MemInv

LEMMA OneObject ==
  ASSUME NEW a \in IO, MemInv(a), NEW b \in IO, NEW v \in Nat, ObjectPut(a, b, v)
  PROVE  Grown(a, b) /\ MemInv(b) /\ Listed(b, a.data)
<1> DEFINE m == Len(a.offs)
<1>1. a.data \in Nat /\ b.data \in Nat /\ a.data_avail \in Nat /\ b.data_avail \in Nat
      /\ a.offs_avail \in Nat /\ b.offs_avail \in Nat /\ m \in Nat
  BY Fields, Parts
<1>2. /\ a.data < b.data /\ Room(b) = Room(a)
      /\ Len(b.offs) + b.offs_avail = m + a.offs_avail /\ m <= Len(b.offs)
  <2>1. /\ b.data = a.data + 16 /\ b.data_avail = a.data_avail - 16
        /\ Len(b.offs) = m + 1 /\ b.offs_avail = a.offs_avail - 1
    BY DEF ObjectPut
  <2> HIDE DEF m
  <2>2. a.data < b.data /\ Room(b) = Room(a)
    BY <1>1, <2>1, SMTT(30) DEF Room
  <2>3. \A x, y \in Nat : (x + 1) + (y - 1) = x + y /\ x <= x + 1
    OBVIOUS
  <2>4. Len(b.offs) + b.offs_avail = m + a.offs_avail
    BY <1>1, <2>1, <2>3, Zenon
  <2>5. m <= Len(b.offs)
    BY <1>1, <2>1
  <2>6. QED
    BY <2>2, <2>4, <2>5
<1>3. /\ Len(b.offs) = m + 1 /\ b.offs[m + 1] = a.data
      /\ \A k \in 1..m : b.offs[k] = a.offs[k]
  BY DEF ObjectPut
<1> HIDE DEF m
<1>4. \A k \in 1..Len(b.offs) : k \in 1..m \/ k = m + 1
  BY <1>1, <1>3
<1>5. PICK c : c = Cell(a.data, "obj", v)
  OBVIOUS
<1>6. /\ c.off = a.data /\ c.type = "obj" /\ c \in b.mem
      /\ \A d \in b.mem : d = c \/ d \in a.mem
      /\ a.mem \subseteq b.mem
  BY <1>5 DEF Cell, With, ObjectPut
<1>7. Grown(a, b)
  <2>1. a.flags \subseteq b.flags
    BY DEF ObjectPut
  <2>2. \A k \in 1..Len(b.offs) : k > m => b.offs[k] >= a.data
    BY <1>1, <1>3, <1>4
  <2>3. QED
    BY <1>1, <1>2, <1>3, <1>6, <2>1, <2>2 DEF Grown, m
<1>8. (\A d \in a.mem : d.off < a.data /\ d.off \in Nat)
      /\ (\A k \in 1..m : a.offs[k] < a.data /\ a.offs[k] \in Nat)
  BY Parts DEF MemInv, m
<1>9. \A d \in b.mem : d.off < b.data
  BY <1>1, <1>2, <1>6, <1>8
<1>10. \A k \in 1..Len(b.offs) : b.offs[k] < b.data
  <2>1. ASSUME NEW k \in 1..m PROVE b.offs[k] < b.data
    <3>1. PICK x \in Nat : x = a.offs[k] /\ x < a.data
      BY <1>8
    <3>2. b.offs[k] = x
      BY <1>3, <3>1
    <3>3. QED
      BY <1>1, <1>2, <3>1, <3>2
  <2>2. b.offs[m + 1] < b.data
    BY <1>2, <1>3
  <2>3. QED
    BY <1>4, <2>1, <2>2
<1>11. \A d, e \in b.mem : d.off = e.off /\ d.type = e.type => d = e
  BY <1>1, <1>6, <1>8 DEF MemInv
<1>12. ASSUME NEW k \in 1..Len(b.offs)
       PROVE  \E d \in b.mem : d.off = b.offs[k] /\ d.type = "obj"
  <2>1. CASE k \in 1..m
    BY <1>3, <1>6, <2>1 DEF MemInv, m
  <2>2. CASE k = m + 1
    BY <1>3, <1>6, <2>2
  <2>3. QED
    BY <1>4, <2>1, <2>2
<1>13. Listed(b, a.data)
  BY <1>1, <1>3 DEF Listed
<1>14. QED
  BY <1>7, <1>9, <1>10, <1>11, <1>12, <1>13 DEF MemInv

LEMMA GrownTwice ==
  ASSUME NEW a \in IO, NEW b, NEW c, Grown(a, b), Grown(b, c)
  PROVE  Grown(a, c)
<1>1. b \in IO /\ c \in IO
  BY DEF Grown
<1>2. /\ a.data \in Nat /\ b.data \in Nat /\ c.data \in Nat
      /\ Len(a.offs) \in Nat /\ Len(b.offs) \in Nat /\ Len(c.offs) \in Nat
      /\ \A k \in 1..Len(c.offs) : c.offs[k] \in Nat
      /\ a.offs_avail \in Nat /\ b.offs_avail \in Nat /\ c.offs_avail \in Nat
  BY <1>1, Fields, Parts
<1>3. ASSUME NEW k \in 1..Len(c.offs), k > Len(a.offs) PROVE c.offs[k] >= a.data
  <2>1. CASE k > Len(b.offs)
    <3>1. c.offs[k] >= b.data /\ b.data >= a.data
      BY <1>2, <2>1 DEF Grown
    <3>2. QED
      BY <1>2, <3>1
  <2>2. CASE k <= Len(b.offs)
    <3>1. c.offs[k] = b.offs[k] /\ b.offs[k] >= a.data
      BY <1>2, <1>3, <2>2 DEF Grown
    <3>2. QED
      BY <3>1
  <2>3. QED
    BY <1>2, <2>1, <2>2
<1>4. \A k \in 1..Len(a.offs) : c.offs[k] = a.offs[k]
  BY <1>2 DEF Grown
<1>5. QED
  BY <1>1, <1>2, <1>3, <1>4, SMTT(30) DEF Grown

LEMMA ItemFacts ==
  ASSUME NEW it \in Items
  PROVE  /\ it.kind \in {"u32", "str", "obj", "ref"} /\ it.val \in Nat /\ it.len \in Nat
         /\ it.kind = "str" => it.val # 0 /\ it.len < MaxLen
         /\ it.kind = "ref" => it.val # 0
<1>1. it \in [kind : {"u32", "str", "obj", "ref"}, val : Nat, len : Nat]
  BY ParcelAssumption
<1>2. QED
  BY <1>1, ItemsAssumption

\* What a put of any kind does: the item lies at the old cursor, whole, or is
\* stuck there and the overflow flag is up.
LEMMA PutFacts ==
  ASSUME NEW io \in IO, MemInv(io), NEW it \in Items, NEW b, b = PutItem(io, it)
  PROVE  /\ Grown(io, b) /\ MemInv(b)
         /\ \/ Stored(b, it, io.data) /\ b.data = io.data + Extent(it)
            \/ "OVERFLOW" \in b.flags /\ Stuck(b, it, io.data)
<1> DEFINE v == it.val
<1>0. /\ io.data \in Nat /\ io.data_avail \in Nat /\ io.offs_avail \in Nat
      /\ v \in Nat /\ it.len \in Nat
  BY Fields, ItemFacts
<1>1. ASSUME NEW a \in IO, NEW w \in Nat
      PROVE  /\ Cell(a.data, "u32", w) \in Cells /\ Cell(a.data, "u32", w).off = a.data
             /\ Cell(a.data, "chars", w) \in Cells /\ Cell(a.data, "chars", w).off = a.data
  BY Fields DEF Cell, Cells
<1>2. CASE it.kind = "u32"
  <2>1. b = bio_put_uint32(io, v)
    BY <1>2 DEF PutItem
  <2>2. b \in IO
    BY <1>0, <2>1, PutWord
  <2>3. CASE 4 <= io.data_avail
    <3>1. CellPut(io, b, 4, Cell(io.data, "u32", v))
      BY <1>0, <2>1, <2>3, PutWord
    <3>2. Grown(io, b) /\ MemInv(b)
      BY <1>0, <1>1, <2>2, <2>3, <3>1, OneCell
    <3>3. Stored(b, it, io.data) /\ Extent(it) = 4
      BY <1>2, <3>1 DEF Stored, With, Extent, CellPut
    <3>4. QED
      BY <3>1, <3>2, <3>3 DEF CellPut
  <2>4. CASE ~(4 <= io.data_avail)
    <3>1. Refused(io, b)
      BY <1>0, <2>1, <2>4, PutWord
    <3>2. Grown(io, b) /\ MemInv(b)
      BY <2>2, <3>1, SameMem
    <3>3. Room(b) < io.data + 4
      BY <1>0, <2>4, <3>1 DEF Room, Refused
    <3>4. Stuck(b, it, io.data)
      BY <1>2, <3>3 DEF Stuck
    <3>5. QED
      BY <3>1, <3>2, <3>4 DEF Refused
  <2>5. QED
    BY <2>3, <2>4
<1>3. CASE it.kind \in {"obj", "ref"}
  <2>1. b = bio_put_obj(io, v)
    BY <1>3, ItemFacts DEF PutItem, bio_put_ref
  <2>2. b \in IO
    BY <1>0, <2>1, PutObject
  <2>3. CASE 16 <= io.data_avail /\ io.offs_avail > 0
    <3>1. ObjectPut(io, b, v)
      BY <1>0, <2>1, <2>3, PutObject
    <3>2. Grown(io, b) /\ MemInv(b) /\ Listed(b, io.data)
      BY <1>0, <2>2, <3>1, OneObject
    <3>3. Stored(b, it, io.data) /\ Extent(it) = 16
      BY <1>3, <3>1, <3>2 DEF Stored, With, Extent, ObjectPut
    <3>4. QED
      BY <3>1, <3>2, <3>3 DEF ObjectPut
  <2>4. CASE ~(16 <= io.data_avail /\ io.offs_avail > 0)
    <3>1. Refused(io, b)
      BY <1>0, <2>1, <2>4, PutObject
    <3>2. Grown(io, b) /\ MemInv(b)
      BY <2>2, <3>1, SameMem
    <3>3. ~(16 <= io.data_avail) => Room(b) < io.data + 16
      BY <1>0, <3>1 DEF Room, Refused
    <3>4. ~(io.offs_avail > 0) => b.offs_avail = 0 /\ ~Listed(b, io.data)
      BY <1>0, <3>1, Parts DEF Listed, MemInv, Refused
    <3>5. Stuck(b, it, io.data)
      BY <1>3, <2>4, <3>3, <3>4 DEF Stuck
    <3>6. QED
      BY <3>1, <3>2, <3>5 DEF Refused
  <2>5. QED
    BY <2>3, <2>4
<1>4. CASE it.kind = "str"
  <2>1. PICK a : a = bio_put_uint32(io, it.len)
    OBVIOUS
  <2>2. b = bio_put_string16(io, v, it.len, MaxLen) /\ v # 0 /\ it.len < MaxLen
    BY <1>4, ItemFacts DEF PutItem
  <2>3. PICK s \in Nat : s = Aligned(Chars(it.len)) /\ s > 0
    BY <1>0, <2>2, StringSize
  <2>4. a \in IO /\ b \in IO
    BY <1>0, <2>1, <2>2, <2>3, PutWord, PutString
  <2>5. /\ s <= a.data_avail => CellPut(a, b, s, Cell(a.data, "chars", v))
        /\ ~(s <= a.data_avail) => Refused(a, b)
    BY <1>0, <2>1, <2>2, <2>3, PutString
  <2>6. a.data \in Nat /\ a.data_avail \in Nat
    BY <2>4, Fields
  <2>7. Grown(io, a) /\ MemInv(a)
    <3>1. CASE 4 <= io.data_avail
      <4>1. CellPut(io, a, 4, Cell(io.data, "u32", it.len))
        BY <1>0, <2>1, <3>1, PutWord
      <4>2. QED
        BY <1>0, <1>1, <2>4, <4>1, OneCell
    <3>2. CASE ~(4 <= io.data_avail)
      BY <1>0, <2>1, <2>4, <3>2, PutWord, SameMem
    <3>3. QED
      BY <3>1, <3>2
  <2>8. Grown(a, b) /\ MemInv(b)
    <3>1. CASE s <= a.data_avail
      BY <1>0, <1>1, <2>3, <2>4, <2>5, <2>7, <3>1, OneCell
    <3>2. CASE ~(s <= a.data_avail)
      BY <2>4, <2>5, <2>7, <3>2, SameMem
    <3>3. QED
      BY <3>1, <3>2
  <2>9. Grown(io, b)
    BY <2>7, <2>8, GrownTwice
  <2>10. \/ Stored(b, it, io.data) /\ b.data = io.data + Extent(it)
         \/ "OVERFLOW" \in b.flags /\ Stuck(b, it, io.data)
    <3>1. CASE 4 <= io.data_avail
      <4>1. /\ a.data = io.data + 4 /\ a.data_avail = io.data_avail - 4
            /\ a.mem = With(io.mem, Cell(io.data, "u32", it.len))
        <5>1. CellPut(io, a, 4, Cell(io.data, "u32", it.len))
          BY <1>0, <2>1, <3>1, PutWord
        <5>2. QED
          BY <5>1 DEF CellPut
      <4>2. Cell(io.data, "u32", it.len) \in b.mem
        BY <2>8, <4>1 DEF With, Grown
      <4>3. CASE s <= a.data_avail
        <5>1. Cell(io.data + 4, "chars", v) \in b.mem
          BY <2>5, <4>1, <4>3 DEF With, CellPut
        <5>2. Stored(b, it, io.data)
          BY <1>4, <4>2, <5>1 DEF Stored
        <5>3. Extent(it) = 4 + s
          BY <1>4, <2>3 DEF Extent
        <5>4. QED
          BY <1>0, <2>3, <2>5, <4>1, <4>3, <5>2, <5>3 DEF CellPut
      <4>4. CASE ~(s <= a.data_avail)
        <5>1. Room(b) < io.data + 4 + s
          BY <1>0, <2>3, <2>5, <2>6, <4>1, <4>4 DEF Room, Refused
        <5>2. QED
          BY <1>4, <2>3, <2>5, <4>2, <4>4, <5>1 DEF Stuck, Refused
      <4>5. QED
        BY <4>3, <4>4
    <3>2. CASE ~(4 <= io.data_avail)
      <4>1. Room(io) < io.data + 4
        BY <1>0, <3>2 DEF Room
      <4>2. "OVERFLOW" \in a.flags
        <5>1. Refused(io, a)
          BY <1>0, <2>1, <3>2, PutWord
        <5>2. QED
          BY <5>1 DEF Refused
      <4>3. "OVERFLOW" \in b.flags /\ Room(b) = Room(io)
        BY <2>8, <2>9, <4>2 DEF Grown
      <4>4. QED
        BY <1>4, <4>1, <4>3 DEF Stuck
    <3>3. QED
      BY <3>1, <3>2
  <2>11. QED
    BY <2>8, <2>9, <2>10
<1>5. QED
  BY <1>2, <1>3, <1>4, ItemFacts

\* Later puts disturb neither an item in place nor one that is stuck.
LEMMA StillThere ==
  ASSUME NEW a \in IO, MemInv(a), NEW b, Grown(a, b), NEW it \in Items, NEW p \in Nat
  PROVE  /\ Stored(a, it, p) => Stored(b, it, p)
         /\ Stuck(a, it, p) => Stuck(b, it, p)
<1>1. b \in IO /\ a.mem \subseteq b.mem /\ Room(b) = Room(a)
  BY DEF Grown
<1>2. Listed(a, p) => Listed(b, p)
  BY Parts, <1>1 DEF Listed, Grown
<1>3. a.offs_avail = 0 => b.offs_avail = 0 /\ Len(b.offs) = Len(a.offs)
  BY Parts, Fields, <1>1 DEF Grown
<1>4. a.offs_avail = 0 /\ ~Listed(a, p) => b.offs_avail = 0 /\ ~Listed(b, p)
  BY <1>3 DEF Listed, Grown
<1>5. QED
  BY <1>1, <1>2, <1>4 DEF Stored, Stuck

-----------------------------------------------------------------------------
(* The gets. *)

LEMMA GetWord ==
  ASSUME NEW io \in IO
  PROVE  /\ 4 <= io.data_avail => bio_get(io, SizeofU32) = Take(io, 4)
         /\ ~(4 <= io.data_avail) => bio_get(io, SizeofU32) = Exhaust(io)
         /\ GetFits(io, SizeofU32) <=> 4 <= io.data_avail
BY AlignedSizes DEF bio_get, GetFits, Take

LEMMA Found ==
  ASSUME NEW io, \A c, d \in io.mem : c.off = d.off /\ c.type = d.type => c = d,
         NEW p, NEW t, NEW v, Cell(p, t, v) \in io.mem
  PROVE  Load(io, p, t) = v
<1>1. PICK c \in io.mem : c = Cell(p, t, v)
  OBVIOUS
<1>2. c.off = p /\ c.type = t /\ c.val = v
  BY <1>1 DEF Cell
<1>3. (CHOOSE d \in io.mem : d.off = p /\ d.type = t) = c
  BY <1>2
<1>4. QED
  BY <1>2, <1>3 DEF Load

LEMMA OverTake ==
  ASSUME NEW w, NEW r, Over(r, w), NEW s \in Nat, s <= r.data_avail
  PROVE  /\ Over(Take(r, s), w) /\ Take(r, s).data = r.data + s
         /\ Take(r, s).data_avail = r.data_avail - s
BY TakeFacts DEF Over

LEMMA OverExhaust ==
  ASSUME NEW w, NEW r, Over(r, w)
  PROVE  Over(Exhaust(r), w) /\ Exhaust(r).data_avail = 0 /\ Exhaust(r).data = r.data
BY ExhaustFacts DEF Over

\* A get of an item that lies at the cursor returns it and moves past it.
LEMMA GetStored ==
  ASSUME NEW w \in IO, MemInv(w), NEW r, Over(r, w), NEW it \in Items,
         r.data_avail = w.data - r.data, Stored(w, it, r.data),
         r.data + Extent(it) <= w.data, NEW g, g = GetItem(r, it.kind)
  PROVE  /\ g.val = Seen(it) /\ Over(g.io, w)
         /\ g.io.data = r.data + Extent(it) /\ g.io.data_avail = w.data - g.io.data
<1>0. /\ r \in IO /\ r.data \in Nat /\ r.data_avail \in Nat /\ w.data \in Nat
      /\ it.val \in Nat /\ it.len \in Nat
  BY Fields, ItemFacts DEF Over
<1>1. \A p, t, v : Cell(p, t, v) \in w.mem => Load(r, p, t) = v
  BY Found DEF Over, MemInv
<1>2. CASE it.kind = "u32"
  <2>1. Extent(it) = 4 /\ 4 <= r.data_avail
    <3>1. Extent(it) = 4
      BY <1>2 DEF Extent
    <3>2. QED
      BY <1>0, <3>1
  <2>2. g = [io |-> Take(r, 4), val |-> Load(r, r.data, "u32")]
    BY <1>0, <1>2, <2>1, GetWord DEF GetItem, bio_get_uint32
  <2>3. Load(r, r.data, "u32") = it.val
    BY <1>1, <1>2 DEF Stored
  <2>4. g.val = Seen(it)
    BY <1>2, <2>2, <2>3 DEF Seen
  <2>5. QED
    BY <1>0, <2>1, <2>2, <2>4, OverTake
<1>3. CASE it.kind \in {"obj", "ref"}
  <2>1. Extent(it) = 16 /\ 16 <= r.data_avail
    <3>1. Extent(it) = 16
      BY <1>3 DEF Extent
    <3>2. QED
      BY <1>0, <3>1
  <2>2. \E k \in 1..r.offs_avail : r.offs[k] = r.data
    BY <1>3 DEF Stored, Listed, Over
  <2>3. GetFits(r, SizeofObject) /\ bio_get(r, SizeofObject) = Take(r, 16)
    BY <2>1, AlignedSizes DEF bio_get, GetFits, Take
  <2>4. PICK v : v = Load(r, r.data, "obj")
    OBVIOUS
  <2>5. g = [io |-> Take(r, 16), val |-> IF v \notin Own THEN v ELSE 0]
    BY <1>3, <2>2, <2>3, <2>4 DEF GetItem, bio_get_ref
  <2>6. v = it.val
    BY <1>1, <1>3, <2>4 DEF Stored
  <2>7. g.val = Seen(it) /\ g.io = Take(r, 16)
    BY <1>3, <2>5, <2>6 DEF Seen
  <2>8. QED
    BY <1>0, <2>1, <2>7, OverTake, SMTT(30)
<1>4. CASE it.kind = "str"
  <2>1. PICK s \in Nat : s = Aligned(Chars(it.len)) /\ s > 0
    BY <1>0, <1>4, ItemFacts, StringSize
  <2>2. Extent(it) = 4 + s
    BY <1>4, <2>1 DEF Extent
  <2>3. 4 <= r.data_avail /\ s <= r.data_avail - 4
    BY <1>0, <2>1, <2>2
  <2>4. bio_get_uint32(r) = [io |-> Take(r, 4), val |-> Load(r, r.data, "u32")]
    BY <1>0, <2>3, GetWord DEF bio_get_uint32
  <2>5. Load(r, r.data, "u32") = it.len /\ Load(r, r.data + 4, "chars") = it.val
    BY <1>1, <1>4 DEF Stored
  <2>6. PICK q : q = Take(r, 4)
    OBVIOUS
  <2>7. Over(q, w) /\ q.data = r.data + 4 /\ q.data_avail = r.data_avail - 4
    BY <2>3, <2>6, OverTake
  <2>8. (2 * (it.len + 1)) % SizeMax = Chars(it.len)
    BY <1>0, <1>4, ItemFacts, StringSize
  <2>9. GetFits(q, Chars(it.len)) /\ bio_get(q, Chars(it.len)) = Take(q, s)
    BY <2>1, <2>3, <2>7 DEF GetFits, bio_get, Take
  <2>10. g = [io |-> Take(q, s), val |-> it.val]
    BY <1>4, <2>4, <2>5, <2>6, <2>7, <2>8, <2>9 DEF GetItem, bio_get_string16
  <2>11. Over(Take(q, s), w) /\ Take(q, s).data = q.data + s
         /\ Take(q, s).data_avail = q.data_avail - s
    BY <2>1, <2>3, <2>7, OverTake
  <2>12. g.val = Seen(it)
    BY <1>4, <2>10 DEF Seen
  <2>13. QED
    BY <1>0, <2>1, <2>2, <2>7, <2>10, <2>11, <2>12
<1>5. QED
  BY <1>2, <1>3, <1>4, ItemFacts

\* With less than a word left every get fails and exhausts the reader.
LEMMA GetShort ==
  ASSUME NEW w, NEW r, Over(r, w), ~(4 <= r.data_avail),
         NEW kind \in {"u32", "str", "obj", "ref"}, NEW g, g = GetItem(r, kind)
  PROVE  g.val = 0 /\ Over(g.io, w) /\ g.io.data_avail = 0
<1>0. r \in IO /\ r.data_avail \in Nat
  BY Fields DEF Over
<1>1. Over(Exhaust(r), w) /\ Exhaust(r).data_avail = 0
  BY OverExhaust
<1>2. bio_get_uint32(r) = [io |-> Exhaust(r), val |-> 0]
  BY <1>0, GetWord DEF bio_get_uint32
<1>3. CASE kind = "u32"
  <2>1. g = [io |-> Exhaust(r), val |-> 0]
    BY <1>2, <1>3 DEF GetItem
  <2>2. QED
    BY <1>1, <2>1
<1>4. CASE kind \in {"obj", "ref"}
  <2>1. ~GetFits(r, SizeofObject) /\ bio_get(r, SizeofObject) = Exhaust(r)
    BY <1>0, AlignedSizes DEF GetFits, bio_get
  <2>2. g = [io |-> Exhaust(r), val |-> 0]
    BY <1>4, <2>1 DEF GetItem, bio_get_ref
  <2>3. QED
    BY <1>1, <2>2
<1>5. CASE kind = "str"
  <2>1. PICK q : q = Exhaust(r)
    OBVIOUS
  <2>2. 2 * (0 + 1) = 2 /\ 2 % SizeMax = 2
    BY SizeMaxFacts
  <2>3. ~GetFits(q, 2) /\ bio_get(q, 2) = Exhaust(q)
    BY <1>1, <2>1, AlignedSizes DEF GetFits, bio_get
  <2>4. g = [io |-> Exhaust(q), val |-> 0]
    BY <1>2, <1>5, <2>1, <2>2, <2>3 DEF GetItem, bio_get_string16
  <2>5. Over(Exhaust(q), w) /\ Exhaust(q).data_avail = 0
    BY <1>1, <2>1, OverExhaust
  <2>6. QED
    BY <2>4, <2>5
<1>6. QED
  BY <1>3, <1>4, <1>5

\* A get of an item that is stuck at the cursor fails and exhausts the reader.
LEMMA GetStuck ==
  ASSUME NEW w \in IO, MemInv(w), NEW r, Over(r, w), NEW it \in Items,
         r.data_avail = w.data - r.data, Stuck(w, it, r.data), NEW g, g = GetItem(r, it.kind)
  PROVE  g.val = 0 /\ Over(g.io, w) /\ g.io.data_avail = 0
<1>0. /\ r \in IO /\ r.data \in Nat /\ r.data_avail \in Nat /\ w.data \in Nat
      /\ w.data_avail \in Nat /\ it.val \in Nat /\ it.len \in Nat
  BY Fields, ItemFacts DEF Over
<1>1. ASSUME NEW s \in Nat, Room(w) < r.data + s PROVE ~(s <= r.data_avail)
  BY <1>0, <1>1 DEF Room
<1>2. CASE ~(4 <= r.data_avail)
  BY <1>2, ItemFacts, GetShort
<1>3. CASE 4 <= r.data_avail /\ it.kind \in {"obj", "ref"}
  <2>1. Room(w) < r.data + 16 => ~GetFits(r, SizeofObject) /\ bio_get(r, SizeofObject) = Exhaust(r)
    BY <1>1, AlignedSizes DEF GetFits, bio_get
  <2>2. ~Listed(w, r.data) => ~(\E k \in 1..r.offs_avail : r.offs[k] = r.data)
    BY DEF Listed, Over
  <2>3. g = [io |-> Exhaust(r), val |-> 0]
    BY <1>3, <2>1, <2>2 DEF GetItem, bio_get_ref, Stuck
  <2>4. QED
    BY <2>3, OverExhaust
<1>4. CASE 4 <= r.data_avail /\ it.kind = "str"
  <2>1. PICK s \in Nat : s = Aligned(Chars(it.len)) /\ s > 0
    BY <1>0, <1>4, ItemFacts, StringSize
  <2>2. Cell(r.data, "u32", it.len) \in w.mem /\ Room(w) < r.data + 4 + s
    BY <1>1, <1>4, <2>1 DEF Stuck
  <2>3. Load(r, r.data, "u32") = it.len
    BY <2>2, Found DEF Over, MemInv
  <2>4. PICK q : q = Take(r, 4)
    OBVIOUS
  <2>5. bio_get_uint32(r) = [io |-> q, val |-> it.len]
    BY <1>0, <1>4, <2>3, <2>4, GetWord DEF bio_get_uint32
  <2>6. Over(q, w) /\ q.data_avail = r.data_avail - 4
    BY <1>4, <2>4, OverTake
  <2>7. ~(s <= q.data_avail)
    BY <1>0, <2>1, <2>2, <2>6 DEF Room
  <2>8. (2 * (it.len + 1)) % SizeMax = Chars(it.len)
    BY <1>0, <1>4, ItemFacts, StringSize
  <2>9. ~GetFits(q, Chars(it.len)) /\ bio_get(q, Chars(it.len)) = Exhaust(q)
    BY <2>1, <2>7 DEF GetFits, bio_get
  <2>10. g = [io |-> Exhaust(q), val |-> 0]
    BY <1>4, <2>5, <2>8, <2>9 DEF GetItem, bio_get_string16
  <2>11. QED
    BY <2>6, <2>10, OverExhaust
<1>5. CASE 4 <= r.data_avail /\ it.kind = "u32"
  BY <1>1, <1>5 DEF Stuck
<1>6. QED
  BY <1>2, <1>3, <1>4, <1>5, ItemFacts

-----------------------------------------------------------------------------
(* The specification. *)

LEMMA InitFacts ==
  ASSUME Init
  PROVE  /\ wr \in IO /\ wr.data = 0 /\ wr.offs = <<>> /\ wr.mem = {} /\ SpaceInv
<1>1. PICK n \in Nat : n = MaxOffs * SizeofSizeT /\ n < SizeMax
  BY ParcelAssumption DEF SizeofSizeT
<1>2. n % SizeMax = n
  BY <1>1, SizeMaxFacts
<1>3. MaxOffs \in Nat /\ MaxData \in Nat
  BY ParcelAssumption
<1>4. CASE n > MaxData
  <2>1. wr = [data |-> 0, data_avail |-> 0, offs |-> <<>>, offs_avail |-> 0,
              flags |-> {"OVERFLOW"}, mem |-> {}]
    BY <1>1, <1>2, <1>4 DEF Init, bio_init
  <2>2. QED
    BY <1>1, <1>3, <1>4, <2>1 DEF IO, BioFlags, SpaceInv
<1>5. CASE ~(n > MaxData)
  <2>1. wr = [data |-> 0, data_avail |-> MaxData - n, offs |-> <<>>, offs_avail |-> MaxOffs,
              flags |-> {}, mem |-> {}]
    BY <1>1, <1>2, <1>5 DEF Init, bio_init
  <2>2. MaxData - n \in Nat
    BY <1>1, <1>3, <1>5
  <2>3. wr \in IO
    BY <1>3, <2>1, <2>2 DEF IO
  <2>4. SpaceInv
    BY <1>1, <1>3, <2>1, <2>2 DEF SpaceInv
  <2>5. QED
    BY <2>1, <2>3, <2>4
<1>6. QED
  BY <1>4, <1>5

LEMMA ReaderOfTxn ==
  ASSUME NEW d \in Nat, NEW o \in Seq(Nat), NEW m \in SUBSET Cells,
         NEW r, r = bio_init_from_txn([data_size |-> d, offs |-> o, mem |-> m])
  PROVE  /\ r \in IO /\ r.data = 0 /\ r.data_avail = d /\ r.offs = o /\ r.offs_avail = Len(o)
         /\ r.mem = m
<1>1. r = [data |-> 0, data_avail |-> d, offs |-> o, offs_avail |-> Len(o),
           flags |-> {"SHARED"}, mem |-> m]
  BY DEF bio_init_from_txn
<1>2. QED
  BY <1>1 DEF IO, BioFlags, Cells

LEMMA InitIInv == Init => IInv
<1> SUFFICES ASSUME Init PROVE IInv
  OBVIOUS
<1>1. /\ wr \in IO /\ wr.data = 0 /\ wr.offs = <<>> /\ wr.mem = {} /\ SpaceInv
  BY InitFacts
<1>2. rd \in IO
  <2>1. 0 \in Nat /\ <<>> \in Seq(Nat) /\ {} \in SUBSET Cells
    OBVIOUS
  <2>2. QED
    BY <2>1, ReaderOfTxn DEF Init, Unread
<1>3. phase = "build" /\ asked = <<>> /\ got = <<>> /\ Len(asked) = 0 /\ Len(got) = 0
  BY DEF Init
<1>4. TypeOK
  BY <1>1, <1>2, <1>3 DEF TypeOK
<1>5. MemInv(wr)
  BY <1>1 DEF MemInv
<1>6. ParcelInv
  <2>1. PICK pos : pos = [k \in 1..(0 + 1) |-> 0]
    OBVIOUS
  <2>2. pos \in [1..(0 + 1) -> Nat] /\ pos[1] = 0
    BY <2>1
  <2>3. Layout(0, pos)
    BY <1>1, <1>3, <2>1 DEF Layout
  <2>4. 0 \in 0..Len(asked)
    BY <1>3
  <2>5. QED
    BY <1>3, <2>2, <2>3, <2>4 DEF ParcelInv
<1>7. QED
  BY <1>1, <1>3, <1>4, <1>5, <1>6 DEF IInv, ProgressInv, StatusInv, FailureIsSeen

LEMMA PutIInv ==
  ASSUME IInv, NEW it \in Items, Put(it)
  PROVE  IInv'
<1>1. /\ phase = "build" /\ phase' = phase /\ rd' = rd /\ got' = got /\ got = <<>>
      /\ asked' = Append(asked, it)
  BY DEF Put, IInv, ProgressInv
<1>2. wr \in IO /\ rd \in IO /\ asked \in Seq(Items) /\ got \in Seq(Int)
  BY DEF IInv, TypeOK
<1>3. PICK b : b = wr'
  OBVIOUS
<1>4. /\ Grown(wr, b) /\ MemInv(b)
      /\ \/ Stored(b, it, wr.data) /\ b.data = wr.data + Extent(it)
         \/ "OVERFLOW" \in b.flags /\ Stuck(b, it, wr.data)
  BY <1>2, <1>3, PutFacts DEF Put, IInv
<1>5. /\ b \in IO /\ wr.data \in Nat /\ b.data \in Nat /\ wr.data <= b.data
      /\ wr.flags \subseteq b.flags
  BY <1>2, <1>4, Fields DEF Grown
<1>6. /\ asked' \in Seq(Items) /\ Len(asked) \in Nat /\ Len(asked') = Len(asked) + 1
      /\ \A k \in 1..Len(asked) : asked'[k] = asked[k] /\ asked[k] \in Items
      /\ asked'[Len(asked) + 1] = it
  BY <1>1, <1>2
<1>7. TypeOK'
  BY <1>1, <1>2, <1>3, <1>5, <1>6 DEF TypeOK
<1>8. SpaceInv'
  <2>1. Room(b) = Room(wr) /\ Len(b.offs) + b.offs_avail = Len(wr.offs) + wr.offs_avail
    BY <1>4 DEF Grown
  <2>2. QED
    BY <1>3, <2>1 DEF IInv, SpaceInv, Room
<1>9. ProgressInv' /\ StatusInv' /\ FailureIsSeen'
  BY <1>1, <1>6 DEF ProgressInv, StatusInv, FailureIsSeen
<1>10. ParcelInv'
  <2>0. PICK n \in 0..Len(asked) : \E pos \in [1..(n + 1) -> Nat] : Layout(n, pos)
    BY DEF IInv, ParcelInv
  <2>1. PICK pos \in [1..(n + 1) -> Nat] : Layout(n, pos)
    BY <2>0
  <2>2. n \in Nat /\ n \in 0..Len(asked')
    BY <1>6, <2>1
  <2>3. ASSUME NEW k \in 1..n
        PROVE  Stored(b, asked'[k], pos[k]) /\ pos[k + 1] = pos[k] + Extent(asked'[k])
    <3>1. k \in 1..Len(asked) /\ pos[k] \in Nat
      BY <1>6, <2>1
    <3>2. asked'[k] = asked[k] /\ asked[k] \in Items
      BY <1>6, <3>1
    <3>3. Stored(wr, asked[k], pos[k]) /\ pos[k + 1] = pos[k] + Extent(asked[k])
      BY <2>1 DEF Layout
    <3>4. Stored(b, asked[k], pos[k])
      BY <1>2, <1>4, <3>1, <3>2, <3>3, StillThere DEF IInv
    <3>5. QED
      BY <3>2, <3>3, <3>4
  <2>4. pos[1] = 0 /\ \A k \in 1..(n + 1) : pos[k] \in Nat /\ pos[k] <= b.data
    <3>1. ASSUME NEW k \in 1..(n + 1) PROVE pos[k] \in Nat /\ pos[k] <= b.data
      <4>1. pos[k] \in Nat /\ pos[k] <= wr.data
        BY <2>1 DEF Layout
      <4>2. QED
        BY <1>5, <4>1
    <3>2. QED
      BY <2>1, <3>1 DEF Layout
  <2>5. CASE n < Len(asked)
    <3>1. PICK x \in Items : x = asked[n + 1] /\ asked'[n + 1] = x
      BY <1>6, <2>2, <2>5
    <3>2. "OVERFLOW" \in wr.flags /\ Stuck(wr, x, pos[n + 1]) /\ pos[n + 1] \in Nat
      BY <2>1, <2>2, <2>5, <3>1 DEF Layout
    <3>3. "OVERFLOW" \in b.flags /\ Stuck(b, x, pos[n + 1])
      BY <1>2, <1>4, <1>5, <3>2, StillThere DEF IInv
    <3>4. Layout(n, pos)'
      BY <1>3, <1>6, <2>3, <2>4, <2>5, <3>1, <3>3 DEF Layout
    <3>5. QED
      BY <1>1, <2>1, <2>2, <3>4 DEF ParcelInv
  <2>6. CASE n = Len(asked)
    <3>1. pos[n + 1] = wr.data /\ asked'[n + 1] = it
      BY <1>6, <2>1, <2>6 DEF Layout
    <3>2. CASE "OVERFLOW" \in b.flags /\ Stuck(b, it, wr.data)
      <4>1. Layout(n, pos)'
        BY <1>3, <1>6, <2>2, <2>3, <2>4, <2>6, <3>1, <3>2 DEF Layout
      <4>2. QED
        BY <1>1, <2>1, <2>2, <4>1 DEF ParcelInv
    <3>3. CASE Stored(b, it, wr.data) /\ b.data = wr.data + Extent(it)
      <4>1. PICK m \in 0..Len(asked') : m = n + 1 /\ m \in Nat
        BY <1>6, <2>2, <2>6
      <4>2. PICK q : q = [k \in 1..(m + 1) |-> IF k = m + 1 THEN b.data ELSE pos[k]]
        OBVIOUS
      <4>3. \A k \in 1..(m + 1) : k = m + 1 \/ k \in 1..(n + 1)
        BY <2>2, <4>1
      <4>4. q \in [1..(m + 1) -> Nat]
        BY <1>5, <2>4, <4>2, <4>3
      <4>5. (\A k \in 1..(n + 1) : q[k] = pos[k]) /\ q[m + 1] = b.data
        BY <2>2, <4>1, <4>2
      <4>6. q[1] = 0
        BY <2>2, <2>4, <4>5
      <4>7. \A k \in 1..(m + 1) : q[k] <= b.data
        <5>1. q[m + 1] <= b.data
          BY <1>5, <4>5
        <5>2. \A k \in 1..(n + 1) : q[k] <= b.data
          BY <2>4, <4>5
        <5>3. QED
          BY <4>3, <5>1, <5>2
      <4>8. ASSUME NEW k \in 1..m
            PROVE  Stored(b, asked'[k], q[k]) /\ q[k + 1] = q[k] + Extent(asked'[k])
        <5>1. CASE k \in 1..n
          <6>1. q[k] = pos[k] /\ q[k + 1] = pos[k + 1]
            BY <2>2, <4>5, <5>1
          <6>2. QED
            BY <2>3, <5>1, <6>1
        <5>2. CASE k = n + 1
          <6>1. q[k] = wr.data /\ q[k + 1] = b.data
            BY <2>2, <3>1, <4>1, <4>5, <5>2
          <6>2. QED
            BY <3>1, <3>3, <5>2, <6>1
        <5>3. QED
          BY <2>2, <4>1, <5>1, <5>2
      <4>9. Layout(m, q)'
        BY <1>3, <1>6, <2>6, <4>1, <4>5, <4>6, <4>7, <4>8 DEF Layout
      <4>10. QED
        BY <1>1, <4>1, <4>4, <4>9 DEF ParcelInv
    <3>4. QED
      BY <1>4, <3>2, <3>3
  <2>7. QED
    BY <2>1, <2>5, <2>6
<1>11. QED
  BY <1>3, <1>4, <1>7, <1>8, <1>9, <1>10 DEF IInv

\* What binder_call and binder_send_reply put into the receiver's hands.
LEMMA Delivered ==
  ASSUME IInv, phase = "build", UNCHANGED <<wr, asked, got>>, rd' = bio_init_from_txn(Txn),
         phase' \in {"call", "reply"},
         phase' = "call" => "OVERFLOW" \notin wr.flags
  PROVE  IInv'
<1>1. wr \in IO /\ wr.data \in Nat /\ wr.offs \in Seq(Nat) /\ wr.mem \in SUBSET Cells
  BY Fields DEF IInv, TypeOK, Cells
<1>2. PICK r : r = rd'
  OBVIOUS
<1>3. Over(r, wr) /\ r.data = 0 /\ r.data_avail = wr.data
  BY <1>1, <1>2, ReaderOfTxn DEF Txn, Over
<1>4. got = <<>> /\ got' = <<>> /\ Len(got) = 0 /\ Len(got') = 0
  BY DEF IInv, ProgressInv
<1>5. TypeOK'
  BY <1>1, <1>2, <1>3, <1>4 DEF IInv, TypeOK, Over
<1>6. ParcelInv'
  <2>0. PICK n \in 0..Len(asked) : \E pos \in [1..(n + 1) -> Nat] : Layout(n, pos)
    BY DEF IInv, ParcelInv
  <2>1. PICK pos \in [1..(n + 1) -> Nat] : Layout(n, pos)
    BY <2>0
  <2>2. asked \in Seq(Items) /\ n \in Nat
    BY <2>1 DEF IInv, TypeOK
  <2>3. phase' = "call" => n = Len(asked)
    BY <2>1, <2>2 DEF Layout
  <2>4. Layout(n, pos)'
    BY <2>1 DEF Layout
  <2>5. Reading(n, pos)'
    BY <1>1, <1>2, <1>3, <1>4, <2>1, <2>2 DEF Reading, Layout, Over
  <2>6. QED
    BY <2>1, <2>3, <2>4, <2>5 DEF ParcelInv
<1>7. SpaceInv' /\ MemInv(wr)' /\ ProgressInv' /\ StatusInv' /\ FailureIsSeen'
  <2>1. phase' # "status" /\ phase' # "build"
    OBVIOUS
  <2>2. QED
    BY <2>1 DEF IInv, SpaceInv, MemInv, ProgressInv, StatusInv, FailureIsSeen
<1>8. QED
  BY <1>5, <1>6, <1>7 DEF IInv

LEMMA SendIInv ==
  ASSUME IInv, binder_call \/ binder_send_reply \/ binder_send_status
  PROVE  IInv'
<1>1. CASE binder_call
  <2>1. CASE "OVERFLOW" \in wr.flags
    <3>1. phase' = "refused" /\ UNCHANGED <<wr, asked, rd, got>>
      BY <1>1, <2>1 DEF binder_call
    <3>2. TypeOK' /\ SpaceInv' /\ MemInv(wr)' /\ ProgressInv' /\ StatusInv' /\ FailureIsSeen'
      BY <3>1 DEF IInv, TypeOK, SpaceInv, MemInv, ProgressInv, StatusInv, FailureIsSeen
    <3>3. ParcelInv'
      BY <3>1 DEF IInv, ParcelInv, Layout
    <3>4. QED
      BY <3>2, <3>3 DEF IInv
  <2>2. CASE "OVERFLOW" \notin wr.flags
    BY <1>1, <2>2, Delivered DEF binder_call
  <2>3. QED
    BY <2>1, <2>2
<1>2. CASE binder_send_reply
  BY <1>2, Delivered DEF binder_send_reply
<1>3. CASE binder_send_status
  <2>1. phase = "build" /\ phase' = "status" /\ UNCHANGED <<wr, asked, got>>
    BY <1>3 DEF binder_send_status
  <2>2. PICK r : r = rd'
    OBVIOUS
  <2>3. /\ r \in IO /\ r.data = 0 /\ r.data_avail = 4 /\ r.offs = <<>> /\ r.offs_avail = 0
        /\ r.mem = {Cell(0, "u32", Failure)}
    <3>1. Failure \in Nat
      BY SizeMaxFacts DEF Failure
    <3>2. {Cell(0, "u32", Failure)} \in SUBSET Cells /\ SizeofU32 \in Nat /\ SizeofU32 = 4
      BY <3>1 DEF Cells, Cell, SizeofU32
    <3>3. r = bio_init_from_txn([data_size |-> SizeofU32, offs |-> <<>>,
                                 mem |-> {Cell(0, "u32", Failure)}])
      BY <1>3, <2>2 DEF binder_send_status, Cell
    <3>4. <<>> \in Seq(Nat) /\ Len(<<>>) = 0
      OBVIOUS
    <3>5. PICK m \in SUBSET Cells, d \in Nat, o \in Seq(Nat) :
            m = {Cell(0, "u32", Failure)} /\ d = SizeofU32 /\ o = <<>>
      BY <3>2, <3>4
    <3>6. r = bio_init_from_txn([data_size |-> d, offs |-> o, mem |-> m])
      BY <3>3, <3>5
    <3>7. /\ r \in IO /\ r.data = 0 /\ r.data_avail = d /\ r.offs = o /\ r.offs_avail = Len(o)
          /\ r.mem = m
      BY <3>6, ReaderOfTxn
    <3>8. QED
      BY <3>2, <3>4, <3>5, <3>7
  <2>4. got = <<>> /\ Len(got) = 0
    BY <2>1 DEF IInv, ProgressInv
  <2>5. TypeOK' /\ SpaceInv' /\ MemInv(wr)' /\ ProgressInv'
    BY <2>1, <2>2, <2>3 DEF IInv, TypeOK, SpaceInv, MemInv, ProgressInv
  <2>6. ParcelInv'
    BY <2>1 DEF IInv, ParcelInv, Layout
  <2>7. StatusInv' /\ FailureIsSeen'
    BY <2>1, <2>2, <2>3, <2>4 DEF StatusInv, FailureIsSeen
  <2>8. QED
    BY <2>5, <2>6, <2>7 DEF IInv
<1>4. QED
  BY <1>1, <1>2, <1>3

LEMMA AlignedNat ==
  ASSUME NEW size \in Nat
  PROVE  Aligned(size) \in Nat
<1>1. PICK n \in Nat : n = (size + 3) % SizeMax
  BY SizeMaxFacts
<1>2. n % 4 \in 0..3 /\ n % 4 <= n
  BY <1>1
<1>3. QED
  BY <1>1, <1>2 DEF Aligned

LEMMA LoadInt ==
  ASSUME NEW io \in IO, NEW p, NEW t
  PROVE  Load(io, p, t) \in Int
<1>1. CASE \E c \in io.mem : c.off = p /\ c.type = t
  <2>1. PICK c \in io.mem : c = (CHOOSE d \in io.mem : d.off = p /\ d.type = t)
    BY <1>1
  <2>2. c \in Cells
    BY Fields DEF Cells
  <2>3. c.val \in Nat
    BY <2>2 DEF Cells
  <2>4. Load(io, p, t) = c.val
    BY <1>1, <2>1 DEF Load
  <2>5. QED
    BY <2>3, <2>4
<1>2. CASE ~(\E c \in io.mem : c.off = p /\ c.type = t)
  BY <1>2 DEF Load, Garbage
<1>3. QED
  BY <1>1, <1>2

\* The first get of a status: the word, or nothing, and then nothing is left.
LEMMA GetStatus ==
  ASSUME NEW r \in IO, r.offs = <<>>, r.offs_avail = 0, r.mem = {Cell(0, "u32", Failure)},
         r.data = 0, r.data_avail = 4,
         NEW kind \in {"u32", "str", "obj", "ref"}, NEW g, g = GetItem(r, kind)
  PROVE  /\ g.val \in Int /\ Over(g.io, r) /\ g.io.data_avail = 0
         /\ kind = "u32" => g.val = Failure
         /\ kind \in {"obj", "ref"} => g.val = 0
<1>1. Over(r, r)
  BY DEF Over
<1>2. PICK q : q = Take(r, 4)
  OBVIOUS
<1>3. Over(q, r) /\ q.data_avail = 0
  BY <1>1, <1>2, OverTake
<1>4. Load(r, r.data, "u32") = Failure
  <2>1. \A c, d \in r.mem : c = d
    OBVIOUS
  <2>2. QED
    BY <2>1, Found
<1>5. Failure \in Nat
  BY SizeMaxFacts DEF Failure
<1>6. bio_get_uint32(r) = [io |-> q, val |-> Failure]
  BY <1>2, <1>4, GetWord DEF bio_get_uint32
<1>7. CASE kind = "u32"
  <2>1. g = [io |-> q, val |-> Failure]
    BY <1>6, <1>7 DEF GetItem
  <2>2. QED
    BY <1>3, <1>5, <1>7, <2>1
<1>8. CASE kind \in {"obj", "ref"}
  <2>1. ~(\E k \in 1..r.offs_avail : r.offs[k] = r.data)
    OBVIOUS
  <2>2. g = [io |-> Exhaust(r), val |-> 0]
    BY <1>8, <2>1 DEF GetItem, bio_get_ref
  <2>3. QED
    BY <1>1, <1>8, <2>2, OverExhaust
<1>9. CASE kind = "str"
  <2>1. PICK size \in Nat : size = (2 * (Failure + 1)) % SizeMax
    BY <1>5, SizeMaxFacts
  <2>2. PICK s \in Nat : s = Aligned(size)
    BY <2>1, AlignedNat
  <2>3. bio_get(q, size) = IF s <= 0 THEN Take(q, s) ELSE Exhaust(q)
    BY <1>3, <2>2 DEF bio_get, GetFits, Take
  <2>4. Over(bio_get(q, size), r) /\ bio_get(q, size).data_avail = 0
    <3>1. CASE s = 0
      BY <1>3, <2>3, <3>1, OverTake
    <3>2. CASE s > 0
      BY <1>3, <2>3, <3>2, OverExhaust
    <3>3. QED
      BY <2>2, <3>1, <3>2
  <2>5. g = [io |-> bio_get(q, size),
             val |-> IF GetFits(q, size) THEN Load(r, q.data, "chars") ELSE 0]
    BY <1>6, <1>9, <2>1 DEF GetItem, bio_get_string16
  <2>6. QED
    BY <1>9, <2>4, <2>5, LoadInt
<1>10. QED
  BY <1>7, <1>8, <1>9

LEMMA GetIInv ==
  ASSUME IInv, Get
  PROVE  IInv'
<1>1. /\ phase \in {"call", "reply", "status"} /\ Len(got) < Len(asked)
      /\ UNCHANGED <<phase, wr, asked>>
  BY DEF Get
<1>2. /\ wr \in IO /\ rd \in IO /\ MemInv(wr) /\ asked \in Seq(Items) /\ got \in Seq(Int)
      /\ wr.data \in Nat
  BY Fields DEF IInv, TypeOK
<1>3. PICK k \in Nat : k = Len(got) + 1
  BY <1>2
<1>4. PICK it \in Items : it = asked[k]
  BY <1>1, <1>2, <1>3
<1>5. PICK g : g = GetItem(rd, it.kind)
  OBVIOUS
<1>6. PICK r : r = rd'
  OBVIOUS
<1>7. r = g.io /\ got' = Append(got, g.val)
  BY <1>3, <1>4, <1>5, <1>6 DEF Get
<1>8. it.kind \in {"u32", "str", "obj", "ref"} /\ it.val \in Nat
  BY ItemFacts
<1>9. ASSUME g.val \in Int
      PROVE  /\ got' \in Seq(Int) /\ Len(got') = k /\ got'[k] = g.val
             /\ \A j \in 1..Len(got') : j = k \/ (j \in 1..Len(got) /\ got'[j] = got[j])
  BY <1>2, <1>3, <1>7, <1>9
<1>10. SpaceInv' /\ MemInv(wr)'
  BY <1>1 DEF IInv, SpaceInv, MemInv
<1>11. CASE phase = "status"
  <2>1. rd.offs = <<>> /\ rd.offs_avail = 0 /\ rd.mem = {Cell(0, "u32", Failure)} /\ Over(rd, rd)
    BY <1>2, <1>11 DEF IInv, StatusInv, Over
  <2>2. /\ g.val \in Int /\ Over(r, rd) /\ r.data_avail = 0
        /\ it.kind \in {"obj", "ref"} => g.val = 0
        /\ it.kind = "u32" => g.val = IF k = 1 THEN Failure ELSE 0
    <3>1. CASE k = 1
      <4>1. rd.data = 0 /\ rd.data_avail = 4
        BY <1>2, <1>3, <1>11, <3>1 DEF IInv, StatusInv
      <4>2. QED
        BY <1>2, <1>5, <1>7, <1>8, <2>1, <3>1, <4>1, GetStatus
    <3>2. CASE k > 1
      <4>1. rd.data_avail = 0
        BY <1>2, <1>3, <1>11, <3>2 DEF IInv, StatusInv
      <4>2. g.val = 0 /\ Over(r, rd) /\ r.data_avail = 0
        BY <1>5, <1>7, <1>8, <2>1, <4>1, GetShort
      <4>3. QED
        BY <3>2, <4>2
    <3>3. QED
      BY <1>2, <1>3, <3>1, <3>2
  <2>3. StatusInv'
    BY <1>3, <1>2, <1>6, <1>9, <2>1, <2>2 DEF StatusInv, Over
  <2>4. FailureIsSeen'
    <3>1. ASSUME NEW j \in 1..Len(got')
          PROVE  /\ asked[j].kind \in {"obj", "ref"} => got'[j] = 0
                 /\ asked[j].kind = "u32" => got'[j] = IF j = 1 THEN Failure ELSE 0
      <4>1. CASE j = k
        BY <1>4, <1>9, <2>2, <4>1
      <4>2. CASE j \in 1..Len(got) /\ got'[j] = got[j]
        BY <1>11, <4>2 DEF IInv, FailureIsSeen
      <4>3. QED
        BY <1>9, <2>2, <4>1, <4>2
    <3>2. QED
      BY <1>1, <3>1 DEF FailureIsSeen
  <2>5. TypeOK' /\ ProgressInv'
    BY <1>1, <1>2, <1>3, <1>6, <1>9, <1>11, <2>2 DEF IInv, TypeOK, ProgressInv, Over
  <2>6. ParcelInv'
    BY <1>1, <1>11 DEF IInv, ParcelInv, Layout
  <2>7. QED
    BY <1>10, <2>3, <2>4, <2>5, <2>6 DEF IInv
<1>12. CASE phase \in {"call", "reply"}
  <2>1. PICK n \in 0..Len(asked) :
          \E pos \in [1..(n + 1) -> Nat] :
            Layout(n, pos) /\ Reading(n, pos) /\ (phase = "call" => n = Len(asked))
    BY <1>12 DEF IInv, ParcelInv
  <2>2. PICK pos \in [1..(n + 1) -> Nat] : Layout(n, pos) /\ Reading(n, pos)
    BY <2>1
  <2>3. n \in Nat /\ Len(asked) \in Nat /\ n <= Len(asked) /\ k <= Len(asked)
    BY <1>1, <1>2, <1>3, <2>1
  <2>4. Over(rd, wr)
    BY <2>2 DEF Reading
  <2>5. /\ g.val = IF k <= n THEN Seen(it) ELSE 0
        /\ Over(r, wr)
        /\ k <= n => r.data = pos[k + 1] /\ r.data_avail = wr.data - r.data
        /\ k > n => r.data_avail = 0
    <3>1. k <= n + 1 => rd.data = pos[k] /\ rd.data_avail = wr.data - rd.data
      BY <1>2, <1>3, <2>2, <2>3 DEF Reading
    <3>2. CASE k <= n
      <4>1. k \in 1..n /\ k + 1 \in 1..(n + 1)
        BY <1>2, <1>3, <2>3, <3>2
      <4>2. /\ Stored(wr, it, pos[k]) /\ pos[k + 1] = pos[k] + Extent(it) /\ pos[k + 1] <= wr.data
        BY <1>4, <2>2, <4>1 DEF Layout
      <4>3. rd.data = pos[k] /\ rd.data_avail = wr.data - rd.data
        BY <2>3, <3>1, <3>2
      <4>4. rd.data + Extent(it) <= wr.data
        BY <4>2, <4>3
      <4>5. Stored(wr, it, rd.data)
        BY <4>2, <4>3
      <4>6. /\ g.val = Seen(it) /\ Over(g.io, wr)
            /\ g.io.data = rd.data + Extent(it) /\ g.io.data_avail = wr.data - g.io.data
        BY <1>2, <1>5, <2>4, <4>3, <4>4, <4>5, GetStored
      <4>7. QED
        BY <1>7, <2>3, <3>2, <4>2, <4>3, <4>6
    <3>3. CASE k = n + 1
      <4>1. Stuck(wr, it, pos[k])
        BY <1>4, <2>2, <2>3, <3>3 DEF Layout
      <4>2. rd.data = pos[k] /\ rd.data_avail = wr.data - rd.data
        BY <2>3, <3>1, <3>3
      <4>3. Stuck(wr, it, rd.data)
        BY <4>1, <4>2
      <4>4. g.val = 0 /\ Over(g.io, wr) /\ g.io.data_avail = 0
        BY <1>2, <1>5, <2>4, <4>2, <4>3, GetStuck
      <4>5. QED
        BY <1>7, <2>3, <3>3, <4>4
    <3>4. CASE k > n + 1
      <4>1. rd.data_avail = 0
        BY <1>2, <1>3, <2>2, <2>3, <3>4 DEF Reading
      <4>2. g.val = 0 /\ Over(g.io, wr) /\ g.io.data_avail = 0
        BY <1>5, <1>8, <2>4, <4>1, GetShort
      <4>3. QED
        BY <1>7, <2>3, <3>4, <4>2
    <3>5. QED
      BY <2>3, <3>2, <3>3, <3>4
  <2>6. g.val \in Int
    BY <1>8, <2>5 DEF Seen
  <2>7. \A j \in 1..Len(got') : got'[j] = IF j <= n THEN Seen(asked[j]) ELSE 0
    <3>1. ASSUME NEW j \in 1..Len(got') PROVE got'[j] = IF j <= n THEN Seen(asked[j]) ELSE 0
      <4>1. CASE j = k
        BY <1>4, <1>9, <2>5, <2>6, <4>1
      <4>2. CASE j \in 1..Len(got) /\ got'[j] = got[j]
        BY <2>2, <4>2 DEF Reading
      <4>3. QED
        BY <1>9, <2>6, <4>1, <4>2
    <3>2. QED
      BY <3>1
  <2>8. Reading(n, pos)'
    BY <1>1, <1>6, <1>9, <2>5, <2>6, <2>7 DEF Reading, Over
  <2>9. Layout(n, pos)'
    BY <1>1, <2>2 DEF Layout
  <2>10. ParcelInv'
    BY <1>1, <2>1, <2>2, <2>8, <2>9 DEF ParcelInv
  <2>11. TypeOK' /\ ProgressInv'
    BY <1>1, <1>2, <1>3, <1>6, <1>9, <1>12, <2>3, <2>5, <2>6 DEF IInv, TypeOK, ProgressInv, Over
  <2>12. StatusInv' /\ FailureIsSeen'
    BY <1>1, <1>12 DEF StatusInv, FailureIsSeen
  <2>13. QED
    BY <1>10, <2>10, <2>11, <2>12 DEF IInv
<1>13. QED
  BY <1>1, <1>11, <1>12

LEMMA StutterIInv ==
  ASSUME IInv, UNCHANGED vars
  PROVE  IInv'
<1>1. UNCHANGED <<phase, wr, asked, rd, got>>
  BY DEF vars
<1>2. TypeOK' /\ SpaceInv' /\ MemInv(wr)' /\ ProgressInv' /\ StatusInv' /\ FailureIsSeen'
  BY <1>1 DEF IInv, TypeOK, SpaceInv, MemInv, ProgressInv, StatusInv, FailureIsSeen
<1>3. ParcelInv'
  <2>1. PICK n \in 0..Len(asked) : \E pos \in [1..(n + 1) -> Nat] :
          /\ Layout(n, pos)
          /\ phase \in {"call", "reply"} => Reading(n, pos)
          /\ phase = "call" => n = Len(asked)
    BY Zenon DEF IInv, ParcelInv
  <2>2. PICK pos \in [1..(n + 1) -> Nat] :
          /\ Layout(n, pos)
          /\ phase \in {"call", "reply"} => Reading(n, pos)
          /\ phase = "call" => n = Len(asked)
    BY <2>1, Zenon
  <2>3. Layout(n, pos)'
    BY <1>1, <2>2 DEF Layout
  <2>4. phase \in {"call", "reply"} => Reading(n, pos)'
    BY <1>1, <2>2 DEF Reading
  <2>5. QED
    BY <1>1, <2>1, <2>2, <2>3, <2>4 DEF ParcelInv
<1>4. QED
  BY <1>2, <1>3 DEF IInv

\* In every reachable state, for buffers, tables and items of any size: the
\* items lie one after the other in the buffer up to the first that did not
\* fit, the receiver's cursor follows them, and the space is accounted for.
THEOREM Invariance == Spec => []IInv
<1>1. Init => IInv
  BY InitIInv
<1>2. IInv /\ [Next]_vars => IInv'
  <2>1. SUFFICES ASSUME IInv, [Next]_vars PROVE IInv'
    OBVIOUS
  <2>2. CASE \E it \in Items : Put(it)
    BY <2>1, <2>2, PutIInv
  <2>3. CASE binder_call \/ binder_send_reply \/ binder_send_status
    BY <2>1, <2>3, SendIInv
  <2>4. CASE Get
    BY <2>1, <2>4, GetIInv
  <2>5. CASE UNCHANGED vars
    BY <2>1, <2>5, StutterIInv
  <2>6. QED
    BY <2>1, <2>2, <2>3, <2>4, <2>5 DEF Next
<1>3. QED
  BY <1>1, <1>2, PTL DEF Spec

\* No put writes outside the buffer: the bytes handed out, the bytes left and
\* the table of offsets always make it up, and neither the bytes left nor the
\* entries left go below zero, because bio_alloc and bio_alloc_obj look first.
THEOREM SpaceIsAccounted == Spec => []SpaceAccounted
<1>1. IInv => SpaceAccounted
  BY Fields DEF IInv, TypeOK, SpaceInv, SpaceAccounted
<1>2. QED
  BY <1>1, Invariance, PTL

\* The driver is handed no offset but those at which bio_put_obj stored an
\* object.
THEOREM OffsetsNameObjects == Spec => []OffsetsAreObjects
<1>1. IInv => OffsetsAreObjects
  BY DEF IInv, MemInv, OffsetsAreObjects
<1>2. QED
  BY <1>1, Invariance, PTL

\* A message binder_call sends is read back as it was put, whatever its items.
THEOREM CallsAreWhole == Spec => []CallIsWhole
<1>1. IInv => CallIsWhole
  <2>1. SUFFICES ASSUME IInv, phase = "call", NEW k \in 1..Len(got)
                 PROVE  got[k] = Seen(asked[k])
    BY DEF CallIsWhole
  <2>2. PICK pos : Reading(Len(asked), pos)
    BY <2>1 DEF IInv, ParcelInv
  <2>3. k <= Len(asked)
    <3>1. got \in Seq(Int) /\ asked \in Seq(Items) /\ Len(got) <= Len(asked)
      BY <2>1 DEF IInv, TypeOK, ProgressInv
    <3>2. QED
      BY <3>1
  <2>4. QED
    BY <2>2, <2>3 DEF Reading
<1>2. QED
  BY <1>1, Invariance, PTL

\* A reply that overflowed is read back as a prefix of what was put, then as
\* nothing: no item is ever taken for another.
THEOREM RepliesArePrefixes == Spec => []ReplyIsPrefix
<1>1. IInv => ReplyIsPrefix
  <2>1. SUFFICES ASSUME IInv, phase = "reply" PROVE ReplyIsPrefix
    BY DEF ReplyIsPrefix
  <2>2. PICK n \in 0..Len(asked) : \E pos : Reading(n, pos)
    BY <2>1 DEF IInv, ParcelInv
  <2>3. \A k \in 1..Len(got) : got[k] = IF k <= n THEN Seen(asked[k]) ELSE 0
    BY <2>2 DEF Reading
  <2>4. got \in Seq(Int) /\ Len(got) \in Nat /\ asked \in Seq(Items) /\ n \in Nat
    BY <2>1, <2>2 DEF IInv, TypeOK
  <2>5. PICK m \in 0..Len(got) : m = IF n <= Len(got) THEN n ELSE Len(got)
    BY <2>4
  <2>6. \A k \in 1..Len(got) : k <= m <=> k <= n
    BY <2>4, <2>5
  <2>7. \A k \in 1..Len(got) : got[k] = IF k <= m THEN Seen(asked[k]) ELSE 0
    BY <2>3, <2>6
  <2>8. QED
    BY <2>5, <2>7 DEF ReplyIsPrefix
<1>2. QED
  BY <1>1, Invariance, PTL

\* The status word of a failed handler is never read as a success or as an
\* object (binder_send_reply's status branch, read by svcmgr_publish and
\* svcmgr_lookup).
THEOREM FailuresAreSeen == Spec => []FailureIsSeen
<1>1. IInv => FailureIsSeen
  BY DEF IInv
<1>2. QED
  BY <1>1, Invariance, PTL
=============================================================================
