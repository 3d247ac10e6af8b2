------------------------------- MODULE BinderIO -------------------------------
(***************************************************************************)
(* struct binder_io of binder/binder.c: the cursor every message and every *)
(* reply is written and read through (bio_init, the bio_put and bio_get    *)
(* families).                                                              *)
(*                                                                         *)
(* Sizes are bytes, as in the code, and size_t arithmetic wraps at SizeMax *)
(* (2^32 in the BINDER_IPC_32BIT build the Makefile makes).  The bytes are *)
(* abstract: `mem' is the set of cells stored so far, a cell being an      *)
(* offset from data0, the type it was stored as and a value; a value       *)
(* stands for the contents (0 is NULL, and what a failed get returns).     *)
(***************************************************************************)
EXTENDS Integers, Sequences

CONSTANTS
  SizeMax,   \* 2^(8 * sizeof(size_t))
  Own        \* objects the receiver owns: the driver hands it BINDER_TYPE_BINDER
             \* for a reference to one of them, BINDER_TYPE_HANDLE for any other

ASSUME SizeMaxAssumption == SizeMax \in Nat /\ SizeMax > 64 /\ SizeMax % 4 = 0

SizeofU32 == 4
SizeofSizeT == 4
SizeofObject == 16       \* struct flat_binder_object
NullString == SizeMax - 1  \* 0xffffffff
Garbage == -1            \* a read of bytes nobody stored there

\* size = (size + 3) & ~3 in size_t arithmetic
Aligned(size) == LET n == (size + 3) % SizeMax IN n - (n % 4)

BioFlags == {"SHARED", "OVERFLOW", "IOERROR"}

\* A writer's binder_io over a buffer of maxdata bytes whose head is reserved
\* for maxoffs object offsets.
bio_init(maxdata, maxoffs) ==
  LET n == (maxoffs * SizeofSizeT) % SizeMax
      full == n > maxdata
  IN  [data       |-> 0,
       data_avail |-> IF full THEN 0 ELSE maxdata - n,
       offs       |-> <<>>,
       offs_avail |-> IF full THEN 0 ELSE maxoffs,
       flags      |-> IF full THEN {"OVERFLOW"} ELSE {},
       mem        |-> {}]

\* A reader's binder_io over a delivered transaction: the driver copied the
\* data_size bytes and the offsets the writer had filled.
bio_init_from_txn(txn) ==
  [data |-> 0, data_avail |-> txn.data_size, offs |-> txn.offs,
   offs_avail |-> Len(txn.offs), flags |-> {"SHARED"}, mem |-> txn.mem]

-----------------------------------------------------------------------------
(* Writing.  AllocFits says whether bio_alloc returns a pointer, which is   *)
(* then io.data; the operators return the binder_io after the call.         *)

Overflow(io) == [io EXCEPT !.flags = @ \cup {"OVERFLOW"}]

\* Mutant: the size is not compared with the space left.
AllocFits_unchecked(io, size) == TRUE

AllocFits(io, size) == Aligned(size) <= io.data_avail

\* Mutant: a failed allocation leaves no trace.
bio_alloc_silent(io, size) ==
  IF AllocFits(io, size)
  THEN [io EXCEPT !.data = @ + Aligned(size), !.data_avail = @ - Aligned(size)]
  ELSE io

bio_alloc(io, size) ==
  IF AllocFits(io, size)
  THEN [io EXCEPT !.data = @ + Aligned(size), !.data_avail = @ - Aligned(size)]
  ELSE Overflow(io)

Store(io, off, type, val) == [io EXCEPT !.mem = @ \cup {[off |-> off, type |-> type, val |-> val]}]

\* An object needs an entry of the offsets table as well as its bytes; the
\* bytes stay allocated when the table is full.
ObjFits(io) == AllocFits(io, SizeofObject) /\ io.offs_avail > 0

\* Mutant: the offset recorded is the end of the object.
bio_alloc_obj_end(io) ==
  LET a == bio_alloc(io, SizeofObject)
  IN  IF ObjFits(io)
      THEN [a EXCEPT !.offs_avail = @ - 1, !.offs = Append(@, a.data)]
      ELSE Overflow(a)

bio_alloc_obj(io) ==
  LET a == bio_alloc(io, SizeofObject)
  IN  IF ObjFits(io)
      THEN [a EXCEPT !.offs_avail = @ - 1, !.offs = Append(@, io.data)]
      ELSE Overflow(a)

bio_put_uint32(io, n) ==
  LET a == bio_alloc(io, SizeofU32)
  IN  IF AllocFits(io, SizeofU32) THEN Store(a, io.data, "u32", n) ELSE a

bio_put_obj(io, ptr) ==
  LET a == bio_alloc_obj(io)
  IN  IF ObjFits(io) THEN Store(a, io.data, "obj", ptr) ELSE a

\* Handle 0 is put without an offsets entry.
bio_put_ref(io, handle) ==
  IF handle # 0 THEN bio_put_obj(io, handle)
  ELSE LET a == bio_alloc(io, SizeofObject)
       IN  IF AllocFits(io, SizeofObject) THEN Store(a, io.data, "obj", 0) ELSE a

\* bio_put_string16 and bio_put_string16_x: the length in a word of its own,
\* then len characters and a terminator.  maxlen is MAX_BIO_SIZE / 2.
bio_put_string16(io, str, len, maxlen) ==
  IF str = 0 \/ len >= maxlen THEN bio_put_uint32(io, NullString)
  ELSE LET a == bio_put_uint32(io, len)
           size == (2 * (len + 1)) % SizeMax
           b == bio_alloc(a, size)
       IN  IF AllocFits(a, size) THEN Store(b, a.data, "chars", str) ELSE b

-----------------------------------------------------------------------------
(* Reading.  Each get returns [io, val]: the binder_io after the call and   *)
(* what the caller sees, 0 being the NULL pointer or the zero of a failure. *)

\* The contents found at offset off when they are read as a `type'.
Load(io, off, type) ==
  IF \E c \in io.mem : c.off = off /\ c.type = type
  THEN (CHOOSE c \in io.mem : c.off = off /\ c.type = type).val
  ELSE Garbage

\* A failed get empties the reader: no later get succeeds either.
Exhaust(io) == [io EXCEPT !.data_avail = 0, !.flags = @ \cup {"OVERFLOW"}]

GetFits(io, size) == Aligned(size) <= io.data_avail

\* Mutant: a failed get leaves the rest of the data readable.
bio_get_lenient(io, size) ==
  IF GetFits(io, size)
  THEN [io EXCEPT !.data = @ + Aligned(size), !.data_avail = @ - Aligned(size)]
  ELSE Overflow(io)

bio_get(io, size) ==
  IF GetFits(io, size)
  THEN [io EXCEPT !.data = @ + Aligned(size), !.data_avail = @ - Aligned(size)]
  ELSE Exhaust(io)

bio_get_uint32(io) ==
  [io  |-> bio_get(io, SizeofU32),
   val |-> IF GetFits(io, SizeofU32) THEN Load(io, io.data, "u32") ELSE 0]

bio_get_string16(io) ==
  LET l == bio_get_uint32(io)
      size == (2 * (l.val + 1)) % SizeMax
  IN  [io  |-> bio_get(l.io, size),
       val |-> IF GetFits(l.io, size) THEN Load(io, l.io.data, "chars") ELSE 0]

\* _bio_get_obj and bio_get_ref: the object must start at one of the offsets
\* the driver checked and translated, and be a handle.
bio_get_ref(io) ==
  LET listed == \E k \in 1..io.offs_avail : io.offs[k] = io.data
      obj == Load(io, io.data, "obj")
  IN  [io  |-> IF listed THEN bio_get(io, SizeofObject) ELSE Exhaust(io),
       val |-> IF listed /\ GetFits(io, SizeofObject) /\ obj \notin Own THEN obj ELSE 0]
=============================================================================
