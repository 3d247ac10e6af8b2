----------------------------- MODULE BinderParcel -----------------------------
(***************************************************************************)
(* One message or reply on its way through binder_io: a program puts items *)
(* into a buffer, binder_call or binder_send_reply hands the filled part   *)
(* to the driver, and the receiver takes the items out again in the same   *)
(* order.  binder_call refuses a buffer that overflowed; binder_send_reply *)
(* does not look.  A handler that failed (they all return -1) is answered  *)
(* with that status in place of the reply it may have begun.               *)
(***************************************************************************)
EXTENDS BinderIO

CONSTANTS
  MaxData, MaxOffs,  \* arguments of bio_init: iodata[512/4] or rdata[256/4], 4
  MaxLen,            \* MAX_BIO_SIZE / sizeof(uint16_t)
  Items,             \* what programs put: [kind, val, len] records
  MaxItems           \* bound: items put into one buffer

ASSUME ParcelAssumption ==
  /\ MaxData \in Nat /\ MaxOffs \in Nat /\ MaxLen \in Nat /\ MaxItems \in Nat
  /\ MaxOffs * SizeofSizeT < SizeMax /\ MaxData < SizeMax
  /\ 2 * MaxLen + 3 < SizeMax   \* MAX_BIO_SIZE is 2^30
  /\ Items \subseteq [kind : {"u32", "str", "obj", "ref"}, val : Nat, len : Nat]

\* The callers in the repository put no NULL string, none of MAX_BIO_SIZE, and
\* no handle 0 (do_find_service's 0 is "not found").
ASSUME ItemsAssumption ==
  \A it \in Items :
    /\ it.kind = "str" => it.val # 0 /\ it.len < MaxLen
    /\ it.kind = "ref" => it.val # 0

VARIABLES
  phase,   \* "build", then "refused", or "call", "reply", "status" once sent
  wr,      \* the sender's binder_io
  asked,   \* items the sender put, in order
  rd,      \* the receiver's binder_io
  got      \* what its gets returned so far

vars == <<phase, wr, asked, rd, got>>

Failure == SizeMax - 1   \* the int -1, as bio_get_uint32 reads it

Unread == bio_init_from_txn([data_size |-> 0, offs |-> <<>>, mem |-> {}])

Init ==
  /\ phase = "build"
  /\ wr = bio_init(MaxData, MaxOffs)
  /\ asked = <<>> /\ got = <<>>
  /\ rd = Unread

PutItem(io, it) ==
  CASE it.kind = "u32" -> bio_put_uint32(io, it.val)
    [] it.kind = "str" -> bio_put_string16(io, it.val, it.len, MaxLen)
    [] it.kind = "obj" -> bio_put_obj(io, it.val)
    [] it.kind = "ref" -> bio_put_ref(io, it.val)

Put(it) ==
  /\ phase = "build" /\ Len(asked) < MaxItems
  /\ wr' = PutItem(wr, it)
  /\ asked' = Append(asked, it)
  /\ UNCHANGED <<phase, rd, got>>

\* data_size = data - data0, offsets_size = offs - offs0.
Txn == [data_size |-> wr.data, offs |-> wr.offs, mem |-> wr.mem]

\* binder_call: an overflowed message fails the call before any ioctl.
binder_call ==
  /\ phase = "build"
  /\ IF "OVERFLOW" \in wr.flags
     THEN phase' = "refused" /\ rd' = rd
     ELSE phase' = "call" /\ rd' = bio_init_from_txn(Txn)
  /\ UNCHANGED <<wr, asked, got>>

\* Mutant: the reply buffer goes out although the handler failed.
binder_send_status_ignored ==
  /\ phase = "build"
  /\ phase' = "status" /\ rd' = bio_init_from_txn(Txn)
  /\ UNCHANGED <<wr, asked, got>>

\* binder_send_reply, status # 0: the four bytes of the status, no offsets.
binder_send_status ==
  /\ phase = "build"
  /\ phase' = "status"
  /\ rd' = bio_init_from_txn([data_size |-> SizeofU32, offs |-> <<>>,
                              mem |-> {[off |-> 0, type |-> "u32", val |-> Failure]}])
  /\ UNCHANGED <<wr, asked, got>>

\* binder_send_reply, status = 0, sends whatever is in the buffer.
binder_send_reply ==
  /\ phase = "build"
  /\ phase' = "reply" /\ rd' = bio_init_from_txn(Txn)
  /\ UNCHANGED <<wr, asked, got>>

GetItem(io, kind) ==
  CASE kind = "u32" -> bio_get_uint32(io)
    [] kind = "str" -> bio_get_string16(io)
    [] kind \in {"obj", "ref"} -> bio_get_ref(io)

\* The receiver knows the layout: its k-th get is for the k-th item.
Get ==
  /\ phase \in {"call", "reply", "status"} /\ Len(got) < Len(asked)
  /\ LET g == GetItem(rd, asked[Len(got) + 1].kind)
     IN  rd' = g.io /\ got' = Append(got, g.val)
  /\ UNCHANGED <<phase, wr, asked>>

Next == (\E it \in Items : Put(it)) \/ binder_call \/ binder_send_reply
        \/ binder_send_status \/ Get

Spec == Init /\ [][Next]_vars

-----------------------------------------------------------------------------
IO == [data : Nat, data_avail : Nat, offs : Seq(Nat), offs_avail : Nat,
       flags : SUBSET BioFlags,
       mem : SUBSET [off : Nat, type : {"u32", "chars", "obj"}, val : Nat]]

TypeOK ==
  /\ phase \in {"build", "refused", "call", "reply", "status"}
  /\ wr \in IO /\ rd \in IO
  /\ asked \in Seq(Items)
  /\ got \in Seq(Int)

\* No put writes outside the buffer: what was handed out, what is left and the
\* table of offsets make up the buffer, and what is left of the bytes and of
\* the table never goes below zero (size_t would wrap and let every later put
\* pass).  A buffer too small for its table hands out nothing.
SpaceAccounted ==
  LET n == MaxOffs * SizeofSizeT
  IN  /\ wr.data_avail \in Nat /\ wr.offs_avail \in Nat
      /\ wr.data + wr.data_avail = IF n <= MaxData THEN MaxData - n ELSE 0
      /\ Len(wr.offs) + wr.offs_avail = IF n <= MaxData THEN MaxOffs ELSE 0

\* Every offset handed to the driver is where an object was stored: the
\* driver translates nothing else.
OffsetsAreObjects ==
  \A k \in 1..Len(wr.offs) : \E c \in wr.mem : c.off = wr.offs[k] /\ c.type = "obj"

\* What a get makes of an item that arrived: the receiver's own object is no
\* handle, and bio_get_ref answers 0 for it.
Seen(it) == IF it.kind \in {"obj", "ref"} /\ it.val \in Own THEN 0 ELSE it.val

\* A message binder_call sends is whole: every item is read back as it was
\* put.  An item that did not fit may be followed by smaller ones that did;
\* only the sticky overflow flag tells.
CallIsWhole ==
  phase = "call" => \A k \in 1..Len(got) : got[k] = Seen(asked[k])

\* Even a reply, sent without looking at the overflow flag, is never
\* misread: the receiver gets the items put up to some point and NULL or 0
\* from there on, never another item's bytes.
ReplyIsPrefix ==
  phase = "reply" =>
    \E n \in 0..Len(got) : \A k \in 1..Len(got) :
      got[k] = IF k <= n THEN Seen(asked[k]) ELSE 0

\* A failed handler is never mistaken for success, although binder_call
\* returns 0 for it: a leading status word reads as nonzero (svcmgr_publish),
\* and no object can be taken out of the reply (svcmgr_lookup).
FailureIsSeen ==
  phase = "status" => \A k \in 1..Len(got) :
    /\ asked[k].kind \in {"obj", "ref"} => got[k] = 0
    /\ asked[k].kind = "u32" => got[k] = IF k = 1 THEN Failure ELSE 0
=============================================================================
