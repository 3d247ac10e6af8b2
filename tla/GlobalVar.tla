------------------------------ MODULE GlobalVar ------------------------------
(***************************************************************************)
(* The "globalvar" character device of waitqueue/waitqueue.c: readers      *)
(* sleep on a wait queue until `flag' is set, writers append to the array  *)
(* global_var, set `flag' AFTER dropping the spinlock and wake the queue.  *)
(*                                                                         *)
(* A byte of global_var is identified by its index: the indexes only grow, *)
(* so byte i is written once and what a read returns is the interval       *)
(* read_index .. write_index-1.  Every statement that touches state not    *)
(* protected by var_lock is a step of its own; what happens between        *)
(* spin_lock and spin_unlock is split where `flag' is involved.            *)
(***************************************************************************)
EXTENDS Naturals

CONSTANTS
  Readers,    \* threads that call globalvar_read
  Writers,    \* threads that call globalvar_write
  Lens,       \* lengths a write may ask for
  MaxBytes,   \* bound: total bytes written in a behaviour (the code has none)
  Free        \* value of var_lock when nobody holds it

ASSUME ThreadsAssumption ==
  /\ Readers \cap Writers = {}
  /\ Free \notin Readers \cup Writers
  /\ Lens \subseteq Nat \ {0}
  /\ MaxBytes \in Nat

Threads == Readers \cup Writers

VARIABLES
  read_index, write_index, flag,   \* the three static ints
  var_lock,                        \* holder of the spinlock, or Free
  waitq,                           \* readers asleep on the wait queue
  pc,                              \* where each thread is
  read_len,                        \* each reader's local read_len
  delivered                        \* history: bytes returned by all reads

vars == <<read_index, write_index, flag, var_lock, waitq, pc, read_len, delivered>>

Init ==
  /\ read_index = 0 /\ write_index = 0 /\ flag = 0
  /\ var_lock = Free
  /\ waitq = {}
  /\ pc = [t \in Threads |-> "idle"]
  /\ read_len = [r \in Readers |-> 0]
  /\ delivered = 0

Goto(t, from, to) == pc[t] = from /\ pc' = [pc EXCEPT ![t] = to]

-----------------------------------------------------------------------------
(* globalvar_read *)

\* wait_event_interruptible: the condition is tested before sleeping at all.
ReadEnter(r) ==
  /\ Goto(r, "idle", IF flag # 0 THEN "lock" ELSE "prepare")
  /\ UNCHANGED <<read_index, write_index, flag, var_lock, waitq, read_len, delivered>>

\* The macro queues the task first (prepare_to_wait) ...
PrepareToWait(r) ==
  /\ Goto(r, "prepare", "recheck")
  /\ waitq' = waitq \cup {r}
  /\ UNCHANGED <<read_index, write_index, flag, var_lock, read_len, delivered>>

\* ... and tests the condition again before schedule(); wake_up takes the
\* task off the queue, after which this loop runs once more.
Recheck(r) ==
  /\ Goto(r, "recheck", IF flag # 0 THEN "lock" ELSE "asleep")
  /\ waitq' = IF flag # 0 THEN waitq \ {r} ELSE waitq
  /\ UNCHANGED <<read_index, write_index, flag, var_lock, read_len, delivered>>

Wakened(r) ==
  /\ r \notin waitq
  /\ Goto(r, "asleep", "prepare")
  /\ UNCHANGED <<read_index, write_index, flag, var_lock, waitq, read_len, delivered>>

\* A signal ends the wait with -ERESTARTSYS.
Interrupted(r) ==
  /\ Goto(r, "asleep", "idle")
  /\ waitq' = waitq \ {r}
  /\ UNCHANGED <<read_index, write_index, flag, var_lock, read_len, delivered>>

\* Mutant: the length is computed without taking the lock.
ReadLockRacy(r) ==
  /\ Goto(r, "lock", "copy")
  /\ read_len' = [read_len EXCEPT ![r] = write_index - read_index]
  /\ UNCHANGED <<read_index, write_index, flag, var_lock, waitq, delivered>>

\* spin_lock; read_len = write_index - read_index.
ReadLock(r) ==
  /\ var_lock = Free
  /\ Goto(r, "lock", "copy")
  /\ var_lock' = r
  /\ read_len' = [read_len EXCEPT ![r] = write_index - read_index]
  /\ UNCHANGED <<read_index, write_index, flag, waitq, delivered>>

\* Mutant: read_index advances before the copy is known to have succeeded.
ReadFaultConsumes(r) ==
  /\ Goto(r, "copy", "idle")
  /\ read_index' = write_index
  /\ var_lock' = Free
  /\ UNCHANGED <<write_index, flag, waitq, read_len, delivered>>

\* copy_to_user failed: unlock, -EFAULT, nothing consumed.
ReadFault(r) ==
  /\ Goto(r, "copy", "idle")
  /\ var_lock' = Free
  /\ UNCHANGED <<read_index, write_index, flag, waitq, read_len, delivered>>

\* copy_to_user succeeded: read_index = write_index.
ReadAdvance(r) ==
  /\ Goto(r, "copy", "clear")
  /\ read_index' = write_index
  /\ UNCHANGED <<write_index, flag, var_lock, waitq, read_len, delivered>>

\* flag = 0; spin_unlock; return read_len.
ReadReturn(r) ==
  /\ Goto(r, "clear", "idle")
  /\ flag' = 0
  /\ var_lock' = Free
  /\ delivered' = delivered + read_len[r]
  /\ UNCHANGED <<read_index, write_index, waitq, read_len>>

-----------------------------------------------------------------------------
(* globalvar_write *)

WriteLock(w) ==
  /\ var_lock = Free
  /\ Goto(w, "idle", "copy")
  /\ var_lock' = w
  /\ UNCHANGED <<read_index, write_index, flag, waitq, read_len, delivered>>

WriteFault(w) ==
  /\ Goto(w, "copy", "idle")
  /\ var_lock' = Free
  /\ UNCHANGED <<read_index, write_index, flag, waitq, read_len, delivered>>

\* copy_from_user; write_index += len; spin_unlock.
WriteCopy(w, len) ==
  /\ write_index + len <= MaxBytes
  /\ Goto(w, "copy", "flag")
  /\ write_index' = write_index + len
  /\ var_lock' = Free
  /\ UNCHANGED <<read_index, flag, waitq, read_len, delivered>>

\* Mutant: flag used as a count of writes.
WriteFlagCounts(w) ==
  /\ Goto(w, "flag", "wake")
  /\ flag' = flag + 1
  /\ UNCHANGED <<read_index, write_index, var_lock, waitq, read_len, delivered>>

\* flag = 1, no lock held.
WriteFlag(w) ==
  /\ Goto(w, "flag", "wake")
  /\ flag' = 1
  /\ UNCHANGED <<read_index, write_index, var_lock, waitq, read_len, delivered>>

\* Mutant: an exclusive wake-up, one sleeper per write.
WriteWakeOne(w) ==
  /\ Goto(w, "wake", "idle")
  /\ waitq' \in (IF waitq = {} THEN {{}} ELSE {waitq \ {r} : r \in waitq})
  /\ UNCHANGED <<read_index, write_index, flag, var_lock, read_len, delivered>>

\* Mutant: nobody is woken.
WriteWakeNone(w) ==
  /\ Goto(w, "wake", "idle")
  /\ UNCHANGED <<read_index, write_index, flag, var_lock, waitq, read_len, delivered>>

\* wake_up_interruptible: the sleepers are not exclusive, all of them wake.
WriteWake(w) ==
  /\ Goto(w, "wake", "idle")
  /\ waitq' = {}
  /\ UNCHANGED <<read_index, write_index, flag, var_lock, read_len, delivered>>

-----------------------------------------------------------------------------
\* What a reader does on its own once it has called read: everything but the
\* call, the signal and the fault.
ReadStep(r) ==
  \/ PrepareToWait(r) \/ Recheck(r) \/ Wakened(r)
  \/ ReadLock(r) \/ ReadAdvance(r) \/ ReadReturn(r)

WriteStep(w) == (\E len \in Lens : WriteCopy(w, len)) \/ WriteFlag(w) \/ WriteWake(w)

Read(r) == ReadEnter(r) \/ Interrupted(r) \/ ReadFault(r) \/ ReadStep(r)
Write(w) == WriteLock(w) \/ WriteFault(w) \/ WriteStep(w)

Next == (\E r \in Readers : Read(r)) \/ (\E w \in Writers : Write(w))

Spec == Init /\ [][Next]_vars

\* A thread inside a system call is scheduled again, so its steps are weakly
\* fair.  Taking the spinlock is strongly fair (contended, never held for
\* ever), and so is a successful copy (a user buffer does not fault for ever).
\* A reader that returned calls read again; nobody has to write, and signals
\* and faults are never required.
FairSpec ==
  /\ Spec
  /\ \A r \in Readers :
       /\ WF_vars(ReadEnter(r)) /\ WF_vars(ReadStep(r))
       /\ SF_vars(ReadLock(r)) /\ SF_vars(ReadAdvance(r))
  /\ \A w \in Writers :
       /\ WF_vars(WriteFlag(w)) /\ WF_vars(WriteWake(w))
       /\ WF_vars(WriteFault(w) \/ \E len \in Lens : WriteCopy(w, len))

-----------------------------------------------------------------------------
ReaderPcs == {"idle", "prepare", "recheck", "asleep", "lock", "copy", "clear"}
WriterPcs == {"idle", "copy", "flag", "wake"}

TypeOK ==
  /\ read_index \in Nat /\ write_index \in Nat /\ delivered \in Nat
  /\ flag \in {0, 1}
  /\ var_lock \in Threads \cup {Free}
  /\ waitq \subseteq Readers
  /\ pc \in [Threads -> ReaderPcs \cup WriterPcs]
  /\ \A r \in Readers : pc[r] \in ReaderPcs
  /\ \A w \in Writers : pc[w] \in WriterPcs
  /\ read_len \in [Readers -> Nat]

\* Bytes nobody has read are announced, or about to be: either flag is set or
\* a writer stands between its spin_unlock and its "flag = 1".  This is what
\* setting the flag outside the lock, while a reader clears it inside, puts
\* at risk.
UnreadIsAnnounced ==
  read_index < write_index => flag = 1 \/ \E w \in Writers : pc[w] = "flag"

\* No lost wake-up: a reader that sleeps on the queue while flag is set has a
\* writer about to call wake_up_interruptible.
NoLostWakeup ==
  \A r \in Readers :
    pc[r] = "asleep" /\ r \in waitq /\ flag = 1 => \E w \in Writers : pc[w] = "wake"

\* Every byte is returned exactly once: what the reads returned so far, plus
\* what the reader about to return has copied, is what read_index passed.
DeliveredOnce ==
  \/ delivered = read_index
  \/ \E r \in Readers : pc[r] = "clear" /\ delivered + read_len[r] = read_index

\* Every byte written is read, as long as readers keep calling read.
EverythingRead == \A n \in 1..MaxBytes : write_index >= n ~> read_index >= n
=============================================================================
