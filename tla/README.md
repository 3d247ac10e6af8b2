# Verification of Linux-labs

TLA+ models of the programs and kernel modules of this repository that keep
state and share it: what they are, what they promise, and what has been checked
and proved about them. Paths such as `binder/binder.c` are relative to `src/`.

## 1. The system

Linux-labs is a collection of independent labs. The largest is a complete
user-space binder stack (a library, the service manager, a server with a pool
of threads and a client); the others are kernel modules and small programs.

| Component | State it keeps | Operations | Hard behaviour | What makes it correct |
|---|---|---|---|---|
| `binder/binder.c`, the `binder_io` cursor | pointer, bytes left, offsets table, flags | `bio_init`, `bio_put_*`, `bio_get_*` | running out of bytes or offsets half way; size arithmetic; a flag only one of two senders looks at | nothing outside the buffer; a message is read back as it was written, or is seen to be incomplete |
| `binder/service_manager.c` | `svclist`; in the driver: its handles, counts, death links, work queue | `svcmgr_handler` (ADD, GET/CHECK, LIST, PING), `svcinfo_death` | registration, override, lookup and death in every order; handles reused by the driver; callers that die | counts balance; dead services are noticed; a name always leads to the service that holds it |
| `binder/test_client.c` and `svcmgr_lookup`/`svcmgr_publish` | the handles it holds | lookup, acquire, done, call, release | the handle lives only as long as the reply buffer until it is acquired | a handle stays usable until it is released |
| `binder/test_server.c` with `binder_loop`, `binder_thread_loop`, `binder_parse`, `binder_call` | pool of threads, static counters | BR_TRANSACTION, BR_SPAWN_LOOPER, BR_REPLY, ... | threads created on demand with a pointer into the creator's stack; unlocked counters; ioctls that fail, some with nobody looking | a call runs at most once and gets its own answer; calls return; a request for a thread is not lost |
| `waitqueue/waitqueue.c` | `read_index`, `write_index`, `flag`, spinlock, wait queue | `globalvar_read`, `globalvar_write` | the flag is set outside the lock and cleared inside it | no lost wake-up, no byte lost or returned twice |
| `ramdisk-lab/*.c` (three drivers) | a `vmalloc`ed array, the request queue | read and write a range of sectors; init, exit | the queue lock dropped while a request is served; bounds left to the block layer | reads return the last write; every request is ended once |
| `hlist/hlist2` | the list of students and two hash tables | add, delete, classify, clean up | ownership over three containers | every student is in one container and is freed |
| `hlist/hlist1` | hash table of commands in 27 buckets | insert, clean up | index arithmetic | every bucket is cleaned up, the last one too |
| `epoll/*.c` | descriptors, the epoll set | accept, read, write | one thread, blocking sockets; descriptors at their limit, disconnects, broken connections | the thread never blocks; only connections that are over are forgotten; everyone is served |
| `trace_events`, `trace_point`, `debugfs`, `char`, `sysctl`, `seqfile`, `single_open` | what is registered with the kernel | module init, its error paths, exit | order of registration and clean-up | exit undoes what init did, in an order nothing runs in between |
| `kobject-example`, `device-demo` | reference counts of kernel objects | create, add, put | releases in error paths | each object is released once |
| `bit`, `backtrace`, `module-template`, `module-para`, `trace_printk`, `fs` | none | one library call | none | - |

**Interactions.** Client, server and service manager are separate processes.
They meet in the binder driver (`/dev/binder`, not part of the repository): an
ioctl writes commands and reads returns. A server publishes its objects with the
service manager, which keeps a handle, a reference and a death link for each; a
client looks a name up, gets a handle of its own and calls the server through
it. Within a server several threads read the same driver queue and share static
counters. A kernel module meets its callers through file operations and locks.

## 2. Modules

Specifications hold variables, actions and properties; `MC*` modules give
constants their values; `*Proofs` modules hold theorems about the module they are
named for (`BlockLayerProofs` those that the proofs of both ram disk modules use;
`KernelModuleProofs` those about `GlobalVar`, `Students` and `Lifecycle`).

### GlobalVar - the wait-queue device

`read_index`, `write_index` and `flag` are the static ints of
`waitqueue/waitqueue.c`, `var_lock` is the spinlock's holder, `waitq` the readers
asleep. `wait_event_interruptible` is spelled out as the macro does it (test,
queue, test again, sleep), because the order of the writer's `flag = 1` and
`wake_up_interruptible`, both after `spin_unlock`, matters against it. A byte is
identified by its index in `global_var`; the copy to or from user space may fail.
The code does not bound `write_index` by `LEN`; the model has `MaxBytes` as a
bound of the check and no array to run out of.

### BinderIO and BinderParcel - the binder_io cursor

`BinderIO` is the algorithm: one operator per function, over a record with the
fields of `struct binder_io`. Sizes are bytes, `size_t` wraps at `SizeMax`.
Contents are abstract: a set of cells, each an offset, a type and a value, so
reading at the wrong place or as the wrong type gives `Garbage`. `Own` are the
objects of the receiver itself: the driver hands those back as
`BINDER_TYPE_BINDER`, and `bio_get_ref` returns 0 for them. `BinderParcel`
drives it: a program puts items in any order, the buffer goes out through
`binder_call` (which refuses an overflowed buffer), through `binder_send_reply`
(which does not look) or is replaced by a status, and the receiver takes the
items out in the order of the layout.

### Registry and ServiceManager - the context manager

`Registry` is the abstract specification: a map from names to live services,
requests that take effect at one instant, deaths that clear a name some time
later. Its `policy` is what `service_manager.c:186` makes of `allow_isolated`:
the first registration of a name decides for good whether isolated callers are
told of its services. `R` in `ServiceManager` is the refinement mapping: the map
is read off `svclist` and the table of handles, a request has taken effect from
the step that changes `svclist` on, and the policy is the flag of the entry.

`ServiceManager` is `service_manager.c` together with what it needs of the driver: `node`, `strong` and `death` are its table of references, `todo` its
queue of work, `buf` the transaction buffers not yet freed. A `struct svcinfo`
is never freed by the code, so a pointer to one is its position in `svclist`.
`svcmgr_handler` runs between two ioctls, so `AddNew`/`AddAgain` (everything up
to `binder_acquire`), `AddAcquire`, `AddLink` and `binder_send_reply` are steps of
their own and callers and deaths may come in between. The override of a live
service (`svcinfo_death` called by `do_add_service`) is part of `AddAgain`.
`Send`, `Acquire`, `Done` and `Release` are the programs: `svcmgr_publish`,
`svcmgr_lookup` with its `binder_acquire` and `binder_done`, `binder_release`.

What is assumed of the driver, from how this code uses it: an ioctl is atomic; an
object gets the lowest free handle when first seen and keeps it while a
reference exists; the last release frees the handle and the death link with any
notification still queued; a second link on the same reference is refused; a
link requested on a dead object notifies at once; a dead caller's message stays
queued and its reply is dropped.

### Calls and LooperPool - calls and the server's threads

`Calls` is the abstract specification of what a client may rely on: a call is
executed at one instant and at most once, by a server that has not stopped; it
returns what that execution computed, a failure or a number no larger than the number
of calls made, or the caller gives up, executed or not. `C` in `LooperPool` is the
refinement mapping: a call is open while its caller is between the two ioctls of
`binder_call` (`phase`), and it is executed when its handler has come to an end
(`val`, read off `told`; a code the server does not know is executed as a failure).

`binder_call` turns its loop with one `binder_write_read` (`consumed` is
`write_consumed`); the server's threads read commands, parse them one by one,
run the handler, reply. `BR_SPAWN_LOOPER` creates a thread with a pointer to a
local of the case block: `scope` says whether that block has been left, and a
thread that reads through the pointer afterwards gets what was there or
anything. The static counter is read and written in separate steps (`++cnt` by
several threads is a data race). `pthread_create`, a thread and the whole process
may fail, and so may the ioctls: that of `binder_call` (`CallFails`, which stands
for `BR_FAILED_REPLY` too), that of the two loops (`LoopFails`), and, with the
result of `binder_write` ignored, those of `BC_ENTER_LOOPER` (`EnterLoop`: the
driver then asks main for no thread) and `BC_REGISTER_LOOPER` (`Register`: the
thread serves without being counted and no other is asked for). The write of a
reply (`binder.c:210`) has no failing branch of its own: it does not wait, so no
signal ends it, and its memory is the thread's stack; a reply the driver cannot
deliver ends the call with `BR_FAILED_REPLY`.

### BlockLayer, SampleBlk and Ramhd - the ram disks

`BlockLayer` is the kernel's side of a ram disk: programs with a request in
flight, the pages of the request, and two history variables, `stable` and
`seen`, from which `GoodEnd` says what a request may return: a read gets, in
every cell, the last completed write or one that overlapped it in time; a request
beyond the end fails and leaves no trace. A sector stands for one of its words,
because that is what `memcpy` moves at once.

`SampleBlk` is `sample_blk.c`: `sampleblk_request` on several CPUs with the queue
lock dropped from fetch to end, one step per segment; `sampleblk_alloc` as its
order of allocations (`AllocOrder`), undone backwards from any failure as the
labels do; `sampleblk_free` as `FreeOrder`. The kernel unloads no module whose
device is open, and `blk_cleanup_queue` waits for the queue to be empty and for
running request functions; nothing else waits. That a CPU still has the lock
inside `sampleblk_dev` to take after the last request was ended is why
`MemoryLive` depends on the order of the frees.

`Ramhd` has the two drivers `ramhd_mkreq.c` and `ramhd_req.c` side by side, as the
kernel may load both: the first copies in the submitting program with no lock,
the second on some CPU under the lock of the disk, chunk by chunk. `ramhd_req_func`
has no bounds check; the block layer's check against the capacity is taken as
given for it (and not for the other two, which check for themselves). Loading and
unloading of these two is in `Lifecycle`.

### Students - the lists of hlist2

A student is an address of `mem`; `g_student_list` is a sequence because
`classify_stu` stops at the first student of unknown sex, the hash lists are sets
because nothing depends on their order. `init_system` adds the roster one student
at a time, any of which may fail for want of memory; `student_mgt_exit` frees what
the three lists hold. The functions are exported and unlocked; calls are modelled
one at a time, and no caller is part of the repository.

### Epoll - the echo server and its clients

`srv`, `open`, `interest` and `events` are the server: its process, its
descriptors, its epoll set and what the last `epoll_wait` returned and the loop has
not come to; `rdl` is the kernel's list of ready descriptors (`Wake` and `Unlink` put a
descriptor on it and take it off). `buf` is the one buffer of `main`, zeroed before
each `read` (`Cleared`) and printed up to its first zero (`Printable`). `client` is
where each client program is: it connects, writes lines of a length `fgets` can return, stops
writing at the line "quit" or at the end of its input (where it spins), and closes
or is killed. `rx`, `fin` and `rst` are a connection: bytes not yet read, closed,
broken; `sent` and `printed` are histories of what was written to it and what was
printed of `buf` for it. The server never closes a descriptor, so a connection keeps its number.

Assumed of the kernel: a level-triggered epoll set reports ready descriptors in
turn (those reported go to the end of the list); data already received can be
read after a close or a reset; `read` reports a reset once and the end after that;
`accept` returns a queued connection even if it broke, and fails only for want of
descriptors; `EPOLL_CTL_ADD` succeeds.

### Lifecycle - loading and unloading

Fourteen modules, and `binder_open` with `binder_close`, as one state machine over a
table. An entry of the table is what a lab's `init` and `exit` do, in order: acquire
something that cannot fail (`Do`), that is checked (`Try`, with what the error path
undoes), that is not checked (`Hope`: the code goes on; `Must`: the null pointer is
followed at once; `Touch`: it is followed here), or give it back (`Put`), waiting
for calls in progress (`Drain`) or not. `uses` are the entries the kernel calls the
module through, with what those calls touch; `pins` says whether an open file
keeps the module loaded (`.owner = THIS_MODULE` outside of /proc). `held` is what is
acquired, `call` who is inside the module. Each acquisition fails or not, and
calls begin and end at any time.

Assumed of the kernel: `del_timer_sync`, `remove_proc_entry`,
`unregister_sysctl_table` and the removal of sysfs files wait for calls in progress
and let no new one in, `kobject_del` and `debugfs_remove` of something that is not
there do nothing, and deleting a sysfs directory takes its subdirectories along.

## 3. Runs

| Run | Instance | Shows |
|---|---|---|
| `globalvar` | 2 readers, 2 writers, 3 bytes in writes of 1 or 2 | `UnreadIsAnnounced`, `NoLostWakeup`, `DeliveredOnce`, and `EverythingRead` under fairness |
| `parcel` | 56-byte buffer, 2 offsets, 5 items of 7 kinds | `SpaceAccounted`, `OffsetsAreObjects`, `CallIsWhole`, `ReplyIsPrefix`, `FailureIsSeen` |
| `svcmgr` | 3 processes, 3 objects, 3 names, 10 requests | `RefsBalanced`, `NamesUnique`, `DeadIsNoticed`, `HandleUsable` |
| `svcmgr_refines` | the same processes, 3 requests: two registrations of one name, a lookup by an isolated caller | `Refines`: ServiceManager implements Registry; `CallsAnswered`, `DeadDropped` |
| `svcmgr_alias` | one object under two names | violates `DiedIsDead` (finding 1) |
| `pool` | 2 callers of 2 calls, main and 1 pool thread | `AtMostOnce`, `OwnAnswer`, `SpawnAccounted`, `CountInRange`; `ImplementsCalls`: LooperPool implements Calls; `CallsReturn` |
| `pool_args` | 2 callers of 1 call, 1 pool thread | violates `SpawnedGetsArgs` (finding 2) |
| `sampleblk` | 2 programs, 2 CPUs, 2 sectors, 2 values | `EndsRight`, `ServedOnce`, `MemoryLive`, `FailureUndone` |
| `ramhd` | 2 programs, 2 CPUs, a disk of each driver | `EndsRight`, `ReadIsSnapshot` |
| `students` | 2 names, 3 sexes, memory for 4 | `OneHome`, `OnlyStraysLeak` |
| `epoll` | 3 clients, 2 descriptors, 2 events at once, 2 lines of 1 or 3 bytes, a 5-byte buffer | `NeverBlocks`, `OnlyDeadLeak`, `PrintedAsSent`, `EveryoneServed` |
| `lifecycle` | all 15 labs, 2 callers | `EntriesBacked`, `NoLateCall`, `NothingElseLeft` |

**Bounds and why they are enough.** `MaxBytes` = 3 lets a write overlap a read,
another write and a second read. The parcel's 56 bytes hold two of the larger
items, so bytes run out before offsets and offsets before bytes, and small items
fit after a large one did not; `SizeMax` = 4096 stands for 2^32 and is beyond
every size the items can ask for. `MaxHandle` = 3 is one handle per object, so
reuse of a freed handle by another object happens and no handle is missing.
`MaxRefs` = 1 bounds a client that looks up without ever releasing. Two servers
contend for one name, one of them has a second service, and one caller has an
isolated uid. Two callers with two calls each let a call meet the pool's threads
at each stage of growing, and let a second call meet what the first one left.
Two programs with requests of one or two segments on two sectors overlap in part
or in full, and run past the end. Memory for four students lets both names be
classified and added again. Three clients are one more than the descriptors and
one more than the events of one `epoll_wait` besides the listener's; a 5-byte buffer
takes lines of up to 3 bytes, so two long ones fill it and leave a rest for the
next `read`, and a short one follows a long one of the same or another client
(`Lens`). One pool
thread and main's are enough for two handlers at once and for a request for a
thread to be made, lost or answered. Two callers let a call begin while another
is waited for.

**Fairness.** A thread inside a system call or running a program is scheduled
again: weak fairness of its steps. In `GlobalVar` taking the spinlock is strongly
fair (it is contended but always released) and so is a successful copy to the
user (a buffer does not fault for ever). Readers call `read` again after
returning, as the property asks; nobody has to write. In `ServiceManager` the
service manager and a caller holding a reply run; nobody has to call, release or
die. In `LooperPool` threads and callers run; no call has to be made and no
failure has to happen. In `Epoll` the server's process runs; clients need not do
anything.

**Type invariants** are checked in `globalvar`, `svcmgr` and `pool`; the `TypeOK` of the
other modules is written down for their proofs.

**Symmetry** is used for programs, threads, CPUs, values and addresses where the
run checks invariants only.

**Deadlock** is checked in `globalvar` and `ramhd`. The others may stop: a parcel
is read to its end, the programs may all be dead or have made their calls, the
server waits when no client is left, and a module that failed to load or was
unloaded is the end.

## 4. Findings

1. `svcmgr_alias`: `svcinfo_death` logs "service died" and drops the service, but
   a service registered under two names keeps only the death link of the first
   entry. When another service takes the first name over, the link is not
   cleared, and the death of the first object drops the living second one.
2. `pool_args`: a spawned thread reads its `struct binder_thread_desc` through a
   pointer to a local that its creator has left.

Seen while modelling, kept in the models as the code has them, without a run of
their own. Where a property would fail because of one, it names the case as an
exception and so does not catch it; it catches everything else:

- `do_add_service` does not store `allow_isolated` when it reuses an entry
  (`service_manager.c:186`), so the check at `:147` uses the flag of whichever
  service had the name first. `AddAgain` keeps the flag, and `Registry`'s `policy` says
  what that amounts to.
- `sampleblk_init` reports success when `sampleblk_alloc` failed
  (`sample_blk.c:207`-`:212`), and `sampleblk_exit` then follows a pointer that is
  NULL or was freed: `mod = "oops"` in `SampleBlk`.
- `classify_stu` drops a student of unknown sex from every list
  (`hlist2/hlist.c:157`), so unloading does not free it, although the comment at
  `:214` says that memory has to be released at exit. `OnlyStraysLeak` states that
  nothing else leaks.
- `add_stu` looks for the name only among students not yet classified
  (`hlist2/hlist.c:46`), so a name may be on several lists.
- The epoll server takes a closed connection off its set and never closes the
  descriptor (`epoll_server.c:139`): after as many connections as the process may
  have descriptors, `accept` fails and the server exits (`AcceptError`).
  `OnlyDeadLeak` states that nothing but closed, fully read connections is
  forgotten. Two lines read at once may fill `buf` and leave it without a
  terminator for `%s` (`:137`), and `printf` runs past it; one line is too short for
  that, because `fgets` is called with `BUFLN - 1`. The model prints what is in `buf`
  and not what lies behind it. The client
  spins at the end of its input (`epoll_client.c:86`).
- A thread that `pthread_create` could not make (`binder.c:298`) or that could not
  register (`:225`) leaves the driver waiting for it, and the pool never grows
  again: exceptions of `SpawnAccounted`. `CallsReturn` shows that calls return.
- `++cnt` of several threads loses updates and repeats numbers (`test_server.c:49`);
  `CountInRange` only bounds them.
- `test_driver` arms its timer before its data is allocated, leaves it armed when
  the allocation fails, and frees the data before deleting the timer
  (`test_trace_event.c:59`-`:72`): exceptions of `EntriesBacked` and `NoLateCall`.
- `debugfs_demo_init` declares a local `root` that hides the global one
  (`debugfs_demo.c:60`), so exit removes nothing. The same exceptions.
- Left behind by a failed init: the region of `demo_chr_dev.c:44`, the objects of
  the kobject and kset modules, the descriptor of `binder_open` when the version
  differs (`binder.c:128`), the first disk's space in `ramhd_mkreq.c:168`. Left by
  exit: the probe of `tracepoint-sample.c:53`, the objects `kobject_del` does not
  put; `kobj_create_add` deletes the parent twice and the child never
  (`kobj.c:63`-`:67`). `LeftByFailure` and `LeftByUnload` list them, and
  `NothingElseLeft` states that this is all.
- `ramhd_req.c:146` adds its disks without looking whether there is space for
  them; both drivers follow pointers of allocations they did not check.
- In `hlist1` the last bucket's `ch` is `'{'`, not the `'?'` of the comment at
  `hlist.c:14` (the test at `:40` is never true), `strlcpy` at `:105` drops the last
  character of a name, and the allocation at `:100` is not checked. Only the last
  is control, and in the model.

## 5. Proofs

TLAPS proves these for every value of the constants (any number of processes,
threads, objects, names, requests).

**KernelModuleProofs.** It extends three modules that share nothing, which is why
the specifications of two of them are called `SSpec` and `LSpec`. For `GlobalVar`: `Typing`, `Announced`, `WakeupNotLost`,
`ExactlyOnce`, from `Invariance`. The properties are not inductive alone: that no byte is skipped
needs that the spinlock's holder is the only thread in the critical section,
that a reader there computed `read_len` from the indexes as they still are, and
that a reader about to clear the flag has advanced to `write_index`; that a
sleeper is woken needs to know when a queued reader has seen the flag clear.
Assumptions: readers and writers are disjoint, lengths are positive.

For `Students`: `OneHomeTheorem` (`OneHome`) and `OnlyStraysLeakTheorem`
(`OnlyStraysLeak`), from `StudentsInvariance`, for any memory and any roster. The
invariant says that a student on a list is there once and on no other, and is in
memory (`HomeInv`), that whoever is on no list is of unknown sex (`StrayInv`), and that
a module that is not loaded has empty lists (`PhaseInv`). `classify_stu` is a loop
that stops at the first student of unknown sex; the lemma `Least` gives that student,
and what the loop moves is what is in front of it. Assumption: `StudentsAssumption` (the roster is a sequence of names
with sexes; free memory does not look like a student).

For `Lifecycle`: `EntriesBackedTheorem`, `NoLateCallTheorem`,
`NothingElseLeftTheorem`, from `LifecycleInvariance`, for any set of callers. The
steps of `init` and `exit` are data, so there are two halves. `Tidy` is what a table
keeps to: no step is skipped that others rely on (`SkipTidy`); a failure comes before
the entries are registered and undoes what came before it, or is listed as leaving it
(`FailTidy`); an entry comes after what its calls touch (`EntryTidy`) and goes before
it (`OrderTidy`); a module that cannot be pinned drains its entries (`TakeTidy`);
everything is given back or listed (`GiveTidy`). `AllTidy` shows it for each of the
fifteen tables, with the exceptions that the properties name. The other half is
`LifeInv`, for any tidy table: `todo` is the table from some position on, and from
that position follows what may be held, what must be held, and which calls may be in
progress (`LoadAt`, `UnloadAt`). Assumption: `LifecycleAssumption` (`NoCall` is no
entry).

**ServiceManagerProofs.** First `Typing`, `Balance` (`RefsBalanced`), `OneEntryPerName`
(`NamesUnique`) and `LookupUsable` (`HandleUsable`), from `Inductive`: the
invariant `IInv` is the conjunction of `TypeOK`, `NamesUnique`, `CurInv` (who is
being served, and that its message is still there with a handle), `QueueInv`
(transactions in `todo` are those of the messages not yet read, each once, and a
queued death has its link), `RefInv` (a handle refers to an object exactly when
its count is not zero, no object has two handles, links point into the list),
`ClientInv` (what a caller holds at each stage of `binder_call`) and
`RefsBalanced`. `RefsBalanced` alone does not survive a step: a release must find
a count above zero, which needs the entry or buffer that holds it to be counted
and not to be released twice; the queue invariant gives that no two steps free
one buffer. The cardinality lemmas at the head of the module say how the sets of
holders change by one element. Assumptions: `RegistryAssumption`, and that
`NoMsg` is no message.

Then what needs to know whose death is whose. These theorems have the hypothesis
`OneName`: a program registers each of its objects under one name that the
service manager accepts, as `test_server.c` does. It cannot be dropped: finding 1
is what happens without it. On top of `IInv` the invariant `LInv` says that a
message, an entry and a link go by the name of their object (`NameInv`), that a
death notification is queued behind the last message of the dead (`OrderInv`),
that every entry has the link of its handle or is about to request it and a link
to a dead service has its notification queued or being handled (`LinkInv`), and
that what a caller was answered is on the list until it is done with it
(`AnswerInv`). It gives `DeathNoticed` (`DeadIsNoticed`), `DeathTrue` (what
`svcinfo_death` is called for is dead: the property finding 1 violates, with one
name per object) and `Refinement` (`Refines`): `Registry` is implemented step by
step. `Acquire`, `Release`, `ReadTxn`, `ReadDeath`, `AddAcquire`, `AddLink` and
`binder_send_reply` change nothing the abstract state shows; `Send` is `Ask`, `Done` is
`Return`, `Die` is `Die`, `AddNew` and `AddAgain` are `Register`, `AddRefused` is
`Refuse`, `Answer` is `Lookup` or `Other`, and `svcinfo_death` is `Drop`.

**BinderParcelProofs.** `SpaceIsAccounted`, `OffsetsNameObjects`, `CallsAreWhole`,
`RepliesArePrefixes` and `FailuresAreSeen`, from `Invariance`. What a receiver reads
depends on where every item lies, which the state does not record, so `ParcelInv`
says that there are offsets `pos` such that the first `n` items lie one after the
other at them (`Layout`) and the receiver's cursor is at the next or has nothing
left (`Reading`). That `n` is short of what was put is possible only if the next item
is `Stuck`: no matter what is put after it, the buffer ends before that item would,
or the table of offsets is full and does not name it. This is why an overflowed reply
is a prefix although smaller items were stored after the one that failed. `SpaceInv`
keeps the bytes and the entries left from going below zero, which is what the
comparisons of `bio_alloc` and `bio_alloc_obj` are for; without it the sums of
`SpaceAccounted` would hold of any put.
The lemmas about `bio_alloc`, `bio_alloc_obj` and each `bio_put_*` and `bio_get_*` give
their outcomes (`CellPut`, `ObjectPut`, `Refused`), overflow of `size_t` included.
Assumptions: `ParcelAssumption` (a string at the limit `MAX_BIO_SIZE` does not
overflow `size_t`: the limit is 2^30) and `ItemsAssumption` (no NULL string and no
handle 0, which the callers in the repository never put and which would not be
read back as put).

**LooperPoolProofs.** `TypeCorrect`, `AtMostOnceTheorem`, `OwnAnswerTheorem`,
`SpawnTheorem` (`SpawnAccounted`), `CountTheorem` (`CountInRange`), from `Inductive`. A
call is in the queue once or with one thread, which has run its handler or not
(`RouteInv`); a caller's returns hold no answer but its own (`CallerInv`); the one
request for a thread is in one place, from `BR_SPAWN_LOOPER` to
`BC_REGISTER_LOOPER` or to the failure nobody looks at (`SpawnInv`). The counter is a data race, so no equation holds
for it: `CountInv` bounds every copy of it by the number of calls whose handler has
stored it. Assumption: `PoolAssumption` (finite sets; as many threads as the driver
may ask for).

`CallsTheorem` (`ImplementsCalls`) is the refinement of `Calls`, step by step: `Call` is
`Ask`; `Fetch`, the end of the handler, and `Handle` of an unknown code are `Execute`;
`CallParse` is `Return`, `Fail` or nothing, depending on the command it parses;
`CallFails` is `Fail`; the end of the process (`Crash`, `LoopFails` of the main thread) is
`Stop`; the rest is invisible to a client. It needs `AnswerInv` besides: a thread inside
`sayhello_to` has told its caller nothing yet, the number it fetches is at least 1, and
an answer on its way carries the result of a handler that has ended.

**BlockLayerProofs, SampleBlkProofs, RamhdProofs.** `BlockLayerProofs` has what the
three drivers share: `DataInv` (a cell holds what a read may return or what is
being written, and whoever touches a cell has seen the values others are
writing to it), `Done` (the first segments of a request were read, or are on the
disk unless an overlapping write came later) and `Kept` (what the steps of others
leave of a request). `SampleBlkProofs`: `TypeCorrect`, `EndsRightTheorem`,
`ServedOnceTheorem`, `MemoryLiveTheorem`, `FailureUndoneTheorem`, from `Inductive`; besides
`DataInv` it needs the way of a request from the queue to one CPU (`RouteInv`), how
far the CPU is with it (`ServeInv`), and that what is allocated follows from where the
module is (`LoadInv`: `Held` after so many allocations of `AllocOrder`, `Left` after so
many frees of `FreeOrder`, and a CPU still in the request function only while
everything is there). `RamhdProofs`: `TypeCorrect`, `EndsRightTheorem` and
`SnapshotTheorem` (`ReadIsSnapshot`), from `Inductive`; the lock of a disk is held by the
one CPU that serves it (`LockInv`), so what a read has copied is still on the disk
(`Snapshot`). Assumptions: `BlockAssumption`, `NoReqAssumption`, `OneDisk`,
`RamhdAssumption`.

**EpollProofs.** `ServerNeverBlocks`, `OnlyDeadOnesLeak` and `PrintsWhatWasSent`, from
`Invariance`. That a reported descriptor is still ready when the loop gets to it
needs that no descriptor is reported twice in one `epoll_wait`, hence that none is
twice on the ready list or in the queue of connections (`PlaceInv`), and that whatever
is on the list is ready (`ReadyInv`). `OnlyDeadLeak` survives a client's write because a
client whose connection is closed or broken is done (`EndInv`). `PrintedAsSent` is
inductive once a server that has not started is included (`StreamInv`): the lemma
`Terminated` says that a zeroed buffer with `n` bytes read into it prints as those
`n` bytes, `Carried` that they move from the socket to what was printed. Assumption:
`EpollAssumption`.

**Only model-checked.**

- Liveness, for which the prover has no rules for fairness: `EverythingRead`,
  `CallsAnswered`, `DeadDropped`, `CallsReturn`, `EveryoneServed`. The refinements of
  `Registry` and `Calls` are about safety, which is all that their `Spec`s state.
- That a deadlock is not reached in `globalvar` and `ramhd`: it is about `ENABLED`.

## 6. Not modelled

- `device-demo/*` and `kobject-example/hotplug`: what their exit does after a failed
  init is decided inside the driver core (`device_del` of a device that was never
  added), of which the repository shows nothing to model.
- The `seq_file` iterator of `seqfile_test.c`: four functions around one number; when
  they are called is the kernel's `seq_read`.
- `binder_become_context_manager` (one ioctl), the geometry ioctl of the ramhd
  drivers (constants), logging, string conversion (`str8`) and the permission
  stubs, which allow everything.
- The merging of requests by the elevator (reordering is modelled).
- `write_index` running past `global_var` (`waitqueue.c:55`): the model identifies
  bytes by index and has no array to run out of; nothing in the repository says
  how much may be written.
- The length 0xffffffff of a NULL string in `bio_get_string16` (`binder.c:687`):
  no program of the repository sends one.
- The demos of the last row of section 1, which keep no state.

## 7. Plan

1. (done) GlobalVar, BinderIO/BinderParcel, Registry/ServiceManager, LooperPool;
   BlockLayer/SampleBlk/Ramhd and Students; Epoll and Lifecycle.
2. (done) The proofs of section 5.
3. Next: action properties of the proved components that follow from their
   invariants; lemmas about sequences without repetition shared by `EpollProofs`
   and `LooperPoolProofs`.
