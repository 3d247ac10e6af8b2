------------------------------ MODULE Lifecycle ------------------------------
(***************************************************************************)
(* Loading and unloading.  The modules of the repository (and binder_open   *)
(* with binder_close) acquire what they need one piece at a time and give   *)
(* it back; each acquisition may fail, and meanwhile the kernel calls them  *)
(* through what they have registered.                                       *)
(*                                                                         *)
(* A lab is written down as what its init and exit do, in order.  Modules   *)
(* share nothing, so a behaviour is about one of them.                      *)
(***************************************************************************)
EXTENDS Naturals, FiniteSets, SequencesExt

CONSTANTS
  Callers,       \* CPUs and programs that may be inside a callback
  NoCall

Do(r)         == [op |-> "do",    r |-> r]                  \* cannot fail
Try(r, undo)  == [op |-> "try",   r |-> r, undo |-> undo]   \* on failure undo, return an error
Hope(r, n)    == [op |-> "hope",  r |-> r, skip |-> n]      \* on failure skip n steps and go on
Check(undo)   == [op |-> "check", r |-> "", undo |-> undo]  \* acquires nothing, may fail
Must(r)       == [op |-> "must",  r |-> r]                  \* uses it without a look
Touch(r)      == [op |-> "touch", r |-> r]                  \* follows the pointer
Put(r)        == [op |-> "put",   r |-> r, all |-> {r}]
PutAll(r, S)  == [op |-> "put",   r |-> r, all |-> S]       \* if r is there, S goes with it
Drain(r)      == [op |-> "drain", r |-> r]                  \* and waits for calls through r

\* A lab: its init and exit; the entries the kernel calls it through, with
\* what those calls touch; whether an open file keeps the module loaded.
Lab(load, unload, uses, pins) == [load |-> load, unload |-> unload, uses |-> uses, pins |-> pins]
None == [e \in {} |-> {}]

-----------------------------------------------------------------------------
\* Mutant: del_timer instead of del_timer_sync.
test_driver_del_timer ==
  Lab(<<Do("timer"), Try("global", <<>>)>>, <<Put("global"), Put("timer")>>,
      [timer |-> {"global"}], FALSE)

\* trace_events: the timer is armed before its data exists, and its data is
\* freed before it is deleted.  The function arms the timer again.
test_driver ==
  Lab(<<Do("timer"), Try("global", <<>>)>>, <<Put("global"), Drain("timer")>>,
      [timer |-> {"global"}], FALSE)

\* trace_point: opening the file calls the probe, which nobody unregisters.
sample == Lab(<<Try("proc", <<>>), Hope("probe", 0)>>, <<Drain("proc")>>, [proc |-> {}], FALSE)

\* debugfs: exit removes the global root, which init's local hides.
debugfs_demo ==
  Lab(<<Must("data"), Hope("dir", 0), Try("file", <<"dir", "data">>)>>, <<>>,
      [file |-> {"data"}], TRUE)

\* Mutant: the region is given back first.
demo_region_first ==
  Lab(<<Try("region", <<>>), Try("cdev", <<>>)>>, <<Put("region"), Put("cdev")>>,
      [cdev |-> {"region"}], TRUE)

\* char: a failing cdev_add keeps the region.
demo ==
  Lab(<<Try("region", <<>>), Try("cdev", <<>>)>>, <<Put("cdev"), Put("region")>>,
      [cdev |-> {"region"}], TRUE)

\* waitqueue: register_chrdev fails with a negative number, which is not 0.
globalvar == Lab(<<Hope("chrdev", 0)>>, <<Put("chrdev")>>, [chrdev |-> {}], TRUE)

\* seqfile, sysctl and single_open: one registration each.
ct == Lab(<<Try("proc", <<>>)>>, <<Drain("proc")>>, [proc |-> {}], FALSE)
sysctl_example == Lab(<<Try("header", <<>>)>>, <<Drain("header")>>, [header |-> {}], FALSE)
seq_file_demo == Lab(<<Hope("file", 0)>>, <<Put("file")>>, [file |-> {}], TRUE)

\* kobj_create_add: exit deletes the parent twice and the child never; the
\* child's directory goes with the parent's.  Neither object is put.
kobj_create_add ==
  Lab(<<Hope("parent", 1), Do("parentdir"), Try("child", <<>>), Do("childdir")>>,
      <<PutAll("parentdir", {"parentdir", "childdir"}), PutAll("parentdir", {"parentdir"})>>,
      None, FALSE)

\* kobj_init_add: the objects are static; a directory left over refers to the
\* memory of a module that is gone.
kobj_init_add ==
  Lab(<<Try("kobj", <<>>), Try("kobj1", <<>>)>>, <<Put("kobj"), Put("kobj1")>>, None, FALSE)

\* kset_init_register: objects are deleted and not put.
kset_example ==
  Lab(<<Try("kset", <<>>), Try("parent", <<>>), Do("parentdir"), Must("child"),
        Try("childdir", <<>>), Try("childattr", <<>>)>>,
      <<Drain("childattr"), Put("childdir"), Put("parentdir"), Put("kset")>>,
      [childattr |-> {"child"}], FALSE)

\* binder_open and binder_close: a version that differs leaves the descriptor open.
binder_open ==
  Lab(<<Try("bs", <<>>), Try("fd", <<"bs">>), Check(<<"bs">>), Try("mapped", <<"fd", "bs">>)>>,
      <<Put("mapped"), Put("fd"), Put("bs")>>, None, FALSE)

-----------------------------------------------------------------------------
\* The ram disks, two devices each.  alloc_ramdev stops at the first failure,
\* which nobody looks at.
alloc_ramdev == <<Hope("rdev1", 1), Hope("rdev2", 0)>>
clean_ramdev == <<Put("rdev1"), Put("rdev2")>>
ramhd_space_clean == <<Put("sdisk1"), Put("sdisk2")>>
DiskUses == [disk1 |-> {"sdisk1", "rdev1", "queue1"}, disk2 |-> {"sdisk2", "rdev2", "queue2"}]

del_disk(rdev, queue, gd, disk) == <<Touch(rdev), Put(disk), Put(gd), Put(queue)>>
del_disks ==
  del_disk("rdev1", "queue1", "gd1", "disk1") \o del_disk("rdev2", "queue2", "gd2", "disk2")

\* ramhd_mkreq.c: a failing ramhd_space_init keeps the space it has.
mkreq_space_init == <<Try("sdisk1", <<>>), Try("sdisk2", <<>>)>>
mkreq_disk(rdev, queue, gd, disk) ==
  <<Touch(rdev), Must(queue), Must(gd), Do(disk)>>
ramhd_mkreq ==
  Lab(mkreq_space_init \o alloc_ramdev \o <<Hope("major", 0)>>
        \o mkreq_disk("rdev1", "queue1", "gd1", "disk1") \o mkreq_disk("rdev2", "queue2", "gd2", "disk2"),
      del_disks \o clean_ramdev \o ramhd_space_clean \o <<Put("major")>>, DiskUses, TRUE)

\* ramhd_req.c: the failure of ramhd_space_init is not looked at either.
req_space_init == <<Hope("sdisk1", 1), Hope("sdisk2", 0)>>
req_disk(rdev, queue, gd, disk) ==
  <<Touch(rdev), Hope(gd, 0), Hope(queue, 0), Touch(gd), Touch(queue), Do(disk)>>
ramhd_req ==
  Lab(req_space_init \o alloc_ramdev \o <<Hope("major", 0)>>
        \o req_disk("rdev1", "queue1", "gd1", "disk1") \o req_disk("rdev2", "queue2", "gd2", "disk2"),
      del_disks \o <<Put("major")>> \o clean_ramdev \o ramhd_space_clean, DiskUses, TRUE)

-----------------------------------------------------------------------------
\* hlist1: a table of 27 buckets by the first character of a command.
Commands == <<"hello", "help", "scan", "???">>
First(name) == CASE name \in {"hello", "help"} -> 104 [] name = "scan" -> 115 [] name = "???" -> 63

\* 'a' is 97 and 'z' is 122.
node_type(name) == IF First(name) \in 97..122 THEN First(name) - 97 ELSE 26

\* Mutant: the bucket of everything else is left out.
Buckets_letters == 0..25

Buckets == 0..26

\* cmd_hash_cleanup frees the nodes of the buckets it goes through.
cmd_hash_cleanup(name) == IF node_type(name) \in Buckets THEN Put(name) ELSE PutAll(name, {})

hlist ==
  Lab([i \in DOMAIN Commands |-> Must(Commands[i])],
      [i \in DOMAIN Commands |-> cmd_hash_cleanup(Commands[i])], None, FALSE)

Labs ==
  [test_driver |-> test_driver, sample |-> sample, debugfs_demo |-> debugfs_demo, demo |-> demo,
   globalvar |-> globalvar, ct |-> ct, sysctl_example |-> sysctl_example,
   seq_file_demo |-> seq_file_demo, kobj_create_add |-> kobj_create_add,
   kobj_init_add |-> kobj_init_add, kset_example |-> kset_example, binder_open |-> binder_open,
   ramhd_mkreq |-> ramhd_mkreq, ramhd_req |-> ramhd_req, hlist |-> hlist]

ASSUME LifecycleAssumption == \A l \in DOMAIN Labs : NoCall \notin DOMAIN Labs[l].uses

-----------------------------------------------------------------------------
VARIABLES
  lab,           \* which of them
  phase,         \* "load", "in", "unload"; "failed", "gone" (no module any more); "oops"
  todo,          \* what init or exit has still to do
  held,          \* what it has
  call           \* the entry each caller is in

lvars == <<lab, phase, todo, held, call>>

L == Labs[lab]

LInit ==
  /\ lab \in DOMAIN Labs
  /\ phase = "load" /\ todo = L.load /\ held = {}
  /\ call = [c \in Callers |-> NoCall]

Step(op) == phase \in {"load", "unload"} /\ todo # <<>> /\ Head(todo).op = op

Acquire ==
  /\ \E op \in {"do", "try", "hope", "must"} : Step(op)
  /\ held' = held \cup {Head(todo).r} /\ todo' = Tail(todo)
  /\ UNCHANGED <<lab, phase, call>>

CheckPassed ==
  /\ Step("check")
  /\ todo' = Tail(todo)
  /\ UNCHANGED <<lab, phase, held, call>>

\* The labels at the end of the function.
Failure ==
  /\ Step("try") \/ Step("check")
  /\ phase' = "failed" /\ todo' = <<>> /\ held' = held \ ToSet(Head(todo).undo)
  /\ UNCHANGED <<lab, call>>

\* Nobody looks at the failure.
Ignored ==
  /\ Step("hope")
  /\ todo' = SubSeq(todo, 2 + Head(todo).skip, Len(todo))
  /\ UNCHANGED <<lab, phase, held, call>>

\* The null pointer is followed.
Oops ==
  /\ Step("must") \/ (Step("touch") /\ Head(todo).r \notin held)
  /\ phase' = "oops" /\ todo' = <<>>
  /\ UNCHANGED <<lab, held, call>>

Touched ==
  /\ Step("touch") /\ Head(todo).r \in held
  /\ todo' = Tail(todo)
  /\ UNCHANGED <<lab, phase, held, call>>

Release ==
  /\ Step("put")
  /\ held' = IF Head(todo).r \in held THEN held \ Head(todo).all ELSE held
  /\ todo' = Tail(todo)
  /\ UNCHANGED <<lab, phase, call>>

\* No new call comes through r, and those in progress are waited for.
Draining ==
  /\ Step("drain")
  /\ held' = held \ {Head(todo).r}
  /\ IF \E c \in Callers : call[c] = Head(todo).r
     THEN Head(todo).r \in held /\ UNCHANGED todo
     ELSE todo' = Tail(todo)
  /\ UNCHANGED <<lab, phase, call>>

\* init returns 0, exit returns.
Loaded ==
  /\ phase = "load" /\ todo = <<>> /\ phase' = "in"
  /\ UNCHANGED <<lab, todo, held, call>>

Unloaded ==
  /\ phase = "unload" /\ todo = <<>> /\ phase' = "gone"
  /\ UNCHANGED <<lab, todo, held, call>>

\* The kernel unloads no module that has an open file with an owner.
Unload ==
  /\ phase = "in" /\ (L.pins => \A c \in Callers : call[c] = NoCall)
  /\ phase' = "unload" /\ todo' = L.unload
  /\ UNCHANGED <<lab, held, call>>

\* A timer expires, a file is opened or read, a request is made.  A module on
\* its way out cannot be pinned.
Call(c) ==
  /\ call[c] = NoCall /\ phase # "oops" /\ (phase = "unload" => ~L.pins)
  /\ \E e \in DOMAIN L.uses \cap held : call' = [call EXCEPT ![c] = e]
  /\ UNCHANGED <<lab, phase, todo, held>>

Return(c) ==
  /\ call[c] # NoCall /\ call' = [call EXCEPT ![c] = NoCall]
  /\ UNCHANGED <<lab, phase, todo, held>>

LNext ==
  \/ Acquire \/ CheckPassed \/ Failure \/ Ignored \/ Oops \/ Touched \/ Release
  \/ Draining \/ Loaded \/ Unload \/ Unloaded
  \/ \E c \in Callers : Call(c) \/ Return(c)

LSpec == LInit /\ [][LNext]_lvars

-----------------------------------------------------------------------------
LTypeOK ==
  /\ lab \in DOMAIN Labs
  /\ phase \in {"load", "in", "unload", "failed", "gone", "oops"}
  /\ call \in [Callers -> DOMAIN L.uses \cup {NoCall}]

\* Whenever the kernel can call a module, or a call is in progress, what the
\* call touches is there: init registers last and exit unregisters first.
\* Two modules do not keep to it: the timer of test_driver runs before its data
\* is allocated and after it is freed, and ramhd_req adds disks without space.
EntriesBacked ==
  \A e \in DOMAIN L.uses : (e \in held \/ \E c \in Callers : call[c] = e) =>
    \A r \in L.uses[e] \ held :
      <<lab, r>> \in {<<"test_driver", "global">>, <<"ramhd_req", "sdisk1">>, <<"ramhd_req", "sdisk2">>}

\* No call of a module is in progress when its code is gone, although calls
\* start at any time: exit waits for those it cannot refuse.  Where init fails
\* with an entry registered, or exit removes nothing, it can happen.
NoLateCall ==
  phase \in {"failed", "gone"} /\ (\E c \in Callers : call[c] # NoCall) =>
    <<lab, phase>> \in {<<"test_driver", "failed">>, <<"debugfs_demo", "gone">>}

\* What init leaves behind when it fails half way, at whichever step.
LeftByFailure ==
  [l \in DOMAIN Labs |->
    CASE l = "test_driver" -> {"timer"}
      [] l = "demo" -> {"region"}
      [] l = "kobj_create_add" -> {"parent", "parentdir"}
      [] l = "kobj_init_add" -> {"kobj"}
      [] l = "kset_example" -> {"kset", "parent", "parentdir", "child", "childdir"}
      [] l = "binder_open" -> {"fd"}
      [] l = "ramhd_mkreq" -> {"sdisk1"}
      [] OTHER -> {}]

\* What exit does not undo.
LeftByUnload ==
  [l \in DOMAIN Labs |->
    CASE l = "sample" -> {"probe"}
      [] l = "debugfs_demo" -> {"data", "dir", "file"}
      [] l = "kobj_create_add" -> {"parent", "child", "childdir"}
      [] l = "kset_example" -> {"parent", "child"}
      [] OTHER -> {}]

\* A failed init and an exit leave nothing but that, in whichever order things
\* failed and were called before: all other modules give back everything.
NothingElseLeft ==
  /\ phase = "failed" => held \subseteq LeftByFailure[lab]
  /\ phase = "gone" => held \subseteq LeftByUnload[lab]
=============================================================================
