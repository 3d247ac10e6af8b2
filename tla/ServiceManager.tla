---------------------------- MODULE ServiceManager ----------------------------
(***************************************************************************)
(* The context manager of binder/service_manager.c, the programs that call *)
(* it (svcmgr_publish, svcmgr_lookup) and what both need of the binder     *)
(* driver: the service manager's table of references and its work queue.   *)
(*                                                                         *)
(* An ioctl is atomic (the driver runs it under one lock); a step of a     *)
(* program goes from one ioctl to the next.  A struct svcinfo is never     *)
(* freed, so a pointer to one is its position in `svclist', in the order   *)
(* of allocation: the head of the C list is the last element.              *)
(***************************************************************************)
EXTENDS Integers, Sequences, FiniteSets

CONSTANTS
  Procs, Objs, Names,
  NoObj, NoMsg, Nobody,
  Owner,       \* the process each object belongs to
  NameLen,     \* the length of each name
  Uid,         \* the effective uid of each process
  Requests,    \* what programs ask: [from, code, name, obj, allow, n]
  MaxHandle,   \* bound: handles of the service manager (one per object is enough)
  MaxRefs      \* bound: references a client collects on one object

Codes == {"ADD", "CHECK", "LIST", "PING", "BAD"}

ASSUME RegistryAssumption ==
  /\ Objs \cap {NoObj, "none", "ok", "fail"} = {} /\ Nobody \notin Procs /\ IsFiniteSet(Procs)
  /\ Owner \in [Objs -> Procs] /\ NameLen \in [Names -> Nat] /\ Uid \in [Procs -> Nat]
  /\ MaxHandle \in Nat /\ MaxRefs \in Nat
  /\ Requests \subseteq [from : Procs, code : Codes, name : Names,
                         obj : Objs \cup {NoObj}, allow : {0, 1}, n : Nat]
  /\ \A r \in Requests : r.obj # NoObj => r.code = "ADD" /\ Owner[r.obj] = r.from

Handles == 1..MaxHandle
Messages == [code : Codes, name : Names, handle : {0} \cup Handles, allow : {0, 1}, n : Nat]

\* NoMsg is no message of the driver, nor the registry's view of one.
ASSUME NoMsgAssumption ==
  NoMsg \notin Messages \cup [code : {"ADD", "CHECK", "OTHER"}, name : Names,
                              obj : Objs \cup {NoObj}, allow : {0, 1}]

VARIABLES
  alive,                 \* processes that have not exited or crashed
  call,                  \* where each process is in its binder_call
  got,                   \* what the last reply gave it
  cref,                  \* driver: its strong references on each object
  held,                  \* handles its program believes it holds
  node, strong, death,   \* driver: the service manager's reference table;
                         \* death[h] is the svcinfo linked to h, 0 if none
  todo,                  \* driver: the service manager's queue of work
  buf,                   \* driver: the message of each process, until freed
  svclist,               \* the service manager's list
  pc, cur, si, res       \* where it is, for whom, with which svcinfo, its answer
                         \* (locals, reset when the code is done with them)

clients == <<call, got, cref, held>>
refs == <<node, strong, death>>
server == <<svclist, pc, cur, si, res>>
vars == <<alive, clients, refs, todo, buf, server>>

Failed == [status |-> -1, handle |-> 0]
Ok(handle) == [status |-> 0, handle |-> handle]

Init ==
  /\ alive = Procs
  /\ call = [p \in Procs |-> "idle"] /\ got = [p \in Procs |-> "none"]
  /\ cref = [p \in Procs |-> [o \in Objs |-> 0]] /\ held = cref
  /\ node = [h \in Handles |-> NoObj]
  /\ strong = [h \in Handles |-> 0] /\ death = [h \in Handles |-> 0]
  /\ todo = <<>> /\ buf = [p \in Procs |-> NoMsg]
  /\ svclist = <<>>
  /\ pc = "loop" /\ cur = Nobody /\ si = 0 /\ res = Failed

-----------------------------------------------------------------------------
(* The driver (external) *)

Txn(p) == [kind |-> "txn", from |-> p]
Dead(h) == [kind |-> "dead", handle |-> h]

\* A strong reference more.
IncRef(h) ==
  /\ strong' = [strong EXCEPT ![h] = @ + 1]
  /\ UNCHANGED <<node, death>>

\* list_del: the queue without the death notification of h.
Unqueue(q, h) ==
  IF \E k \in DOMAIN q : q[k] = Dead(h)
  THEN LET k == CHOOSE k \in DOMAIN q : q[k] = Dead(h)
       IN  SubSeq(q, 1, k - 1) \o SubSeq(q, k + 1, Len(q))
  ELSE q

\* A strong reference less.  The last one takes the reference with it, and
\* the death notification linked to it, delivered or not; the handle is free.
DecRef(h) ==
  IF strong[h] > 1
  THEN /\ strong' = [strong EXCEPT ![h] = @ - 1] /\ UNCHANGED <<todo, node, death>>
  ELSE /\ strong' = [strong EXCEPT ![h] = 0]
       /\ node' = [node EXCEPT ![h] = NoObj]
       /\ death' = [death EXCEPT ![h] = 0]
       /\ todo' = Unqueue(todo, h)

\* The handle under which o reaches the service manager: the one it has, or
\* else the lowest that is free.
HandleFor(o) ==
  IF \E h \in Handles : node[h] = o
  THEN {h \in Handles : node[h] = o}
  ELSE {h \in Handles : node[h] = NoObj /\ \A g \in 1..(h - 1) : node[g] # NoObj}

\* A process exits or crashes.  A notification is queued for every object of
\* its that has a link; its message, if any, stays queued; its own references
\* go.
Die(p) ==
  LET gone == {h \in Handles : node[h] # NoObj /\ Owner[node[h]] = p /\ death[h] # 0}
  IN  /\ p \in alive
      /\ alive' = alive \ {p}
      /\ \E s \in [1..Cardinality(gone) -> gone] :
           /\ \A h \in gone : \E k \in DOMAIN s : s[k] = h
           /\ \A j, k \in DOMAIN s : s[j] = s[k] => j = k
           /\ todo' = todo \o [k \in DOMAIN s |-> Dead(s[k])]
      /\ call' = [call EXCEPT ![p] = "idle"] /\ got' = [got EXCEPT ![p] = "none"]
      /\ cref' = [cref EXCEPT ![p] = [o \in Objs |-> 0]]
      /\ held' = [held EXCEPT ![p] = [o \in Objs |-> 0]]
      /\ UNCHANGED <<refs, buf, server>>

-----------------------------------------------------------------------------
(* The callers *)

\* svcmgr_publish, svcmgr_lookup and the other calls: binder_call hands the
\* message to the driver and blocks.  An object in it becomes a handle that
\* the message's buffer holds.
Send(r) ==
  LET p == r.from
      Message(h) == [code |-> r.code, name |-> r.name, handle |-> h, allow |-> r.allow, n |-> r.n]
  IN  /\ p \in alive /\ call[p] = "idle"
      /\ r.code = "CHECK" => \A o \in Objs : cref[p][o] < MaxRefs
      /\ IF r.obj = NoObj
         THEN buf' = [buf EXCEPT ![p] = Message(0)] /\ UNCHANGED refs
         ELSE \E h \in HandleFor(r.obj) :
                /\ buf' = [buf EXCEPT ![p] = Message(h)]
                /\ node' = [node EXCEPT ![h] = r.obj]
                /\ strong' = [strong EXCEPT ![h] = @ + 1]
                /\ UNCHANGED death
      /\ todo' = Append(todo, Txn(p))
      /\ call' = [call EXCEPT ![p] = "wait"]
      /\ UNCHANGED <<alive, got, cref, held, server>>

\* Mutant: svcmgr_lookup relies on the reference the reply buffer holds.
Acquire_forgotten(p) ==
  /\ call[p] = "acquire"
  /\ call' = [call EXCEPT ![p] = "done"]
  /\ UNCHANGED <<alive, got, cref, held, refs, todo, buf, server>>

\* svcmgr_lookup: binder_acquire on the handle found, before the buffer goes.
Acquire(p) ==
  /\ call[p] = "acquire"
  /\ call' = [call EXCEPT ![p] = "done"]
  /\ cref' = [cref EXCEPT ![p][got[p]] = @ + 1]
  /\ UNCHANGED <<alive, got, held, refs, todo, buf, server>>

\* Mutant: reply->flags is not cleared and the buffer is freed twice.
Done_twice(p) ==
  /\ call[p] = "done"
  /\ call' = [call EXCEPT ![p] = "idle"] /\ got' = [got EXCEPT ![p] = "none"]
  /\ IF got[p] \in Objs
     THEN /\ cref' = [cref EXCEPT ![p][got[p]] = @ - 2]
          /\ held' = [held EXCEPT ![p][got[p]] = @ + 1]
     ELSE UNCHANGED <<cref, held>>
  /\ UNCHANGED <<alive, refs, todo, buf, server>>

\* binder_done frees the reply and with it the reference it holds; the handle
\* is returned.
Done(p) ==
  /\ call[p] = "done"
  /\ call' = [call EXCEPT ![p] = "idle"] /\ got' = [got EXCEPT ![p] = "none"]
  /\ IF got[p] \in Objs
     THEN /\ cref' = [cref EXCEPT ![p][got[p]] = @ - 1]
          /\ held' = [held EXCEPT ![p][got[p]] = @ + 1]
     ELSE UNCHANGED <<cref, held>>
  /\ UNCHANGED <<alive, refs, todo, buf, server>>

\* binder_release at the end of test_client's main.
Release(p, o) ==
  /\ call[p] = "idle" /\ held[p][o] > 0
  /\ held' = [held EXCEPT ![p][o] = @ - 1]
  /\ cref' = [cref EXCEPT ![p][o] = @ - 1]
  /\ UNCHANGED <<alive, call, got, refs, todo, buf, server>>

-----------------------------------------------------------------------------
(* The service manager: binder_loop, binder_parse and svcmgr_handler *)

\* BR_TRANSACTION
ReadTxn ==
  /\ pc = "loop" /\ todo # <<>> /\ Head(todo).kind = "txn"
  /\ cur' = Head(todo).from /\ pc' = "handler" /\ todo' = Tail(todo)
  /\ UNCHANGED <<alive, clients, refs, buf, svclist, si, res>>

\* BR_DEAD_BINDER: the cookie is the svcinfo that was linked.
ReadDeath ==
  /\ pc = "loop" /\ todo # <<>> /\ Head(todo).kind = "dead"
  /\ si' = death[Head(todo).handle] /\ pc' = "died" /\ todo' = Tail(todo)
  /\ UNCHANGED <<alive, clients, refs, buf, svclist, cur, res>>

\* svcinfo_death as called by binder_parse.
svcinfo_death ==
  /\ pc = "died" /\ pc' = "loop" /\ si' = 0
  /\ IF svclist[si].handle # 0
     THEN /\ DecRef(svclist[si].handle)
          /\ svclist' = [svclist EXCEPT ![si].handle = 0]
     ELSE UNCHANGED <<refs, todo, svclist>>
  /\ UNCHANGED <<alive, clients, buf, cur, res>>

Entries(s) == {i \in DOMAIN svclist : svclist[i].name = s}

\* Mutant: entries whose service died are passed over.
find_svc_live(s) ==
  LET live == {i \in Entries(s) : svclist[i].handle # 0}
  IN  IF live = {} THEN 0 ELSE CHOOSE i \in live : \A j \in live : j <= i

\* The walk of the C list finds the newest entry; 0 stands for NULL.
find_svc(s) ==
  IF Entries(s) = {} THEN 0
  ELSE CHOOSE i \in Entries(s) : \A j \in Entries(s) : j <= i

AID_USER == 100000
AID_ISOLATED_START == 99000
AID_ISOLATED_END == 99999
Isolated(p) ==
  LET appid == Uid[p] % AID_USER IN AID_ISOLATED_START <= appid /\ appid <= AID_ISOLATED_END

do_find_service(s, p) ==
  LET i == find_svc(s)
  IN  IF i = 0 THEN 0
      ELSE IF svclist[i].allow = 0 /\ Isolated(p) THEN 0 ELSE svclist[i].handle

msg == buf[cur]

\* The requests that change nothing: PING, a bad interface name or code, a
\* lookup, and the n-th entry counted from the head of the list.
Answer ==
  /\ pc = "handler" /\ msg.code # "ADD"
  /\ pc' = "reply"
  /\ res' = CASE msg.code = "PING"  -> Ok(0)
              [] msg.code = "BAD"   -> Failed
              [] msg.code = "LIST"  -> IF msg.n < Len(svclist) THEN Ok(0) ELSE Failed
              [] msg.code = "CHECK" -> Ok(do_find_service(msg.name, cur))
  /\ UNCHANGED <<alive, clients, refs, todo, buf, svclist, cur, si>>

CanAdd == msg.handle # 0 /\ NameLen[msg.name] # 0 /\ NameLen[msg.name] <= 127

\* do_add_service refuses: bad arguments, or malloc failed.
AddRefused ==
  /\ pc = "handler" /\ msg.code = "ADD"
  /\ CanAdd => find_svc(msg.name) = 0
  /\ pc' = "reply" /\ res' = Failed
  /\ UNCHANGED <<alive, clients, refs, todo, buf, svclist, cur, si>>

\* A name seen for the first time gets a svcinfo.
AddNew ==
  /\ pc = "handler" /\ msg.code = "ADD" /\ CanAdd /\ find_svc(msg.name) = 0
  /\ svclist' = Append(svclist, [name |-> msg.name, handle |-> msg.handle, allow |-> msg.allow])
  /\ si' = Len(svclist) + 1 /\ pc' = "acquire" /\ res' = Ok(0)
  /\ UNCHANGED <<alive, clients, refs, todo, buf, cur>>

\* Mutant: the handle of the old service is dropped without releasing it.
AddAgain_leak ==
  /\ pc = "handler" /\ msg.code = "ADD" /\ CanAdd /\ find_svc(msg.name) # 0
  /\ LET i == find_svc(msg.name)
     IN  /\ UNCHANGED <<refs, todo>>
         /\ svclist' = [svclist EXCEPT ![i].handle = msg.handle]
         /\ si' = i
  /\ pc' = "acquire" /\ res' = Ok(0)
  /\ UNCHANGED <<alive, clients, buf, cur>>

\* A known name keeps its svcinfo: the service in it, if any, is overridden
\* (svcinfo_death releases its handle) and allow_isolated stays as it was.
AddAgain ==
  /\ pc = "handler" /\ msg.code = "ADD" /\ CanAdd /\ find_svc(msg.name) # 0
  /\ LET i == find_svc(msg.name)
     IN  /\ IF svclist[i].handle # 0 THEN DecRef(svclist[i].handle)
                                     ELSE UNCHANGED <<refs, todo>>
         /\ svclist' = [svclist EXCEPT ![i].handle = msg.handle]
         /\ si' = i
  /\ pc' = "acquire" /\ res' = Ok(0)
  /\ UNCHANGED <<alive, clients, buf, cur>>

\* Mutant: the buffer's reference is thought to be enough.
AddAcquire_forgotten ==
  /\ pc = "acquire" /\ pc' = "link"
  /\ UNCHANGED <<alive, clients, refs, todo, buf, svclist, cur, si, res>>

\* binder_acquire(bs, handle)
AddAcquire ==
  /\ pc = "acquire" /\ pc' = "link"
  /\ IncRef(msg.handle)
  /\ UNCHANGED <<alive, clients, todo, buf, svclist, cur, si, res>>

\* Mutant: the link is assumed to be requested while the service lives.
AddLink_late ==
  /\ pc = "link" /\ pc' = "reply"
  /\ IF death[msg.handle] # 0 \/ Owner[node[msg.handle]] \notin alive THEN UNCHANGED death
     ELSE death' = [death EXCEPT ![msg.handle] = si]
  /\ UNCHANGED <<alive, clients, node, strong, todo, buf, svclist, cur, si, res>>

\* binder_link_to_death(bs, handle, &si->death).  The driver refuses a second
\* link on a reference, and notifies at once when the service is dead already.
AddLink ==
  /\ pc = "link" /\ pc' = "reply"
  /\ IF death[msg.handle] # 0 THEN UNCHANGED <<death, todo>>
     ELSE /\ death' = [death EXCEPT ![msg.handle] = si]
          /\ todo' = IF Owner[node[msg.handle]] \in alive THEN todo
                     ELSE <<Dead(msg.handle)>> \o todo
  /\ UNCHANGED <<alive, clients, node, strong, buf, svclist, cur, si, res>>

\* What a live caller makes of the answer.  An object of its own comes back
\* as a pointer, which bio_get_ref does not take for a handle; a handle that
\* refers to nothing makes the driver fail the call.
Found(p, o) == o # NoObj /\ Owner[o] # p
Deliver(p) ==
  LET o == IF res.handle = 0 THEN NoObj ELSE node[res.handle]
  IN  IF Found(p, o)
      THEN /\ call' = [call EXCEPT ![p] = "acquire"] /\ got' = [got EXCEPT ![p] = o]
           /\ cref' = [cref EXCEPT ![p][o] = @ + 1]
      ELSE /\ call' = [call EXCEPT ![p] = "done"]
           /\ got' = [got EXCEPT ![p] = IF res.status = 0 THEN "ok" ELSE "fail"]
           /\ UNCHANGED cref

\* Mutant: nothing is sent for a handler that failed.
binder_send_reply_silent ==
  /\ pc = "reply" /\ pc' = "loop"
  /\ cur' = Nobody /\ si' = 0 /\ res' = Failed
  /\ buf' = [buf EXCEPT ![cur] = NoMsg]
  /\ IF msg.handle # 0 THEN DecRef(msg.handle) ELSE UNCHANGED <<refs, todo>>
  /\ IF cur \in alive /\ res.status = 0 THEN Deliver(cur) ELSE UNCHANGED <<call, got, cref>>
  /\ UNCHANGED <<alive, held, svclist>>

\* binder_send_reply: one write that frees the message, with the reference it
\* holds, and replies.  The reply to a dead caller is dropped.
binder_send_reply ==
  /\ pc = "reply" /\ pc' = "loop"
  /\ cur' = Nobody /\ si' = 0 /\ res' = Failed
  /\ buf' = [buf EXCEPT ![cur] = NoMsg]
  /\ IF msg.handle # 0 THEN DecRef(msg.handle) ELSE UNCHANGED <<refs, todo>>
  /\ IF cur \in alive THEN Deliver(cur) ELSE UNCHANGED <<call, got, cref>>
  /\ UNCHANGED <<alive, held, svclist>>

-----------------------------------------------------------------------------
svcmgr ==
  \/ ReadTxn \/ ReadDeath \/ svcinfo_death
  \/ Answer \/ AddRefused \/ AddNew \/ AddAgain \/ AddAcquire \/ AddLink
  \/ binder_send_reply

caller(p) == Acquire(p) \/ Done(p)

Next ==
  \/ svcmgr
  \/ \E r \in Requests : Send(r)
  \/ \E p \in Procs : caller(p) \/ Die(p) \/ \E o \in Objs : Release(p, o)

Spec == Init /\ [][Next]_vars

\* The service manager's process and a caller with its reply are scheduled;
\* nobody has to call, to release or to die.
FairSpec == Spec /\ WF_vars(svcmgr) /\ \A p \in Procs : WF_vars(caller(p))

-----------------------------------------------------------------------------
Work == [kind : {"txn"}, from : Procs] \cup [kind : {"dead"}, handle : Handles]
Svcinfo == [name : Names, handle : {0} \cup Handles, allow : {0, 1}]
Pcs == {"loop", "handler", "died", "acquire", "link", "reply"}

TypeOK ==
  /\ alive \subseteq Procs
  /\ call \in [Procs -> {"idle", "wait", "acquire", "done"}]
  /\ got \in [Procs -> Objs \cup {"none", "ok", "fail"}]
  /\ cref \in [Procs -> [Objs -> Nat]] /\ held \in [Procs -> [Objs -> Nat]]
  /\ node \in [Handles -> Objs \cup {NoObj}]
  /\ strong \in [Handles -> Nat] /\ death \in [Handles -> Nat]
  /\ todo \in Seq(Work) /\ buf \in [Procs -> Messages \cup {NoMsg}]
  /\ svclist \in Seq(Svcinfo)
  /\ pc \in Pcs /\ cur \in Procs \cup {Nobody}
  /\ si \in 0..Len(svclist) /\ (pc \in {"died", "acquire", "link"} => si # 0)
  /\ res \in [status : {-1, 0}, handle : {0} \cup Handles]

\* Whoever holds a reference on handle h: the entries of the list (but not
\* the one whose binder_acquire is still to come) and the buffers of messages.
EntriesHolding(h) ==
  {i \in DOMAIN svclist : svclist[i].handle = h /\ ~(pc = "acquire" /\ i = si)}
BuffersHolding(h) == {p \in Procs : buf[p] # NoMsg /\ buf[p].handle = h}

\* The driver's count is exact: every binder_acquire is matched by one
\* release, over overrides, deaths, failures and freed buffers.
RefsBalanced ==
  \A h \in Handles :
    strong[h] = Cardinality(EntriesHolding(h)) + Cardinality(BuffersHolding(h))

\* No two entries have the same name, so a lookup does not depend on the
\* order of the list.
NamesUnique == \A i, j \in DOMAIN svclist : svclist[i].name = svclist[j].name => i = j

\* A dead service does not stay registered: its notification is queued, or
\* being handled, or about to be requested.
DeadIsNoticed ==
  \A i \in DOMAIN svclist :
    LET h == svclist[i].handle
    IN  h # 0 /\ Owner[node[h]] \notin alive =>
          \/ pc \in {"acquire", "link", "died"} /\ si = i
          \/ death[h] = i /\ \E k \in DOMAIN todo : todo[k] = Dead(h)

\* The "service died" of svcinfo_death, when the driver's notification leads
\* to it and it drops the service, is about a service that did die.
DiedIsDead ==
  pc = "died" /\ svclist[si].handle # 0 => Owner[node[svclist[si].handle]] \notin alive

\* A handle svcmgr_lookup returned stays valid until the program releases it.
HandleUsable == \A p \in Procs, o \in Objs : held[p][o] > 0 => cref[p][o] > 0

-----------------------------------------------------------------------------
(* Refinement: the list, the reference table and the messages in flight,    *)
(* seen as a Registry.                                                      *)

ObjOf(h) == IF h = 0 THEN NoObj ELSE node[h]

\* Whether the request svcmgr_handler works on has taken effect.
Effective(p) == p = cur /\ pc \in {"acquire", "link", "reply"}

reg == [s \in Names |-> IF find_svc(s) = 0 THEN NoObj ELSE ObjOf(svclist[find_svc(s)].handle)]

req == [p \in Procs |->
         IF buf[p] # NoMsg /\ ~Effective(p)
         THEN [code |-> IF buf[p].code \in {"ADD", "CHECK"} THEN buf[p].code ELSE "OTHER",
               name |-> buf[p].name, obj |-> ObjOf(buf[p].handle), allow |-> buf[p].allow]
         ELSE NoMsg]

ans == [p \in Procs |->
         IF p \notin alive THEN "none"
         ELSE IF Effective(p)
              THEN IF Found(p, ObjOf(res.handle)) THEN ObjOf(res.handle)
                   ELSE IF res.status = 0 THEN "ok" ELSE "fail"
         ELSE got[p]]

policy == [s \in Names |-> IF find_svc(s) = 0 THEN -1 ELSE svclist[find_svc(s)].allow]

R == INSTANCE Registry WITH reg <- reg, policy <- policy, req <- req, ans <- ans

\* The service manager implements the registry: a name never changes its
\* service by itself, is never dropped while the service lives, every
\* registration and lookup takes effect at one instant, and isolated callers
\* are told what the name's first registration lets them know.
Refines == R!Spec

\* Every call of a process that stays alive is answered.
CallsAnswered == \A p \in Procs : call[p] = "wait" ~> call[p] # "wait"

\* Every dead service is dropped, or overridden, in the end.
DeadDropped ==
  \A o \in Objs :
    Owner[o] \notin alive ~> \A i \in DOMAIN svclist :
                               svclist[i].handle = 0 \/ node[svclist[i].handle] # o
=============================================================================
