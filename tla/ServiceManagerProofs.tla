------------------------- MODULE ServiceManagerProofs -------------------------
(***************************************************************************)
(* For any processes, objects, names and requests: the service manager     *)
(* balances its references, keeps names unique and follows only valid      *)
(* svcinfo pointers, and the handles it gives out stay usable.  When every *)
(* object goes by one name, it notices every death and implements the      *)
(* registry.                                                               *)
(***************************************************************************)
EXTENDS ServiceManager, FiniteSetTheorems, SequenceTheorems, TLAPS

-----------------------------------------------------------------------------
(* The work queue: which work is in it, each once *)

In(x, q) == \E k \in DOMAIN q : q[k] = x
Distinct(q) == \A j, k \in DOMAIN q : q[j] = q[k] => j = k
Before(q, x, y) == \A j, k \in DOMAIN q : q[j] = x /\ q[k] = y => j < k

LEMMA WorkType ==
  /\ \A p \in Procs : Txn(p) \in Work
  /\ \A h \in Handles : Dead(h) \in Work
  /\ \A p \in Procs, h \in Handles : Txn(p) # Dead(h)
  /\ \A p, q \in Procs : Txn(p) = Txn(q) => p = q
  /\ \A g, h \in Handles : Dead(g) = Dead(h) => g = h
  BY DEF Txn, Dead, Work

\* Queues that differ by one item, in terms of their positions.
LEMMA QueueMore ==
  ASSUME NEW q \in Seq(Work), NEW u \in Seq(Work), NEW w, NEW k \in DOMAIN u,
         Distinct(q), ~In(w, q), Len(u) = Len(q) + 1, u[k] = w,
         \A j \in 1..(k - 1) : u[j] = q[j],
         \A j \in k..Len(q) : u[j + 1] = q[j]
  PROVE  /\ Distinct(u) /\ \A x : In(x, u) <=> In(x, q) \/ x = w
         /\ \A x, y : Before(q, x, y) /\ x # w /\ y # w => Before(u, x, y)
  <1>1. \A j \in DOMAIN u : \/ j < k /\ j \in DOMAIN q /\ u[j] = q[j]
                            \/ j = k
                            \/ j > k /\ j - 1 \in DOMAIN q /\ u[j] = q[j - 1]
    OBVIOUS
  <1>2. Distinct(u)
    <2>1. \A j \in DOMAIN q : q[j] # w BY DEF In
    <2>2. \A i, j \in DOMAIN q : q[i] = q[j] => i = j BY DEF Distinct
    <2> SUFFICES ASSUME NEW i \in DOMAIN u, NEW j \in DOMAIN u, u[i] = u[j] PROVE i = j
      BY DEF Distinct
    <2> QED BY <1>1, <2>1, <2>2
  <1>3. ASSUME NEW x, In(x, u) PROVE In(x, q) \/ x = w
    BY <1>1, <1>3 DEF In
  <1>4. ASSUME NEW x, In(x, q) PROVE In(x, u)
    <2>1. PICK j \in DOMAIN q : q[j] = x BY <1>4 DEF In
    <2>2. CASE j < k
      <3>1. j \in DOMAIN u /\ u[j] = x BY <2>1, <2>2
      <3> QED BY <3>1 DEF In
    <2>3. CASE j >= k
      <3>1. j + 1 \in DOMAIN u /\ u[j + 1] = x BY <2>1, <2>3
      <3> QED BY <3>1 DEF In
    <2> QED BY <2>1, <2>2, <2>3
  <1>5. In(w, u) BY DEF In
  <1>6. ASSUME NEW x, NEW y, Before(q, x, y), x # w, y # w PROVE Before(u, x, y)
    <2>1. \A i, j \in DOMAIN q : q[i] = x /\ q[j] = y => i < j BY <1>6 DEF Before
    <2> SUFFICES ASSUME NEW i \in DOMAIN u, NEW j \in DOMAIN u, u[i] = x, u[j] = y PROVE i < j
      BY DEF Before
    <2> QED BY <1>1, <1>6, <2>1
  <1> QED BY <1>2, <1>3, <1>4, <1>5, <1>6

LEMMA QueueLess ==
  ASSUME NEW q \in Seq(Work), NEW u \in Seq(Work), NEW w, NEW k \in DOMAIN q,
         Distinct(q), Len(u) = Len(q) - 1, q[k] = w,
         \A j \in 1..(k - 1) : u[j] = q[j],
         \A j \in k..(Len(q) - 1) : u[j] = q[j + 1]
  PROVE  /\ Distinct(u) /\ \A x : In(x, u) <=> In(x, q) /\ x # w
         /\ \A x, y : Before(q, x, y) => Before(u, x, y)
  <1>1. \A j \in DOMAIN u : \/ j < k /\ j \in DOMAIN q /\ u[j] = q[j]
                            \/ j >= k /\ j + 1 \in DOMAIN q /\ u[j] = q[j + 1]
    OBVIOUS
  <1>2. Distinct(u) BY <1>1 DEF Distinct
  <1>3. ASSUME NEW x, In(x, u) PROVE In(x, q) /\ x # w
    <2>1. PICK j \in DOMAIN u : u[j] = x BY <1>3 DEF In
    <2> QED BY <1>1, <2>1 DEF In, Distinct
  <1>4. ASSUME NEW x, In(x, q), x # w PROVE In(x, u)
    <2>1. PICK j \in DOMAIN q : q[j] = x BY <1>4 DEF In
    <2>2. CASE j < k
      <3>1. j \in DOMAIN u /\ u[j] = x BY <2>1, <2>2
      <3> QED BY <3>1 DEF In
    <2>3. CASE j > k
      <3>1. j - 1 \in DOMAIN u /\ j - 1 \in k..(Len(q) - 1) BY <2>1, <2>3
      <3>2. u[j - 1] = q[(j - 1) + 1] BY <3>1
      <3>3. u[j - 1] = x BY <2>1, <3>2
      <3> QED BY <3>1, <3>3 DEF In
    <2> QED BY <1>4, <2>1, <2>2, <2>3
  <1>5. ASSUME NEW x, NEW y, Before(q, x, y) PROVE Before(u, x, y)
    <2>1. \A i, j \in DOMAIN q : q[i] = x /\ q[j] = y => i < j BY <1>5 DEF Before
    <2> SUFFICES ASSUME NEW i \in DOMAIN u, NEW j \in DOMAIN u, u[i] = x, u[j] = y PROVE i < j
      BY DEF Before
    <2> QED BY <1>1, <2>1
  <1> QED BY <1>2, <1>3, <1>4, <1>5

LEMMA QueueAppend ==
  ASSUME NEW q \in Seq(Work), NEW w \in Work, Distinct(q), ~In(w, q)
  PROVE  /\ Append(q, w) \in Seq(Work) /\ Distinct(Append(q, w))
         /\ \A x : In(x, Append(q, w)) <=> In(x, q) \/ x = w
         /\ \A x, y : Before(q, x, y) /\ x # w /\ y # w => Before(Append(q, w), x, y)
  <1> DEFINE u == Append(q, w)
             k == Len(q) + 1
  <1>1. /\ u \in Seq(Work) /\ Len(u) = Len(q) + 1 /\ k \in DOMAIN u /\ u[k] = w
        /\ \A j \in 1..(k - 1) : u[j] = q[j]
        /\ \A j \in k..Len(q) : u[j + 1] = q[j]
    OBVIOUS
  <1> HIDE DEF u, k
  <1>2. /\ Distinct(u) /\ \A x : In(x, u) <=> In(x, q) \/ x = w
        /\ \A x, y : Before(q, x, y) /\ x # w /\ y # w => Before(u, x, y)
    BY <1>1, QueueMore
  <1> QED BY <1>1, <1>2 DEF u

LEMMA QueuePush ==
  ASSUME NEW q \in Seq(Work), NEW w \in Work, Distinct(q), ~In(w, q)
  PROVE  /\ <<w>> \o q \in Seq(Work) /\ Distinct(<<w>> \o q)
         /\ \A x : In(x, <<w>> \o q) <=> In(x, q) \/ x = w
         /\ \A x, y : Before(q, x, y) /\ x # w /\ y # w => Before(<<w>> \o q, x, y)
  <1> DEFINE u == <<w>> \o q
  <1>0. <<w>> \in Seq(Work) /\ Len(<<w>>) = 1 /\ <<w>>[1] = w OBVIOUS
  <1>1. /\ u \in Seq(Work) /\ Len(u) = Len(q) + 1 /\ 1 \in DOMAIN u /\ u[1] = w
        /\ \A j \in 1..0 : u[j] = q[j]
        /\ \A j \in 1..Len(q) : u[j + 1] = q[j]
    BY <1>0, ConcatProperties
  <1> HIDE DEF u
  <1>2. /\ Distinct(u) /\ \A x : In(x, u) <=> In(x, q) \/ x = w
        /\ \A x, y : Before(q, x, y) /\ x # w /\ y # w => Before(u, x, y)
    BY <1>1, QueueMore
  <1> QED BY <1>1, <1>2 DEF u

LEMMA QueuePop ==
  ASSUME NEW q \in Seq(Work), Distinct(q), q # <<>>
  PROVE  /\ Tail(q) \in Seq(Work) /\ Distinct(Tail(q))
         /\ In(Head(q), q) /\ Head(q) \in Work
         /\ \A x : In(x, Tail(q)) <=> In(x, q) /\ x # Head(q)
         /\ \A x, y : Before(q, x, y) => Before(Tail(q), x, y)
  <1> DEFINE u == Tail(q)
  <1>1. /\ u \in Seq(Work) /\ Len(u) = Len(q) - 1 /\ 1 \in DOMAIN q
        /\ q[1] = Head(q) /\ Head(q) \in Work
        /\ \A j \in 1..0 : u[j] = q[j]
        /\ \A j \in 1..(Len(q) - 1) : u[j] = q[j + 1]
    OBVIOUS
  <1> HIDE DEF u
  <1>2. /\ Distinct(u) /\ \A x : In(x, u) <=> In(x, q) /\ x # Head(q)
        /\ \A x, y : Before(q, x, y) => Before(u, x, y)
    BY <1>1, QueueLess
  <1>3. In(Head(q), q) BY <1>1 DEF In
  <1> QED BY <1>1, <1>2, <1>3 DEF u

LEMMA QueueDelete ==
  ASSUME NEW q \in Seq(Work), NEW h \in Handles, Distinct(q)
  PROVE  /\ Unqueue(q, h) \in Seq(Work) /\ Distinct(Unqueue(q, h))
         /\ \A x : In(x, Unqueue(q, h)) <=> In(x, q) /\ x # Dead(h)
         /\ \A x, y : Before(q, x, y) => Before(Unqueue(q, h), x, y)
  <1>1. CASE ~In(Dead(h), q)
    BY <1>1 DEF Unqueue, In
  <1>2. CASE In(Dead(h), q)
    <2> DEFINE k == CHOOSE k \in DOMAIN q : q[k] = Dead(h)
               a == SubSeq(q, 1, k - 1)
               b == SubSeq(q, k + 1, Len(q))
               u == a \o b
    <2>1. k \in DOMAIN q /\ q[k] = Dead(h) BY <1>2 DEF In
    <2>2. Unqueue(q, h) = u BY <1>2 DEF Unqueue, In
    <2> HIDE DEF k
    <2>3. /\ a \in Seq(Work) /\ Len(a) = k - 1 /\ b \in Seq(Work) /\ Len(b) = Len(q) - k
          /\ \A j \in 1..(k - 1) : a[j] = q[j]
          /\ \A j \in 1..(Len(q) - k) : b[j] = q[j + k]
      BY <2>1
    <2> HIDE DEF a, b
    <2>4. /\ u \in Seq(Work) /\ Len(u) = Len(q) - 1
          /\ \A j \in 1..(k - 1) : u[j] = q[j]
      BY <2>1, <2>3, ConcatProperties
    <2>5. ASSUME NEW j \in k..(Len(q) - 1) PROVE u[j] = q[j + 1]
      <3>1. j - (k - 1) \in 1..(Len(q) - k) BY <2>1
      <3>2. u[j] = b[j - (k - 1)] BY <2>1, <2>3, ConcatProperties
      <3>3. b[j - (k - 1)] = q[(j - (k - 1)) + k] BY <3>1, <2>3
      <3> QED BY <2>1, <3>2, <3>3
    <2> HIDE DEF u
    <2>6. /\ Distinct(u) /\ \A x : In(x, u) <=> In(x, q) /\ x # Dead(h)
          /\ \A x, y : Before(q, x, y) => Before(u, x, y)
      BY <2>1, <2>4, <2>5, QueueLess
    <2> QED BY <2>2, <2>4, <2>6
  <1> QED BY <1>1, <1>2

LEMMA QueueConcat ==
  ASSUME NEW q \in Seq(Work), NEW d \in Seq(Work), Distinct(q), Distinct(d),
         \A x : ~(In(x, q) /\ In(x, d))
  PROVE  /\ q \o d \in Seq(Work) /\ Distinct(q \o d)
         /\ \A x : In(x, q \o d) <=> In(x, q) \/ In(x, d)
         /\ \A x, y : Before(q, x, y) /\ ~In(x, d) => Before(q \o d, x, y)
  <1> DEFINE u == q \o d
             n == Len(d)
  <1>1. u \in Seq(Work) /\ Len(u) = Len(q) + n /\ n \in Nat
    BY ConcatProperties
  <1>2. \A k \in 1..(Len(q) + n) : u[k] = IF k <= Len(q) THEN q[k] ELSE d[k - Len(q)]
    BY ConcatProperties
  <1>3. DOMAIN q = 1..Len(q) /\ DOMAIN d = 1..n /\ DOMAIN u = 1..(Len(q) + n) /\ Len(q) \in Nat
    BY <1>1
  <1> HIDE DEF u, n
  <1>4. \A k \in DOMAIN u : \/ k \in DOMAIN q /\ u[k] = q[k]
                            \/ /\ k - Len(q) \in DOMAIN d /\ u[k] = d[k - Len(q)]
                               /\ k \notin DOMAIN q
    BY <1>1, <1>2, <1>3
  <1>5. \A j \in DOMAIN q, k \in DOMAIN d : q[j] # d[k] BY DEF In
  <1>6. Distinct(u)
    <2> SUFFICES ASSUME NEW j \in DOMAIN u, NEW k \in DOMAIN u, u[j] = u[k] PROVE j = k
      BY DEF Distinct
    <2>1. CASE j \in DOMAIN q /\ k \in DOMAIN q BY <2>1, <1>4 DEF Distinct
    <2>2. CASE j \notin DOMAIN q /\ k \notin DOMAIN q
      <3>1. j - Len(q) = k - Len(q) BY <2>2, <1>4 DEF Distinct
      <3> QED BY <3>1, <1>3
    <2> QED BY <2>1, <2>2, <1>4, <1>5
  <1>7. ASSUME NEW x, In(x, u) PROVE In(x, q) \/ In(x, d)
    BY <1>7, <1>4 DEF In
  <1>8. ASSUME NEW x, In(x, q) PROVE In(x, u)
    <2>1. PICK j \in DOMAIN q : q[j] = x BY <1>8 DEF In
    <2>2. j \in DOMAIN u /\ u[j] = x BY <2>1, <1>1, <1>2, <1>3
    <2> QED BY <2>2 DEF In
  <1>9. ASSUME NEW x, In(x, d) PROVE In(x, u)
    <2>1. PICK k \in DOMAIN d : d[k] = x BY <1>9 DEF In
    <2>2. k + Len(q) \in DOMAIN u /\ ~(k + Len(q) <= Len(q)) /\ (k + Len(q)) - Len(q) = k
      BY <1>1, <1>3, <2>1
    <2>3. u[k + Len(q)] = x BY <1>2, <1>3, <2>1, <2>2
    <2> QED BY <2>2, <2>3 DEF In
  <1>10. ASSUME NEW x, NEW y, Before(q, x, y), ~In(x, d) PROVE Before(u, x, y)
    <2>1. \A i, j \in DOMAIN q : q[i] = x /\ q[j] = y => i < j BY <1>10 DEF Before
    <2> SUFFICES ASSUME NEW i \in DOMAIN u, NEW j \in DOMAIN u, u[i] = x, u[j] = y PROVE i < j
      BY DEF Before
    <2>2. i \in DOMAIN q /\ q[i] = x BY <1>4, <1>10 DEF In
    <2>3. CASE j \in DOMAIN q
      <3>1. q[j] = y BY <1>4, <2>3
      <3> QED BY <2>1, <2>2, <2>3, <3>1
    <2>4. CASE j \notin DOMAIN q BY <1>1, <1>3, <2>2, <2>4
    <2> QED BY <2>3, <2>4
  <1> QED BY <1>1, <1>6, <1>7, <1>8, <1>9, <1>10 DEF u

-----------------------------------------------------------------------------
(* The inductive invariant *)

Busy == {"handler", "acquire", "link", "reply"}

\* The request being handled is still in its buffer, and the entry that
\* do_add_service works on holds the handle of the message.
CurInv ==
  /\ pc \in Busy => cur \in Procs /\ buf[cur] # NoMsg
  /\ pc \in {"acquire", "link"} =>
       /\ buf[cur].handle # 0
       /\ si \in DOMAIN svclist /\ svclist[si].handle = buf[cur].handle

\* Each piece of work is queued once; a queued message is in its buffer, and
\* a queued notification has a link on a dead service.
QueueInv ==
  /\ Distinct(todo)
  /\ \A p \in Procs : In(Txn(p), todo) => buf[p] # NoMsg /\ (pc \in Busy => p # cur)
  /\ \A h \in Handles : In(Dead(h), todo) => death[h] # 0 /\ Owner[node[h]] \notin alive

\* A reference exists as long as it is counted, and has a link only then.
RefInv ==
  /\ \A h \in Handles : node[h] # NoObj <=> strong[h] > 0
  /\ \A h \in Handles : death[h] # 0 => node[h] # NoObj
  /\ \A h \in Handles : death[h] \in 0..Len(svclist)

\* What svcmgr_lookup has not finished with: the buffer's reference, then its
\* own as well.
Pending(p, o) ==
  IF got[p] # o THEN 0
  ELSE IF call[p] = "acquire" THEN 1 ELSE IF call[p] = "done" THEN 2 ELSE 0

ClientInv ==
  /\ \A p \in alive : buf[p] # NoMsg => call[p] = "wait"
  /\ \A p \in Procs : call[p] = "acquire" => got[p] \in Objs
  /\ \A p \in Procs, o \in Objs : cref[p][o] = held[p][o] + Pending(p, o)

IInv == TypeOK /\ NamesUnique /\ CurInv /\ QueueInv /\ RefInv /\ ClientInv /\ RefsBalanced

\* The counted sets are finite.
LEMMA HoldersFinite ==
  ASSUME TypeOK, NEW h
  PROVE  /\ IsFiniteSet(EntriesHolding(h)) /\ Cardinality(EntriesHolding(h)) \in Nat
         /\ IsFiniteSet(BuffersHolding(h)) /\ Cardinality(BuffersHolding(h)) \in Nat
  <1>1. IsFiniteSet(DOMAIN svclist)
    <2>1. DOMAIN svclist = 1..Len(svclist) /\ Len(svclist) \in Nat BY DEF TypeOK
    <2> QED BY <2>1, FS_Interval
  <1>2. IsFiniteSet(EntriesHolding(h))
    BY <1>1, FS_Subset DEF EntriesHolding
  <1>3. IsFiniteSet(BuffersHolding(h))
    BY RegistryAssumption, FS_Subset DEF BuffersHolding
  <1> QED BY <1>2, <1>3, FS_CardinalityType

\* BC_RELEASE and BC_FREE_BUFFER on a handle that is held.
LEMMA DecRefStep ==
  ASSUME TypeOK, Distinct(todo), NEW h \in Handles, strong[h] > 0, DecRef(h)
  PROVE  /\ strong' = [strong EXCEPT ![h] = @ - 1]
         /\ strong' \in [Handles -> Nat] /\ death' \in [Handles -> Nat]
         /\ node' \in [Handles -> Objs \cup {NoObj}]
         /\ todo' \in Seq(Work) /\ Distinct(todo')
         /\ \A x : In(x, todo') => In(x, todo)
         /\ \A x : In(x, todo) /\ x # Dead(h) => In(x, todo')
         /\ \A x, y : Before(todo, x, y) => Before(todo', x, y)
         /\ \/ strong[h] > 1 /\ UNCHANGED <<node, death, todo>>
            \/ /\ strong[h] = 1 /\ ~In(Dead(h), todo')
               /\ node' = [node EXCEPT ![h] = NoObj]
               /\ death' = [death EXCEPT ![h] = 0]
  <1>1. CASE strong[h] > 1
    BY <1>1 DEF DecRef, TypeOK
  <1>2. CASE strong[h] = 1
    <2>1. todo \in Seq(Work) BY DEF TypeOK
    <2>2. todo' = Unqueue(todo, h) BY <1>2 DEF DecRef
    <2>3. /\ todo' \in Seq(Work) /\ Distinct(todo')
          /\ \A x : In(x, todo') <=> In(x, todo) /\ x # Dead(h)
          /\ \A x, y : Before(todo, x, y) => Before(todo', x, y)
      BY <2>1, <2>2, QueueDelete
    <2>4. ~(strong[h] > 1) /\ 1 - 1 = 0 BY <1>2
    <2>5. /\ strong' = [strong EXCEPT ![h] = 0]
          /\ node' = [node EXCEPT ![h] = NoObj] /\ death' = [death EXCEPT ![h] = 0]
      BY <2>4 DEF DecRef
    <2>6. strong' = [strong EXCEPT ![h] = @ - 1] BY <1>2, <2>5 DEF TypeOK
    <2> QED BY <1>2, <2>3, <2>5, <2>6 DEF TypeOK
  <1> QED BY <1>1, <1>2 DEF TypeOK

LEMMA InitIInv == Init => IInv
  <1> SUFFICES ASSUME Init PROVE IInv OBVIOUS
  <1>1. TypeOK
    BY RegistryAssumption, NoMsgAssumption DEF Init, TypeOK, Failed, Pcs
  <1>2. NamesUnique /\ CurInv /\ QueueInv
    BY DEF Init, NamesUnique, CurInv, QueueInv, Distinct, In, Busy
  <1>3. RefInv BY DEF Init, RefInv
  <1>4. ClientInv BY DEF Init, ClientInv, Pending
  <1>5. ASSUME NEW h \in Handles
        PROVE  EntriesHolding(h) = {} /\ BuffersHolding(h) = {}
    BY DEF Init, EntriesHolding, BuffersHolding
  <1>6. RefsBalanced
    <2>1. \A h \in Handles : strong[h] = 0 BY DEF Init
    <2> QED BY <1>5, <2>1, FS_EmptySet DEF RefsBalanced
  <1> QED BY <1>1, <1>2, <1>3, <1>4, <1>6 DEF IInv

-----------------------------------------------------------------------------
(* The callers *)

\* Steps that touch neither the list nor a buffer keep the balance.
LEMMA SameHolders ==
  ASSUME RefsBalanced, UNCHANGED <<svclist, buf, strong>>,
         pc # "acquire", pc' # "acquire"
  PROVE  RefsBalanced'
  <1>1. \A h : EntriesHolding(h)' = EntriesHolding(h) /\ BuffersHolding(h)' = BuffersHolding(h)
    BY DEF EntriesHolding, BuffersHolding
  <1> QED BY <1>1 DEF RefsBalanced

LEMMA SameServer ==
  ASSUME RefsBalanced, UNCHANGED <<server, buf, strong>>
  PROVE  RefsBalanced'
  <1>1. \A h : EntriesHolding(h)' = EntriesHolding(h) /\ BuffersHolding(h)' = BuffersHolding(h)
    BY DEF EntriesHolding, BuffersHolding, server
  <1> QED BY <1>1 DEF RefsBalanced

\* The tables of the callers, updated in one place.
LEMMA CountAt ==
  ASSUME NEW f \in [Procs -> [Objs -> Nat]], NEW p \in Procs, NEW o \in Objs, NEW n \in Nat
  PROVE  LET g == [f EXCEPT ![p][o] = n]
         IN  /\ g \in [Procs -> [Objs -> Nat]]
             /\ \A q \in Procs, x \in Objs :
                  g[q][x] = IF q = p /\ x = o THEN n ELSE f[q][x]
  OBVIOUS

ClientTypes ==
  /\ cref \in [Procs -> [Objs -> Nat]] /\ held \in [Procs -> [Objs -> Nat]]
  /\ call \in [Procs -> {"idle", "wait", "acquire", "done"}]
  /\ got \in [Procs -> Objs \cup {"none", "ok", "fail"}]

\* binder_acquire, binder_done and binder_release of the callers.
LEMMA CallerIInv ==
  ASSUME IInv, NEW p \in Procs,
         Acquire(p) \/ Done(p) \/ \E o \in Objs : Release(p, o)
  PROVE  IInv'
  <1>1. UNCHANGED <<alive, refs, todo, buf, server>>
    BY DEF Acquire, Done, Release
  <1>2. ClientInv' /\ ClientTypes'
    <2> USE RegistryAssumption
    <2>0. ClientTypes /\ ClientInv /\ alive \subseteq Procs BY DEF IInv, TypeOK, ClientTypes
    <2>1. CASE Acquire(p)
      <3>1. got[p] \in Objs /\ cref[p][got[p]] \in Nat
        BY <2>0, <2>1 DEF ClientInv, ClientTypes, Acquire
      <3>2. /\ cref' \in [Procs -> [Objs -> Nat]]
            /\ \A q \in Procs, x \in Objs :
                 cref'[q][x] = IF q = p /\ x = got[p] THEN cref[p][got[p]] + 1 ELSE cref[q][x]
        BY <2>0, <2>1, <3>1, CountAt DEF Acquire, ClientTypes
      <3>3. ClientTypes' BY <2>0, <2>1, <3>2 DEF Acquire, ClientTypes
      <3> QED BY <1>1, <2>0, <2>1, <3>1, <3>2, <3>3 DEF Acquire, ClientTypes, ClientInv, Pending
    <2>2. CASE Done(p) /\ got[p] \in Objs
      <3>0. call[p] = "done" /\ Pending(p, got[p]) = 2 BY <2>2 DEF Done, Pending
      <3>1. cref[p][got[p]] = held[p][got[p]] + 2
        BY <2>0, <2>2, <3>0 DEF ClientInv
      <3>2. cref[p][got[p]] - 1 \in Nat /\ held[p][got[p]] + 1 \in Nat
        BY <2>0, <2>2, <3>1 DEF ClientTypes
      <3>3. /\ cref' \in [Procs -> [Objs -> Nat]] /\ held' \in [Procs -> [Objs -> Nat]]
            /\ \A q \in Procs, x \in Objs :
                 /\ cref'[q][x] = IF q = p /\ x = got[p] THEN cref[p][got[p]] - 1 ELSE cref[q][x]
                 /\ held'[q][x] = IF q = p /\ x = got[p] THEN held[p][got[p]] + 1 ELSE held[q][x]
        <4> DEFINE o == got[p]
        <4>1. o \in Objs /\ cref[p][o] - 1 \in Nat /\ held[p][o] + 1 \in Nat BY <2>2, <3>2
        <4>2. cref' = [cref EXCEPT ![p][o] = @ - 1] /\ held' = [held EXCEPT ![p][o] = @ + 1]
          BY <2>2 DEF Done
        <4>3. cref' = [cref EXCEPT ![p][o] = cref[p][o] - 1]
          BY <2>0, <4>1, <4>2 DEF ClientTypes
        <4>4. held' = [held EXCEPT ![p][o] = held[p][o] + 1]
          BY <2>0, <4>1, <4>2 DEF ClientTypes
        <4> HIDE DEF o
        <4>5. /\ cref' \in [Procs -> [Objs -> Nat]]
              /\ \A q \in Procs, x \in Objs :
                   cref'[q][x] = IF q = p /\ x = o THEN cref[p][o] - 1 ELSE cref[q][x]
          BY <2>0, <4>1, <4>3, CountAt DEF ClientTypes
        <4>6. /\ held' \in [Procs -> [Objs -> Nat]]
              /\ \A q \in Procs, x \in Objs :
                   held'[q][x] = IF q = p /\ x = o THEN held[p][o] + 1 ELSE held[q][x]
          BY <2>0, <4>1, <4>4, CountAt DEF ClientTypes
        <4> QED BY <4>5, <4>6 DEF o
      <3>4. ClientTypes' BY <2>0, <2>2, <3>3 DEF Done, ClientTypes
      <3>5. /\ call' = [call EXCEPT ![p] = "idle"] /\ got' = [got EXCEPT ![p] = "none"]
            /\ alive' = alive /\ buf' = buf
        BY <2>2 DEF Done
      <3>6. \A q \in Procs, x \in Objs : Pending(q, x)' = IF q = p THEN 0 ELSE Pending(q, x)
        BY <2>0, <3>5 DEF ClientTypes, Pending
      <3>7. \A x \in Objs : x # got[p] => Pending(p, x) = 0 BY DEF Pending
      <3>8. \A q \in Procs, x \in Objs : cref'[q][x] = held'[q][x] + Pending(q, x)'
        <4> TAKE q \in Procs, x \in Objs
        <4>1. cref[q][x] = held[q][x] + Pending(q, x) /\ held[q][x] \in Nat
          BY <2>0 DEF ClientInv, ClientTypes
        <4>2. CASE q = p /\ x = got[p] BY <3>1, <3>3, <3>6, <4>1, <4>2
        <4>3. CASE q = p /\ x # got[p] BY <3>3, <3>6, <3>7, <4>1, <4>3
        <4>4. CASE q # p BY <3>3, <3>6, <4>1, <4>4
        <4> QED BY <4>2, <4>3, <4>4
      <3>9. \A q \in alive' : buf'[q] # NoMsg => call'[q] = "wait"
        BY <2>0, <3>0, <3>5 DEF ClientInv, ClientTypes
      <3>10. \A q \in Procs : call'[q] = "acquire" => got'[q] \in Objs
        BY <2>0, <3>5 DEF ClientInv, ClientTypes
      <3> QED BY <3>4, <3>8, <3>9, <3>10 DEF ClientInv
    <2>3. CASE Done(p) /\ got[p] \notin Objs
      BY <1>1, <2>0, <2>3 DEF Done, ClientTypes, ClientInv, Pending
    <2>4. ASSUME NEW o \in Objs, Release(p, o) PROVE ClientInv' /\ ClientTypes'
      <3>1. call[p] = "idle" /\ Pending(p, o) = 0 BY <2>4 DEF Release, Pending
      <3>2. cref[p][o] = held[p][o] /\ held[p][o] \in Nat /\ held[p][o] - 1 \in Nat
        BY <2>0, <2>4, <3>1 DEF ClientInv, ClientTypes, Release
      <3>3. /\ cref' = [cref EXCEPT ![p][o] = cref[p][o] - 1]
            /\ held' = [held EXCEPT ![p][o] = held[p][o] - 1]
        BY <2>4 DEF Release
      <3>4. /\ cref' \in [Procs -> [Objs -> Nat]]
            /\ \A q \in Procs, x \in Objs :
                 cref'[q][x] = IF q = p /\ x = o THEN cref[p][o] - 1 ELSE cref[q][x]
        BY <2>0, <3>2, <3>3, CountAt DEF ClientTypes
      <3>5. /\ held' \in [Procs -> [Objs -> Nat]]
            /\ \A q \in Procs, x \in Objs :
                 held'[q][x] = IF q = p /\ x = o THEN held[p][o] - 1 ELSE held[q][x]
        BY <2>0, <3>2, <3>3, CountAt DEF ClientTypes
      <3>6. UNCHANGED <<call, got, alive, buf>> BY <2>4 DEF Release
      <3>7. \A q \in Procs, x \in Objs : cref'[q][x] = held'[q][x] + Pending(q, x)'
        <4> TAKE q \in Procs, x \in Objs
        <4>1. cref[q][x] = held[q][x] + Pending(q, x) /\ held[q][x] \in Nat
          BY <2>0 DEF ClientInv, ClientTypes
        <4>2. Pending(q, x)' = Pending(q, x) BY <3>6 DEF Pending
        <4>3. CASE q = p /\ x = o BY <3>1, <3>2, <3>4, <3>5, <4>2, <4>3
        <4>4. CASE ~(q = p /\ x = o) BY <3>4, <3>5, <4>1, <4>2, <4>4
        <4> QED BY <4>3, <4>4
      <3> QED BY <2>0, <3>4, <3>5, <3>6, <3>7 DEF ClientInv, ClientTypes
    <2> QED BY <2>1, <2>2, <2>3, <2>4
  <1>3. TypeOK' BY <1>1, <1>2 DEF IInv, TypeOK, ClientTypes, refs, server
  <1>4. NamesUnique' /\ CurInv' /\ QueueInv' /\ RefInv'
    BY <1>1 DEF IInv, NamesUnique, CurInv, QueueInv, RefInv, refs, server
  <1>5. RefsBalanced' BY <1>1, SameServer DEF IInv, refs
  <1> QED BY <1>2, <1>3, <1>4, <1>5 DEF IInv

\* The links of the dead are queued behind the messages they sent.
LEMMA DieQueue ==
  ASSUME IInv, NEW p \in Procs, Die(p)
  PROVE  /\ todo' \in Seq(Work) /\ Distinct(todo')
         /\ \A q \in Procs : In(Txn(q), todo') <=> In(Txn(q), todo)
         /\ \A h \in Handles :
              In(Dead(h), todo') <=> \/ In(Dead(h), todo)
                                     \/ node[h] # NoObj /\ Owner[node[h]] = p /\ death[h] # 0
         /\ \A q \in Procs : \A y : Before(todo, Txn(q), y) => Before(todo', Txn(q), y)
  <1> DEFINE gone == {h \in Handles : node[h] # NoObj /\ Owner[node[h]] = p /\ death[h] # 0}
  <1>1. PICK s \in [1..Cardinality(gone) -> gone] :
          /\ \A h \in gone : \E k \in DOMAIN s : s[k] = h
          /\ \A j, k \in DOMAIN s : s[j] = s[k] => j = k
          /\ todo' = todo \o [k \in DOMAIN s |-> Dead(s[k])]
    BY DEF Die
  <1> DEFINE n == Cardinality(gone)
  <1>2. n \in Nat
    <2>1. IsFiniteSet(Handles) BY RegistryAssumption, FS_Interval DEF Handles
    <2> QED BY <2>1, FS_Subset, FS_CardinalityType
  <1> HIDE DEF n
  <1>3. DOMAIN s = 1..n /\ s \in [1..n -> gone] BY DEF n
  <1>4. \A h \in gone : ~In(Dead(h), todo) BY DEF IInv, QueueInv, Die
  <1>5. todo \in Seq(Work) /\ Distinct(todo) BY DEF IInv, TypeOK, QueueInv
  <1>6. \A h : h \in gone <=> h \in Handles /\ node[h] # NoObj /\ Owner[node[h]] = p /\ death[h] # 0
    OBVIOUS
  <1> HIDE DEF gone
  <1> DEFINE d == [k \in 1..n |-> Dead(s[k])]
  <1>7. \A k \in 1..n : s[k] \in gone /\ s[k] \in Handles /\ Dead(s[k]) \in Work
    BY <1>3, <1>6, WorkType
  <1>8. d \in Seq(Work) /\ DOMAIN d = 1..n /\ \A k \in 1..n : d[k] = Dead(s[k])
    <2>1. d \in [1..n -> Work] BY <1>7
    <2> QED BY <1>2, <2>1
  <1>9. todo' = todo \o d BY <1>1, <1>3
  <1> HIDE DEF d
  <1>10. Distinct(d) BY <1>1, <1>3, <1>7, <1>8, WorkType DEF Distinct
  <1>11. \A x : In(x, d) <=> \E h \in gone : x = Dead(h)
    BY <1>1, <1>3, <1>7, <1>8 DEF In
  <1>12. \A x : ~(In(x, todo) /\ In(x, d)) BY <1>4, <1>11
  <1>13. /\ todo \o d \in Seq(Work) /\ Distinct(todo \o d)
         /\ \A x : In(x, todo \o d) <=> In(x, todo) \/ In(x, d)
         /\ \A x, y : Before(todo, x, y) /\ ~In(x, d) => Before(todo \o d, x, y)
    BY <1>5, <1>8, <1>10, <1>12, QueueConcat
  <1>14. \A q \in Procs : ~In(Txn(q), d) BY <1>6, <1>11, WorkType
  <1>15. \A h \in Handles : In(Dead(h), d) <=> h \in gone BY <1>6, <1>11, WorkType
  <1> QED BY <1>6, <1>9, <1>13, <1>14, <1>15

\* A process dies: its links' notifications are queued, none of them twice.
LEMMA DieIInv ==
  ASSUME IInv, NEW p \in Procs, Die(p)
  PROVE  IInv'
  <1> DEFINE gone == {h \in Handles : node[h] # NoObj /\ Owner[node[h]] = p /\ death[h] # 0}
  <1>0. TypeOK /\ ClientInv /\ QueueInv /\ p \in alive BY DEF IInv, Die
  <1>1. /\ alive' = alive \ {p} /\ UNCHANGED <<refs, buf, server>>
        /\ call' = [call EXCEPT ![p] = "idle"] /\ got' = [got EXCEPT ![p] = "none"]
        /\ cref' = [cref EXCEPT ![p] = [o \in Objs |-> 0]]
        /\ held' = [held EXCEPT ![p] = [o \in Objs |-> 0]]
    BY DEF Die
  <1>2. /\ todo' \in Seq(Work) /\ Distinct(todo')
        /\ \A q \in Procs : In(Txn(q), todo') <=> In(Txn(q), todo)
        /\ \A h \in Handles : In(Dead(h), todo') <=> In(Dead(h), todo) \/ h \in gone
    BY DieQueue
  <1>3. /\ cref' \in [Procs -> [Objs -> Nat]] /\ held' \in [Procs -> [Objs -> Nat]]
        /\ \A q \in Procs, x \in Objs :
             /\ cref'[q][x] = IF q = p THEN 0 ELSE cref[q][x]
             /\ held'[q][x] = IF q = p THEN 0 ELSE held[q][x]
    BY <1>0, <1>1 DEF TypeOK
  <1>4. TypeOK' BY <1>0, <1>1, <1>2, <1>3 DEF TypeOK, refs, server
  <1>5. NamesUnique' /\ CurInv' /\ RefInv'
    BY <1>1 DEF IInv, NamesUnique, CurInv, RefInv, refs, server
  <1>6. QueueInv'
    <2>2. ASSUME NEW h \in Handles, In(Dead(h), todo')
          PROVE  death'[h] # 0 /\ Owner[node'[h]] \notin alive'
      BY <1>0, <1>1, <1>2, <2>2 DEF QueueInv, refs
    <2> QED BY <1>0, <1>1, <1>2, <2>2 DEF QueueInv, server, Busy
  <1>7. ClientInv'
    <2>1. \A q \in Procs, x \in Objs : Pending(q, x)' = IF q = p THEN 0 ELSE Pending(q, x)
      BY <1>0, <1>1 DEF TypeOK, Pending
    <2>2. \A q \in Procs, x \in Objs : cref'[q][x] = held'[q][x] + Pending(q, x)'
      BY <1>0, <1>3, <2>1 DEF ClientInv
    <2>3. /\ \A q \in alive' : buf'[q] # NoMsg => call'[q] = "wait"
          /\ \A q \in Procs : call'[q] = "acquire" => got'[q] \in Objs
      BY <1>0, <1>1 DEF TypeOK, ClientInv
    <2> QED BY <2>2, <2>3 DEF ClientInv
  <1>8. RefsBalanced' BY <1>1, SameServer DEF IInv, refs
  <1> QED BY <1>4, <1>5, <1>6, <1>7, <1>8 DEF IInv

\* A message is sent: its buffer holds the handle its object got.
LEMMA SendIInv ==
  ASSUME IInv, NEW r \in Requests, Send(r)
  PROVE  IInv'
  <1> DEFINE p == r.from
  <1>0. /\ TypeOK /\ ClientInv /\ QueueInv /\ CurInv /\ RefInv /\ RefsBalanced /\ NamesUnique
        /\ p \in Procs /\ p \in alive /\ call[p] = "idle" /\ buf[p] = NoMsg
    <2>1. p \in Procs /\ p \in alive /\ call[p] = "idle" BY RegistryAssumption DEF Send
    <2> QED BY <2>1 DEF IInv, ClientInv
  <1>1. /\ UNCHANGED <<alive, got, cref, held, server, death>>
        /\ todo' = Append(todo, Txn(p)) /\ call' = [call EXCEPT ![p] = "wait"]
    BY DEF Send, refs
  <1>2. \E h \in {0} \cup Handles :
          /\ buf' = [buf EXCEPT ![p] = [code |-> r.code, name |-> r.name, handle |-> h,
                                        allow |-> r.allow, n |-> r.n]]
          /\ \/ h = 0 /\ UNCHANGED <<node, strong>>
             \/ /\ h \in Handles /\ node[h] \in {r.obj, NoObj} /\ r.obj \in Objs
                /\ node' = [node EXCEPT ![h] = r.obj]
                /\ strong' = [strong EXCEPT ![h] = @ + 1]
    <2>1. CASE r.obj = NoObj
      <3>1. /\ buf' = [buf EXCEPT ![p] = [code |-> r.code, name |-> r.name, handle |-> 0,
                                          allow |-> r.allow, n |-> r.n]]
            /\ UNCHANGED <<node, strong>>
        BY <2>1 DEF Send, refs
      <3> QED BY <3>1
    <2>2. CASE r.obj # NoObj
      <3>1. PICK h \in HandleFor(r.obj) :
              /\ buf' = [buf EXCEPT ![p] = [code |-> r.code, name |-> r.name, handle |-> h,
                                            allow |-> r.allow, n |-> r.n]]
              /\ node' = [node EXCEPT ![h] = r.obj]
              /\ strong' = [strong EXCEPT ![h] = @ + 1]
        BY <2>2 DEF Send
      <3>2. h \in Handles /\ node[h] \in {r.obj, NoObj} BY <3>1 DEF HandleFor
      <3>3. r.obj \in Objs BY <2>2, RegistryAssumption
      <3> QED BY <3>1, <3>2, <3>3
    <2> QED BY <2>1, <2>2
  <1>3. PICK h \in {0} \cup Handles :
          /\ buf' = [buf EXCEPT ![p] = [code |-> r.code, name |-> r.name, handle |-> h,
                                        allow |-> r.allow, n |-> r.n]]
          /\ \/ h = 0 /\ UNCHANGED <<node, strong>>
             \/ /\ h \in Handles /\ node[h] \in {r.obj, NoObj} /\ r.obj \in Objs
                /\ node' = [node EXCEPT ![h] = r.obj]
                /\ strong' = [strong EXCEPT ![h] = @ + 1]
    BY <1>2
  <1> DEFINE m == [code |-> r.code, name |-> r.name, handle |-> h, allow |-> r.allow, n |-> r.n]
  <1>4. m \in Messages /\ m # NoMsg /\ m.handle = h
    BY RegistryAssumption, NoMsgAssumption DEF Messages
  <1>5. buf' = [buf EXCEPT ![p] = m] BY <1>3
  <1> HIDE DEF m, p
  <1>15. 0 \notin Handles BY DEF Handles
  <1>16. /\ h \notin Handles => UNCHANGED <<node, strong>>
         /\ h \in Handles => /\ node[h] \in {r.obj, NoObj} /\ r.obj \in Objs /\ r.obj # NoObj
                             /\ node' = [node EXCEPT ![h] = r.obj]
                             /\ strong' = [strong EXCEPT ![h] = @ + 1]
                             /\ strong[h] \in Nat /\ strong' = [strong EXCEPT ![h] = strong[h] + 1]
    BY <1>0, <1>3, <1>15, RegistryAssumption DEF TypeOK
  <1>6. /\ todo' \in Seq(Work) /\ Distinct(todo')
        /\ \A x : In(x, todo') <=> In(x, todo) \/ x = Txn(p)
    <2>1. ~In(Txn(p), todo) BY <1>0 DEF QueueInv
    <2>2. todo \in Seq(Work) /\ Distinct(todo) /\ Txn(p) \in Work
      BY <1>0, WorkType DEF TypeOK, QueueInv
    <2> QED BY <1>1, <2>1, <2>2, QueueAppend
  <1>7. TypeOK'
    <2>1. node' \in [Handles -> Objs \cup {NoObj}] /\ strong' \in [Handles -> Nat]
      <3>1. CASE h \in Handles
        <4>1. strong[h] + 1 \in Nat BY <1>16, <3>1
        <4> QED BY <1>0, <1>16, <3>1, <4>1, SMTT(30) DEF TypeOK
      <3> QED BY <1>0, <1>16, <3>1 DEF TypeOK
    <2> QED BY <1>0, <1>1, <1>4, <1>5, <1>6, <2>1 DEF TypeOK, server
  <1>8. NamesUnique' BY <1>0, <1>1 DEF NamesUnique, server
  <1>9. pc \in Busy => cur # p BY <1>0 DEF CurInv
  <1>10. CurInv'
    <2>1. UNCHANGED <<pc, cur, si, svclist>> BY <1>1 DEF server
    <2>2. pc \in Busy => buf'[cur] = buf[cur] BY <1>0, <1>5, <1>9 DEF TypeOK, CurInv
    <2> QED BY <1>0, <2>1, <2>2 DEF CurInv, Busy
  <1>11. RefInv'
    <2>1. Len(svclist') = Len(svclist) /\ death' = death BY <1>1 DEF server
    <2>2. CASE h \in Handles
      <3>1. strong'[h] > 0 /\ node'[h] # NoObj BY <1>0, <1>16, <2>2 DEF TypeOK
      <3>2. \A g \in Handles : g # h => strong'[g] = strong[g] /\ node'[g] = node[g]
        BY <1>0, <1>16, <2>2 DEF TypeOK
      <3> QED BY <1>0, <2>1, <3>1, <3>2 DEF RefInv
    <2> QED BY <1>0, <1>16, <2>1, <2>2 DEF RefInv
  <1>12. QueueInv'
    <2>1. \A q \in Procs : In(Txn(q), todo') <=> In(Txn(q), todo) \/ q = p
      BY <1>0, <1>6, WorkType
    <2>2. \A g \in Handles : In(Dead(g), todo') <=> In(Dead(g), todo)
      BY <1>0, <1>6, WorkType
    <2>3. \A q \in Procs : buf'[q] # NoMsg <=> buf[q] # NoMsg \/ q = p
      BY <1>0, <1>4, <1>5 DEF TypeOK
    <2>4. UNCHANGED <<pc, cur, alive, death>> BY <1>1 DEF server
    <2>5. \A g \in Handles : death[g] # 0 => node'[g] = node[g]
      BY <1>0, <1>16 DEF RefInv, TypeOK
    <2> QED BY <1>0, <1>6, <1>9, <2>1, <2>2, <2>3, <2>4, <2>5 DEF QueueInv
  <1>13. ClientInv'
    <2>1. \A q \in Procs, x \in Objs : Pending(q, x)' = Pending(q, x)
      BY <1>0, <1>1 DEF Pending, TypeOK
    <2>2. \A q \in alive' : buf'[q] # NoMsg => call'[q] = "wait"
      BY <1>0, <1>1, <1>5 DEF ClientInv, TypeOK
    <2>3. \A q \in Procs : call'[q] = "acquire" => got'[q] \in Objs
      BY <1>0, <1>1 DEF ClientInv, TypeOK
    <2>4. cref' = cref /\ held' = held BY <1>1
    <2> QED BY <1>0, <2>1, <2>2, <2>3, <2>4 DEF ClientInv
  <1>14. RefsBalanced'
    <2>1. \A g : EntriesHolding(g)' = EntriesHolding(g) BY <1>1 DEF EntriesHolding, server
    <2>2. ASSUME NEW g \in Handles, g # h
          PROVE  BuffersHolding(g)' = BuffersHolding(g) /\ strong'[g] = strong[g]
      BY <1>0, <1>4, <1>5, <1>16, <2>2 DEF BuffersHolding, TypeOK
    <2>3. ASSUME h \in Handles
          PROVE  BuffersHolding(h)' = BuffersHolding(h) \cup {p} /\ p \notin BuffersHolding(h)
      BY <1>0, <1>4, <1>5, <2>3 DEF BuffersHolding, TypeOK
    <2>4. ASSUME h \in Handles PROVE strong'[h] = strong[h] + 1
      BY <1>0, <1>16, <2>4 DEF TypeOK
    <2>5. ASSUME h \in Handles
          PROVE  Cardinality(BuffersHolding(h)') = Cardinality(BuffersHolding(h)) + 1
      BY <1>0, <2>3, <2>5, HoldersFinite, FS_AddElement
    <2> SUFFICES ASSUME NEW g \in Handles
                 PROVE  strong'[g] = Cardinality(EntriesHolding(g)') + Cardinality(BuffersHolding(g)')
      BY DEF RefsBalanced
    <2>6. strong[g] = Cardinality(EntriesHolding(g)) + Cardinality(BuffersHolding(g))
          /\ Cardinality(EntriesHolding(g)) \in Nat /\ Cardinality(BuffersHolding(g)) \in Nat
      BY <1>0, HoldersFinite DEF RefsBalanced
    <2>7. CASE g = h BY <2>1, <2>4, <2>5, <2>6, <2>7
    <2>8. CASE g # h BY <2>1, <2>2, <2>6, <2>8
    <2> QED BY <2>7, <2>8
  <1> QED BY <1>7, <1>8, <1>10, <1>11, <1>12, <1>13, <1>14 DEF IInv

-----------------------------------------------------------------------------
(* The service manager *)

\* The references of handle h change by d, and so do its holders.
LEMMA Rebalance ==
  ASSUME TypeOK, RefsBalanced, NEW h \in Handles, NEW d \in Int,
         strong'[h] = strong[h] + d,
         Cardinality(EntriesHolding(h)') + Cardinality(BuffersHolding(h)') =
           Cardinality(EntriesHolding(h)) + Cardinality(BuffersHolding(h)) + d,
         \A g \in Handles \ {h} : /\ strong'[g] = strong[g]
                                  /\ EntriesHolding(g)' = EntriesHolding(g)
                                  /\ BuffersHolding(g)' = BuffersHolding(g)
  PROVE  RefsBalanced'
  <1> SUFFICES ASSUME NEW g \in Handles
               PROVE  strong'[g] = Cardinality(EntriesHolding(g)') + Cardinality(BuffersHolding(g)')
    BY DEF RefsBalanced
  <1>1. strong[g] = Cardinality(EntriesHolding(g)) + Cardinality(BuffersHolding(g))
    BY DEF RefsBalanced
  <1>2. CASE g = h BY <1>1, <1>2 DEF TypeOK
  <1>3. CASE g # h
    <2>1. strong'[g] = strong[g] BY <1>3 DEF TypeOK
    <2> QED BY <1>1, <1>3, <2>1
  <1> QED BY <1>2, <1>3

\* Whoever is found among the holders has been counted.
LEMMA HolderCounted ==
  ASSUME TypeOK, RefsBalanced, NEW h \in Handles,
         EntriesHolding(h) # {} \/ BuffersHolding(h) # {}
  PROVE  strong[h] > 0
  <1>1. /\ IsFiniteSet(EntriesHolding(h)) /\ Cardinality(EntriesHolding(h)) \in Nat
        /\ IsFiniteSet(BuffersHolding(h)) /\ Cardinality(BuffersHolding(h)) \in Nat
    BY HoldersFinite
  <1>2. Cardinality(EntriesHolding(h)) # 0 \/ Cardinality(BuffersHolding(h)) # 0
    BY <1>1, FS_EmptySet
  <1>3. strong[h] = Cardinality(EntriesHolding(h)) + Cardinality(BuffersHolding(h))
    BY DEF RefsBalanced
  <1> QED BY <1>1, <1>2, <1>3

\* A release keeps table and queue consistent.
LEMMA DecRefInv ==
  ASSUME TypeOK, QueueInv, RefInv, NEW h \in Handles, strong[h] > 0, DecRef(h),
         alive' = alive, Len(svclist') = Len(svclist)
  PROVE  /\ RefInv'
         /\ \A g \in Handles : In(Dead(g), todo') => death'[g] # 0 /\ Owner[node'[g]] \notin alive'
  <1>0. Distinct(todo) BY DEF QueueInv
  <1>1. /\ strong' = [strong EXCEPT ![h] = @ - 1]
        /\ \A x : In(x, todo') => In(x, todo)
        /\ \/ strong[h] > 1 /\ UNCHANGED <<node, death, todo>>
           \/ /\ strong[h] = 1 /\ ~In(Dead(h), todo')
              /\ node' = [node EXCEPT ![h] = NoObj]
              /\ death' = [death EXCEPT ![h] = 0]
    BY <1>0, DecRefStep
  <1>2. /\ strong \in [Handles -> Nat] /\ node \in [Handles -> Objs \cup {NoObj}]
        /\ death \in [Handles -> Nat] /\ Len(svclist) \in Nat
    BY DEF TypeOK
  <1>3. CASE strong[h] > 1
    BY <1>1, <1>2, <1>3 DEF RefInv, QueueInv
  <1>4. CASE strong[h] = 1
    BY <1>1, <1>2, <1>4, SMTT(30) DEF RefInv, QueueInv
  <1> QED BY <1>1, <1>3, <1>4

LEMMA ReadIInv ==
  ASSUME IInv, ReadTxn \/ ReadDeath
  PROVE  IInv'
  <1>0. /\ TypeOK /\ NamesUnique /\ CurInv /\ QueueInv /\ RefInv /\ ClientInv /\ RefsBalanced
    BY DEF IInv
  <1>1. /\ UNCHANGED <<alive, clients, refs, buf, svclist, res>>
        /\ pc = "loop" /\ todo # <<>> /\ todo' = Tail(todo)
    BY DEF ReadTxn, ReadDeath
  <1>2. /\ todo' \in Seq(Work) /\ Distinct(todo') /\ In(Head(todo), todo) /\ Head(todo) \in Work
        /\ \A x : In(x, todo') <=> In(x, todo) /\ x # Head(todo)
    BY <1>0, <1>1, QueuePop DEF TypeOK, QueueInv
  <1>3. NamesUnique' /\ RefInv' /\ ClientInv'
    BY <1>0, <1>1 DEF NamesUnique, RefInv, ClientInv, Pending, clients, refs
  <1>4. CASE ReadTxn
    <2>1. /\ cur' = Head(todo).from /\ pc' = "handler" /\ si' = si /\ Head(todo).kind = "txn"
      BY <1>4 DEF ReadTxn
    <2>2. cur' \in Procs /\ Head(todo) = Txn(cur') BY <1>2, <2>1 DEF Work, Txn
    <2>3. buf[cur'] # NoMsg BY <1>0, <1>2, <2>2 DEF QueueInv
    <2>4. TypeOK' BY <1>0, <1>1, <1>2, <2>1, <2>2 DEF TypeOK, Pcs, clients, refs
    <2>5. CurInv' BY <1>1, <2>1, <2>2, <2>3 DEF CurInv, Busy
    <2>6. QueueInv' BY <1>0, <1>1, <1>2, <2>1, <2>2, WorkType DEF QueueInv, Busy, refs
    <2>7. RefsBalanced' BY <1>0, <1>1, <2>1, SameHolders DEF refs
    <2> QED BY <1>3, <2>4, <2>5, <2>6, <2>7 DEF IInv
  <1>5. CASE ReadDeath
    <2>1. /\ si' = death[Head(todo).handle] /\ pc' = "died" /\ cur' = cur
          /\ Head(todo).kind = "dead"
      BY <1>5 DEF ReadDeath
    <2> DEFINE h == Head(todo).handle
    <2>2. h \in Handles /\ Head(todo) = Dead(h) BY <1>2, <2>1 DEF Work, Dead
    <2>3. si' \in 1..Len(svclist) BY <1>0, <1>2, <2>1, <2>2 DEF QueueInv, RefInv
    <2>4. TypeOK' BY <1>0, <1>1, <1>2, <2>1, <2>3 DEF TypeOK, Pcs, clients, refs
    <2>5. CurInv' BY <2>1 DEF CurInv, Busy
    <2>6. QueueInv' BY <1>0, <1>1, <1>2, <2>1, <2>2, WorkType DEF QueueInv, Busy, refs
    <2>7. RefsBalanced' BY <1>0, <1>1, <2>1, SameHolders DEF refs
    <2> QED BY <1>3, <2>4, <2>5, <2>6, <2>7 DEF IInv
  <1> QED BY <1>4, <1>5

\* find_svc returns the entry called s, and NULL only if there is none.
LEMMA FindSvc ==
  ASSUME TypeOK, NamesUnique, NEW s \in Names
  PROVE  /\ find_svc(s) = 0 => \A i \in DOMAIN svclist : svclist[i].name # s
         /\ find_svc(s) # 0 => find_svc(s) \in DOMAIN svclist /\ svclist[find_svc(s)].name = s
  <1>0. DOMAIN svclist = 1..Len(svclist) BY DEF TypeOK
  <1>1. CASE Entries(s) = {} BY <1>1 DEF Entries, find_svc
  <1>2. CASE Entries(s) # {}
    <2>1. PICK i \in Entries(s) : TRUE BY <1>2
    <2>2. i \in DOMAIN svclist /\ \A j \in Entries(s) : j = i
      BY <2>1 DEF Entries, NamesUnique
    <2>3. \E k \in Entries(s) : \A j \in Entries(s) : j <= k BY <1>0, <2>1, <2>2
    <2>4. find_svc(s) \in Entries(s) BY <1>2, <2>3 DEF find_svc
    <2>5. find_svc(s) # 0 BY <1>0, <2>2, <2>4
    <2> QED BY <2>4, <2>5 DEF Entries
  <1> QED BY <1>1, <1>2

\* The handler's answers that change nothing but the answer.
LEMMA AnswerIInv ==
  ASSUME IInv, Answer \/ AddRefused
  PROVE  IInv'
  <1>0. /\ TypeOK /\ NamesUnique /\ CurInv /\ QueueInv /\ RefInv /\ ClientInv /\ RefsBalanced
    BY DEF IInv
  <1>1. /\ UNCHANGED <<alive, clients, refs, todo, buf, svclist, cur, si>>
        /\ pc = "handler" /\ pc' = "reply"
    BY DEF Answer, AddRefused
  <1>2. msg \in Messages BY <1>0, <1>1 DEF CurInv, TypeOK, Busy, msg
  <1>3. do_find_service(msg.name, cur) \in {0} \cup Handles
    <2>1. msg.name \in Names BY <1>2 DEF Messages
    <2>2. find_svc(msg.name) # 0 => svclist[find_svc(msg.name)] \in Svcinfo
      BY <1>0, <2>1, FindSvc DEF TypeOK
    <2> QED BY <2>2 DEF do_find_service, Svcinfo
  <1>4. res' \in [status : {-1, 0}, handle : {0} \cup Handles]
    <2>1. CASE AddRefused BY <2>1 DEF AddRefused, Failed
    <2>2. CASE Answer
      <3>1. msg.code \in {"PING", "BAD", "LIST", "CHECK"}
        BY <1>2, <2>2 DEF Answer, Messages, Codes
      <3>2. res' \in {Ok(0), Failed, Ok(do_find_service(msg.name, cur))}
        BY <2>2, <3>1 DEF Answer
      <3> QED BY <1>3, <3>2 DEF Ok, Failed
    <2> QED BY <2>1, <2>2
  <1>5. TypeOK' BY <1>0, <1>1, <1>4 DEF TypeOK, Pcs, clients, refs
  <1>6. NamesUnique' /\ RefInv' /\ ClientInv' /\ QueueInv' /\ CurInv'
    BY <1>0, <1>1 DEF NamesUnique, RefInv, ClientInv, Pending, QueueInv, CurInv, Busy, clients, refs
  <1>7. RefsBalanced' BY <1>0, <1>1, SameHolders DEF refs
  <1> QED BY <1>5, <1>6, <1>7 DEF IInv

\* do_add_service puts a new entry at the head of the list.
LEMMA AddNewIInv ==
  ASSUME IInv, AddNew
  PROVE  IInv'
  <1>0. /\ TypeOK /\ NamesUnique /\ CurInv /\ QueueInv /\ RefInv /\ ClientInv /\ RefsBalanced
    BY DEF IInv
  <1> DEFINE e == [name |-> msg.name, handle |-> msg.handle, allow |-> msg.allow]
             n == Len(svclist) + 1
  <1>1. /\ UNCHANGED <<alive, clients, refs, todo, buf, cur>>
        /\ pc = "handler" /\ pc' = "acquire" /\ svclist' = Append(svclist, e)
        /\ si' = n /\ res' = Ok(0) /\ find_svc(msg.name) = 0 /\ msg.handle # 0
    BY DEF AddNew, CanAdd
  <1>2. msg \in Messages /\ msg' = msg BY <1>0, <1>1 DEF CurInv, TypeOK, Busy, msg
  <1>3. e \in Svcinfo /\ e.name = msg.name /\ e.handle = msg.handle
    BY <1>2 DEF Messages, Svcinfo
  <1> HIDE DEF e
  <1>4. /\ svclist' \in Seq(Svcinfo) /\ Len(svclist') = n /\ Len(svclist) \in Nat
        /\ DOMAIN svclist' = 1..n /\ DOMAIN svclist = 1..Len(svclist)
        /\ \A i \in DOMAIN svclist : i \in DOMAIN svclist' /\ svclist'[i] = svclist[i] /\ i # n
        /\ \A i \in DOMAIN svclist' : i \in DOMAIN svclist \/ i = n
        /\ n \in DOMAIN svclist' /\ svclist'[n] = e
    BY <1>0, <1>1, <1>3 DEF TypeOK
  <1>5. \A i \in DOMAIN svclist : svclist[i].name # msg.name
    <2>1. msg.name \in Names BY <1>2 DEF Messages
    <2> QED BY <1>0, <1>1, <2>1, FindSvc
  <1>6. NamesUnique' BY <1>0, <1>3, <1>4, <1>5 DEF NamesUnique
  <1>7. res' \in [status : {-1, 0}, handle : {0} \cup Handles] BY <1>1 DEF Ok
  <1>8. TypeOK' BY <1>0, <1>1, <1>4, <1>7 DEF TypeOK, Pcs, clients, refs
  <1>9. CurInv'
    <2>1. cur' \in Procs /\ buf'[cur'] # NoMsg BY <1>0, <1>1 DEF CurInv, Busy
    <2>2. buf'[cur'].handle = msg.handle BY <1>1 DEF msg
    <2> QED BY <1>1, <1>3, <1>4, <2>1, <2>2 DEF CurInv
  <1>10. QueueInv' BY <1>0, <1>1 DEF QueueInv, Busy, refs
  <1>11. RefInv' BY <1>0, <1>1, <1>4 DEF RefInv, refs
  <1>12. ClientInv' BY <1>0, <1>1 DEF ClientInv, Pending, clients
  <1>13. RefsBalanced'
    <2>1. \A h : EntriesHolding(h)' = EntriesHolding(h) /\ BuffersHolding(h)' = BuffersHolding(h)
      BY <1>1, <1>4 DEF EntriesHolding, BuffersHolding
    <2> QED BY <1>0, <1>1, <2>1 DEF RefsBalanced, refs
  <1> QED BY <1>6, <1>8, <1>9, <1>10, <1>11, <1>12, <1>13 DEF IInv

\* binder_acquire counts the entry that do_add_service filled.
LEMMA AddAcquireIInv ==
  ASSUME IInv, AddAcquire
  PROVE  IInv'
  <1>0. /\ TypeOK /\ NamesUnique /\ CurInv /\ QueueInv /\ RefInv /\ ClientInv /\ RefsBalanced
    BY DEF IInv
  <1>a. msg \in Messages /\ msg.handle \in Handles
    BY <1>0 DEF AddAcquire, CurInv, TypeOK, Busy, msg, Messages
  <1> PICK h \in Handles : h = msg.handle BY <1>a
  <1>1. /\ UNCHANGED <<alive, clients, node, death, todo, buf, svclist, cur, si, res>>
        /\ pc = "acquire" /\ pc' = "link" /\ strong' = [strong EXCEPT ![h] = @ + 1]
    BY DEF AddAcquire, IncRef
  <1>2. /\ cur \in Procs /\ buf[cur] # NoMsg
        /\ si \in DOMAIN svclist /\ svclist[si].handle = h
    BY <1>0, <1>1 DEF CurInv, TypeOK, Busy, msg, Messages
  <1>3. cur \in BuffersHolding(h) BY <1>2 DEF BuffersHolding, msg
  <1>4. strong[h] > 0 /\ strong[h] \in Nat BY <1>0, <1>2, <1>3, HolderCounted DEF TypeOK
  <1>5. /\ strong' \in [Handles -> Nat]
        /\ \A g \in Handles : strong'[g] > 0 <=> strong[g] > 0
    BY <1>0, <1>1, <1>2, <1>4 DEF TypeOK
  <1>6. TypeOK' BY <1>0, <1>1, <1>5 DEF TypeOK, Pcs, clients
  <1>7. NamesUnique' /\ CurInv' /\ QueueInv' /\ RefInv' /\ ClientInv'
    BY <1>0, <1>1, <1>5 DEF NamesUnique, CurInv, QueueInv, RefInv, ClientInv, Pending, Busy, clients
  <1>8. RefsBalanced'
    <2>1. /\ EntriesHolding(h)' = EntriesHolding(h) \cup {si} /\ si \notin EntriesHolding(h)
          /\ \A g \in Handles : BuffersHolding(g)' = BuffersHolding(g)
          /\ \A g \in Handles \ {h} : EntriesHolding(g)' = EntriesHolding(g)
      BY <1>1, <1>2 DEF EntriesHolding, BuffersHolding
    <2>2. /\ IsFiniteSet(EntriesHolding(h)) /\ Cardinality(EntriesHolding(h)) \in Nat
          /\ Cardinality(BuffersHolding(h)) \in Nat
      BY <1>0, HoldersFinite
    <2>3. Cardinality(EntriesHolding(h)') = Cardinality(EntriesHolding(h)) + 1
      BY <2>1, <2>2, FS_AddElement
    <2>4. Cardinality(EntriesHolding(h)') + Cardinality(BuffersHolding(h)') =
            Cardinality(EntriesHolding(h)) + Cardinality(BuffersHolding(h)) + 1
      BY <1>2, <2>1, <2>2, <2>3
    <2>5. strong'[h] = strong[h] + 1 /\ \A g \in Handles \ {h} : strong'[g] = strong[g]
      BY <1>0, <1>1 DEF TypeOK
    <2>6. 1 \in Int OBVIOUS
    <2> QED BY <1>0, <2>1, <2>4, <2>5, <2>6, Rebalance
  <1> QED BY <1>6, <1>7, <1>8 DEF IInv

\* binder_link_to_death, on a service that lives or not.
LEMMA AddLinkIInv ==
  ASSUME IInv, AddLink
  PROVE  IInv'
  <1>0. /\ TypeOK /\ NamesUnique /\ CurInv /\ QueueInv /\ RefInv /\ ClientInv /\ RefsBalanced
    BY DEF IInv
  <1> DEFINE h == msg.handle
  <1>1. /\ UNCHANGED <<alive, clients, node, strong, buf, svclist, cur, si, res>>
        /\ pc = "link" /\ pc' = "reply"
    BY DEF AddLink
  <1>2. /\ msg \in Messages /\ h \in Handles /\ cur \in Procs /\ buf[cur] # NoMsg
        /\ si \in 1..Len(svclist)
    BY <1>0, <1>1 DEF CurInv, TypeOK, Busy, msg, Messages
  <1>3. cur \in BuffersHolding(h) BY <1>2 DEF BuffersHolding, msg
  <1>4. node[h] # NoObj BY <1>0, <1>2, <1>3, HolderCounted DEF RefInv
  <1>5. /\ death' \in [Handles -> Nat] /\ todo' \in Seq(Work) /\ Distinct(todo')
        /\ \A g \in Handles \ {h} : death'[g] = death[g]
        /\ death'[h] \in 0..Len(svclist)
        /\ \A x : In(x, todo') => \/ In(x, todo)
                                  \/ /\ x = Dead(h) /\ death'[h] # 0
                                     /\ Owner[node[h]] \notin alive
        /\ death[h] # 0 => death'[h] # 0
    <2>0. todo \in Seq(Work) /\ Distinct(todo) /\ Dead(h) \in Work /\ death \in [Handles -> Nat]
          /\ death[h] \in 0..Len(svclist)
      BY <1>0, <1>2, WorkType DEF TypeOK, QueueInv, RefInv
    <2>1. CASE death[h] # 0 BY <2>0, <2>1 DEF AddLink
    <2>2. CASE death[h] = 0
      <3>1. death' = [death EXCEPT ![h] = si] BY <2>2 DEF AddLink
      <3>2. /\ death' \in [Handles -> Nat] /\ death'[h] = si /\ si # 0
            /\ \A g \in Handles \ {h} : death'[g] = death[g]
        BY <1>2, <2>0, <3>1
      <3>3. CASE Owner[node[h]] \in alive
        <4>1. todo' = todo BY <2>2, <3>3 DEF AddLink
        <4> QED BY <1>2, <2>0, <2>2, <3>2, <4>1
      <3>4. CASE Owner[node[h]] \notin alive
        <4>1. todo' = <<Dead(h)>> \o todo BY <2>2, <3>4 DEF AddLink
        <4>2. ~In(Dead(h), todo) BY <1>0, <1>2, <2>2 DEF QueueInv
        <4> HIDE DEF h
        <4>3. /\ <<Dead(h)>> \o todo \in Seq(Work) /\ Distinct(<<Dead(h)>> \o todo)
              /\ \A x : In(x, <<Dead(h)>> \o todo) <=> In(x, todo) \/ x = Dead(h)
          BY <2>0, <4>2, QueuePush
        <4>4. /\ todo' \in Seq(Work) /\ Distinct(todo')
              /\ \A x : In(x, todo') <=> In(x, todo) \/ x = Dead(h)
          BY <4>1, <4>3
        <4> QED BY <1>2, <2>2, <3>2, <3>4, <4>4
      <3> QED BY <3>3, <3>4
    <2> QED BY <2>1, <2>2
  <1> HIDE DEF h
  <1>6. TypeOK' BY <1>0, <1>1, <1>5 DEF TypeOK, Pcs, clients
  <1>7. NamesUnique' /\ CurInv' /\ ClientInv'
    BY <1>0, <1>1 DEF NamesUnique, CurInv, ClientInv, Pending, Busy, clients
  <1>8. RefInv' BY <1>0, <1>1, <1>2, <1>4, <1>5 DEF RefInv
  <1>9. QueueInv'
    <2>1. \A p \in Procs : In(Txn(p), todo') => In(Txn(p), todo) BY <1>2, <1>5, WorkType
    <2>2. ASSUME NEW g \in Handles, In(Dead(g), todo')
          PROVE  death'[g] # 0 /\ Owner[node'[g]] \notin alive'
      <3>1. CASE g = h BY <1>0, <1>1, <1>2, <1>5, <2>2, <3>1 DEF QueueInv
      <3>2. CASE g # h
        <4>1. In(Dead(g), todo) BY <1>2, <1>5, <2>2, <3>2, WorkType
        <4> QED BY <1>0, <1>1, <1>5, <3>2, <4>1 DEF QueueInv
      <3> QED BY <3>1, <3>2
    <2> QED BY <1>0, <1>1, <1>5, <2>1, <2>2 DEF QueueInv, Busy
  <1>10. RefsBalanced' BY <1>0, <1>1, SameHolders
  <1> QED BY <1>6, <1>7, <1>8, <1>9, <1>10 DEF IInv

-----------------------------------------------------------------------------
(* Releases *)

\* What the driver guarantees after a release, or none.
TableOK ==
  /\ strong \in [Handles -> Nat] /\ death \in [Handles -> Nat]
  /\ node \in [Handles -> Objs \cup {NoObj}]
  /\ todo \in Seq(Work) /\ Distinct(todo)
  /\ RefInv /\ RefsBalanced
  /\ \A h \in Handles : In(Dead(h), todo) => death[h] # 0 /\ Owner[node[h]] \notin alive

\* A handle is released together with one of its holders.
LEMMA Released ==
  ASSUME TypeOK, QueueInv, RefInv, RefsBalanced, NEW h \in Handles, DecRef(h),
         alive' = alive, Len(svclist') = Len(svclist),
         EntriesHolding(h) # {} \/ BuffersHolding(h) # {},
         Cardinality(EntriesHolding(h)') + Cardinality(BuffersHolding(h)') =
           Cardinality(EntriesHolding(h)) + Cardinality(BuffersHolding(h)) - 1,
         \A g \in Handles \ {h} : /\ EntriesHolding(g)' = EntriesHolding(g)
                                  /\ BuffersHolding(g)' = BuffersHolding(g)
  PROVE  TableOK' /\ \A x : In(x, todo') => In(x, todo)
  <1>1. strong[h] > 0 BY HolderCounted
  <1>2. Distinct(todo) BY DEF QueueInv
  <1>3. /\ strong' = [strong EXCEPT ![h] = @ - 1]
        /\ strong' \in [Handles -> Nat] /\ death' \in [Handles -> Nat]
        /\ node' \in [Handles -> Objs \cup {NoObj}]
        /\ todo' \in Seq(Work) /\ Distinct(todo')
        /\ \A x : In(x, todo') => In(x, todo)
    BY <1>1, <1>2, DecRefStep
  <1>4. /\ RefInv'
        /\ \A g \in Handles : In(Dead(g), todo') => death'[g] # 0 /\ Owner[node'[g]] \notin alive'
    BY <1>1, DecRefInv
  <1>5. RefsBalanced'
    <2>1. strong'[h] = strong[h] + (-1) /\ \A g \in Handles \ {h} : strong'[g] = strong[g]
      BY <1>3 DEF TypeOK
    <2>2. /\ Cardinality(EntriesHolding(h)) \in Nat /\ Cardinality(BuffersHolding(h)) \in Nat
          /\ -1 \in Int
      BY HoldersFinite
    <2>3. Cardinality(EntriesHolding(h)') + Cardinality(BuffersHolding(h)') =
            Cardinality(EntriesHolding(h)) + Cardinality(BuffersHolding(h)) + (-1)
      BY <2>2
    <2> QED BY <2>1, <2>2, <2>3, Rebalance
  <1> QED BY <1>3, <1>4, <1>5 DEF TableOK

\* svcinfo_death, from binder_parse or from do_add_service: entry i stops
\* holding the handle it has, if it has one.
LEMMA EntryReleased ==
  ASSUME TypeOK, QueueInv, RefInv, RefsBalanced, NEW i \in DOMAIN svclist, pc # "acquire",
         IF svclist[i].handle # 0 THEN DecRef(svclist[i].handle) ELSE UNCHANGED <<refs, todo>>,
         alive' = alive, buf' = buf, Len(svclist') = Len(svclist),
         \A g \in Handles : EntriesHolding(g)' = EntriesHolding(g) \ {i}
  PROVE  TableOK' /\ \A x : In(x, todo') => In(x, todo)
  <1>1. \A g : BuffersHolding(g)' = BuffersHolding(g) BY DEF BuffersHolding
  <1>2. svclist[i].handle \in {0} \cup Handles
    <2>1. svclist \in Seq(Svcinfo) BY DEF TypeOK
    <2>2. svclist[i] \in Svcinfo BY <2>1
    <2> QED BY <2>2 DEF Svcinfo
  <1>3. CASE svclist[i].handle = 0
    <2>0. 0 \notin Handles BY DEF Handles
    <2>1. \A g \in Handles : EntriesHolding(g)' = EntriesHolding(g)
      <3>1. \A g \in Handles : i \notin EntriesHolding(g) BY <1>3, <2>0 DEF EntriesHolding
      <3> QED BY <3>1
    <2>2. UNCHANGED <<strong, node, death, todo>> BY <1>3 DEF refs
    <2>3. RefsBalanced' BY <1>1, <2>1, <2>2 DEF RefsBalanced
    <2>4. RefInv' BY <2>2 DEF RefInv
    <2> QED BY <2>2, <2>3, <2>4 DEF TableOK, TypeOK, QueueInv
  <1>4. CASE svclist[i].handle # 0
    <2>1. PICK h \in Handles : h = svclist[i].handle BY <1>2, <1>4
    <2>2. DecRef(h) BY <1>4, <2>1
    <2>3. i \in EntriesHolding(h) BY <2>1 DEF EntriesHolding
    <2>4. \A g \in Handles \ {h} : EntriesHolding(g)' = EntriesHolding(g)
      <3>1. \A g \in Handles \ {h} : i \notin EntriesHolding(g) BY <2>1 DEF EntriesHolding
      <3> QED BY <3>1
    <2>5. /\ IsFiniteSet(EntriesHolding(h)) /\ Cardinality(EntriesHolding(h)) \in Nat
          /\ Cardinality(BuffersHolding(h)) \in Nat
      BY HoldersFinite
    <2>6. Cardinality(EntriesHolding(h)') = Cardinality(EntriesHolding(h)) - 1
      BY <2>3, <2>5, FS_RemoveElement
    <2>7. Cardinality(EntriesHolding(h)') + Cardinality(BuffersHolding(h)') =
            Cardinality(EntriesHolding(h)) + Cardinality(BuffersHolding(h)) - 1
      BY <1>1, <2>5, <2>6
    <2> QED BY <1>1, <2>2, <2>3, <2>4, <2>7, Released
  <1> QED BY <1>3, <1>4

\* The handle of one entry is assigned.
LEMMA EntryAssigned ==
  ASSUME NEW q \in Seq(Svcinfo), NEW i \in DOMAIN q, NEW n \in {0} \cup Handles,
         NEW u, u = [q EXCEPT ![i].handle = n]
  PROVE  /\ u \in Seq(Svcinfo) /\ Len(u) = Len(q) /\ DOMAIN u = DOMAIN q
         /\ \A j \in DOMAIN q : /\ u[j].name = q[j].name
                                /\ u[j].handle = IF j = i THEN n ELSE q[j].handle
  <1>1. q[i] \in Svcinfo OBVIOUS
  <1>2. [q[i] EXCEPT !.handle = n] \in Svcinfo BY <1>1 DEF Svcinfo
  <1>3. u \in Seq(Svcinfo) /\ Len(u) = Len(q) /\ DOMAIN u = DOMAIN q BY <1>2
  <1>4. /\ [q[i] EXCEPT !.handle = n].name = q[i].name
        /\ [q[i] EXCEPT !.handle = n].handle = n
    BY <1>1 DEF Svcinfo
  <1> QED BY <1>3, <1>4

\* The notification of a death is handled.
LEMMA DeathIInv ==
  ASSUME IInv, svcinfo_death
  PROVE  IInv'
  <1>0. /\ TypeOK /\ NamesUnique /\ CurInv /\ QueueInv /\ RefInv /\ ClientInv /\ RefsBalanced
    BY DEF IInv
  <1>1. /\ UNCHANGED <<alive, clients, buf, cur, res>> /\ pc = "died" /\ pc' = "loop" /\ si' = 0
        /\ IF svclist[si].handle # 0 THEN DecRef(svclist[si].handle) ELSE UNCHANGED <<refs, todo>>
    BY DEF svcinfo_death
  <1>2. PICK i \in DOMAIN svclist : i = si BY <1>0, <1>1 DEF TypeOK
  <1>3. /\ svclist' \in Seq(Svcinfo) /\ Len(svclist') = Len(svclist)
        /\ DOMAIN svclist' = DOMAIN svclist
        /\ \A j \in DOMAIN svclist : /\ svclist'[j].name = svclist[j].name
                                     /\ svclist'[j].handle = IF j = i THEN 0 ELSE svclist[j].handle
    <2>1. svclist \in Seq(Svcinfo) BY <1>0 DEF TypeOK
    <2>2. CASE svclist[i].handle = 0
      <3>1. svclist' = svclist BY <1>2, <2>2 DEF svcinfo_death
      <3> QED BY <2>1, <2>2, <3>1
    <2>3. CASE svclist[i].handle # 0
      <3>1. svclist' = [svclist EXCEPT ![i].handle = 0] BY <1>2, <2>3 DEF svcinfo_death
      <3>2. svclist[i] \in Svcinfo BY <2>1
      <3>3. /\ [svclist[i] EXCEPT !.handle = 0] \in Svcinfo
            /\ [svclist[i] EXCEPT !.handle = 0].name = svclist[i].name
            /\ [svclist[i] EXCEPT !.handle = 0].handle = 0
        BY <3>2 DEF Svcinfo
      <3> QED BY <2>1, <3>1, <3>3
    <2> QED BY <2>2, <2>3
  <1>4. \A g \in Handles : EntriesHolding(g)' = EntriesHolding(g) \ {i}
    <2>1. 0 \notin Handles BY DEF Handles
    <2> QED BY <1>1, <1>3, <2>1 DEF EntriesHolding
  <1>5. TableOK' /\ \A x : In(x, todo') => In(x, todo)
    <2>1. IF svclist[i].handle # 0 THEN DecRef(svclist[i].handle) ELSE UNCHANGED <<refs, todo>>
      BY <1>1, <1>2
    <2> QED BY <1>0, <1>1, <1>3, <1>4, <2>1, EntryReleased
  <1>6. TypeOK' BY <1>0, <1>1, <1>3, <1>5 DEF TypeOK, TableOK, Pcs, clients
  <1>7. NamesUnique' BY <1>0, <1>3 DEF NamesUnique
  <1>8. CurInv' BY <1>1 DEF CurInv, Busy
  <1>9. QueueInv' BY <1>0, <1>1, <1>5 DEF QueueInv, TableOK, Busy
  <1>10. ClientInv' BY <1>0, <1>1 DEF ClientInv, Pending, clients
  <1> QED BY <1>5, <1>6, <1>7, <1>8, <1>9, <1>10 DEF IInv, TableOK

\* A service takes the place of another under the same name.
LEMMA AddAgainIInv ==
  ASSUME IInv, AddAgain
  PROVE  IInv'
  <1>0. /\ TypeOK /\ NamesUnique /\ CurInv /\ QueueInv /\ RefInv /\ ClientInv /\ RefsBalanced
    BY DEF IInv
  <1>1. /\ UNCHANGED <<alive, clients, buf, cur>> /\ pc = "handler" /\ pc' = "acquire"
        /\ find_svc(msg.name) # 0 /\ si' = find_svc(msg.name) /\ res' = Ok(0)
        /\ msg.handle # 0
    BY DEF AddAgain, CanAdd
  <1>2. /\ cur \in Procs /\ msg \in Messages /\ msg.handle \in Handles /\ msg.name \in Names
        /\ msg # NoMsg
    BY <1>0, <1>1 DEF CurInv, TypeOK, Busy, msg, Messages
  <1>3. PICK i \in DOMAIN svclist : i = find_svc(msg.name) BY <1>0, <1>1, <1>2, FindSvc
  <1>4. PICK n \in Handles : n = msg.handle BY <1>2
  <1>5. /\ IF svclist[i].handle # 0 THEN DecRef(svclist[i].handle) ELSE UNCHANGED <<refs, todo>>
        /\ svclist' = [svclist EXCEPT ![i].handle = n] /\ si' = i
    BY <1>3, <1>4 DEF AddAgain
  <1>6. /\ svclist' \in Seq(Svcinfo) /\ Len(svclist') = Len(svclist)
        /\ DOMAIN svclist' = DOMAIN svclist
        /\ \A j \in DOMAIN svclist : /\ svclist'[j].name = svclist[j].name
                                     /\ svclist'[j].handle = IF j = i THEN n ELSE svclist[j].handle
    <2>1. svclist \in Seq(Svcinfo) /\ n \in {0} \cup Handles BY <1>0 DEF TypeOK
    <2> QED BY <1>5, <2>1, EntryAssigned
  <1>7. \A g \in Handles : EntriesHolding(g)' = EntriesHolding(g) \ {i}
    BY <1>1, <1>5, <1>6 DEF EntriesHolding
  <1>8. TableOK' /\ \A x : In(x, todo') => In(x, todo)
    BY <1>0, <1>1, <1>5, <1>6, <1>7, EntryReleased
  <1>9. TypeOK'
    <2>1. si' \in 0..Len(svclist') /\ si' # 0 BY <1>0, <1>5, <1>6 DEF TypeOK
    <2>2. res' \in [status : {-1, 0}, handle : {0} \cup Handles] BY <1>1 DEF Ok
    <2> QED BY <1>0, <1>1, <1>6, <1>8, <2>1, <2>2 DEF TypeOK, TableOK, Pcs, clients
  <1>10. NamesUnique' BY <1>0, <1>6 DEF NamesUnique
  <1>11. CurInv'
    <2>1. buf'[cur'] = msg /\ cur' = cur BY <1>1 DEF msg
    <2> QED BY <1>1, <1>2, <1>4, <1>5, <1>6, <2>1 DEF CurInv
  <1>12. QueueInv' BY <1>0, <1>1, <1>8 DEF QueueInv, TableOK, Busy
  <1>13. ClientInv' BY <1>0, <1>1 DEF ClientInv, Pending, clients
  <1> QED BY <1>8, <1>9, <1>10, <1>11, <1>12, <1>13 DEF IInv, TableOK

\* BC_FREE_BUFFER: the message of cur stops holding its handle, if it has one.
LEMMA BufferReleased ==
  ASSUME TypeOK, QueueInv, RefInv, RefsBalanced, NEW p \in Procs, buf[p] # NoMsg,
         IF buf[p].handle # 0 THEN DecRef(buf[p].handle) ELSE UNCHANGED <<refs, todo>>,
         alive' = alive, Len(svclist') = Len(svclist),
         \A g \in Handles : EntriesHolding(g)' = EntriesHolding(g),
         \A g \in Handles : BuffersHolding(g)' = BuffersHolding(g) \ {p}
  PROVE  TableOK' /\ \A x : In(x, todo') => In(x, todo)
  <1>1. buf[p] \in Messages /\ buf[p].handle \in {0} \cup Handles BY DEF TypeOK, Messages
  <1>2. CASE buf[p].handle = 0
    <2>0. 0 \notin Handles BY DEF Handles
    <2>1. \A g \in Handles : BuffersHolding(g)' = BuffersHolding(g)
      <3>1. \A g \in Handles : p \notin BuffersHolding(g) BY <1>2, <2>0 DEF BuffersHolding
      <3> QED BY <3>1
    <2>2. UNCHANGED <<strong, node, death, todo>> BY <1>2 DEF refs
    <2>3. RefsBalanced' BY <2>1, <2>2 DEF RefsBalanced
    <2>4. RefInv' BY <2>2 DEF RefInv
    <2> QED BY <2>2, <2>3, <2>4 DEF TableOK, TypeOK, QueueInv
  <1>3. CASE buf[p].handle # 0
    <2>1. PICK h \in Handles : h = buf[p].handle BY <1>1, <1>3
    <2>2. DecRef(h) BY <1>3, <2>1
    <2>3. p \in BuffersHolding(h) BY <2>1 DEF BuffersHolding
    <2>4. \A g \in Handles \ {h} : BuffersHolding(g)' = BuffersHolding(g)
      <3>1. \A g \in Handles \ {h} : p \notin BuffersHolding(g) BY <2>1 DEF BuffersHolding
      <3> QED BY <3>1
    <2>5. /\ IsFiniteSet(BuffersHolding(h)) /\ Cardinality(EntriesHolding(h)) \in Nat
          /\ Cardinality(BuffersHolding(h)) \in Nat
      BY HoldersFinite
    <2>6. Cardinality(BuffersHolding(h)') = Cardinality(BuffersHolding(h)) - 1
      BY <2>3, <2>5, FS_RemoveElement
    <2>7. Cardinality(EntriesHolding(h)') + Cardinality(BuffersHolding(h)') =
            Cardinality(EntriesHolding(h)) + Cardinality(BuffersHolding(h)) - 1
      BY <2>5, <2>6
    <2> QED BY <2>2, <2>3, <2>4, <2>7, Released
  <1> QED BY <1>2, <1>3

\* A caller gets its answer: a handle found comes with the reply's reference.
LEMMA Delivered ==
  ASSUME TypeOK, ClientInv, NEW p \in Procs, call[p] = "wait", held' = held,
         alive' = alive, buf' = [buf EXCEPT ![p] = NoMsg], Deliver(p)
  PROVE  ClientInv' /\ ClientTypes'
  <1>0. ClientTypes /\ alive \subseteq Procs BY DEF TypeOK, ClientTypes
  <1> DEFINE o == IF res.handle = 0 THEN NoObj ELSE node[res.handle]
  <1>1. o \in Objs \cup {NoObj} BY DEF TypeOK
  <1>2. \A q \in alive' : buf'[q] # NoMsg => q # p /\ buf[q] # NoMsg BY <1>0 DEF TypeOK
  <1>3. CASE Found(p, o)
    <2>1. /\ call' = [call EXCEPT ![p] = "acquire"] /\ got' = [got EXCEPT ![p] = o]
          /\ cref' = [cref EXCEPT ![p][o] = @ + 1]
      BY <1>3 DEF Deliver
    <2>2. o \in Objs BY <1>1, <1>3 DEF Found
    <2> HIDE DEF o
    <2>3. cref[p][o] \in Nat /\ cref[p][o] + 1 \in Nat BY <1>0, <2>2 DEF ClientTypes
    <2>4. cref' = [cref EXCEPT ![p][o] = cref[p][o] + 1] BY <1>0, <2>1, <2>2 DEF ClientTypes
    <2>5. /\ cref' \in [Procs -> [Objs -> Nat]]
          /\ \A q \in Procs, x \in Objs :
               cref'[q][x] = IF q = p /\ x = o THEN cref[p][o] + 1 ELSE cref[q][x]
      BY <1>0, <2>2, <2>3, <2>4, CountAt DEF ClientTypes
    <2>6. ClientTypes' BY <1>0, <2>1, <2>2, <2>5 DEF ClientTypes
    <2>7. \A q \in Procs, x \in Objs :
            Pending(q, x)' = IF q = p /\ x = o THEN 1 ELSE Pending(q, x)
      BY <1>0, <2>1 DEF Pending, ClientTypes
    <2>8. Pending(p, o) = 0 BY DEF Pending
    <2>9. \A q \in Procs, x \in Objs : cref'[q][x] = held'[q][x] + Pending(q, x)'
      <3> SUFFICES ASSUME NEW q \in Procs, NEW x \in Objs
                   PROVE  cref'[q][x] = held'[q][x] + Pending(q, x)'
        OBVIOUS
      <3>1. cref[q][x] = held[q][x] + Pending(q, x) /\ held[q][x] \in Nat
        BY <1>0 DEF ClientInv, ClientTypes
      <3>2. CASE q = p /\ x = o
        <4>1. cref'[q][x] = cref[p][o] + 1 /\ Pending(q, x)' = 1 /\ Pending(q, x) = 0
          BY <2>5, <2>7, <2>8, <3>2
        <4> QED BY <3>1, <3>2, <4>1
      <3>3. CASE ~(q = p /\ x = o) BY <2>5, <2>7, <3>1, <3>3
      <3> QED BY <3>2, <3>3
    <2>10. /\ \A q \in alive' : buf'[q] # NoMsg => call'[q] = "wait"
           /\ \A q \in Procs : call'[q] = "acquire" => got'[q] \in Objs
      BY <1>0, <1>2, <2>1, <2>2 DEF ClientInv, ClientTypes
    <2> QED BY <2>6, <2>9, <2>10 DEF ClientInv
  <1>4. CASE ~Found(p, o)
    <2>1. /\ call' = [call EXCEPT ![p] = "done"] /\ cref' = cref
          /\ \E v \in {"ok", "fail"} : got' = [got EXCEPT ![p] = v]
      BY <1>4 DEF Deliver
    <2>2. ClientTypes' BY <1>0, <2>1 DEF ClientTypes
    <2>3. \A q \in Procs, x \in Objs : Pending(q, x)' = Pending(q, x)
      BY <1>0, <2>1, RegistryAssumption DEF Pending, ClientTypes
    <2>4. /\ \A q \in alive' : buf'[q] # NoMsg => call'[q] = "wait"
          /\ \A q \in Procs : call'[q] = "acquire" => got'[q] \in Objs
      BY <1>0, <1>2, <2>1 DEF ClientInv, ClientTypes
    <2> QED BY <2>1, <2>2, <2>3, <2>4 DEF ClientInv
  <1> QED BY <1>3, <1>4

LEMMA ReplyIInv ==
  ASSUME IInv, binder_send_reply
  PROVE  IInv'
  <1>0. /\ TypeOK /\ NamesUnique /\ CurInv /\ QueueInv /\ RefInv /\ ClientInv /\ RefsBalanced
    BY DEF IInv
  <1>1. /\ UNCHANGED <<alive, held, svclist>> /\ pc = "reply" /\ pc' = "loop"
        /\ cur' = Nobody /\ si' = 0 /\ res' = Failed
    BY DEF binder_send_reply
  <1>2. PICK p \in Procs : p = cur /\ buf[p] # NoMsg BY <1>0, <1>1 DEF CurInv, Busy
  <1>3. /\ buf' = [buf EXCEPT ![p] = NoMsg]
        /\ IF buf[p].handle # 0 THEN DecRef(buf[p].handle) ELSE UNCHANGED <<refs, todo>>
        /\ IF p \in alive THEN Deliver(p) ELSE UNCHANGED <<call, got, cref>>
    BY <1>2 DEF binder_send_reply, msg
  <1>4. /\ \A g \in Handles : EntriesHolding(g)' = EntriesHolding(g)
        /\ \A g \in Handles : BuffersHolding(g)' = BuffersHolding(g) \ {p}
    <2>1. \A q \in Procs : buf'[q] = IF q = p THEN NoMsg ELSE buf[q] BY <1>0, <1>3 DEF TypeOK
    <2> QED BY <1>1, <2>1 DEF EntriesHolding, BuffersHolding
  <1>5. TableOK' /\ \A x : In(x, todo') => In(x, todo)
    BY <1>0, <1>1, <1>2, <1>3, <1>4, BufferReleased
  <1>6. ClientInv' /\ ClientTypes'
    <2>1. CASE p \in alive
      <3>1. call[p] = "wait" BY <1>0, <1>2, <2>1 DEF ClientInv
      <3>2. Deliver(p) BY <1>3, <2>1
      <3> QED BY <1>0, <1>1, <1>3, <3>1, <3>2, Delivered
    <2>2. CASE p \notin alive
      <3>1. UNCHANGED <<call, got, cref, held, alive>> BY <1>1, <1>3, <2>2
      <3>2. \A q \in alive : buf'[q] = buf[q] BY <1>0, <1>3, <2>2 DEF TypeOK
      <3> QED BY <1>0, <3>1, <3>2 DEF ClientInv, ClientTypes, Pending, TypeOK
    <2> QED BY <2>1, <2>2
  <1>7. TypeOK'
    <2>1. buf' \in [Procs -> Messages \cup {NoMsg}] BY <1>0, <1>3 DEF TypeOK
    <2>2. res' \in [status : {-1, 0}, handle : {0} \cup Handles] BY <1>1 DEF Failed
    <2>3. si' \in 0..Len(svclist') BY <1>0, <1>1 DEF TypeOK
    <2> QED BY <1>0, <1>1, <1>5, <1>6, <2>1, <2>2, <2>3 DEF TypeOK, TableOK, ClientTypes, Pcs
  <1>8. NamesUnique' BY <1>0, <1>1 DEF NamesUnique
  <1>9. CurInv' BY <1>1 DEF CurInv, Busy
  <1>10. QueueInv'
    <2>1. ASSUME NEW q \in Procs, In(Txn(q), todo')
          PROVE  buf'[q] # NoMsg
      <3>1. buf[q] # NoMsg /\ q # p BY <1>0, <1>1, <1>2, <1>5, <2>1 DEF QueueInv, Busy
      <3> QED BY <1>0, <1>3, <3>1 DEF TypeOK
    <2> QED BY <1>1, <1>5, <2>1 DEF QueueInv, TableOK, Busy
  <1> QED BY <1>5, <1>6, <1>7, <1>8, <1>9, <1>10 DEF IInv, TableOK

-----------------------------------------------------------------------------
(* The theorems *)

LEMMA NextIInv == IInv /\ [Next]_vars => IInv'
  <1> SUFFICES ASSUME IInv, [Next]_vars PROVE IInv' OBVIOUS
  <1>1. CASE svcmgr
    BY <1>1, ReadIInv, DeathIInv, AnswerIInv, AddNewIInv, AddAgainIInv, AddAcquireIInv,
       AddLinkIInv, ReplyIInv DEF svcmgr
  <1>2. ASSUME NEW r \in Requests, Send(r) PROVE IInv' BY <1>2, SendIInv
  <1>3. ASSUME NEW p \in Procs, caller(p) \/ Die(p) \/ \E o \in Objs : Release(p, o)
        PROVE  IInv'
    BY <1>3, CallerIInv, DieIInv DEF caller
  <1>4. CASE UNCHANGED vars
    <2>1. UNCHANGED <<alive, clients, refs, todo, buf, server>> BY <1>4 DEF vars
    <2>2. RefsBalanced' BY <2>1, SameServer DEF IInv, refs
    <2> QED BY <2>1, <2>2 DEF IInv, TypeOK, NamesUnique, CurInv, QueueInv, RefInv, ClientInv,
                              Pending, clients, refs, server
  <1> QED BY <1>1, <1>2, <1>3, <1>4 DEF Next

\* Every step of the service manager, of the driver and of the callers keeps
\* the inductive invariant.
THEOREM Inductive == Spec => []IInv
  BY InitIInv, NextIInv, PTL DEF Spec

\* No operation leaves the types of the table, the queue, the list and the
\* callers; svcinfo_death and do_add_service follow no NULL svcinfo.
THEOREM Typing == Spec => []TypeOK
  <1>1. IInv => TypeOK BY DEF IInv
  <1> QED BY <1>1, Inductive, PTL

\* The references the service manager has on a handle are those of its list
\* entries and of the messages it has not freed, whatever is overridden, dies
\* or fails.
THEOREM Balance == Spec => []RefsBalanced
  <1>1. IInv => RefsBalanced BY DEF IInv
  <1> QED BY <1>1, Inductive, PTL

\* find_svc has at most one entry to find, so dead entries are reused and
\* never shadowed.
THEOREM OneEntryPerName == Spec => []NamesUnique
  <1>1. IInv => NamesUnique BY DEF IInv
  <1> QED BY <1>1, Inductive, PTL

\* A handle returned by svcmgr_lookup is backed by a reference of its own
\* until the program releases it: binder_acquire came before binder_done.
THEOREM LookupUsable == Spec => []HandleUsable
  <1>1. IInv => HandleUsable
    <2> SUFFICES ASSUME IInv, NEW p \in Procs, NEW o \in Objs, held[p][o] > 0
                 PROVE  cref[p][o] > 0
      BY DEF HandleUsable
    <2>1. cref[p][o] = held[p][o] + Pending(p, o) /\ held[p][o] \in Nat
      BY DEF IInv, ClientInv, TypeOK
    <2>2. Pending(p, o) \in Nat BY DEF Pending
    <2> QED BY <2>1, <2>2
  <1> QED BY <1>1, Inductive, PTL

-----------------------------------------------------------------------------
(* Links, notifications and the map from names to services *)

Valid(s) == NameLen[s] # 0 /\ NameLen[s] <= 127

\* A program registers each of its objects under one name that the service
\* manager accepts, as test_server.c does.  Without it the dead are confused:
\* a second name has no link of its own.
OneName ==
  \A r, q \in Requests :
    r.obj = q.obj /\ r.obj # NoObj /\ Valid(r.name) /\ Valid(q.name) => r.name = q.name

Named(o, s) == Valid(s) /\ \E r \in Requests : r.obj = o /\ r.name = s
Carries(p, h) == buf[p] # NoMsg /\ buf[p].handle = h

\* What is in a message, on the list or linked goes by the name its object
\* has, and an object in a message belongs to the sender.
NameInv ==
  /\ \A p \in Procs, h \in Handles :
       Carries(p, h) => /\ Owner[node[h]] = p
                        /\ Valid(buf[p].name) => Named(node[h], buf[p].name)
  /\ \A i \in DOMAIN svclist :
       svclist[i].handle # 0 => Named(node[svclist[i].handle], svclist[i].name)
  /\ \A h \in Handles : death[h] # 0 => Named(node[h], svclist[death[h]].name)

\* The notification of a death comes after the last message of the dead.
OrderInv ==
  \A h \in Handles, p \in Procs :
    In(Dead(h), todo) /\ Owner[node[h]] = p => Before(todo, Txn(p), Dead(h))

\* Every entry has the link of its handle, or is about to request it; a link
\* to a dead service has its notification queued or being handled, by which
\* time no message carries the handle any more.
LinkInv ==
  /\ \A i \in DOMAIN svclist :
       svclist[i].handle # 0 =>
         death[svclist[i].handle] = i \/ (pc \in {"acquire", "link"} /\ si = i)
  /\ \A h \in Handles :
       death[h] # 0 /\ Owner[node[h]] \notin alive =>
         In(Dead(h), todo) \/ (pc = "died" /\ svclist[si].handle = h)
  /\ pc = "died" => /\ svclist[si].handle # 0
                    /\ Owner[node[svclist[si].handle]] \notin alive
                    /\ \A p \in Procs : ~Carries(p, svclist[si].handle)

\* What the service manager answers with is on its list, what a caller got
\* is there until it is done with it, and a message in its buffer is queued or
\* being handled.
AnswerInv ==
  /\ pc \in {"loop", "died"} => cur = Nobody
  /\ pc # "reply" => res.handle = 0
  /\ res.handle # 0 => \E i \in DOMAIN svclist : svclist[i].handle = res.handle
  /\ \A p \in Procs : IF call[p] \in {"idle", "wait"} THEN got[p] = "none"
                      ELSE got[p] # "none" /\ p \in alive
  /\ \A p \in Procs : buf[p] # NoMsg => In(Txn(p), todo) \/ (pc \in Busy /\ cur = p)

LInv == NameInv /\ OrderInv /\ LinkInv /\ AnswerInv

\* What is on the list, in a message, linked or queued refers to an object.
Backed ==
  /\ \A i \in DOMAIN svclist :
       svclist[i].handle # 0 => svclist[i].handle \in Handles /\ node[svclist[i].handle] \in Objs
  /\ \A p \in Procs : buf[p] # NoMsg => buf[p] \in Messages /\ buf[p].handle \in {0} \cup Handles
  /\ \A p \in Procs, h \in Handles : Carries(p, h) => node[h] \in Objs
  /\ \A h \in Handles : death[h] # 0 => node[h] \in Objs /\ death[h] \in DOMAIN svclist
  /\ \A h \in Handles : In(Dead(h), todo) => death[h] # 0 /\ Owner[node[h]] \notin alive

LEMMA HeldHasObj ==
  ASSUME IInv, NEW h \in Handles, EntriesHolding(h) # {} \/ BuffersHolding(h) # {}
  PROVE  node[h] \in Objs /\ strong[h] > 0
  <1>1. strong[h] > 0 BY HolderCounted DEF IInv
  <1> QED BY <1>1 DEF IInv, TypeOK, RefInv

LEMMA BackedNow == IInv => Backed
  <1> SUFFICES ASSUME IInv PROVE Backed OBVIOUS
  <1>0. TypeOK /\ CurInv /\ QueueInv /\ RefInv BY DEF IInv
  <1>1. \A p \in Procs : buf[p] # NoMsg => buf[p] \in Messages /\ buf[p].handle \in {0} \cup Handles
    BY <1>0 DEF TypeOK, Messages
  <1>2. ASSUME NEW p \in Procs, NEW h \in Handles, Carries(p, h) PROVE node[h] \in Objs
    <2>1. p \in BuffersHolding(h) BY <1>2 DEF Carries, BuffersHolding
    <2> QED BY <2>1, HeldHasObj
  <1>3. ASSUME NEW i \in DOMAIN svclist, svclist[i].handle # 0
        PROVE  svclist[i].handle \in Handles /\ node[svclist[i].handle] \in Objs
    <2>1. svclist[i].handle \in Handles
      <3>1. svclist[i] \in Svcinfo BY <1>0 DEF TypeOK
      <3> QED BY <1>3, <3>1 DEF Svcinfo
    <2>2. PICK h \in Handles : h = svclist[i].handle BY <2>1
    <2>3. CASE pc = "acquire" /\ i = si
      <3>1. cur \in Procs /\ Carries(cur, h) BY <1>0, <2>2, <2>3 DEF CurInv, Busy, Carries
      <3> QED BY <1>2, <2>2, <3>1
    <2>4. CASE ~(pc = "acquire" /\ i = si)
      <3>1. i \in EntriesHolding(h) BY <2>2, <2>4 DEF EntriesHolding
      <3> QED BY <2>2, <3>1, HeldHasObj
    <2> QED BY <2>3, <2>4
  <1>4. \A h \in Handles : death[h] # 0 => node[h] \in Objs /\ death[h] \in DOMAIN svclist
    BY <1>0 DEF TypeOK, RefInv
  <1>5. \A h \in Handles : In(Dead(h), todo) => death[h] # 0 /\ Owner[node[h]] \notin alive
    BY <1>0 DEF QueueInv
  <1> QED BY <1>1, <1>2, <1>3, <1>4, <1>5 DEF Backed

LEMMA BackedThen == IInv' => Backed'
  BY BackedNow, PTL

\* An object has one name, so its handle has one entry, which its link is to.
LEMMA OneEntry ==
  ASSUME OneName, IInv, NameInv, NEW i \in DOMAIN svclist, svclist[i].handle # 0
  PROVE  /\ \A j \in DOMAIN svclist : svclist[j].handle = svclist[i].handle => j = i
         /\ death[svclist[i].handle] \in {0, i}
  <1>0. Backed /\ NamesUnique BY BackedNow DEF IInv
  <1>1. PICK h \in Handles : h = svclist[i].handle /\ node[h] \in Objs BY <1>0 DEF Backed
  <1>2. node[h] # NoObj BY <1>1, RegistryAssumption
  <1>3. Named(node[h], svclist[i].name) BY <1>1 DEF NameInv
  <1>4. \A s : Named(node[h], s) => s = svclist[i].name BY <1>2, <1>3 DEF OneName, Named
  <1>5. ASSUME NEW j \in DOMAIN svclist, svclist[j].handle = svclist[i].handle PROVE j = i
    <2>1. Named(node[h], svclist[j].name) BY <1>1, <1>5 DEF NameInv
    <2> QED BY <1>0, <1>4, <2>1 DEF NamesUnique
  <1>6. ASSUME death[h] # 0 PROVE death[h] = i
    <2>1. death[h] \in DOMAIN svclist /\ Named(node[h], svclist[death[h]].name)
      BY <1>0, <1>6 DEF Backed, NameInv
    <2> QED BY <1>0, <1>4, <2>1 DEF NamesUnique
  <1> QED BY <1>1, <1>5, <1>6

-----------------------------------------------------------------------------
(* Steps that give up references at most *)

\* Handles that stay in use keep their object, link and notification.
TableKept ==
  \A h \in Handles :
    node'[h] # NoObj => /\ node'[h] = node[h] /\ death'[h] = death[h]
                        /\ In(Dead(h), todo') <=> In(Dead(h), todo)

OrderKept ==
  /\ \A p \in Procs : In(Txn(p), todo') <=> In(Txn(p), todo)
  /\ \A p \in Procs, h \in Handles :
       Before(todo, Txn(p), Dead(h)) => Before(todo', Txn(p), Dead(h))

LEMMA TableSame ==
  ASSUME UNCHANGED <<node, death, todo>>
  PROVE  TableKept /\ OrderKept
  BY DEF TableKept, OrderKept

LEMMA DecRefKeeps ==
  ASSUME TypeOK, Distinct(todo), NEW h \in Handles, strong[h] > 0, DecRef(h)
  PROVE  TableKept /\ OrderKept
  <1>1. /\ \A x : In(x, todo') => In(x, todo)
        /\ \A x : In(x, todo) /\ x # Dead(h) => In(x, todo')
        /\ \A x, y : Before(todo, x, y) => Before(todo', x, y)
        /\ \/ strong[h] > 1 /\ UNCHANGED <<node, death, todo>>
           \/ /\ node' = [node EXCEPT ![h] = NoObj]
              /\ death' = [death EXCEPT ![h] = 0]
    BY DecRefStep
  <1>2. OrderKept BY <1>1, WorkType DEF OrderKept
  <1>3. CASE UNCHANGED <<node, death, todo>> BY <1>2, <1>3, TableSame
  <1>4. CASE node' = [node EXCEPT ![h] = NoObj] /\ death' = [death EXCEPT ![h] = 0]
    <2> SUFFICES ASSUME NEW g \in Handles, node'[g] # NoObj
                 PROVE  /\ node'[g] = node[g] /\ death'[g] = death[g]
                        /\ In(Dead(g), todo') <=> In(Dead(g), todo)
      BY <1>2 DEF TableKept
    <2>1. g # h BY <1>4 DEF TypeOK
    <2>2. Dead(g) # Dead(h) BY <2>1, WorkType
    <2> QED BY <1>1, <1>4, <2>1, <2>2 DEF TypeOK
  <1> QED BY <1>1, <1>3, <1>4

LEMMA NameStep ==
  ASSUME NameInv, Backed',
         \A h \in Handles : node'[h] # NoObj => node'[h] = node[h] /\ death'[h] = death[h],
         \A p \in Procs : buf'[p] # NoMsg => buf'[p] = buf[p],
         DOMAIN svclist' = DOMAIN svclist,
         \A i \in DOMAIN svclist : /\ svclist'[i].name = svclist[i].name
                                   /\ svclist'[i].handle \in {0, svclist[i].handle}
  PROVE  NameInv'
  <1>0. NoObj \notin Objs BY RegistryAssumption
  <1>1. ASSUME NEW p \in Procs, NEW h \in Handles, Carries(p, h)'
        PROVE  Owner[node'[h]] = p /\ (Valid(buf'[p].name) => Named(node'[h], buf'[p].name))
    <2>1. node'[h] = node[h] BY <1>0, <1>1 DEF Backed
    <2>2. Carries(p, h) /\ buf'[p] = buf[p] BY <1>1 DEF Carries
    <2> QED BY <2>1, <2>2 DEF NameInv
  <1>2. ASSUME NEW i \in DOMAIN svclist', svclist'[i].handle # 0
        PROVE  Named(node'[svclist'[i].handle], svclist'[i].name)
    <2>1. /\ i \in DOMAIN svclist /\ svclist'[i].handle = svclist[i].handle
          /\ svclist'[i].name = svclist[i].name
      BY <1>2
    <2>2. node'[svclist'[i].handle] = node[svclist'[i].handle] BY <1>0, <1>2 DEF Backed
    <2> QED BY <1>2, <2>1, <2>2 DEF NameInv
  <1>3. ASSUME NEW h \in Handles, death'[h] # 0
        PROVE  Named(node'[h], svclist'[death'[h]].name)
    <2>1. node'[h] = node[h] /\ death'[h] = death[h] /\ death'[h] \in DOMAIN svclist
      BY <1>0, <1>3 DEF Backed
    <2>2. Named(node[h], svclist[death[h]].name) BY <1>3, <2>1 DEF NameInv
    <2>3. svclist'[death[h]].name = svclist[death[h]].name BY <2>1
    <2> QED BY <2>1, <2>2, <2>3
  <1> QED BY <1>1, <1>2, <1>3 DEF NameInv, Carries

LEMMA OrderStep ==
  ASSUME OrderInv, Backed', TableKept, OrderKept
  PROVE  OrderInv'
  <1> SUFFICES ASSUME NEW h \in Handles, NEW p \in Procs,
                      In(Dead(h), todo'), Owner[node'[h]] = p
               PROVE  Before(todo', Txn(p), Dead(h))
    BY DEF OrderInv
  <1>1. node'[h] # NoObj BY RegistryAssumption DEF Backed
  <1>2. node'[h] = node[h] /\ In(Dead(h), todo) BY <1>1 DEF TableKept
  <1> QED BY <1>2 DEF OrderInv, OrderKept

-----------------------------------------------------------------------------
(* Every step keeps links and notifications in order *)

LEMMA InitLInv == Init => LInv
  <1> SUFFICES ASSUME Init PROVE LInv OBVIOUS
  <1>1. NameInv /\ OrderInv /\ LinkInv BY DEF Init, NameInv, OrderInv, LinkInv, Carries, In
  <1>2. AnswerInv BY DEF Init, AnswerInv, Failed
  <1> QED BY <1>1, <1>2 DEF LInv

\* binder_acquire, binder_done and binder_release of the callers, and nothing.
LEMMA QuietLInv ==
  ASSUME IInv, LInv,
         \/ UNCHANGED vars
         \/ \E p \in Procs : Acquire(p) \/ Done(p) \/ \E o \in Objs : Release(p, o)
  PROVE  LInv'
  <1>1. UNCHANGED <<alive, node, strong, death, todo, buf, svclist, pc, cur, si, res>>
    BY DEF Acquire, Done, Release, vars, refs, server
  <1>2. NameInv' /\ OrderInv' /\ LinkInv'
    BY <1>1 DEF LInv, NameInv, OrderInv, LinkInv, Carries
  <1>3. /\ call \in [Procs -> {"idle", "wait", "acquire", "done"}]
        /\ got \in [Procs -> Objs \cup {"none", "ok", "fail"}]
    BY DEF IInv, TypeOK
  <1>4. \A q \in Procs : IF call'[q] \in {"idle", "wait"} THEN got'[q] = "none"
                         ELSE got'[q] # "none" /\ q \in alive'
    <2>0. \A q \in Procs : IF call[q] \in {"idle", "wait"} THEN got[q] = "none"
                           ELSE got[q] # "none" /\ q \in alive
      BY DEF LInv, AnswerInv
    <2>1. ASSUME NEW p \in Procs, Acquire(p)
          PROVE  call[p] = "acquire" /\ call' = [call EXCEPT ![p] = "done"] /\ got' = got
      BY <2>1 DEF Acquire
    <2>2. ASSUME NEW p \in Procs, Done(p)
          PROVE  call' = [call EXCEPT ![p] = "idle"] /\ got' = [got EXCEPT ![p] = "none"]
      BY <2>2 DEF Done
    <2>3. ASSUME UNCHANGED vars \/ \E p \in Procs, o \in Objs : Release(p, o)
          PROVE  UNCHANGED <<call, got>>
      BY <2>3 DEF Release, vars, clients
    <2>4. CASE UNCHANGED vars \/ \E p \in Procs, o \in Objs : Release(p, o)
      BY <1>1, <2>0, <2>3, <2>4
    <2>5. CASE \E p \in Procs : Acquire(p) BY <1>1, <1>3, <2>0, <2>1, <2>5
    <2>6. CASE \E p \in Procs : Done(p) BY <1>1, <1>3, <2>0, <2>2, <2>6
    <2> QED BY <2>4, <2>5, <2>6
  <1>5. AnswerInv' BY <1>1, <1>4 DEF LInv, AnswerInv
  <1> QED BY <1>2, <1>5 DEF LInv

LEMMA DieLInv ==
  ASSUME IInv, IInv', LInv, NEW p \in Procs, Die(p)
  PROVE  LInv'
  <1>0. NameInv /\ OrderInv /\ LinkInv /\ AnswerInv /\ Backed /\ Backed'
    BY BackedNow, BackedThen DEF LInv
  <1>1. /\ alive' = alive \ {p} /\ UNCHANGED <<node, strong, death, buf, svclist, pc, cur, si, res>>
        /\ call' = [call EXCEPT ![p] = "idle"] /\ got' = [got EXCEPT ![p] = "none"]
    BY DEF Die, refs, server
  <1>2. NameInv' BY <1>0, <1>1 DEF NameInv, Carries
  <1>3. OrderInv'
    <2> SUFFICES ASSUME NEW h \in Handles, NEW q \in Procs,
                        In(Dead(h), todo'), Owner[node[h]] = q
                 PROVE  Before(todo', Txn(q), Dead(h))
      BY <1>1 DEF OrderInv
    <2>1. CASE In(Dead(h), todo) BY <1>0, <2>1, DieQueue DEF OrderInv
    <2>2. CASE ~In(Dead(h), todo)
      <3>1. Before(todo, Txn(q), Dead(h)) BY <2>2 DEF Before, In
      <3> QED BY <3>1, DieQueue
    <2> QED BY <2>1, <2>2
  <1>4. LinkInv'
    <2>1. ASSUME NEW h \in Handles, death[h] # 0, Owner[node[h]] \notin alive'
          PROVE  In(Dead(h), todo') \/ (pc = "died" /\ svclist[si].handle = h)
      <3>1. node[h] # NoObj BY <1>0, <2>1, RegistryAssumption DEF Backed
      <3>2. Owner[node[h]] = p \/ Owner[node[h]] \notin alive BY <1>1, <2>1
      <3> QED BY <1>0, <2>1, <3>1, <3>2, DieQueue DEF LinkInv
    <2> QED BY <1>0, <1>1, <2>1 DEF LinkInv, Carries
  <1>5. AnswerInv'
    <2>1. /\ call \in [Procs -> {"idle", "wait", "acquire", "done"}]
          /\ got \in [Procs -> Objs \cup {"none", "ok", "fail"}]
      BY DEF IInv, TypeOK
    <2>2. \A q \in Procs : IF call'[q] \in {"idle", "wait"} THEN got'[q] = "none"
                           ELSE got'[q] # "none" /\ q \in alive'
      BY <1>0, <1>1, <2>1 DEF AnswerInv
    <2> QED BY <1>0, <1>1, <2>2, DieQueue DEF AnswerInv
  <1> QED BY <1>2, <1>3, <1>4, <1>5 DEF LInv

\* What a message is when it is sent, and what sending leaves alone.
Sent(r, h) ==
  /\ buf' = [buf EXCEPT ![r.from] = [code |-> r.code, name |-> r.name, handle |-> h,
                                     allow |-> r.allow, n |-> r.n]]
  /\ h = 0 => r.obj = NoObj /\ node' = node
  /\ h # 0 => /\ r.obj \in Objs /\ Owner[r.obj] = r.from
              /\ node[h] \in {r.obj, NoObj} /\ node' = [node EXCEPT ![h] = r.obj]

LEMMA SendStep ==
  ASSUME IInv, NEW r \in Requests, Send(r)
  PROVE  /\ r.from \in Procs /\ r.from \in alive /\ call[r.from] = "idle" /\ buf[r.from] = NoMsg
         /\ UNCHANGED <<alive, got, server, death>>
         /\ todo' = Append(todo, Txn(r.from)) /\ call' = [call EXCEPT ![r.from] = "wait"]
         /\ \A g \in Handles : node[g] # NoObj => node'[g] = node[g]
         /\ \E h \in {0} \cup Handles : Sent(r, h)
  <1>1. r.from \in Procs /\ r.from \in alive /\ call[r.from] = "idle" /\ buf[r.from] = NoMsg
    <2>1. r.from \in Procs /\ r.from \in alive /\ call[r.from] = "idle"
      BY RegistryAssumption DEF Send
    <2> QED BY <2>1 DEF IInv, ClientInv
  <1>2. /\ UNCHANGED <<alive, got, server, death>>
        /\ todo' = Append(todo, Txn(r.from)) /\ call' = [call EXCEPT ![r.from] = "wait"]
    BY DEF Send, refs
  <1>3. node \in [Handles -> Objs \cup {NoObj}] /\ 0 \notin Handles BY DEF IInv, TypeOK, Handles
  <1>4. CASE r.obj = NoObj
    <2>1. Sent(r, 0) /\ node' = node BY <1>4 DEF Send, Sent, refs
    <2> QED BY <1>1, <1>2, <2>1
  <1>5. CASE r.obj # NoObj
    <2>1. PICK h \in HandleFor(r.obj) :
            /\ buf' = [buf EXCEPT ![r.from] = [code |-> r.code, name |-> r.name, handle |-> h,
                                               allow |-> r.allow, n |-> r.n]]
            /\ node' = [node EXCEPT ![h] = r.obj]
      BY <1>5 DEF Send
    <2>2. h \in Handles /\ node[h] \in {r.obj, NoObj} BY <2>1 DEF HandleFor
    <2>3. r.obj \in Objs /\ Owner[r.obj] = r.from BY <1>5, RegistryAssumption
    <2>4. Sent(r, h) BY <1>3, <2>1, <2>2, <2>3 DEF Sent
    <2>5. \A g \in Handles : node[g] # NoObj => node'[g] = node[g] BY <1>3, <2>1, <2>2
    <2> QED BY <1>1, <1>2, <2>2, <2>4, <2>5
  <1> QED BY <1>4, <1>5

LEMMA SendLInv ==
  ASSUME IInv, IInv', LInv, NEW r \in Requests, Send(r)
  PROVE  LInv'
  <1>0. NameInv /\ OrderInv /\ LinkInv /\ AnswerInv /\ Backed /\ Backed'
    BY BackedNow, BackedThen DEF LInv
  <1>a. NoObj \notin Objs /\ 0 \notin Handles BY RegistryAssumption DEF Handles
  <1>1. PICK p \in Procs :
          /\ p = r.from /\ p \in alive /\ call[p] = "idle" /\ buf[p] = NoMsg
          /\ UNCHANGED <<alive, got, death, svclist, pc, cur, si, res>>
          /\ todo' = Append(todo, Txn(p)) /\ call' = [call EXCEPT ![p] = "wait"]
          /\ \A g \in Handles : node[g] # NoObj => node'[g] = node[g]
    BY SendStep DEF server
  <1>2. PICK h \in {0} \cup Handles : Sent(r, h) BY SendStep
  <1> DEFINE m == [code |-> r.code, name |-> r.name, handle |-> h, allow |-> r.allow, n |-> r.n]
  <1>3. buf' = [buf EXCEPT ![p] = m] /\ m.handle = h /\ m.name = r.name
    BY <1>1, <1>2 DEF Sent
  <1> HIDE DEF m
  <1>4. \A q \in Procs : buf'[q] = IF q = p THEN m ELSE buf[q] BY <1>3 DEF IInv, TypeOK
  <1>5. /\ \A x : In(x, todo') <=> In(x, todo) \/ x = Txn(p)
        /\ \A x, y : Before(todo, x, y) /\ x # Txn(p) /\ y # Txn(p) => Before(todo', x, y)
    <2>1. todo \in Seq(Work) /\ Distinct(todo) /\ ~In(Txn(p), todo) /\ Txn(p) \in Work
      BY <1>1, WorkType DEF IInv, TypeOK, QueueInv
    <2> QED BY <1>1, <2>1, QueueAppend
  <1>6. \A g \in Handles : In(Dead(g), todo') <=> In(Dead(g), todo) BY <1>5, WorkType
  <1>7. \A g \in Handles : death[g] # 0 => node'[g] = node[g] BY <1>0, <1>1, <1>a DEF Backed
  <1>8. NameInv'
    <2>1. ASSUME NEW q \in Procs, NEW g \in Handles, Carries(q, g)'
          PROVE  Owner[node'[g]] = q /\ (Valid(buf'[q].name) => Named(node'[g], buf'[q].name))
      <3>1. CASE q = p
        <4>1. g = h /\ h # 0 /\ buf'[q].name = r.name
          BY <1>3, <1>4, <1>a, <2>1, <3>1 DEF Carries
        <4>2. node'[g] = r.obj /\ Owner[r.obj] = p
          BY <1>1, <1>2, <4>1 DEF Sent, IInv, TypeOK
        <4> QED BY <3>1, <4>1, <4>2 DEF Named
      <3>2. CASE q # p
        <4>1. Carries(q, g) /\ buf'[q] = buf[q] BY <1>4, <2>1, <3>2 DEF Carries
        <4>2. node'[g] = node[g] BY <1>0, <1>1, <1>a, <4>1 DEF Backed
        <4> QED BY <1>0, <4>1, <4>2 DEF NameInv
      <3> QED BY <3>1, <3>2
    <2>2. ASSUME NEW i \in DOMAIN svclist, svclist[i].handle # 0
          PROVE  Named(node'[svclist[i].handle], svclist[i].name)
      <3>1. node'[svclist[i].handle] = node[svclist[i].handle] BY <1>0, <1>1, <1>a, <2>2 DEF Backed
      <3> QED BY <1>0, <2>2, <3>1 DEF NameInv
    <2>3. \A g \in Handles : death[g] # 0 => Named(node'[g], svclist[death[g]].name)
      BY <1>0, <1>7 DEF NameInv
    <2> QED BY <1>1, <2>1, <2>2, <2>3 DEF NameInv, Carries
  <1>9. OrderInv'
    <2> SUFFICES ASSUME NEW g \in Handles, NEW q \in Procs,
                        In(Dead(g), todo'), Owner[node'[g]] = q
                 PROVE  Before(todo', Txn(q), Dead(g))
      BY DEF OrderInv
    <2>1. In(Dead(g), todo) /\ death[g] # 0 /\ node'[g] = node[g] /\ q \notin alive
      BY <1>0, <1>6, <1>7 DEF Backed
    <2>2. Before(todo, Txn(q), Dead(g)) /\ q # p BY <1>0, <1>1, <2>1 DEF OrderInv
    <2> QED BY <1>5, <2>2, WorkType
  <1>10. LinkInv'
    <2>1. ASSUME NEW g \in Handles, death'[g] # 0, Owner[node'[g]] \notin alive'
          PROVE  In(Dead(g), todo') \/ (pc' = "died" /\ svclist'[si'].handle = g)
      BY <1>0, <1>1, <1>6, <1>7, <2>1 DEF LinkInv
    <2>2. ASSUME pc = "died"
          PROVE  /\ svclist[si].handle # 0
                 /\ Owner[node'[svclist[si].handle]] \notin alive
                 /\ \A q \in Procs : ~Carries(q, svclist[si].handle)'
      <3>1. PICK i \in DOMAIN svclist : i = si BY <2>2 DEF IInv, TypeOK
      <3>2. svclist[i].handle # 0 BY <1>0, <2>2, <3>1 DEF LinkInv
      <3>3. PICK g \in Handles : g = svclist[i].handle /\ node[g] # NoObj
        BY <1>0, <1>a, <3>2 DEF Backed
      <3>4. Owner[node[g]] \notin alive /\ \A q \in Procs : ~Carries(q, g)
        BY <1>0, <2>2, <3>1, <3>3 DEF LinkInv
      <3>5. h # g
        <4>1. CASE h = g
          <5>1. h # 0 /\ Owner[r.obj] = p /\ node[h] = r.obj
            BY <1>1, <1>2, <1>a, <3>3, <4>1 DEF Sent
          <5> QED BY <1>1, <3>4, <4>1, <5>1
        <4> QED BY <4>1
      <3>6. \A q \in Procs : ~Carries(q, g)' BY <1>3, <1>4, <3>4, <3>5 DEF Carries
      <3>7. svclist'[si'].handle = g BY <1>1, <3>1, <3>3
      <3> QED BY <1>1, <3>1, <3>2, <3>3, <3>4, <3>6, <3>7 DEF Carries
    <2> QED BY <1>0, <1>1, <2>1, <2>2 DEF LinkInv, Carries
  <1>11. AnswerInv'
    <2>1. \A q \in Procs : IF call'[q] \in {"idle", "wait"} THEN got'[q] = "none"
                           ELSE got'[q] # "none" /\ q \in alive'
      BY <1>0, <1>1 DEF AnswerInv, IInv, TypeOK
    <2>2. \A q \in Procs : buf'[q] # NoMsg => In(Txn(q), todo') \/ (pc \in Busy /\ cur = q)
      BY <1>0, <1>4, <1>5 DEF AnswerInv
    <2> QED BY <1>0, <1>1, <2>1, <2>2 DEF AnswerInv
  <1> QED BY <1>8, <1>9, <1>10, <1>11 DEF LInv

\* BR_TRANSACTION: the queue loses a message.
LEMMA ReadTxnLInv ==
  ASSUME IInv, IInv', LInv, ReadTxn
  PROVE  LInv'
  <1>0. NameInv /\ OrderInv /\ LinkInv /\ AnswerInv /\ Backed'
    BY BackedThen DEF LInv
  <1>1. /\ UNCHANGED <<alive, call, got, node, death, buf, svclist, si, res>>
        /\ pc = "loop" /\ pc' = "handler" /\ todo # <<>>
        /\ todo' = Tail(todo) /\ cur' = Head(todo).from /\ Head(todo).kind = "txn"
    BY DEF ReadTxn, clients, refs
  <1>2. /\ Head(todo) \in Work
        /\ \A x : In(x, todo') <=> In(x, todo) /\ x # Head(todo)
        /\ \A x, y : Before(todo, x, y) => Before(todo', x, y)
    BY <1>1, QueuePop DEF IInv, TypeOK, QueueInv
  <1>3. PICK p \in Procs : p = cur' /\ Head(todo) = Txn(p) BY <1>1, <1>2 DEF Work, Txn
  <1>4. \A g \in Handles : In(Dead(g), todo') <=> In(Dead(g), todo) BY <1>2, <1>3, WorkType
  <1>5. NameInv' BY <1>0, <1>1 DEF NameInv, Carries
  <1>6. OrderInv' BY <1>0, <1>1, <1>2, <1>4 DEF OrderInv
  <1>7. LinkInv' BY <1>0, <1>1, <1>4 DEF LinkInv
  <1>8. AnswerInv'
    <2>1. \A q \in Procs : In(Txn(q), todo) => In(Txn(q), todo') \/ q = p
      BY <1>2, <1>3, WorkType
    <2> QED BY <1>0, <1>1, <1>3, <2>1 DEF AnswerInv, Busy
  <1> QED BY <1>5, <1>6, <1>7, <1>8 DEF LInv

\* BR_DEAD_BINDER: whoever sent the service's messages is dead and has been
\* served, so an entry has the handle, and the cookie is that entry.
LEMMA ReadDeathLInv ==
  ASSUME OneName, IInv, IInv', LInv, ReadDeath
  PROVE  LInv'
  <1>0. NameInv /\ OrderInv /\ LinkInv /\ AnswerInv /\ Backed
    BY BackedNow DEF LInv
  <1>1. /\ UNCHANGED <<alive, call, got, node, death, buf, svclist, cur, res>>
        /\ pc = "loop" /\ pc' = "died" /\ todo # <<>>
        /\ todo' = Tail(todo) /\ si' = death[Head(todo).handle] /\ Head(todo).kind = "dead"
    BY DEF ReadDeath, clients, refs
  <1>2. /\ Head(todo) \in Work /\ In(Head(todo), todo)
        /\ \A x : In(x, todo') <=> In(x, todo) /\ x # Head(todo)
        /\ \A x, y : Before(todo, x, y) => Before(todo', x, y)
    BY <1>1, QueuePop DEF IInv, TypeOK, QueueInv
  <1>3. PICK h \in Handles : Head(todo) = Dead(h) /\ si' = death[h] BY <1>1, <1>2 DEF Work, Dead
  <1>4. In(Dead(h), todo) /\ death[h] # 0 /\ Owner[node[h]] \notin alive /\ node[h] \in Objs
    BY <1>0, <1>2, <1>3 DEF Backed
  <1>5. ASSUME NEW q \in Procs PROVE ~Carries(q, h)
    <2> SUFFICES ASSUME Carries(q, h) PROVE FALSE OBVIOUS
    <2>1. Owner[node[h]] = q BY <1>0 DEF NameInv
    <2>2. In(Txn(q), todo) BY <1>0, <1>1 DEF AnswerInv, Carries, Busy
    <2>3. Before(todo, Txn(q), Dead(h)) BY <1>0, <1>4, <2>1 DEF OrderInv
    <2>4. todo \in Seq(Work) BY DEF IInv, TypeOK
    <2>5. 1 \in DOMAIN todo /\ todo[1] = Dead(h) BY <1>1, <1>3, <2>4
    <2>6. PICK k \in DOMAIN todo : todo[k] = Txn(q) BY <2>2 DEF In
    <2>7. k < 1 BY <2>3, <2>5, <2>6 DEF Before
    <2> QED BY <2>4, <2>6, <2>7
  <1>6. svclist[death[h]].handle = h
    <2>1. BuffersHolding(h) = {} BY <1>5 DEF BuffersHolding, Carries
    <2>2. EntriesHolding(h) # {}
      <3>1. strong[h] > 0 /\ strong[h] = Cardinality(EntriesHolding(h)) + Cardinality(BuffersHolding(h))
        BY <1>4, RegistryAssumption DEF IInv, RefInv, RefsBalanced
      <3> QED BY <2>1, <3>1, FS_EmptySet
    <2>3. PICK i \in DOMAIN svclist : svclist[i].handle = h BY <2>2 DEF EntriesHolding
    <2>4. h # 0 BY DEF Handles
    <2> QED BY <1>0, <1>1, <2>3, <2>4 DEF LinkInv
  <1>7. NameInv' BY <1>0, <1>1 DEF NameInv, Carries
  <1>8. OrderInv' BY <1>0, <1>1, <1>2 DEF OrderInv
  <1>9. LinkInv'
    <2>1. ASSUME NEW g \in Handles, death[g] # 0, Owner[node[g]] \notin alive
          PROVE  In(Dead(g), todo') \/ g = h
      BY <1>0, <1>1, <1>2, <1>3, <2>1, WorkType DEF LinkInv
    <2>2. svclist'[si'].handle = h /\ h # 0 BY <1>1, <1>3, <1>6 DEF Handles
    <2>3. \A q \in Procs : ~Carries(q, h)' BY <1>1, <1>5 DEF Carries
    <2>4. \A i \in DOMAIN svclist : svclist[i].handle # 0 => death[svclist[i].handle] = i
      BY <1>0, <1>1 DEF LinkInv
    <2> QED BY <1>1, <1>4, <2>1, <2>2, <2>3, <2>4 DEF LinkInv, Carries
  <1>10. AnswerInv'
    <2>1. \A q \in Procs : In(Txn(q), todo) => In(Txn(q), todo') BY <1>2, <1>3, WorkType
    <2> QED BY <1>0, <1>1, <2>1 DEF AnswerInv, Busy
  <1> QED BY <1>7, <1>8, <1>9, <1>10 DEF LInv

\* svcinfo_death on a notification drops the last reference: no other entry
\* and no message has the handle.
LEMMA DeathStep ==
  ASSUME OneName, IInv, LInv, svcinfo_death
  PROVE  \E i \in DOMAIN svclist, h \in Handles :
           /\ i = si /\ h = svclist[i].handle /\ Owner[node[h]] \notin alive
           /\ \A p \in Procs : ~Carries(p, h)
           /\ node' = [node EXCEPT ![h] = NoObj] /\ death' = [death EXCEPT ![h] = 0]
           /\ DOMAIN svclist' = DOMAIN svclist
           /\ svclist' = [svclist EXCEPT ![i].handle = 0]
           /\ \A j \in DOMAIN svclist : /\ svclist'[j].name = svclist[j].name
                                        /\ svclist'[j].allow = svclist[j].allow
                                        /\ svclist'[j].handle = IF j = i THEN 0 ELSE svclist[j].handle
           /\ TableKept /\ OrderKept
  <1>0. Backed /\ TypeOK /\ NameInv BY BackedNow DEF IInv, LInv
  <1>1. pc = "died" BY DEF svcinfo_death
  <1>2. PICK i \in DOMAIN svclist : i = si BY <1>0, <1>1 DEF TypeOK
  <1>3. svclist[i].handle # 0 BY <1>1, <1>2 DEF LInv, LinkInv
  <1>4. PICK h \in Handles : h = svclist[i].handle BY <1>0, <1>3 DEF Backed
  <1>5. Owner[node[h]] \notin alive /\ \A p \in Procs : ~Carries(p, h)
    BY <1>1, <1>2, <1>4 DEF LInv, LinkInv
  <1>6. DecRef(h) /\ svclist' = [svclist EXCEPT ![i].handle = 0]
    BY <1>2, <1>3, <1>4 DEF svcinfo_death
  <1>7. strong[h] = 1
    <2>1. BuffersHolding(h) = {} BY <1>5 DEF BuffersHolding, Carries
    <2>2. EntriesHolding(h) = {i}
      <3>1. \A j \in DOMAIN svclist : svclist[j].handle = h => j = i
        BY <1>0, <1>3, <1>4, OneEntry
      <3> QED BY <1>1, <1>4, <3>1 DEF EntriesHolding
    <2>3. Cardinality({i}) = 1 /\ Cardinality(BuffersHolding(h)) = 0
      BY <2>1, FS_EmptySet, FS_Singleton
    <2>4. strong[h] = Cardinality(EntriesHolding(h)) + Cardinality(BuffersHolding(h))
      BY DEF IInv, RefsBalanced
    <2> QED BY <2>2, <2>3, <2>4
  <1>8. Distinct(todo) /\ strong[h] > 0 BY <1>7 DEF IInv, QueueInv
  <1>9. TableKept /\ OrderKept BY <1>0, <1>6, <1>8, DecRefKeeps
  <1>10. node' = [node EXCEPT ![h] = NoObj] /\ death' = [death EXCEPT ![h] = 0]
    BY <1>6, <1>7 DEF DecRef
  <1>11. /\ DOMAIN svclist' = DOMAIN svclist
         /\ \A j \in DOMAIN svclist : /\ svclist'[j].name = svclist[j].name
                                      /\ svclist'[j].allow = svclist[j].allow
                                      /\ svclist'[j].handle = IF j = i THEN 0 ELSE svclist[j].handle
    <2>1. svclist \in Seq(Svcinfo) /\ svclist[i] \in Svcinfo BY <1>0 DEF TypeOK
    <2>2. /\ [svclist[i] EXCEPT !.handle = 0].name = svclist[i].name
          /\ [svclist[i] EXCEPT !.handle = 0].allow = svclist[i].allow
          /\ [svclist[i] EXCEPT !.handle = 0].handle = 0
      BY <2>1 DEF Svcinfo
    <2> QED BY <1>6, <2>1, <2>2
  <1> QED BY <1>2, <1>4, <1>5, <1>6, <1>9, <1>10, <1>11

LEMMA DeathLInv ==
  ASSUME OneName, IInv, IInv', LInv, svcinfo_death
  PROVE  LInv'
  <1>0. NameInv /\ OrderInv /\ LinkInv /\ AnswerInv /\ Backed'
    BY BackedThen DEF LInv
  <1>1. UNCHANGED <<alive, call, got, buf, cur, res>> /\ pc = "died" /\ pc' = "loop"
    BY DEF svcinfo_death, clients
  <1>2. PICK i \in DOMAIN svclist, h \in Handles :
           /\ i = si /\ h = svclist[i].handle
           /\ node' = [node EXCEPT ![h] = NoObj] /\ death' = [death EXCEPT ![h] = 0]
           /\ DOMAIN svclist' = DOMAIN svclist
           /\ \A j \in DOMAIN svclist : /\ svclist'[j].name = svclist[j].name
                                        /\ svclist'[j].handle = IF j = i THEN 0 ELSE svclist[j].handle
           /\ TableKept /\ OrderKept
    BY DeathStep
  <1>a. NoObj \notin Objs BY RegistryAssumption
  <1>3. NameInv' BY <1>0, <1>1, <1>2, NameStep DEF TableKept
  <1>4. OrderInv' BY <1>0, <1>2, OrderStep
  <1>5. LinkInv'
    <2>1. ASSUME NEW j \in DOMAIN svclist', svclist'[j].handle # 0
          PROVE  death'[svclist'[j].handle] = j
      <3>1. j \in DOMAIN svclist /\ svclist'[j].handle = svclist[j].handle BY <1>2, <2>1
      <3>2. PICK g \in Handles : g = svclist'[j].handle /\ node'[g] # NoObj
        BY <1>0, <1>a, <2>1 DEF Backed
      <3> QED BY <1>0, <1>1, <1>2, <2>1, <3>1, <3>2 DEF LinkInv, TableKept
    <2>2. ASSUME NEW g \in Handles, death'[g] # 0, Owner[node'[g]] \notin alive'
          PROVE  In(Dead(g), todo')
      <3>1. node'[g] # NoObj BY <1>0, <1>a, <2>2 DEF Backed
      <3>2. node'[g] = node[g] /\ death'[g] = death[g] /\ (In(Dead(g), todo') <=> In(Dead(g), todo))
        BY <1>2, <3>1 DEF TableKept
      <3>3. g # h BY <1>2, <3>1 DEF IInv, TypeOK
      <3> QED BY <1>0, <1>1, <1>2, <2>2, <3>2, <3>3 DEF LinkInv
    <2> QED BY <1>1, <2>1, <2>2 DEF LinkInv
  <1>6. AnswerInv'
    <2>1. \A q \in Procs : In(Txn(q), todo') <=> In(Txn(q), todo) BY <1>2 DEF OrderKept
    <2>2. res'.handle = 0 BY <1>0, <1>1 DEF AnswerInv
    <2> QED BY <1>0, <1>1, <2>1, <2>2 DEF AnswerInv, Busy
  <1> QED BY <1>3, <1>4, <1>5, <1>6 DEF LInv

\* The answers that change nothing but the answer: a handle found is an
\* entry's.
LEMMA AnswerLInv ==
  ASSUME IInv, IInv', LInv, Answer \/ AddRefused
  PROVE  LInv'
  <1>0. NameInv /\ OrderInv /\ LinkInv /\ AnswerInv BY DEF LInv
  <1>1. /\ UNCHANGED <<alive, call, got, node, death, todo, buf, svclist, cur, si>>
        /\ pc = "handler" /\ pc' = "reply"
    BY DEF Answer, AddRefused, clients, refs
  <1>2. NameInv' /\ OrderInv' BY <1>0, <1>1 DEF NameInv, OrderInv, Carries
  <1>3. LinkInv' BY <1>0, <1>1 DEF LinkInv
  <1>4. res'.handle # 0 => \E i \in DOMAIN svclist : svclist[i].handle = res'.handle
    <2>1. CASE AddRefused BY <2>1 DEF AddRefused, Failed
    <2>2. CASE Answer
      <3>1. msg \in Messages BY <1>1 DEF IInv, CurInv, TypeOK, Busy, msg
      <3>2. msg.code \in {"PING", "BAD", "LIST", "CHECK"} /\ msg.name \in Names
        BY <2>2, <3>1 DEF Answer, Messages, Codes
      <3>3. res' \in {Ok(0), Failed, Ok(do_find_service(msg.name, cur))}
        BY <2>2, <3>2 DEF Answer
      <3>4. \/ do_find_service(msg.name, cur) = 0
            \/ \E i \in DOMAIN svclist : svclist[i].handle = do_find_service(msg.name, cur)
        BY <3>2, FindSvc DEF do_find_service, IInv
      <3> QED BY <3>3, <3>4 DEF Ok, Failed
    <2> QED BY <2>1, <2>2
  <1>5. AnswerInv' BY <1>0, <1>1, <1>4 DEF AnswerInv, Busy
  <1> QED BY <1>2, <1>3, <1>5 DEF LInv

\* The request in hand: a registration that can be made.
LEMMA AddRequest ==
  ASSUME IInv, LInv, pc = "handler", msg.code = "ADD", CanAdd
  PROVE  \E n \in Handles, p \in Procs :
           /\ p = cur /\ n = msg.handle /\ Carries(p, n) /\ node[n] \in Objs
           /\ msg \in Messages /\ msg.name \in Names /\ Named(node[n], msg.name)
  <1>1. cur \in Procs /\ msg # NoMsg /\ msg \in Messages BY DEF IInv, CurInv, Busy, TypeOK, msg
  <1>2. PICK n \in Handles, p \in Procs : n = msg.handle /\ p = cur
    BY <1>1 DEF CanAdd, Messages
  <1>3. Carries(p, n) BY <1>1, <1>2 DEF Carries, msg
  <1>4. Valid(buf[p].name) BY <1>2 DEF CanAdd, Valid, msg
  <1>5. Named(node[n], msg.name) BY <1>2, <1>3, <1>4 DEF LInv, NameInv, msg
  <1>6. node[n] \in Objs BY <1>3, BackedNow DEF Backed
  <1>7. msg.name \in Names BY <1>1 DEF Messages
  <1> QED BY <1>1, <1>2, <1>3, <1>5, <1>6, <1>7

LEMMA AddNewLInv ==
  ASSUME IInv, IInv', LInv, AddNew
  PROVE  LInv'
  <1>0. NameInv /\ OrderInv /\ LinkInv /\ AnswerInv /\ Backed BY BackedNow DEF LInv
  <1>1. PICK n \in Handles, p \in Procs :
          /\ p = cur /\ n = msg.handle /\ Named(node[n], msg.name)
    BY AddRequest DEF AddNew
  <1> DEFINE e == [name |-> msg.name, handle |-> msg.handle, allow |-> msg.allow]
             k == Len(svclist) + 1
  <1>2. /\ UNCHANGED <<alive, call, got, node, death, todo, buf, cur>>
        /\ pc = "handler" /\ pc' = "acquire" /\ svclist' = Append(svclist, e)
        /\ si' = k /\ res' = Ok(0)
    BY DEF AddNew, clients, refs
  <1>3. e.name = msg.name /\ e.handle = n BY <1>1
  <1> HIDE DEF e
  <1>4. /\ \A i \in DOMAIN svclist : svclist'[i] = svclist[i]
        /\ \A i \in DOMAIN svclist' : i \in DOMAIN svclist \/ i = k
        /\ svclist'[k] = e
    BY <1>2 DEF IInv, TypeOK
  <1> HIDE DEF k
  <1>5. NameInv'
    <2>1. ASSUME NEW i \in DOMAIN svclist', svclist'[i].handle # 0
          PROVE  Named(node[svclist'[i].handle], svclist'[i].name)
      BY <1>0, <1>1, <1>3, <1>4, <2>1 DEF NameInv
    <2>2. ASSUME NEW h \in Handles, death[h] # 0 PROVE Named(node[h], svclist'[death[h]].name)
      BY <1>0, <1>4, <2>2 DEF NameInv, Backed
    <2> QED BY <1>0, <1>2, <2>1, <2>2 DEF NameInv, Carries
  <1>6. OrderInv' BY <1>0, <1>2 DEF OrderInv
  <1>7. LinkInv'
    <2>1. ASSUME NEW i \in DOMAIN svclist', svclist'[i].handle # 0
          PROVE  death[svclist'[i].handle] = i \/ i = k
      BY <1>0, <1>2, <1>4, <2>1 DEF LinkInv
    <2> QED BY <1>0, <1>2, <2>1 DEF LinkInv
  <1>8. AnswerInv' BY <1>0, <1>2 DEF AnswerInv, Busy, Ok
  <1> QED BY <1>5, <1>6, <1>7, <1>8 DEF LInv

\* What a registration over an earlier one does.
LEMMA AgainStep ==
  ASSUME IInv, AddAgain
  PROVE  \E i \in DOMAIN svclist :
           /\ i = find_svc(msg.name) /\ svclist[i].name = msg.name /\ si' = i
           /\ DOMAIN svclist' = DOMAIN svclist
           /\ \A j \in DOMAIN svclist :
                /\ svclist'[j].name = svclist[j].name /\ svclist'[j].allow = svclist[j].allow
                /\ svclist'[j].handle = IF j = i THEN msg.handle ELSE svclist[j].handle
           /\ TableKept /\ OrderKept
  <1>0. TypeOK /\ Backed /\ NamesUnique BY BackedNow DEF IInv
  <1>1. pc = "handler" /\ find_svc(msg.name) # 0 BY DEF AddAgain
  <1>2. msg.name \in Names BY <1>1 DEF IInv, CurInv, TypeOK, Busy, msg, Messages
  <1>3. PICK i \in DOMAIN svclist : i = find_svc(msg.name) /\ svclist[i].name = msg.name
    BY <1>0, <1>1, <1>2, FindSvc
  <1>4. /\ IF svclist[i].handle # 0 THEN DecRef(svclist[i].handle) ELSE UNCHANGED <<refs, todo>>
        /\ svclist' = [svclist EXCEPT ![i].handle = msg.handle] /\ si' = i
    BY <1>3 DEF AddAgain
  <1>5. /\ DOMAIN svclist' = DOMAIN svclist
        /\ \A j \in DOMAIN svclist :
             /\ svclist'[j].name = svclist[j].name /\ svclist'[j].allow = svclist[j].allow
             /\ svclist'[j].handle = IF j = i THEN msg.handle ELSE svclist[j].handle
    <2>1. svclist \in Seq(Svcinfo) /\ svclist[i] \in Svcinfo BY <1>0 DEF TypeOK
    <2>2. /\ [svclist[i] EXCEPT !.handle = msg.handle].name = svclist[i].name
          /\ [svclist[i] EXCEPT !.handle = msg.handle].allow = svclist[i].allow
          /\ [svclist[i] EXCEPT !.handle = msg.handle].handle = msg.handle
      BY <2>1 DEF Svcinfo
    <2> QED BY <1>4, <2>1, <2>2
  <1>6. TableKept /\ OrderKept
    <2>1. CASE svclist[i].handle = 0
      <3>1. UNCHANGED <<node, death, todo>> BY <1>4, <2>1 DEF refs
      <3> QED BY <3>1, TableSame
    <2>2. CASE svclist[i].handle # 0
      <3>1. PICK h \in Handles : h = svclist[i].handle BY <1>0, <2>2 DEF Backed
      <3>2. i \in EntriesHolding(h) BY <1>1, <3>1 DEF EntriesHolding
      <3>3. strong[h] > 0 BY <3>2, HeldHasObj
      <3>4. DecRef(h) /\ Distinct(todo) BY <1>4, <2>2, <3>1 DEF IInv, QueueInv
      <3> QED BY <1>0, <3>3, <3>4, DecRefKeeps
    <2> QED BY <2>1, <2>2
  <1> QED BY <1>3, <1>4, <1>5, <1>6

LEMMA AddAgainLInv ==
  ASSUME IInv, IInv', LInv, AddAgain
  PROVE  LInv'
  <1>0. NameInv /\ OrderInv /\ LinkInv /\ AnswerInv /\ Backed' BY BackedThen DEF LInv
  <1>a. NoObj \notin Objs BY RegistryAssumption
  <1>1. /\ UNCHANGED <<alive, call, got, buf, cur>>
        /\ pc = "handler" /\ pc' = "acquire" /\ res' = Ok(0)
    BY DEF AddAgain, clients
  <1>2. PICK n \in Handles, p \in Procs :
          /\ p = cur /\ n = msg.handle /\ Carries(p, n) /\ Named(node[n], msg.name)
    BY AddRequest DEF AddAgain
  <1>3. PICK i \in DOMAIN svclist :
          /\ i = find_svc(msg.name) /\ svclist[i].name = msg.name /\ si' = i
          /\ DOMAIN svclist' = DOMAIN svclist
          /\ \A j \in DOMAIN svclist :
               /\ svclist'[j].name = svclist[j].name
               /\ svclist'[j].handle = IF j = i THEN msg.handle ELSE svclist[j].handle
          /\ TableKept /\ OrderKept
    BY AgainStep
  <1>4. ASSUME NEW j \in DOMAIN svclist', svclist'[j].handle # 0
        PROVE  \E g \in Handles : /\ g = svclist'[j].handle /\ node'[g] = node[g]
                                  /\ death'[g] = death[g]
    BY <1>0, <1>3, <1>4, <1>a DEF Backed, TableKept
  <1>5. NameInv'
    <2>1. ASSUME NEW q \in Procs, NEW g \in Handles, Carries(q, g)'
          PROVE  Owner[node'[g]] = q /\ (Valid(buf'[q].name) => Named(node'[g], buf'[q].name))
      <3>1. node'[g] = node[g] BY <1>0, <1>3, <1>a, <2>1 DEF Backed, TableKept
      <3>2. Carries(q, g) /\ buf'[q] = buf[q] BY <1>1, <2>1 DEF Carries
      <3> QED BY <1>0, <3>1, <3>2 DEF NameInv
    <2>2. ASSUME NEW j \in DOMAIN svclist', svclist'[j].handle # 0
          PROVE  Named(node'[svclist'[j].handle], svclist'[j].name)
      <3>1. node'[svclist'[j].handle] = node[svclist'[j].handle] BY <1>4, <2>2
      <3>2. CASE j = i
        <4>1. svclist'[j].handle = n /\ svclist'[j].name = msg.name BY <1>2, <1>3, <3>2
        <4> QED BY <1>2, <3>1, <4>1
      <3>3. CASE j # i
        <4>1. svclist'[j].handle = svclist[j].handle /\ svclist'[j].name = svclist[j].name
          BY <1>3, <3>3
        <4> QED BY <1>0, <1>3, <2>2, <3>1, <4>1 DEF NameInv
      <3> QED BY <3>2, <3>3
    <2>3. ASSUME NEW h \in Handles, death'[h] # 0
          PROVE  Named(node'[h], svclist'[death'[h]].name)
      <3>1. node'[h] = node[h] /\ death'[h] = death[h] /\ death'[h] \in DOMAIN svclist
        BY <1>0, <1>3, <1>a, <2>3 DEF Backed, TableKept
      <3>2. svclist'[death[h]].name = svclist[death[h]].name BY <1>3, <3>1
      <3> QED BY <1>0, <2>3, <3>1, <3>2 DEF NameInv
    <2> QED BY <2>1, <2>2, <2>3 DEF NameInv, Carries
  <1>6. OrderInv' BY <1>0, <1>3, OrderStep
  <1>7. LinkInv'
    <2>1. ASSUME NEW j \in DOMAIN svclist', svclist'[j].handle # 0
          PROVE  death'[svclist'[j].handle] = j \/ j = i
      BY <1>0, <1>1, <1>3, <1>4, <2>1 DEF LinkInv
    <2>2. ASSUME NEW h \in Handles, death'[h] # 0, Owner[node'[h]] \notin alive'
          PROVE  In(Dead(h), todo')
      <3>1. /\ node'[h] = node[h] /\ death'[h] = death[h]
            /\ In(Dead(h), todo') <=> In(Dead(h), todo)
        BY <1>0, <1>3, <1>a, <2>2 DEF Backed, TableKept
      <3> QED BY <1>0, <1>1, <2>2, <3>1 DEF LinkInv
    <2> QED BY <1>1, <1>3, <2>1, <2>2 DEF LinkInv
  <1>8. AnswerInv'
    <2>1. \A q \in Procs : In(Txn(q), todo') <=> In(Txn(q), todo) BY <1>3 DEF OrderKept
    <2> QED BY <1>0, <1>1, <2>1 DEF AnswerInv, Busy, Ok
  <1> QED BY <1>5, <1>6, <1>7, <1>8 DEF LInv

LEMMA AddAcquireLInv ==
  ASSUME IInv, IInv', LInv, AddAcquire
  PROVE  LInv'
  <1>1. /\ UNCHANGED <<alive, call, got, node, death, todo, buf, svclist, cur, si, res>>
        /\ pc = "acquire" /\ pc' = "link"
    BY DEF AddAcquire, IncRef, clients
  <1>2. NameInv' /\ OrderInv' BY <1>1 DEF LInv, NameInv, OrderInv, Carries
  <1>3. LinkInv' BY <1>1 DEF LInv, LinkInv
  <1>4. AnswerInv' BY <1>1 DEF LInv, AnswerInv, Busy
  <1> QED BY <1>2, <1>3, <1>4 DEF LInv

\* binder_link_to_death: a link that is there already is this entry's.
LEMMA AddLinkLInv ==
  ASSUME OneName, IInv, IInv', LInv, AddLink
  PROVE  LInv'
  <1>0. NameInv /\ OrderInv /\ LinkInv /\ AnswerInv /\ Backed BY BackedNow DEF LInv
  <1>1. /\ UNCHANGED <<alive, call, got, node, buf, svclist, cur, si, res>>
        /\ pc = "link" /\ pc' = "reply"
    BY DEF AddLink, clients
  <1>2. PICK h \in Handles, i \in DOMAIN svclist, p \in Procs :
          h = msg.handle /\ i = si /\ p = cur /\ svclist[i].handle = h /\ Carries(p, h)
    BY <1>1 DEF IInv, CurInv, TypeOK, Busy, msg, Messages, Carries
  <1>a. h # 0 BY DEF Handles
  <1>3. /\ \A j \in DOMAIN svclist : svclist[j].handle = h => j = i
        /\ death[h] \in {0, i}
    BY <1>0, <1>2, <1>a, OneEntry
  <1>4. /\ death'[h] = i /\ \A g \in Handles : g # h => death'[g] = death[g]
        /\ \A g \in Handles : g # h => (In(Dead(g), todo') <=> In(Dead(g), todo))
        /\ \A q \in Procs : In(Txn(q), todo') <=> In(Txn(q), todo)
        /\ \A q \in Procs, g \in Handles :
             g # h /\ Before(todo, Txn(q), Dead(g)) => Before(todo', Txn(q), Dead(g))
        /\ \/ death[h] = i /\ todo' = todo
           \/ death[h] = 0 /\ (Owner[node[h]] \notin alive => In(Dead(h), todo'))
    <2>1. death \in [Handles -> Nat] /\ i # 0 BY DEF IInv, TypeOK
    <2>2. CASE death[h] # 0 BY <1>2, <1>3, <2>2 DEF AddLink
    <2>3. CASE death[h] = 0
      <3>1. /\ death' = [death EXCEPT ![h] = i]
            /\ todo' = IF Owner[node[h]] \in alive THEN todo ELSE <<Dead(h)>> \o todo
        BY <1>2, <2>3 DEF AddLink
      <3>2. CASE Owner[node[h]] \in alive BY <2>1, <2>3, <3>1, <3>2
      <3>3. CASE Owner[node[h]] \notin alive
        <4>1. todo \in Seq(Work) /\ Distinct(todo) /\ Dead(h) \in Work
          BY WorkType DEF IInv, TypeOK, QueueInv
        <4>2. ~In(Dead(h), todo) BY <1>0, <2>3 DEF Backed
        <4>3. /\ \A x : In(x, todo') <=> In(x, todo) \/ x = Dead(h)
              /\ \A x, y : Before(todo, x, y) /\ x # Dead(h) /\ y # Dead(h) => Before(todo', x, y)
          BY <3>1, <3>3, <4>1, <4>2, QueuePush
        <4> QED BY <2>1, <2>3, <3>1, <4>3, WorkType
      <3> QED BY <3>2, <3>3
    <2> QED BY <2>2, <2>3
  <1>5. NameInv'
    <2>1. ASSUME NEW g \in Handles, death'[g] # 0 PROVE Named(node[g], svclist[death'[g]].name)
      <3>1. CASE g = h BY <1>0, <1>2, <1>4, <1>a, <3>1 DEF NameInv
      <3>2. CASE g # h BY <1>0, <1>4, <2>1, <3>2 DEF NameInv
      <3> QED BY <3>1, <3>2
    <2> QED BY <1>0, <1>1, <2>1 DEF NameInv, Carries
  <1>6. OrderInv'
    <2> SUFFICES ASSUME NEW g \in Handles, NEW q \in Procs,
                        In(Dead(g), todo'), Owner[node[g]] = q
                 PROVE  Before(todo', Txn(q), Dead(g))
      BY <1>1 DEF OrderInv
    <2>1. CASE g = h
      <3>1. q = p BY <1>0, <1>2, <2>1 DEF NameInv
      <3>2. ~In(Txn(p), todo) BY <1>1, <1>2 DEF IInv, QueueInv, Busy
      <3>3. ~In(Txn(q), todo') BY <1>4, <3>1, <3>2
      <3> QED BY <3>3 DEF Before, In
    <2>2. CASE g # h BY <1>0, <1>4, <2>2 DEF OrderInv
    <2> QED BY <2>1, <2>2
  <1>7. LinkInv'
    <2>1. ASSUME NEW j \in DOMAIN svclist, svclist[j].handle # 0
          PROVE  death'[svclist[j].handle] = j
      <3>1. CASE svclist[j].handle = h BY <1>3, <1>4, <3>1
      <3>2. CASE svclist[j].handle # h
        <4>1. svclist[j].handle \in Handles /\ j # i BY <1>0, <1>2, <2>1, <3>2 DEF Backed
        <4> QED BY <1>0, <1>2, <1>4, <2>1, <3>2, <4>1 DEF LinkInv
      <3> QED BY <3>1, <3>2
    <2>2. ASSUME NEW g \in Handles, death'[g] # 0, Owner[node[g]] \notin alive
          PROVE  In(Dead(g), todo')
      <3>1. CASE g = h
        <4>1. death[h] # 0 => In(Dead(h), todo) BY <1>0, <1>1, <2>2, <3>1 DEF LinkInv
        <4>2. i # 0 BY DEF IInv, TypeOK
        <4> QED BY <1>4, <2>2, <3>1, <4>1, <4>2
      <3>2. CASE g # h BY <1>0, <1>1, <1>4, <2>2, <3>2 DEF LinkInv
      <3> QED BY <3>1, <3>2
    <2> QED BY <1>1, <2>1, <2>2 DEF LinkInv
  <1>8. AnswerInv' BY <1>0, <1>1, <1>4 DEF AnswerInv, Busy
  <1> QED BY <1>5, <1>6, <1>7, <1>8 DEF LInv

\* BC_FREE_BUFFER keeps whatever is still held.
LEMMA ReplyStep ==
  ASSUME IInv, binder_send_reply
  PROVE  \E p \in Procs :
           /\ p = cur /\ buf[p] # NoMsg
           /\ \A q \in Procs : buf'[q] = IF q = p THEN NoMsg ELSE buf[q]
           /\ IF p \in alive THEN Deliver(p) ELSE UNCHANGED <<call, got, cref>>
           /\ TableKept /\ OrderKept
  <1>1. PICK p \in Procs : p = cur /\ buf[p] # NoMsg
    BY DEF binder_send_reply, IInv, CurInv, Busy
  <1>2. /\ buf' = [buf EXCEPT ![p] = NoMsg]
        /\ IF buf[p].handle # 0 THEN DecRef(buf[p].handle) ELSE UNCHANGED <<refs, todo>>
        /\ IF p \in alive THEN Deliver(p) ELSE UNCHANGED <<call, got, cref>>
    BY <1>1 DEF binder_send_reply, msg
  <1>3. \A q \in Procs : buf'[q] = IF q = p THEN NoMsg ELSE buf[q]
    BY <1>2 DEF IInv, TypeOK
  <1>4. TableKept /\ OrderKept
    <2>1. CASE buf[p].handle = 0
      <3>1. UNCHANGED <<node, death, todo>> BY <1>2, <2>1 DEF refs
      <3> QED BY <3>1, TableSame
    <2>2. CASE buf[p].handle # 0
      <3>1. PICK h \in Handles : h = buf[p].handle BY <1>1, <2>2, BackedNow DEF Backed
      <3>2. p \in BuffersHolding(h) BY <1>1, <3>1 DEF BuffersHolding
      <3>3. strong[h] > 0 BY <3>2, HeldHasObj
      <3>4. DecRef(h) /\ Distinct(todo) /\ TypeOK BY <1>2, <2>2, <3>1 DEF IInv, QueueInv
      <3> QED BY <3>3, <3>4, DecRefKeeps
    <2> QED BY <2>1, <2>2
  <1> QED BY <1>1, <1>2, <1>3, <1>4

LEMMA ReplyLInv ==
  ASSUME IInv, IInv', LInv, binder_send_reply
  PROVE  LInv'
  <1>0. NameInv /\ OrderInv /\ LinkInv /\ AnswerInv /\ Backed' BY BackedThen DEF LInv
  <1>a. NoObj \notin Objs /\ "none" \notin Objs BY RegistryAssumption
  <1>1. /\ UNCHANGED <<alive, svclist>> /\ pc = "reply" /\ pc' = "loop"
        /\ cur' = Nobody /\ res' = Failed
    BY DEF binder_send_reply
  <1>2. PICK p \in Procs :
          /\ p = cur /\ buf[p] # NoMsg
          /\ \A q \in Procs : buf'[q] = IF q = p THEN NoMsg ELSE buf[q]
          /\ IF p \in alive THEN Deliver(p) ELSE UNCHANGED <<call, got, cref>>
          /\ TableKept /\ OrderKept
    BY ReplyStep
  <1>3. NameInv' BY <1>0, <1>1, <1>2, NameStep DEF TableKept
  <1>4. OrderInv' BY <1>0, <1>2, OrderStep
  <1>5. LinkInv'
    <2>1. ASSUME NEW j \in DOMAIN svclist', svclist'[j].handle # 0
          PROVE  death'[svclist'[j].handle] = j
      <3>1. PICK g \in Handles : g = svclist'[j].handle /\ node'[g] # NoObj
        BY <1>0, <1>a, <2>1 DEF Backed
      <3> QED BY <1>0, <1>1, <1>2, <2>1, <3>1 DEF LinkInv, TableKept
    <2>2. ASSUME NEW g \in Handles, death'[g] # 0, Owner[node'[g]] \notin alive'
          PROVE  In(Dead(g), todo')
      <3>1. node'[g] # NoObj BY <1>0, <1>a, <2>2 DEF Backed
      <3> QED BY <1>0, <1>1, <1>2, <2>2, <3>1 DEF LinkInv, TableKept
    <2> QED BY <1>1, <2>1, <2>2 DEF LinkInv
  <1>6. AnswerInv'
    <2>1. \A q \in Procs : IF call'[q] \in {"idle", "wait"} THEN got'[q] = "none"
                           ELSE got'[q] # "none" /\ q \in alive'
      <3>0. /\ call \in [Procs -> {"idle", "wait", "acquire", "done"}]
            /\ got \in [Procs -> Objs \cup {"none", "ok", "fail"}]
            /\ \A q \in Procs : IF call[q] \in {"idle", "wait"} THEN got[q] = "none"
                                 ELSE got[q] # "none" /\ q \in alive
        BY <1>0 DEF IInv, TypeOK, AnswerInv
      <3>1. CASE p \in alive
        <4>1. PICK c \in {"acquire", "done"}, v \in Objs \cup {"ok", "fail"} :
                call' = [call EXCEPT ![p] = c] /\ got' = [got EXCEPT ![p] = v]
          <5> DEFINE o == IF res.handle = 0 THEN NoObj ELSE node[res.handle]
          <5>1. o \in Objs \cup {NoObj} BY DEF IInv, TypeOK
          <5>2. Deliver(p) BY <1>2, <3>1
          <5>3. CASE Found(p, o)
            <6>1. call' = [call EXCEPT ![p] = "acquire"] /\ got' = [got EXCEPT ![p] = o] /\ o \in Objs
              BY <5>1, <5>2, <5>3 DEF Deliver, Found
            <6> QED BY <6>1
          <5>4. CASE ~Found(p, o)
            <6>1. /\ call' = [call EXCEPT ![p] = "done"]
                  /\ got' = [got EXCEPT ![p] = IF res.status = 0 THEN "ok" ELSE "fail"]
              BY <5>2, <5>4 DEF Deliver
            <6> QED BY <6>1
          <5> QED BY <5>3, <5>4
        <4>2. v # "none" BY <4>1, <1>a
        <4> QED BY <1>1, <3>0, <3>1, <4>1, <4>2
      <3>2. CASE p \notin alive BY <1>1, <1>2, <3>0, <3>2
      <3> QED BY <3>1, <3>2
    <2>2. ASSUME NEW q \in Procs, buf'[q] # NoMsg PROVE In(Txn(q), todo')
      <3>1. q # p /\ buf[q] # NoMsg BY <1>2, <2>2
      <3>2. In(Txn(q), todo) BY <1>0, <1>2, <3>1 DEF AnswerInv
      <3> QED BY <1>2, <3>2 DEF OrderKept
    <2> QED BY <1>1, <2>1, <2>2 DEF AnswerInv, Failed
  <1> QED BY <1>3, <1>4, <1>5, <1>6 DEF LInv

LEMMA NextLInv == OneName /\ IInv /\ IInv' /\ LInv /\ [Next]_vars => LInv'
  <1> SUFFICES ASSUME OneName, IInv, IInv', LInv, [Next]_vars PROVE LInv' OBVIOUS
  <1>1. CASE svcmgr
    BY <1>1, ReadTxnLInv, ReadDeathLInv, DeathLInv, AnswerLInv, AddNewLInv, AddAgainLInv,
       AddAcquireLInv, AddLinkLInv, ReplyLInv DEF svcmgr
  <1>2. ASSUME NEW r \in Requests, Send(r) PROVE LInv' BY <1>2, SendLInv
  <1>3. ASSUME NEW p \in Procs, caller(p) \/ \E o \in Objs : Release(p, o) PROVE LInv'
    BY <1>3, QuietLInv DEF caller
  <1>4. ASSUME NEW p \in Procs, Die(p) PROVE LInv' BY <1>4, DieLInv
  <1>5. CASE UNCHANGED vars BY <1>5, QuietLInv
  <1> QED BY <1>1, <1>2, <1>3, <1>4, <1>5 DEF Next

\* When every object has one name: links, notifications and answers stay
\* in order over every interleaving of registrations, deaths and replies.
THEOREM LinksInOrder ==
  ASSUME OneName
  PROVE  Spec => []LInv
  <1>1. IInv /\ LInv /\ [Next]_vars => LInv' BY NextIInv, NextLInv
  <1> QED BY <1>1, InitLInv, Inductive, PTL DEF Spec

\* A dead service does not stay registered: whichever way its death, its
\* registration and the service manager's work interleave, its notification
\* is queued, being handled, or about to be requested.
THEOREM DeathNoticed ==
  ASSUME OneName
  PROVE  Spec => []DeadIsNoticed
  <1>1. IInv /\ LInv => DeadIsNoticed
    <2> SUFFICES ASSUME IInv, LInv, NEW i \in DOMAIN svclist, NEW h,
                        h = svclist[i].handle, h # 0, Owner[node[h]] \notin alive
                 PROVE  \/ pc \in {"acquire", "link", "died"} /\ si = i
                        \/ death[h] = i /\ \E k \in DOMAIN todo : todo[k] = Dead(h)
      BY DEF DeadIsNoticed
    <2>1. h \in Handles BY BackedNow DEF Backed
    <2>2. CASE pc \in {"acquire", "link"} /\ si = i BY <2>2
    <2>3. CASE death[h] = i
      <3>0. i # 0 BY DEF IInv, TypeOK
      <3>1. CASE In(Dead(h), todo) BY <2>3, <3>1 DEF In
      <3>2. CASE pc = "died" /\ svclist[si].handle = h
        <4>1. si \in DOMAIN svclist BY <3>2 DEF IInv, TypeOK
        <4>2. si = i BY <3>2, <4>1, OneEntry DEF LInv
        <4> QED BY <3>2, <4>2
      <3> QED BY <2>1, <2>3, <3>0, <3>1, <3>2 DEF LInv, LinkInv
    <2> QED BY <2>2, <2>3 DEF LInv, LinkInv
  <1> QED BY <1>1, Inductive, LinksInOrder, PTL

\* The "service died" that svcinfo_death logs on a notification is about a
\* service that did die, when every object has one name.
THEOREM DeathTrue ==
  ASSUME OneName
  PROVE  Spec => []DiedIsDead
  <1>1. LInv => DiedIsDead BY DEF LInv, LinkInv, DiedIsDead
  <1> QED BY <1>1, LinksInOrder, PTL

-----------------------------------------------------------------------------
(* The refinement: what the registry sees of a state *)

\* The service and the policy of a name are those of its one entry.
RegFacts ==
  \A s \in Names :
    /\ (\A i \in DOMAIN svclist : svclist[i].name # s) => reg[s] = NoObj /\ policy[s] = -1
    /\ \A i \in DOMAIN svclist :
         svclist[i].name = s => reg[s] = ObjOf(svclist[i].handle) /\ policy[s] = svclist[i].allow

LEMMA RegNow == IInv => RegFacts
  <1> SUFFICES ASSUME IInv, NEW s \in Names
               PROVE  /\ (\A i \in DOMAIN svclist : svclist[i].name # s) =>
                            reg[s] = NoObj /\ policy[s] = -1
                      /\ \A i \in DOMAIN svclist :
                           svclist[i].name = s => /\ reg[s] = ObjOf(svclist[i].handle)
                                                  /\ policy[s] = svclist[i].allow
    BY DEF RegFacts
  <1>0. TypeOK /\ NamesUnique BY DEF IInv
  <1>1. /\ find_svc(s) = 0 => \A i \in DOMAIN svclist : svclist[i].name # s
        /\ find_svc(s) # 0 => find_svc(s) \in DOMAIN svclist /\ svclist[find_svc(s)].name = s
    BY <1>0, FindSvc
  <1>2. /\ reg[s] = IF find_svc(s) = 0 THEN NoObj ELSE ObjOf(svclist[find_svc(s)].handle)
        /\ policy[s] = IF find_svc(s) = 0 THEN -1 ELSE svclist[find_svc(s)].allow
    BY DEF reg, policy
  <1>3. CASE find_svc(s) = 0 BY <1>1, <1>2, <1>3
  <1>4. CASE find_svc(s) # 0
    <2>1. \A i \in DOMAIN svclist : svclist[i].name = s => i = find_svc(s)
      BY <1>0, <1>1, <1>4 DEF NamesUnique
    <2> QED BY <1>1, <1>2, <1>4, <2>1
  <1> QED BY <1>3, <1>4

LEMMA RegThen == IInv' => RegFacts'
  BY RegNow, PTL

\* The views, opened.
LEMMA Views ==
  /\ reg = [s \in Names |-> reg[s]] /\ policy = [s \in Names |-> policy[s]]
  /\ req = [p \in Procs |-> req[p]] /\ ans = [p \in Procs |-> ans[p]]
  BY DEF reg, policy, req, ans

\* Entries that keep name, policy and object leave the registry alone.
LEMMA SameReg ==
  ASSUME IInv, IInv', DOMAIN svclist' = DOMAIN svclist,
         \A i \in DOMAIN svclist : /\ svclist'[i].name = svclist[i].name
                                   /\ svclist'[i].allow = svclist[i].allow
                                   /\ ObjOf(svclist[i].handle) = (ObjOf(svclist[i].handle))'
  PROVE  reg' = reg /\ policy' = policy
  <1>1. RegFacts /\ RegFacts' BY RegNow, RegThen
  <1>2. ASSUME NEW s \in Names PROVE reg'[s] = reg[s] /\ policy'[s] = policy[s]
    <2>1. CASE \A i \in DOMAIN svclist : svclist[i].name # s
      BY <1>1, <2>1 DEF RegFacts
    <2>2. CASE \E i \in DOMAIN svclist : svclist[i].name = s
      <3>1. PICK i \in DOMAIN svclist : svclist[i].name = s BY <2>2
      <3>2. reg[s] = ObjOf(svclist[i].handle) /\ policy[s] = svclist[i].allow
        BY <1>1, <3>1 DEF RegFacts
      <3>3. reg'[s] = (ObjOf(svclist[i].handle))' /\ policy'[s] = svclist'[i].allow
        BY <1>1, <3>1 DEF RegFacts
      <3> QED BY <3>2, <3>3
    <2> QED BY <2>1, <2>2
  <1>3. reg' = [s \in Names |-> reg'[s]] /\ policy' = [s \in Names |-> policy'[s]]
    BY DEF reg, policy
  <1> QED BY <1>2, <1>3, Views

LEMMA InitRefines == Init => R!Init
  <1> SUFFICES ASSUME Init PROVE R!Init OBVIOUS
  <1>1. RegFacts BY InitIInv, RegNow
  <1>2. svclist = <<>> /\ DOMAIN svclist = {} BY DEF Init
  <1>3. \A s \in Names : reg[s] = NoObj /\ policy[s] = -1 BY <1>1, <1>2 DEF RegFacts
  <1>4. reg = [s \in Names |-> NoObj] /\ policy = [s \in Names |-> -1] BY <1>3, Views
  <1>5. \A p \in Procs : req[p] = NoMsg /\ ans[p] = "none"
    BY DEF Init, req, ans, Effective
  <1>6. req = [p \in Procs |-> NoMsg] /\ ans = [p \in Procs |-> "none"] BY <1>5, Views
  <1>7. alive = Procs BY DEF Init
  <1> QED BY <1>4, <1>6, <1>7 DEF R!Init

-----------------------------------------------------------------------------
(* The refinement: the callers *)

LEMMA QuietRefines ==
  ASSUME NEW p \in Procs, Acquire(p) \/ \E o \in Objs : Release(p, o)
  PROVE  UNCHANGED <<alive, reg, policy, req, ans>>
  <1>1. UNCHANGED <<alive, got, node, buf, svclist, pc, cur, si, res>>
    BY DEF Acquire, Release, refs, server
  <1> QED BY <1>1 DEF reg, policy, req, ans, find_svc, Entries, ObjOf, Effective

\* binder_done returns the answer.
LEMMA DoneRefines ==
  ASSUME IInv, LInv, NEW p \in Procs, Done(p)
  PROVE  R!Return(p)
  <1>1. /\ UNCHANGED <<alive, node, buf, svclist, pc, cur, si, res>>
        /\ call[p] = "done" /\ got' = [got EXCEPT ![p] = "none"]
    BY DEF Done, refs, server
  <1>2. UNCHANGED <<alive, reg, policy, req>>
    BY <1>1 DEF reg, policy, req, find_svc, Entries, ObjOf, Effective
  <1>3. p \in alive /\ got[p] # "none" BY <1>1 DEF LInv, AnswerInv
  <1>4. ~Effective(p) /\ ~Effective(p)'
    <2>1. ~Effective(p)
      <3>1. buf[p] = NoMsg BY <1>1, <1>3 DEF IInv, ClientInv
      <3> QED BY <3>1 DEF IInv, CurInv, Busy, Effective
    <2> QED BY <1>1, <2>1 DEF Effective
  <1>5. ans[p] = got[p] /\ ans'[p] = got'[p] BY <1>1, <1>3, <1>4 DEF ans
  <1>6. got'[p] = "none" /\ \A q \in Procs : q # p => got'[q] = got[q]
    BY <1>1 DEF IInv, TypeOK
  <1>7. \A q \in Procs : q # p => ans'[q] = ans[q]
    BY <1>1, <1>6 DEF ans, Effective, Found, ObjOf
  <1>8. ans' = [ans EXCEPT ![p] = "none"]
    <2>1. ans' = [q \in Procs |-> ans'[q]] BY DEF ans
    <2> QED BY <1>5, <1>6, <1>7, <2>1, Views
  <1> QED BY <1>2, <1>3, <1>5, <1>8 DEF R!Return

LEMMA DieRefines ==
  ASSUME IInv, NEW p \in Procs, Die(p)
  PROVE  R!Die(p)
  <1>1. /\ UNCHANGED <<node, buf, svclist, pc, cur, si, res>>
        /\ p \in alive /\ alive' = alive \ {p} /\ got' = [got EXCEPT ![p] = "none"]
    BY DEF Die, refs, server
  <1>2. UNCHANGED <<reg, policy, req>>
    BY <1>1 DEF reg, policy, req, find_svc, Entries, ObjOf, Effective
  <1>3. \A q \in Procs : q # p => got'[q] = got[q] BY <1>1 DEF IInv, TypeOK
  <1>4. ans'[p] = "none" BY <1>1 DEF ans
  <1>5. \A q \in Procs : q # p => ans'[q] = ans[q]
    BY <1>1, <1>3 DEF ans, Effective, Found, ObjOf
  <1>6. ans' = [ans EXCEPT ![p] = "none"]
    <2>1. ans' = [q \in Procs |-> ans'[q]] BY DEF ans
    <2> QED BY <1>4, <1>5, <2>1, Views
  <1> QED BY <1>1, <1>2, <1>6 DEF R!Die

\* A message whose object stays, and an answer that stays, look the same.
LEMMA SameReq ==
  ASSUME NEW q \in Procs, Backed, buf'[q] = buf[q], Effective(q)' <=> Effective(q),
         \A h \in Handles : Carries(q, h) => node'[h] = node[h]
  PROVE  req'[q] = req[q]
  <1>1. buf[q] # NoMsg => (ObjOf(buf[q].handle))' = ObjOf(buf[q].handle)
    BY DEF ObjOf, Backed, Carries
  <1>2. CASE buf[q] # NoMsg /\ ~Effective(q) BY <1>1, <1>2 DEF req
  <1>3. CASE ~(buf[q] # NoMsg /\ ~Effective(q)) BY <1>3 DEF req
  <1> QED BY <1>2, <1>3

LEMMA SameAns ==
  ASSUME NEW q \in Procs, alive' = alive, got'[q] = got[q], Effective(q)' <=> Effective(q),
         Effective(q) => res' = res /\ (ObjOf(res.handle))' = ObjOf(res.handle)
  PROVE  ans'[q] = ans[q]
  <1>1. CASE Effective(q) BY <1>1 DEF ans, Found
  <1>2. CASE ~Effective(q) BY <1>2 DEF ans
  <1> QED BY <1>1, <1>2

\* binder_call is the registry's Ask.
LEMMA SendRefines ==
  ASSUME IInv, IInv', LInv, NEW r \in Requests, Send(r)
  PROVE  \E p \in Procs, a \in R!Reqs : R!Ask(p, a)
  <1>a. NoObj \notin Objs /\ 0 \notin Handles BY RegistryAssumption DEF Handles
  <1>0. Backed /\ TypeOK /\ CurInv /\ AnswerInv BY BackedNow DEF IInv, LInv
  <1>1. PICK p \in Procs :
          /\ p = r.from /\ p \in alive /\ call[p] = "idle" /\ buf[p] = NoMsg
          /\ UNCHANGED <<alive, got, svclist, pc, cur, si, res>>
          /\ \A g \in Handles : node[g] # NoObj => node'[g] = node[g]
    BY SendStep DEF server
  <1>2. PICK h \in {0} \cup Handles : Sent(r, h) BY SendStep
  <1> DEFINE m == [code |-> r.code, name |-> r.name, handle |-> h, allow |-> r.allow, n |-> r.n]
             c == IF r.code \in {"ADD", "CHECK"} THEN r.code ELSE "OTHER"
             a == [code |-> c, name |-> r.name, obj |-> r.obj, allow |-> r.allow]
  <1>3. buf' = [buf EXCEPT ![p] = m] BY <1>1, <1>2 DEF Sent
  <1>4. /\ m.code = r.code /\ m.name = r.name /\ m.handle = h /\ m.allow = r.allow
        /\ m \in Messages
    BY RegistryAssumption DEF Messages
  <1>5. m # NoMsg BY <1>4, NoMsgAssumption
  <1> HIDE DEF m
  <1>6. buf'[p] = m /\ \A q \in Procs : q # p => buf'[q] = buf[q] BY <1>0, <1>3 DEF TypeOK
  <1>7. /\ \A q \in Procs : Effective(q)' <=> Effective(q)
        /\ ~Effective(p)
    BY <1>0, <1>1 DEF Effective, CurInv, Busy
  <1>8. (ObjOf(buf[p].handle))' = r.obj
    <2>1. CASE h = 0 BY <1>2, <1>4, <1>6, <2>1 DEF ObjOf, Sent
    <2>2. CASE h # 0
      <3>1. node'[h] = r.obj BY <1>0, <1>2, <2>2 DEF Sent, TypeOK
      <3> QED BY <1>4, <1>6, <2>2, <3>1 DEF ObjOf
    <2> QED BY <2>1, <2>2
  <1>9. req'[p] = a
    BY <1>4, <1>5, <1>6, <1>7, <1>8 DEF req
  <1>10. ASSUME NEW q \in Procs, q # p PROVE req'[q] = req[q]
    <2>1. \A g \in Handles : Carries(q, g) => node'[g] = node[g] BY <1>0, <1>1, <1>a DEF Backed
    <2> QED BY <1>0, <1>6, <1>7, <1>10, <2>1, SameReq
  <1>11. req[p] = NoMsg /\ ans[p] = "none" BY <1>0, <1>1, <1>7 DEF req, ans, AnswerInv
  <1>12. a \in R!Reqs BY RegistryAssumption DEF R!Reqs
  <1>13. \A q \in Procs : ans'[q] = ans[q]
    <2>1. (ObjOf(res.handle))' = ObjOf(res.handle)
      <3>1. res.handle # 0 => res.handle \in Handles /\ node[res.handle] # NoObj
        BY <1>0, <1>a DEF AnswerInv, Backed
      <3> QED BY <1>1, <3>1 DEF ObjOf
    <2> QED BY <1>1, <1>7, <2>1, SameAns
  <1>14. reg' = reg /\ policy' = policy
    <2>1. \A i \in DOMAIN svclist : (ObjOf(svclist[i].handle))' = ObjOf(svclist[i].handle)
      BY <1>0, <1>1, <1>a DEF Backed, ObjOf
    <2> QED BY <1>1, <2>1, SameReg
  <1> HIDE DEF a
  <1>15. req' = [req EXCEPT ![p] = a] /\ ans' = ans
    <2>1. req' = [q \in Procs |-> req'[q]] /\ ans' = [q \in Procs |-> ans'[q]] BY DEF req, ans
    <2>2. req' = [req EXCEPT ![p] = a] BY <1>9, <1>10, <2>1, Views
    <2>3. ans' = ans BY <1>13, <2>1, Views
    <2> QED BY <2>2, <2>3
  <1>16. R!Ask(p, a) BY <1>1, <1>11, <1>14, <1>15 DEF R!Ask
  <1> QED BY <1>12, <1>16

-----------------------------------------------------------------------------
(* The refinement: the service manager *)

\* Reading the queue, counting a reference and linking are not visible.
LEMMA HiddenRefines ==
  ASSUME ReadTxn \/ ReadDeath \/ AddAcquire \/ AddLink
  PROVE  UNCHANGED <<alive, reg, policy, req, ans>>
  <1>1. UNCHANGED <<alive, got, node, buf, svclist, res>>
    BY DEF ReadTxn, ReadDeath, AddAcquire, AddLink, IncRef, clients, refs
  <1>2. \A p : Effective(p)' <=> Effective(p)
    BY DEF ReadTxn, ReadDeath, AddAcquire, AddLink, Effective
  <1>3. reg' = reg /\ policy' = policy BY <1>1 DEF reg, policy, find_svc, Entries, ObjOf
  <1>4. req' = req BY <1>1, <1>2 DEF req, ObjOf
  <1>5. ans' = ans BY <1>1, <1>2 DEF ans, ObjOf, Found
  <1> QED BY <1>1, <1>3, <1>4, <1>5

\* A notification drops the service of a name.
LEMMA DeathRefines ==
  ASSUME OneName, IInv, IInv', LInv, svcinfo_death
  PROVE  \E s \in Names : R!Drop(s)
  <1>0. Backed /\ Backed' /\ TypeOK /\ TypeOK' /\ RegFacts /\ RegFacts'
    BY BackedNow, BackedThen, RegNow, RegThen DEF IInv
  <1>a. NoObj \notin Objs /\ 0 \notin Handles BY RegistryAssumption DEF Handles
  <1>1. UNCHANGED <<alive, got, buf, cur, res>> /\ pc = "died" /\ pc' = "loop"
    BY DEF svcinfo_death, clients
  <1>2. PICK i \in DOMAIN svclist, h \in Handles :
           /\ i = si /\ h = svclist[i].handle /\ Owner[node[h]] \notin alive
           /\ \A p \in Procs : ~Carries(p, h)
           /\ node' = [node EXCEPT ![h] = NoObj]
           /\ DOMAIN svclist' = DOMAIN svclist
           /\ \A j \in DOMAIN svclist : /\ svclist'[j].name = svclist[j].name
                                        /\ svclist'[j].allow = svclist[j].allow
                                        /\ svclist'[j].handle = IF j = i THEN 0 ELSE svclist[j].handle
    BY DeathStep
  <1>3. \A g \in Handles : g # h => node'[g] = node[g] BY <1>0, <1>2 DEF TypeOK
  <1>4. PICK s \in Names : s = svclist[i].name
    <2>1. svclist[i] \in Svcinfo BY <1>0 DEF TypeOK
    <2> QED BY <2>1 DEF Svcinfo
  <1>5. reg[s] = node[h] /\ node[h] # NoObj BY <1>0, <1>2, <1>4, <1>a DEF RegFacts, ObjOf, Backed
  <1>6. reg'[s] = NoObj /\ policy'[s] = policy[s]
    <2>1. svclist'[i].name = s /\ svclist'[i].handle = 0 /\ svclist'[i].allow = svclist[i].allow
      BY <1>2, <1>4
    <2>2. reg'[s] = (ObjOf(svclist[i].handle))' /\ policy'[s] = svclist'[i].allow
      BY <1>0, <1>2, <2>1 DEF RegFacts
    <2>3. policy[s] = svclist[i].allow BY <1>0, <1>4 DEF RegFacts
    <2> QED BY <2>1, <2>2, <2>3 DEF ObjOf
  <1>7. ASSUME NEW t \in Names, t # s PROVE reg'[t] = reg[t] /\ policy'[t] = policy[t]
    <2>1. CASE \A j \in DOMAIN svclist : svclist[j].name # t BY <1>0, <1>2, <2>1 DEF RegFacts
    <2>2. CASE \E j \in DOMAIN svclist : svclist[j].name = t
      <3>1. PICK j \in DOMAIN svclist : svclist[j].name = t BY <2>2
      <3>2. j # i BY <1>4, <1>7, <3>1
      <3>3. /\ svclist'[j].name = t /\ svclist'[j].allow = svclist[j].allow
            /\ svclist'[j].handle = svclist[j].handle
        BY <1>2, <3>1, <3>2
      <3>4. svclist[j].handle # h
        <4>1. svclist[i].handle # 0 /\ NameInv BY <1>2, <1>a DEF LInv
        <4> QED BY <1>2, <3>2, <4>1, OneEntry
      <3>5. (ObjOf(svclist[j].handle))' = ObjOf(svclist[j].handle)
        BY <1>0, <1>3, <3>3, <3>4 DEF ObjOf, Backed
      <3>6. reg[t] = ObjOf(svclist[j].handle) /\ policy[t] = svclist[j].allow
        BY <1>0, <3>1 DEF RegFacts
      <3>7. reg'[t] = (ObjOf(svclist[j].handle))' /\ policy'[t] = svclist'[j].allow
        BY <1>0, <1>2, <3>3 DEF RegFacts
      <3> QED BY <3>3, <3>5, <3>6, <3>7
    <2> QED BY <2>1, <2>2
  <1>8. \A q \in Procs : ~Effective(q) /\ ~Effective(q)' BY <1>1 DEF Effective
  <1>9. \A q \in Procs : req'[q] = req[q] /\ ans'[q] = ans[q]
    <2> TAKE q \in Procs
    <2>1. \A g \in Handles : Carries(q, g) => node'[g] = node[g] BY <1>2, <1>3
    <2>2. req'[q] = req[q] BY <1>0, <1>1, <1>8, <2>1, SameReq
    <2>3. ans'[q] = ans[q] BY <1>1, <1>8, SameAns
    <2> QED BY <2>2, <2>3
  <1>10. /\ reg' = [reg EXCEPT ![s] = NoObj] /\ UNCHANGED <<policy, req, ans>>
    <2>1. /\ reg' = [t \in Names |-> reg'[t]] /\ policy' = [t \in Names |-> policy'[t]]
          /\ req' = [q \in Procs |-> req'[q]] /\ ans' = [q \in Procs |-> ans'[q]]
      BY DEF reg, policy, req, ans
    <2>2. reg' = [reg EXCEPT ![s] = NoObj] BY <1>6, <1>7, <2>1, Views
    <2>3. policy' = policy BY <1>6, <1>7, <2>1, Views
    <2>4. req' = req /\ ans' = ans BY <1>9, <2>1, Views
    <2> QED BY <2>2, <2>3, <2>4
  <1>11. R!Drop(s) BY <1>1, <1>2, <1>5, <1>10 DEF R!Drop
  <1> QED BY <1>11

\* What a request in hand says, and what its answer tells the caller.
AskedBy(p) ==
  [code |-> IF buf[p].code \in {"ADD", "CHECK"} THEN buf[p].code ELSE "OTHER",
   name |-> buf[p].name, obj |-> ObjOf(buf[p].handle), allow |-> buf[p].allow]
Told(p) ==
  IF Found(p, ObjOf(res.handle)) THEN ObjOf(res.handle)
  ELSE IF res.status = 0 THEN "ok" ELSE "fail"

LEMMA TellStep ==
  ASSUME IInv, NEW p \in Procs, p = cur, cur' = cur, pc = "handler", pc' \in {"acquire", "reply"},
         UNCHANGED <<alive, got, buf>>,
         \A q \in Procs, h \in Handles : Carries(q, h) => node'[h] = node[h],
         NEW a, a = Told(p)'
  PROVE  req[p] = AskedBy(p) /\ req[p] # NoMsg /\ R!Tell(p, a)
  <1>0. Backed /\ buf[p] # NoMsg /\ buf[p] \in Messages
    BY BackedNow DEF IInv, CurInv, Busy, Backed
  <1>1. \A q \in Procs : ~Effective(q) /\ (Effective(q)' <=> q = p) BY DEF Effective
  <1>2. req[p] = AskedBy(p) BY <1>0, <1>1 DEF req, AskedBy
  <1>3. AskedBy(p) # NoMsg
    <2>1. ObjOf(buf[p].handle) \in Objs \cup {NoObj}
      BY <1>0 DEF ObjOf, Backed, IInv, TypeOK
    <2>2. /\ buf[p].name \in Names /\ buf[p].allow \in {0, 1} BY <1>0 DEF Messages
    <2> QED BY <2>1, <2>2, NoMsgAssumption DEF AskedBy
  <1>4. req'[p] = NoMsg BY <1>1 DEF req
  <1>5. ans'[p] = IF p \in alive THEN a ELSE "none" BY <1>1 DEF ans, Told
  <1>6. p \notin alive => ans[p] = "none" BY DEF ans
  <1>7. ASSUME NEW q \in Procs, q # p PROVE req'[q] = req[q] /\ ans'[q] = ans[q]
    <2>1. req'[q] = req[q] BY <1>0, <1>1, <1>7, SameReq
    <2>2. ans'[q] = ans[q] BY <1>1, <1>7, SameAns
    <2> QED BY <2>1, <2>2
  <1>8. req' = [q \in Procs |-> req'[q]] /\ ans' = [q \in Procs |-> ans'[q]] BY DEF req, ans
  <1>9. req' = [req EXCEPT ![p] = NoMsg] BY <1>4, <1>7, <1>8, Views
  <1>10. ans' = IF p \in alive THEN [ans EXCEPT ![p] = a] ELSE ans
    <2>1. CASE p \in alive
      <3>1. ans' = [ans EXCEPT ![p] = a] BY <1>5, <1>7, <1>8, <2>1, Views
      <3> QED BY <2>1, <3>1
    <2>2. CASE p \notin alive
      <3>1. ans' = ans BY <1>5, <1>6, <1>7, <1>8, <2>2, Views
      <3> QED BY <2>2, <3>1
    <2> QED BY <2>1, <2>2
  <1> QED BY <1>2, <1>3, <1>9, <1>10 DEF R!Tell

\* Lookups and the requests that leave the list alone.
LEMMA AnswerRefines ==
  ASSUME IInv, IInv', Answer
  PROVE  \E p \in Procs : R!Lookup(p) \/ R!Other(p)
  <1>0. TypeOK /\ RegFacts /\ NamesUnique BY RegNow DEF IInv
  <1>1. /\ UNCHANGED <<alive, got, node, buf, svclist, cur>>
        /\ pc = "handler" /\ pc' = "reply" /\ msg.code # "ADD"
    BY DEF Answer, clients, refs
  <1>2. PICK p \in Procs : p = cur /\ buf[p] # NoMsg /\ buf[p] \in Messages
    BY <1>1 DEF IInv, CurInv, Busy, TypeOK
  <1> PICK a : a = Told(p)' OBVIOUS
  <1>3. req[p] = AskedBy(p) /\ req[p] # NoMsg /\ R!Tell(p, a)
    BY <1>1, <1>2, TellStep
  <1>4. reg' = reg /\ policy' = policy
    BY <1>1 DEF reg, policy, find_svc, Entries, ObjOf
  <1>5. msg = buf[p] /\ msg.code \in {"PING", "BAD", "LIST", "CHECK"} /\ msg.name \in Names
    BY <1>1, <1>2 DEF msg, Messages, Codes
  <1>6. CASE msg.code = "CHECK"
    <2> DEFINE s == msg.name
               told == reg[s] # NoObj /\ Owner[reg[s]] # p /\ (Isolated(p) => policy[s] = 1)
    <2>1. res' = Ok(do_find_service(s, p)) BY <1>2, <1>6 DEF Answer
    <2>2. res'.status = 0 /\ res'.handle = do_find_service(s, p) BY <2>1 DEF Ok
    <2>3. a = IF told THEN reg[s] ELSE "ok"
      <3>1. /\ find_svc(s) = 0 => \A i \in DOMAIN svclist : svclist[i].name # s
            /\ find_svc(s) # 0 => find_svc(s) \in DOMAIN svclist /\ svclist[find_svc(s)].name = s
        BY <1>0, <1>5, FindSvc
      <3>2. CASE find_svc(s) = 0
        <4>1. res'.handle = 0 BY <2>2, <3>2 DEF do_find_service
        <4>2. reg[s] = NoObj BY <1>0, <1>5, <3>1, <3>2 DEF RegFacts
        <4> QED BY <2>2, <4>1, <4>2 DEF Told, ObjOf, Found
      <3>3. CASE find_svc(s) # 0
        <4>1. PICK i \in DOMAIN svclist : i = find_svc(s) /\ svclist[i].name = s BY <3>1, <3>3
        <4>2. reg[s] = ObjOf(svclist[i].handle) /\ policy[s] = svclist[i].allow
          BY <1>0, <1>5, <4>1 DEF RegFacts
        <4>3. svclist[i].allow \in {0, 1}
          <5>1. svclist[i] \in Svcinfo BY <1>0 DEF TypeOK
          <5> QED BY <5>1 DEF Svcinfo
        <4>4. CASE svclist[i].allow = 0 /\ Isolated(p)
          <5>1. res'.handle = 0 BY <2>2, <3>3, <4>1, <4>4 DEF do_find_service
          <5> QED BY <2>2, <4>2, <4>4, <5>1 DEF Told, ObjOf, Found
        <4>5. CASE ~(svclist[i].allow = 0 /\ Isolated(p))
          <5>1. res'.handle = svclist[i].handle BY <2>2, <3>3, <4>1, <4>5 DEF do_find_service
          <5>2. (ObjOf(res.handle))' = reg[s] BY <1>1, <4>2, <5>1 DEF ObjOf
          <5>3. Isolated(p) => policy[s] = 1 BY <4>2, <4>3, <4>5
          <5> QED BY <2>2, <5>2, <5>3 DEF Told, Found
        <4> QED BY <4>4, <4>5
      <3> QED BY <3>2, <3>3
    <2>4. req[p].code = "CHECK" /\ req[p].name = s BY <1>3, <1>5, <1>6 DEF AskedBy
    <2> HIDE DEF s
    <2>5. R!Lookup(p) BY <1>3, <1>4, <2>3, <2>4 DEF R!Lookup
    <2> QED BY <2>5
  <1>7. CASE msg.code # "CHECK"
    <2>1. res' \in {Ok(0), Failed} BY <1>5, <1>7 DEF Answer
    <2>2. a \in {"ok", "fail"} BY <2>1 DEF Told, Ok, Failed, ObjOf, Found
    <2>3. req[p].code = "OTHER" BY <1>3, <1>5, <1>7 DEF AskedBy
    <2>4. R!Other(p) BY <1>3, <1>4, <2>2, <2>3 DEF R!Other
    <2> QED BY <2>4
  <1> QED BY <1>6, <1>7

LEMMA RefusedRefines ==
  ASSUME IInv, IInv', AddRefused
  PROVE  \E p \in Procs : R!Refuse(p)
  <1>1. /\ UNCHANGED <<alive, got, node, buf, svclist, cur>>
        /\ pc = "handler" /\ pc' = "reply" /\ msg.code = "ADD" /\ res' = Failed
    BY DEF AddRefused, clients, refs
  <1>2. PICK p \in Procs : p = cur BY <1>1 DEF IInv, CurInv, Busy
  <1> PICK a : a = Told(p)' OBVIOUS
  <1>3. req[p] = AskedBy(p) /\ req[p] # NoMsg /\ R!Tell(p, a)
    BY <1>1, <1>2, TellStep
  <1>4. reg' = reg /\ policy' = policy
    BY <1>1 DEF reg, policy, find_svc, Entries, ObjOf
  <1>5. a = "fail" BY <1>1 DEF Told, Failed, ObjOf, Found
  <1>6. req[p].code = "ADD" BY <1>1, <1>2, <1>3 DEF AskedBy, msg
  <1>7. R!Refuse(p) BY <1>3, <1>4, <1>5, <1>6 DEF R!Refuse
  <1> QED BY <1>7

\* do_add_service, on a new name or over an earlier service, takes effect at
\* once, before the reference is taken and the link is made.
LEMMA AddRefines ==
  ASSUME IInv, IInv', LInv, AddNew \/ AddAgain
  PROVE  \E p \in Procs : R!Register(p)
  <1>0. TypeOK /\ Backed /\ Backed' /\ RegFacts /\ RegFacts' /\ NamesUnique
    BY BackedNow, BackedThen, RegNow, RegThen DEF IInv
  <1>a. NoObj \notin Objs /\ 0 \notin Handles BY RegistryAssumption DEF Handles
  <1>1. /\ UNCHANGED <<alive, got, buf, cur>> /\ pc = "handler" /\ pc' = "acquire"
        /\ msg.code = "ADD" /\ CanAdd /\ res' = Ok(0)
    BY DEF AddNew, AddAgain, clients
  <1>2. PICK n \in Handles, p \in Procs :
          /\ p = cur /\ n = msg.handle /\ Carries(p, n) /\ node[n] \in Objs
          /\ msg \in Messages /\ msg.name \in Names
    BY <1>1, AddRequest
  <1>3. \A h \in Handles : node'[h] # NoObj => node'[h] = node[h]
    <2>1. CASE AddNew BY <2>1 DEF AddNew, refs
    <2>2. CASE AddAgain BY <2>2, AgainStep DEF TableKept
    <2> QED BY <2>1, <2>2
  <1>4. ASSUME NEW q \in Procs, NEW h \in Handles, Carries(q, h) PROVE node'[h] = node[h]
    <2>1. Carries(q, h)' BY <1>1, <1>4 DEF Carries
    <2> QED BY <1>0, <1>3, <1>a, <2>1 DEF Backed, Carries
  <1> PICK a : a = Told(p)' OBVIOUS
  <1>5. req[p] = AskedBy(p) /\ req[p] # NoMsg /\ R!Tell(p, a)
    BY <1>1, <1>2, <1>4, TellStep
  <1>6. a = "ok" BY <1>1 DEF Told, Ok, ObjOf, Found
  <1> DEFINE s == msg.name
  <1>7. /\ req[p].code = "ADD" /\ req[p].name = s /\ req[p].allow = msg.allow
        /\ req[p].obj = node[n] /\ msg.allow \in {0, 1}
    BY <1>1, <1>2, <1>5, <1>a DEF AskedBy, msg, ObjOf, Messages
  <1>8. \E i \in DOMAIN svclist' :
          /\ svclist'[i].name = s /\ svclist'[i].handle = n
          /\ svclist'[i].allow = IF policy[s] = -1 THEN msg.allow ELSE policy[s]
          /\ \A j \in DOMAIN svclist :
               j # i => /\ j \in DOMAIN svclist' /\ svclist'[j].name = svclist[j].name
                        /\ svclist'[j].handle = svclist[j].handle
                        /\ svclist'[j].allow = svclist[j].allow
          /\ \A j \in DOMAIN svclist' : j # i => j \in DOMAIN svclist
    <2>1. CASE AddNew
      <3> DEFINE e == [name |-> msg.name, handle |-> msg.handle, allow |-> msg.allow]
                 k == Len(svclist) + 1
      <3>1. svclist' = Append(svclist, e) /\ find_svc(s) = 0 BY <2>1 DEF AddNew
      <3>2. e.name = s /\ e.handle = n /\ e.allow = msg.allow BY <1>2
      <3> HIDE DEF e
      <3>3. /\ k \in DOMAIN svclist' /\ svclist'[k] = e
            /\ \A j \in DOMAIN svclist : j \in DOMAIN svclist' /\ svclist'[j] = svclist[j]
            /\ \A j \in DOMAIN svclist' : j # k => j \in DOMAIN svclist
        BY <1>0, <3>1 DEF TypeOK
      <3>4. policy[s] = -1 BY <1>0, <1>2, <3>1, FindSvc DEF RegFacts
      <3> QED BY <3>2, <3>3, <3>4
    <2>2. CASE AddAgain
      <3>1. PICK i \in DOMAIN svclist :
              /\ svclist[i].name = msg.name
              /\ DOMAIN svclist' = DOMAIN svclist
              /\ \A j \in DOMAIN svclist :
                   /\ svclist'[j].name = svclist[j].name /\ svclist'[j].allow = svclist[j].allow
                   /\ svclist'[j].handle = IF j = i THEN msg.handle ELSE svclist[j].handle
        BY <2>2, AgainStep
      <3>2. policy[s] = svclist[i].allow BY <1>0, <1>2, <3>1 DEF RegFacts
      <3>3. svclist[i].allow # -1
        <4>1. svclist[i] \in Svcinfo BY <1>0 DEF TypeOK
        <4>2. svclist[i].allow \in {0, 1} BY <4>1 DEF Svcinfo
        <4> QED BY <4>2
      <3> QED BY <1>2, <3>1, <3>2, <3>3
    <2> QED BY <2>1, <2>2
  <1>9. PICK i \in DOMAIN svclist' :
          /\ svclist'[i].name = s /\ svclist'[i].handle = n
          /\ svclist'[i].allow = IF policy[s] = -1 THEN msg.allow ELSE policy[s]
          /\ \A j \in DOMAIN svclist :
               j # i => /\ j \in DOMAIN svclist' /\ svclist'[j].name = svclist[j].name
                        /\ svclist'[j].handle = svclist[j].handle
                        /\ svclist'[j].allow = svclist[j].allow
          /\ \A j \in DOMAIN svclist' : j # i => j \in DOMAIN svclist
    BY <1>8
  <1>10. /\ reg'[s] = node[n]
         /\ policy'[s] = IF policy[s] = -1 THEN msg.allow ELSE policy[s]
    <2>1. reg'[s] = (ObjOf(svclist[i].handle))' /\ policy'[s] = svclist'[i].allow
      BY <1>0, <1>2, <1>9 DEF RegFacts
    <2>2. (ObjOf(svclist[i].handle))' = node'[n] BY <1>9, <1>a DEF ObjOf
    <2>3. node'[n] = node[n] BY <1>2, <1>4
    <2> QED BY <1>9, <2>1, <2>2, <2>3
  <1>11. ASSUME NEW t \in Names, t # s PROVE reg'[t] = reg[t] /\ policy'[t] = policy[t]
    <2>1. CASE \E j \in DOMAIN svclist' : svclist'[j].name = t
      <3>1. PICK j \in DOMAIN svclist' : svclist'[j].name = t BY <2>1
      <3>2. /\ j # i /\ j \in DOMAIN svclist /\ svclist[j].name = t
            /\ svclist'[j].handle = svclist[j].handle /\ svclist'[j].allow = svclist[j].allow
        BY <1>9, <1>11, <3>1
      <3>3. reg'[t] = (ObjOf(svclist[j].handle))' /\ policy'[t] = svclist'[j].allow
        BY <1>0, <3>1 DEF RegFacts
      <3>4. reg[t] = ObjOf(svclist[j].handle) /\ policy[t] = svclist[j].allow
        BY <1>0, <3>2 DEF RegFacts
      <3>5. (ObjOf(svclist[j].handle))' = ObjOf(svclist[j].handle)
        BY <1>0, <1>3, <1>a, <3>1, <3>2 DEF ObjOf, Backed
      <3> QED BY <3>2, <3>3, <3>4, <3>5
    <2>2. CASE \A j \in DOMAIN svclist' : svclist'[j].name # t
      <3>1. ASSUME NEW j \in DOMAIN svclist, svclist[j].name = t PROVE FALSE
        <4>1. CASE j # i BY <1>9, <2>2, <3>1, <4>1
        <4>2. CASE j = i
          <5>1. svclist'[i].name = svclist[i].name
            <6>1. CASE AddNew
              <7>1. svclist'[i] = svclist[i] BY <1>0, <4>2, <6>1 DEF AddNew, TypeOK
              <7> QED BY <7>1
            <6>2. CASE AddAgain BY <4>2, <6>2, AgainStep
            <6> QED BY <6>1, <6>2
          <5> QED BY <2>2, <3>1, <4>2, <5>1
        <4> QED BY <4>1, <4>2
      <3> QED BY <1>0, <2>2, <3>1 DEF RegFacts
    <2> QED BY <2>1, <2>2
  <1> HIDE DEF s
  <1>b. s \in Names BY <1>2 DEF s
  <1>12. /\ reg' = [reg EXCEPT ![s] = node[n]]
         /\ policy' = [policy EXCEPT ![s] = IF @ = -1 THEN msg.allow ELSE @]
    <2>1. /\ reg' = [t \in Names |-> reg'[t]] /\ policy' = [t \in Names |-> policy'[t]]
      BY DEF reg, policy
    <2>2. reg' = [reg EXCEPT ![s] = node[n]] BY <1>10, <1>11, <1>b, <2>1, Views
    <2>3. policy' = [policy EXCEPT ![s] = IF policy[s] = -1 THEN msg.allow ELSE policy[s]]
      BY <1>10, <1>11, <1>b, <2>1, Views
    <2> QED BY <2>2, <2>3
  <1>13. node[n] # NoObj BY <1>2, <1>a
  <1>14. R!Register(p) BY <1>5, <1>6, <1>7, <1>12, <1>13 DEF R!Register
  <1> QED BY <1>14

\* The answer has taken effect: replying hands it over and is not visible.
LEMMA ReplyRefines ==
  ASSUME IInv, IInv', LInv, binder_send_reply
  PROVE  UNCHANGED <<alive, reg, policy, req, ans>>
  <1>0. TypeOK /\ Backed /\ Backed' /\ AnswerInv BY BackedNow, BackedThen DEF IInv, LInv
  <1>a. NoObj \notin Objs /\ 0 \notin Handles /\ Nobody \notin Procs
    BY RegistryAssumption DEF Handles
  <1>1. UNCHANGED <<alive, svclist>> /\ pc = "reply" /\ pc' = "loop"
    BY DEF binder_send_reply
  <1>2. PICK p \in Procs :
          /\ p = cur /\ buf[p] # NoMsg
          /\ \A q \in Procs : buf'[q] = IF q = p THEN NoMsg ELSE buf[q]
          /\ IF p \in alive THEN Deliver(p) ELSE UNCHANGED <<call, got, cref>>
          /\ TableKept
    BY ReplyStep
  <1>3. \A q \in Procs : (Effective(q) <=> q = p) /\ ~Effective(q)'
    BY <1>1, <1>2 DEF Effective
  <1>4. reg' = reg /\ policy' = policy
    <2>1. ASSUME NEW i \in DOMAIN svclist
          PROVE  (ObjOf(svclist[i].handle))' = ObjOf(svclist[i].handle)
      BY <1>0, <1>1, <1>2, <1>a DEF ObjOf, Backed, TableKept
    <2> QED BY <1>1, <2>1, SameReg
  <1>5. ASSUME NEW q \in Procs PROVE req'[q] = req[q]
    <2>1. CASE q = p BY <1>2, <1>3, <2>1 DEF req
    <2>2. CASE q # p
      <3>1. ASSUME NEW h \in Handles, Carries(q, h) PROVE node'[h] = node[h]
        <4>1. Carries(q, h)' BY <1>2, <2>2, <3>1 DEF Carries
        <4> QED BY <1>0, <1>2, <1>a, <4>1 DEF Backed, TableKept, Carries
      <3> QED BY <1>0, <1>2, <1>3, <2>2, <3>1, SameReq
    <2> QED BY <2>1, <2>2
  <1>6. /\ \A q \in Procs : q # p => got'[q] = got[q]
        /\ p \in alive => got'[p] = Told(p)
    <2>0. got \in [Procs -> Objs \cup {"none", "ok", "fail"}] BY <1>0 DEF TypeOK
    <2>1. CASE p \in alive
      <3>1. Deliver(p) BY <1>2, <2>1
      <3>2. CASE Found(p, ObjOf(res.handle))
        <4>1. got' = [got EXCEPT ![p] = ObjOf(res.handle)] BY <3>1, <3>2 DEF Deliver, ObjOf
        <4> QED BY <2>0, <3>2, <4>1 DEF Told
      <3>3. CASE ~Found(p, ObjOf(res.handle))
        <4>1. got' = [got EXCEPT ![p] = IF res.status = 0 THEN "ok" ELSE "fail"]
          BY <3>1, <3>3 DEF Deliver, ObjOf
        <4> QED BY <2>0, <3>3, <4>1 DEF Told
      <3> QED BY <3>2, <3>3
    <2>2. CASE p \notin alive BY <1>2, <2>2
    <2> QED BY <2>1, <2>2
  <1>7. ASSUME NEW q \in Procs PROVE ans'[q] = ans[q]
    <2>1. CASE q = p BY <1>1, <1>3, <1>6, <2>1 DEF ans, Told
    <2>2. CASE q # p BY <1>1, <1>3, <1>6, <2>2, SameAns
    <2> QED BY <2>1, <2>2
  <1>8. req' = [q \in Procs |-> req'[q]] /\ ans' = [q \in Procs |-> ans'[q]] BY DEF req, ans
  <1>9. req' = req /\ ans' = ans BY <1>5, <1>7, <1>8, Views
  <1> QED BY <1>1, <1>4, <1>9

LEMMA NextRefines ==
  OneName /\ IInv /\ IInv' /\ LInv /\ [Next]_vars => [R!Next]_(R!vars)
  <1> SUFFICES ASSUME OneName, IInv, IInv', LInv, [Next]_vars
               PROVE  R!Next \/ UNCHANGED <<alive, reg, policy, req, ans>>
    BY DEF R!vars
  <1>1. CASE ReadTxn \/ ReadDeath \/ AddAcquire \/ AddLink BY <1>1, HiddenRefines
  <1>2. CASE svcinfo_death BY <1>2, DeathRefines DEF R!Next
  <1>3. CASE Answer BY <1>3, AnswerRefines DEF R!Next
  <1>4. CASE AddRefused BY <1>4, RefusedRefines DEF R!Next
  <1>5. CASE AddNew \/ AddAgain BY <1>5, AddRefines DEF R!Next
  <1>6. CASE binder_send_reply BY <1>6, ReplyRefines
  <1>7. ASSUME NEW r \in Requests, Send(r) PROVE R!Next BY <1>7, SendRefines DEF R!Next
  <1>8. ASSUME NEW p \in Procs, Acquire(p) \/ \E o \in Objs : Release(p, o)
        PROVE  UNCHANGED <<alive, reg, policy, req, ans>>
    BY <1>8, QuietRefines
  <1>9. ASSUME NEW p \in Procs, Done(p) PROVE R!Next BY <1>9, DoneRefines DEF R!Next
  <1>10. ASSUME NEW p \in Procs, Die(p) PROVE R!Next BY <1>10, DieRefines DEF R!Next
  <1>11. CASE UNCHANGED vars
    BY <1>11 DEF vars, clients, refs, server, reg, policy, req, ans, find_svc, Entries, ObjOf,
                 Effective, Found
  <1> QED BY <1>1, <1>2, <1>3, <1>4, <1>5, <1>6, <1>7, <1>8, <1>9, <1>10, <1>11
          DEF Next, svcmgr, caller

\* When every object has one name, the service manager with its list, its
\* reference table and its messages in flight implements the registry: every
\* registration and lookup takes effect at one instant between the call and
\* the reply, and a name loses its service only after the service died.
THEOREM Refinement ==
  ASSUME OneName
  PROVE  Spec => Refines
  <1>1. IInv /\ LInv /\ [Next]_vars => [R!Next]_(R!vars) BY NextIInv, NextRefines
  <1> QED BY <1>1, InitRefines, Inductive, LinksInOrder, PTL DEF Spec, Refines, R!Spec
=============================================================================
