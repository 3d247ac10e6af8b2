-------------------------- MODULE KernelModuleProofs --------------------------
(***************************************************************************)
(* The small modules.  The globalvar device never loses a wake-up,         *)
(* announces every unread byte and returns every byte exactly once, for    *)
(* any sets of readers and writers and any number of bytes.  The lists of  *)
(* hlist2 keep every student in one place and lose none but those that     *)
(* classify_stu takes for neither boy nor girl, for any memory and roster. *)
(* The init and exit of every module order what they acquire and give back *)
(* so that calls are backed and nothing unlisted is left, for any callers. *)
(***************************************************************************)
EXTENDS GlobalVar, Students, Lifecycle, FiniteSetTheorems, SequenceTheorems, TLAPS

\* Only the holder of var_lock is between spin_lock and spin_unlock.
LockInv == \A t \in Threads : pc[t] \in {"copy", "clear"} => var_lock = t

\* What the lock protects: the length a reader computed is still the distance
\* between the indexes when it advances read_index, nothing is written before
\* it clears the flag, and history and read_index differ only in between.
IndexInv ==
  /\ read_index <= write_index
  /\ \A r \in Readers :
       /\ pc[r] = "copy" => read_len[r] = write_index - read_index
       /\ pc[r] = "clear" => /\ read_index = write_index
                             /\ delivered + read_len[r] = read_index
  /\ (\A r \in Readers : pc[r] # "clear") => delivered = read_index

\* The inductive invariant: the lock is what makes the indexes consistent,
\* and the indexes are what makes the flag sound.
IInv == TypeOK /\ LockInv /\ IndexInv /\ UnreadIsAnnounced /\ NoLostWakeup

USE DEF Threads, Goto, ReaderPcs, WriterPcs

LEMMA InitIInv == Init => IInv
  BY ThreadsAssumption
  DEF Init, IInv, TypeOK, LockInv, IndexInv, UnreadIsAnnounced, NoLostWakeup

\* One step per statement of globalvar_read.
LEMMA ReadIInv ==
  ASSUME IInv, NEW r \in Readers, Read(r)
  PROVE  IInv'
  <1> USE ThreadsAssumption
      DEF IInv, TypeOK, LockInv, IndexInv, UnreadIsAnnounced, NoLostWakeup
  <1>1. CASE ReadEnter(r)     BY <1>1 DEF ReadEnter
  <1>2. CASE PrepareToWait(r) BY <1>2 DEF PrepareToWait
  <1>3. CASE Recheck(r)       BY <1>3 DEF Recheck
  <1>4. CASE Wakened(r)       BY <1>4 DEF Wakened
  <1>5. CASE Interrupted(r)   BY <1>5 DEF Interrupted
  <1>6. CASE ReadLock(r)      BY <1>6 DEF ReadLock
  <1>7. CASE ReadFault(r)     BY <1>7 DEF ReadFault
  <1>8. CASE ReadAdvance(r)   BY <1>8 DEF ReadAdvance
  <1>9. CASE ReadReturn(r)    BY <1>9 DEF ReadReturn
  <1> QED BY <1>1, <1>2, <1>3, <1>4, <1>5, <1>6, <1>7, <1>8, <1>9
          DEF Read, ReadStep

\* One step per statement of globalvar_write.
LEMMA WriteIInv ==
  ASSUME IInv, NEW w \in Writers, Write(w)
  PROVE  IInv'
  <1> USE ThreadsAssumption
      DEF IInv, TypeOK, LockInv, IndexInv, UnreadIsAnnounced, NoLostWakeup
  <1>1. CASE WriteLock(w)   BY <1>1 DEF WriteLock
  <1>2. CASE WriteFault(w)  BY <1>2 DEF WriteFault
  <1>3. ASSUME NEW len \in Lens, WriteCopy(w, len) PROVE IInv'
        BY <1>3 DEF WriteCopy
  <1>4. CASE WriteFlag(w)   BY <1>4 DEF WriteFlag
  <1>5. CASE WriteWake(w)   BY <1>5 DEF WriteWake
  <1> QED BY <1>1, <1>2, <1>3, <1>4, <1>5 DEF Write, WriteStep

\* The state machine of globalvar_read and globalvar_write keeps IInv.
THEOREM Invariance == Spec => []IInv
  <1>1. IInv /\ [Next]_vars => IInv'
    <2> SUFFICES ASSUME IInv, [Next]_vars PROVE IInv'
      OBVIOUS
    <2>1. CASE Next BY <2>1, ReadIInv, WriteIInv DEF Next
    <2>2. CASE UNCHANGED vars
      BY <2>2 DEF vars, IInv, TypeOK, LockInv, IndexInv, UnreadIsAnnounced, NoLostWakeup
    <2> QED BY <2>1, <2>2
  <1> QED BY InitIInv, <1>1, PTL DEF Spec

\* flag, the indexes and the program counters keep their types.
THEOREM Typing == Spec => []TypeOK
  BY Invariance, PTL DEF IInv

\* Unread bytes are announced although the flag is set outside the lock.
THEOREM Announced == Spec => []UnreadIsAnnounced
  BY Invariance, PTL DEF IInv

\* No reader sleeps on a set flag without a wake-up on its way.
THEOREM WakeupNotLost == Spec => []NoLostWakeup
  BY Invariance, PTL DEF IInv

\* globalvar_read returns every byte of global_var exactly once.
THEOREM ExactlyOnce == Spec => []DeliveredOnce
  <1>1. IInv => DeliveredOnce
    BY DEF IInv, IndexInv, DeliveredOnce
  <1> QED BY Invariance, <1>1, PTL

HIDE DEF Threads, Goto, ReaderPcs, WriterPcs

-----------------------------------------------------------------------------
(* hlist2 *)

Record == [m_name : Names, m_sex : Sexes]
Distinct(q) == \A j, k \in DOMAIN q : q[j] = q[k] => j = k
Elems(q) == {q[i] : i \in DOMAIN q}
Homes == Elems(g_student_list) \cup g_stu_hlist[0] \cup g_stu_hlist[1]

\* A student on a list is there once, and on no other list.
HomeInv ==
  /\ Distinct(g_student_list)
  /\ Elems(g_student_list) \cap g_stu_hlist[0] = {}
  /\ Elems(g_student_list) \cap g_stu_hlist[1] = {}
  /\ g_stu_hlist[0] \cap g_stu_hlist[1] = {}
  /\ IsFiniteSet(g_stu_hlist[0]) /\ IsFiniteSet(g_stu_hlist[1])
  /\ \A a \in Homes : mem[a] # NoStudent

\* Whoever is on no list is a stray of classify_stu.
StrayInv ==
  \A a \in Addrs : mem[a] # NoStudent => a \in Homes \/ mem[a].m_sex \notin {"m", "f"}

StoreInv ==
  /\ mem \in [Addrs -> Record \cup {NoStudent}]
  /\ g_student_list \in Seq(Addrs) /\ g_stu_hlist \in [{0, 1} -> SUBSET Addrs]
  /\ HomeInv /\ StrayInv

\* A module that is not there has nothing on its lists.
PhaseInv ==
  /\ mod \in {"out", "init", "loaded"} /\ added \in 0..Len(Roster)
  /\ mod = "out" => Homes = {}

SInv == StoreInv /\ PhaseInv

LEMMA Least ==
  ASSUME NEW T, T \subseteq Nat, T # {}
  PROVE  \E x \in T : \A y \in T : x <= y
<1>1. PICK R : R = OpToRel(<, Nat)
  OBVIOUS
<1>2. IsWellFoundedOn(R, Nat)
  BY <1>1, NatLessThanWellFounded
<1>3. PICK x \in T : \A y \in T : ~ (<<y, x>> \in R)
  BY <1>2, WFMin, Zenon
<1>4. \A y, z \in Nat : y < z => <<y, z>> \in R
  BY <1>1 DEF OpToRel
<1>5. \A y \in T : x <= y
  <2> SUFFICES ASSUME NEW y \in T PROVE x <= y
    OBVIOUS
  <2>1. x \in Nat /\ y \in Nat /\ ~(<<y, x>> \in R)
    BY <1>3
  <2>2. ~(y < x)
    BY <1>4, <2>1, Zenon
  <2>3. QED
    BY <2>1, <2>2
<1>6. QED
  BY <1>5

LEMMA Counted ==
  ASSUME NEW A, NEW q \in Seq(A), Distinct(q)
  PROVE  IsFiniteSet(Elems(q)) /\ Cardinality(Elems(q)) = Len(q)
<1>1. Len(q) \in Nat /\ DOMAIN q = 1..Len(q)
  BY LenProperties
<1>2. q \in [1..Len(q) -> Elems(q)]
  BY <1>1 DEF Elems
<1>3. q \in Bijection(1..Len(q), Elems(q))
  BY <1>1, <1>2 DEF Bijection, Injection, Surjection, IsInjective, Elems, Distinct
<1>4. ExistsBijection(1..Len(q), Elems(q))
  BY <1>3 DEF ExistsBijection
<1>5. QED
  BY <1>1, <1>4, FS_CountingElements, FS_NatBijection

LEMMA Appended ==
  ASSUME NEW A, NEW q \in Seq(A), NEW x \in A, Distinct(q), x \notin Elems(q)
  PROVE  /\ Append(q, x) \in Seq(A) /\ Distinct(Append(q, x))
         /\ Elems(Append(q, x)) = Elems(q) \cup {x}
<1>1. PICK u : u = Append(q, x)
  OBVIOUS
<1>2. /\ u \in Seq(A) /\ Len(q) \in Nat /\ DOMAIN q = 1..Len(q)
      /\ DOMAIN u = 1..(Len(q) + 1) /\ u[Len(q) + 1] = x
      /\ \A k \in 1..Len(q) : u[k] = q[k]
  BY <1>1
<1>3. \A k \in 1..(Len(q) + 1) : k \in 1..Len(q) \/ k = Len(q) + 1
  BY <1>2
<1>4. \A k \in 1..Len(q) : k \in 1..(Len(q) + 1)
  BY <1>2
<1>5. Len(q) + 1 \in 1..(Len(q) + 1)
  BY <1>2
<1>6. Elems(u) = Elems(q) \cup {x}
  BY <1>2, <1>3, <1>4, <1>5, Zenon DEF Elems
<1>7. Distinct(u)
  <2> SUFFICES ASSUME NEW j \in 1..(Len(q) + 1), NEW k \in 1..(Len(q) + 1), u[j] = u[k]
               PROVE  j = k
    BY <1>2 DEF Distinct
  <2>1. CASE j \in 1..Len(q) /\ k \in 1..Len(q)
    BY <1>2, <2>1 DEF Distinct
  <2>2. CASE j = Len(q) + 1 /\ k \in 1..Len(q)
    BY <1>2, <2>2 DEF Elems
  <2>3. CASE k = Len(q) + 1 /\ j \in 1..Len(q)
    BY <1>2, <2>3 DEF Elems
  <2>4. QED
    BY <1>3, <2>1, <2>2, <2>3
<1>8. QED
  BY <1>1, <1>2, <1>6, <1>7

\* What is left of a list behind its k-th element.
LEMMA Behind ==
  ASSUME NEW A, NEW q \in Seq(A), Distinct(q), NEW k \in 1..(Len(q) + 1)
  PROVE  LET u == SubSeq(q, k + 1, Len(q))
         IN  /\ u \in Seq(A) /\ Distinct(u)
             /\ Elems(u) = {q[i] : i \in (k + 1)..Len(q)}
<1>1. PICK u : u = SubSeq(q, k + 1, Len(q))
  OBVIOUS
<1>2. PICK m \in Nat : m = Len(q) /\ k \in 1..(m + 1) /\ k \in Nat /\ DOMAIN q = 1..m
  <2>1. Len(q) \in Nat /\ DOMAIN q = 1..Len(q)
    BY LenProperties
  <2>2. k \in Nat
    BY <2>1
  <2>3. QED
    BY <2>1, <2>2
<1>3. PICK n \in Nat : (k = m + 1 => n = 0) /\ (k # m + 1 => n = m - k)
  <2>1. CASE k = m + 1
    BY <2>1
  <2>2. CASE k # m + 1
    <3>1. m - k \in Nat
      BY <1>2, <2>2
    <3>2. QED
      BY <2>2, <3>1
  <2>3. QED
    BY <2>1, <2>2
<1>4. u \in Seq(A) /\ DOMAIN u = 1..n /\ \A i \in 1..n : u[i] = q[k + i]
  <2>1. CASE k = m + 1
    <3>1. u = <<>>
      BY <1>1, <1>2, <2>1
    <3>2. QED
      BY <1>3, <2>1, <3>1
  <2>2. CASE k # m + 1
    <3>1. n = m - k /\ k \in 1..m
      BY <1>2, <1>3, <2>2
    <3>2. u \in Seq(A) /\ Len(u) = n
      BY <1>1, <1>2, <3>1
    <3>3. \A i \in 1..n : u[i] = q[k + i]
      BY <1>1, <1>2, <3>1
    <3>4. QED
      BY <3>2, <3>3
  <2>3. QED
    BY <2>1, <2>2
<1>5. \A i \in 1..n : k + i \in (k + 1)..Len(q) /\ k + i \in 1..Len(q)
  BY <1>2, <1>3
<1>6. \A i \in (k + 1)..Len(q) : i - k \in 1..n /\ k + (i - k) = i
  BY <1>2, <1>3
<1>7. Elems(u) = {q[i] : i \in (k + 1)..Len(q)}
  <2>1. \A x \in Elems(u) : x \in {q[i] : i \in (k + 1)..Len(q)}
    BY <1>4, <1>5, Zenon DEF Elems
  <2>2. ASSUME NEW i \in (k + 1)..Len(q) PROVE q[i] \in Elems(u)
    <3>1. i - k \in DOMAIN u /\ u[i - k] = q[i]
      BY <1>4, <1>6
    <3>2. QED
      BY <3>1, Zenon DEF Elems
  <2>3. QED
    BY <2>1, <2>2
<1>8. Distinct(u)
  <2> SUFFICES ASSUME NEW i \in 1..n, NEW j \in 1..n, u[i] = u[j] PROVE i = j
    BY <1>4 DEF Distinct
  <2>1. q[k + i] = q[k + j] /\ k + i \in 1..Len(q) /\ k + j \in 1..Len(q)
    BY <1>4, <1>5
  <2>2. k + i = k + j
    BY <1>2, <2>1 DEF Distinct
  <2>3. QED
    BY <1>2, <2>2
<1>9. QED
  BY <1>1, <1>4, <1>7, <1>8

\* A list without its k-th element.
LEMMA Without ==
  ASSUME NEW A, NEW q \in Seq(A), Distinct(q), NEW k \in 1..Len(q)
  PROVE  LET u == SubSeq(q, 1, k - 1) \o SubSeq(q, k + 1, Len(q))
         IN  u \in Seq(A) /\ Distinct(u) /\ Elems(u) = Elems(q) \ {q[k]}
<1>1. PICK m \in Nat : m = Len(q) /\ DOMAIN q = 1..m /\ k \in 1..m
  BY LenProperties
<1>2. PICK a, b : a = SubSeq(q, 1, k - 1) /\ b = SubSeq(q, k + 1, Len(q))
  OBVIOUS
<1>3. a \in Seq(A) /\ Len(a) = k - 1 /\ \A i \in 1..(k - 1) : a[i] = q[i]
  BY <1>1, <1>2
<1>4. b \in Seq(A) /\ Len(b) = m - k /\ \A i \in 1..(m - k) : b[i] = q[k + i]
  BY <1>1, <1>2
<1>5. PICK u : u = a \o b
  OBVIOUS
<1>6. /\ u \in Seq(A) /\ DOMAIN u = 1..(m - 1)
      /\ \A j \in 1..(m - 1) : u[j] = IF j <= k - 1 THEN a[j] ELSE b[j - (k - 1)]
  <2>1. /\ u \in Seq(A) /\ Len(u) = Len(a) + Len(b)
        /\ \A j \in 1..(Len(a) + Len(b)) : u[j] = IF j <= Len(a) THEN a[j] ELSE b[j - Len(a)]
    BY <1>3, <1>4, <1>5, ConcatProperties
  <2>2. Len(a) + Len(b) = m - 1
    BY <1>1, <1>3, <1>4
  <2>3. QED
    BY <1>3, <2>1, <2>2
<1>7. \A j \in 1..(m - 1) : \/ j < k /\ j \in 1..m /\ u[j] = q[j]
                            \/ j >= k /\ j + 1 \in 1..m /\ u[j] = q[j + 1]
  <2> SUFFICES ASSUME NEW j \in 1..(m - 1)
               PROVE  \/ j < k /\ j \in 1..m /\ u[j] = q[j]
                      \/ j >= k /\ j + 1 \in 1..m /\ u[j] = q[j + 1]
    OBVIOUS
  <2>1. CASE j < k
    <3>1. j \in 1..(k - 1) /\ j \in 1..m
      BY <1>1, <2>1
    <3>2. QED
      BY <1>3, <1>6, <2>1, <3>1
  <2>2. CASE j >= k
    <3>1. /\ j - (k - 1) \in 1..(m - k) /\ k + (j - (k - 1)) = j + 1
          /\ j + 1 \in 1..m /\ ~(j <= k - 1)
      BY <1>1, <2>2
    <3>2. b[j - (k - 1)] = q[j + 1]
      BY <1>4, <3>1
    <3>3. u[j] = b[j - (k - 1)]
      BY <1>6, <3>1
    <3>4. QED
      BY <2>2, <3>1, <3>2, <3>3
  <2>3. QED
    BY <1>1, <2>1, <2>2
<1>8. \A i, j \in 1..m : q[i] = q[j] => i = j
  BY <1>1 DEF Distinct
<1>9. Distinct(u)
  <2> SUFFICES ASSUME NEW i \in 1..(m - 1), NEW j \in 1..(m - 1), u[i] = u[j] PROVE i = j
    BY <1>6 DEF Distinct
  <2> QED BY <1>1, <1>7, <1>8
<1>10. ASSUME NEW j \in 1..(m - 1) PROVE u[j] \in Elems(q) /\ u[j] # q[k]
  BY <1>1, <1>7, <1>8, SMTT(30) DEF Elems
<1>11. ASSUME NEW j \in 1..m, j # k PROVE q[j] \in Elems(u)
  <2>1. CASE j < k
    <3>1. j \in DOMAIN u /\ u[j] = q[j]
      BY <1>1, <1>6, <1>7, <2>1
    <3>2. QED
      BY <3>1, Zenon DEF Elems
  <2>2. CASE j > k
    <3>1. j - 1 \in 1..(m - 1) /\ j - 1 >= k /\ (j - 1) + 1 = j
      BY <1>1, <2>2
    <3>2. j - 1 \in DOMAIN u /\ u[j - 1] = q[j]
      BY <1>1, <1>6, <1>7, <3>1
    <3>3. QED
      BY <3>2, Zenon DEF Elems
  <2>3. QED
    BY <1>1, <1>11, <2>1, <2>2
<1>12. Elems(u) = Elems(q) \ {q[k]}
  <2>1. \A x \in Elems(u) : x \in Elems(q) /\ x # q[k]
    BY <1>6, <1>10 DEF Elems
  <2>2. \A x \in Elems(q) : x # q[k] => x \in Elems(u)
    BY <1>1, <1>11 DEF Elems
  <2>3. QED
    BY <2>1, <2>2
<1>13. QED
  BY <1>2, <1>5, <1>6, <1>9, <1>12

LEMMA InitSInv ==
  ASSUME SInit
  PROVE  SInv
<1>1. /\ mod = "out" /\ added = 0 /\ mem = [a \in Addrs |-> NoStudent]
      /\ g_student_list = <<>> /\ g_stu_hlist = [id \in {0, 1} |-> {}]
  BY DEF SInit
<1>2. Elems(g_student_list) = {} /\ Distinct(g_student_list)
  BY <1>1 DEF Elems, Distinct
<1>3. Homes = {} /\ g_stu_hlist[0] = {} /\ g_stu_hlist[1] = {}
  BY <1>1, <1>2 DEF Homes
<1>4. HomeInv
  BY <1>2, <1>3, FS_EmptySet DEF HomeInv
<1>5. StoreInv
  BY <1>1, <1>4 DEF StoreInv, StrayInv
<1>6. PhaseInv
  <2>1. Len(Roster) \in Nat
    BY LenProperties, StudentsAssumption
  <2>2. QED
    BY <1>1, <1>3, <2>1 DEF PhaseInv
<1>7. QED
  BY <1>5, <1>6 DEF SInv

LEMMA AddedStore ==
  ASSUME StoreInv, NEW name \in Names, NEW sex \in Sexes,
         Added(name, sex)
  PROVE  StoreInv' /\ Homes' # {}
<1>1. PICK a \in Addrs : /\ mem[a] = NoStudent
                         /\ mem' = [mem EXCEPT ![a] = [m_name |-> name, m_sex |-> sex]]
                         /\ g_student_list' = Append(g_student_list, a)
  BY DEF Added, Live
<1>2. g_stu_hlist' = g_stu_hlist
  BY DEF Added
<1>3. /\ mem \in [Addrs -> Record \cup {NoStudent}]
      /\ g_student_list \in Seq(Addrs) /\ g_stu_hlist \in [{0, 1} -> SUBSET Addrs]
      /\ HomeInv /\ StrayInv
  BY DEF StoreInv
<1>4. a \notin Homes /\ a \notin Elems(g_student_list)
      /\ a \notin g_stu_hlist[0] /\ a \notin g_stu_hlist[1]
  BY <1>1, <1>3 DEF HomeInv, Homes
<1>5. /\ g_student_list' \in Seq(Addrs) /\ Distinct(g_student_list')
      /\ Elems(g_student_list') = Elems(g_student_list) \cup {a}
  BY <1>1, <1>3, <1>4, Appended DEF HomeInv
<1>6. Homes' = Homes \cup {a}
  BY <1>2, <1>5 DEF Homes
<1>7. [m_name |-> name, m_sex |-> sex] \in Record
  BY DEF Record
<1>8. /\ mem' \in [Addrs -> Record \cup {NoStudent}] /\ mem'[a] # NoStudent
      /\ \A b \in Addrs : b # a => mem'[b] = mem[b]
  <2>1. NoStudent \notin Record
    BY StudentsAssumption DEF Record
  <2>2. QED
    BY <1>1, <1>3, <1>7, <2>1
<1>9. Homes \subseteq Addrs
  BY <1>3 DEF Homes, Elems
<1>10. HomeInv'
  <2>1. \A b \in Homes' : mem'[b] # NoStudent
    BY <1>3, <1>4, <1>6, <1>8, <1>9 DEF HomeInv
  <2>2. QED
    BY <1>2, <1>3, <1>4, <1>5, <2>1 DEF HomeInv
<1>11. StrayInv'
  BY <1>3, <1>6, <1>8 DEF StrayInv
<1>12. QED
  BY <1>2, <1>3, <1>5, <1>6, <1>8, <1>10, <1>11 DEF StoreInv

\* classify_stu comes as far as the first student of unknown sex, or the end.
LEMMA StopFacts ==
  ASSUME StoreInv
  PROVE  /\ Stop \in 1..(Len(g_student_list) + 1)
         /\ \A i \in 1..(Stop - 1) : Sex(i) \in {"m", "f"}
         /\ Stop <= Len(g_student_list) => Sex(Stop) \notin {"m", "f"}
<1>1. PICK m \in Nat : m = Len(g_student_list) /\ DOMAIN g_student_list = 1..m
  BY LenProperties DEF StoreInv
<1>2. PICK bad : bad = {i \in DOMAIN g_student_list : Sex(i) \notin {"m", "f"}}
  OBVIOUS
<1>3. Stop = IF bad = {} THEN Len(g_student_list) + 1
               ELSE CHOOSE i \in bad : \A j \in bad : i <= j
  BY <1>2 DEF Stop
<1>4. CASE bad = {}
  <2>1. Stop = m + 1
    BY <1>1, <1>3, <1>4
  <2>2. \A i \in 1..m : Sex(i) \in {"m", "f"}
    BY <1>1, <1>2, <1>4
  <2>3. QED
    BY <1>1, <2>1, <2>2
<1>5. CASE bad # {}
  <2>1. bad \subseteq Nat
    BY <1>1, <1>2
  <2>2. \E i \in bad : \A j \in bad : i <= j
    BY <1>5, <2>1, Least
  <2>3. Stop \in bad /\ \A j \in bad : Stop <= j
    <3>1. Stop = CHOOSE i \in bad : \A j \in bad : i <= j
      BY <1>3, <1>5
    <3>2. QED
      BY <2>2, <3>1, Zenon
  <2>4. Stop \in 1..m /\ Sex(Stop) \notin {"m", "f"}
    BY <1>1, <1>2, <2>3
  <2>5. ASSUME NEW i \in 1..(Stop - 1) PROVE Sex(i) \in {"m", "f"}
    <3>1. i \in 1..m /\ i \in Nat /\ Stop \in Nat /\ ~(Stop <= i)
      BY <1>1, <2>4
    <3>2. i \notin bad
      BY <2>3, <3>1
    <3>3. QED
      BY <1>1, <1>2, <3>1, <3>2
  <2>6. QED
    BY <1>1, <2>4, <2>5
<1>6. QED
  BY <1>4, <1>5

LEMMA ClassifyStore ==
  ASSUME StoreInv, Classify
  PROVE  StoreInv'
<1>1. PICK q, k : q = g_student_list /\ k = Stop
  OBVIOUS
<1>2. /\ mem \in [Addrs -> Record \cup {NoStudent}]
      /\ q \in Seq(Addrs) /\ g_stu_hlist \in [{0, 1} -> SUBSET Addrs]
      /\ HomeInv /\ StrayInv /\ Distinct(q)
  BY <1>1 DEF StoreInv, HomeInv
<1>3. PICK m \in Nat : m = Len(q) /\ DOMAIN q = 1..m
  BY <1>2, LenProperties
<1>4. /\ k \in 1..(m + 1)
      /\ \A i \in 1..(k - 1) : mem[q[i]].m_sex \in {"m", "f"}
      /\ k <= m => mem[q[k]].m_sex \notin {"m", "f"}
  <2>1. \A i : Sex(i) = mem[q[i]].m_sex
    BY <1>1 DEF Sex
  <2>2. QED
    BY <1>1, <1>3, <2>1, StopFacts
<1>5. PICK boys, girls, rest :
        /\ boys = {q[i] : i \in {j \in 1..(k - 1) : mem[q[j]].m_sex = "m"}}
        /\ girls = {q[i] : i \in {j \in 1..(k - 1) : mem[q[j]].m_sex = "f"}}
        /\ rest = {q[i] : i \in (k + 1)..m}
  OBVIOUS
<1>6. /\ mem' = mem
      /\ g_stu_hlist' = [g_stu_hlist EXCEPT ![0] = @ \cup boys, ![1] = @ \cup girls]
      /\ g_student_list' = SubSeq(q, k + 1, Len(q))
  BY <1>1, <1>5, Zenon DEF Classify, Classified, Sex
<1>7. /\ g_student_list' \in Seq(Addrs) /\ Distinct(g_student_list')
      /\ Elems(g_student_list') = rest
  <2>1. k \in 1..(Len(q) + 1)
    BY <1>3, <1>4
  <2>2. QED
    BY <1>2, <1>3, <1>5, <1>6, <2>1, Behind
<1>8. \A i, j \in 1..m : q[i] = q[j] => i = j
  BY <1>2, <1>3 DEF Distinct
<1>9. /\ \A i \in 1..(k - 1) : i \in 1..m /\ i < k
      /\ \A i \in (k + 1)..m : i \in 1..m /\ i > k
      /\ k \in Nat
  BY <1>3, <1>4
<1>10. Elems(q) = {q[i] : i \in 1..m}
  BY <1>3 DEF Elems
<1>11. boys \subseteq Elems(q) /\ girls \subseteq Elems(q) /\ rest \subseteq Elems(q)
  BY <1>5, <1>9, <1>10
<1>12. boys \cap girls = {}
  <2> SUFFICES ASSUME NEW x \in boys, x \in girls PROVE FALSE
    OBVIOUS
  <2>1. mem[x].m_sex = "m" /\ mem[x].m_sex = "f"
    BY <1>5
  <2>2. QED
    BY <2>1
<1>13. boys \cap rest = {} /\ girls \cap rest = {}
  <2>1. ASSUME NEW i \in 1..(k - 1), NEW j \in (k + 1)..m PROVE q[i] # q[j]
    <3>1. i \in 1..m /\ j \in 1..m /\ i # j
      BY <1>9
    <3>2. QED
      BY <1>8, <3>1
  <2>2. QED
    BY <1>5, <2>1
<1>14. \A x \in Elems(q) : \/ x \in boys \/ x \in girls \/ x \in rest
                           \/ mem[x].m_sex \notin {"m", "f"}
  <2> SUFFICES ASSUME NEW i \in 1..m
               PROVE  \/ q[i] \in boys \/ q[i] \in girls \/ q[i] \in rest
                      \/ mem[q[i]].m_sex \notin {"m", "f"}
    BY <1>10
  <2>1. CASE i < k
    <3>1. i \in 1..(k - 1)
      BY <1>9, <2>1
    <3>2. mem[q[i]].m_sex = "m" \/ mem[q[i]].m_sex = "f"
      BY <1>4, <3>1
    <3>3. QED
      BY <1>5, <3>1, <3>2
  <2>2. CASE i = k
    BY <1>4, <2>2
  <2>3. CASE i > k
    <3>1. i \in (k + 1)..m
      BY <1>9, <2>3
    <3>2. QED
      BY <1>5, <3>1
  <2>4. QED
    BY <1>9, <2>1, <2>2, <2>3
<1>15. /\ g_stu_hlist'[0] = g_stu_hlist[0] \cup boys
       /\ g_stu_hlist'[1] = g_stu_hlist[1] \cup girls
       /\ g_stu_hlist' \in [{0, 1} -> SUBSET Addrs]
  <2>1. Elems(q) \subseteq Addrs
    BY <1>2 DEF Elems
  <2>2. boys \subseteq Addrs /\ girls \subseteq Addrs
    BY <1>11, <2>1
  <2>3. QED
    BY <1>2, <1>6, <2>2
<1>16. IsFiniteSet(g_stu_hlist'[0]) /\ IsFiniteSet(g_stu_hlist'[1])
  <2>1. IsFiniteSet(Elems(q))
    BY <1>2, Counted
  <2>2. IsFiniteSet(boys) /\ IsFiniteSet(girls)
    BY <1>11, <2>1, FS_Subset
  <2>3. IsFiniteSet(g_stu_hlist[0]) /\ IsFiniteSet(g_stu_hlist[1])
    BY <1>2 DEF HomeInv
  <2>4. IsFiniteSet(g_stu_hlist[0] \cup boys) /\ IsFiniteSet(g_stu_hlist[1] \cup girls)
    BY <2>2, <2>3, FS_Union
  <2>5. QED
    BY <1>15, <2>4
<1>17. /\ Elems(q) \cap g_stu_hlist[0] = {} /\ Elems(q) \cap g_stu_hlist[1] = {}
       /\ g_stu_hlist[0] \cap g_stu_hlist[1] = {}
  BY <1>1, <1>2 DEF HomeInv
<1>18. Homes' = rest \cup (g_stu_hlist[0] \cup boys) \cup (g_stu_hlist[1] \cup girls)
  BY <1>7, <1>15 DEF Homes
<1>19. Homes = Elems(q) \cup g_stu_hlist[0] \cup g_stu_hlist[1]
  BY <1>1 DEF Homes
<1>20. HomeInv'
  <2>1. Homes' \subseteq Homes
    BY <1>11, <1>18, <1>19
  <2>2. \A a \in Homes' : mem'[a] # NoStudent
    BY <1>2, <1>6, <2>1 DEF HomeInv
  <2>3. /\ rest \cap (g_stu_hlist[0] \cup boys) = {}
        /\ rest \cap (g_stu_hlist[1] \cup girls) = {}
        /\ (g_stu_hlist[0] \cup boys) \cap (g_stu_hlist[1] \cup girls) = {}
    BY <1>11, <1>12, <1>13, <1>17
  <2>4. QED
    BY <1>7, <1>15, <1>16, <2>2, <2>3 DEF HomeInv
<1>21. StrayInv'
  <2> SUFFICES ASSUME NEW a \in Addrs, mem'[a] # NoStudent
               PROVE  a \in Homes' \/ mem'[a].m_sex \notin {"m", "f"}
    BY DEF StrayInv
  <2>1. a \in Homes \/ mem[a].m_sex \notin {"m", "f"}
    BY <1>2, <1>6 DEF StrayInv
  <2>2. QED
    BY <1>6, <1>14, <1>18, <1>19, <2>1
<1>22. QED
  BY <1>2, <1>6, <1>7, <1>15, <1>20, <1>21 DEF StoreInv

LEMMA DelStore ==
  ASSUME StoreInv, NEW name, del_stu(name)
  PROVE  StoreInv'
<1>1. PICK q, T : q = g_student_list /\ T = Named(name)
  OBVIOUS
<1>2. /\ mem \in [Addrs -> Record \cup {NoStudent}]
      /\ q \in Seq(Addrs) /\ g_stu_hlist \in [{0, 1} -> SUBSET Addrs]
      /\ HomeInv /\ StrayInv /\ Distinct(q)
  BY <1>1 DEF StoreInv, HomeInv
<1>3. Len(q) \in Nat /\ DOMAIN q = 1..Len(q)
  BY <1>2, LenProperties
<1>4. T # {} /\ T \subseteq 1..Len(q)
  BY <1>1, <1>3 DEF del_stu, Named
<1>5. \E i \in T : \A j \in T : i <= j
  <2>1. T \subseteq Nat
    BY <1>3, <1>4
  <2>2. QED
    BY <1>4, <2>1, Least
<1>6. PICK i : i = CHOOSE k \in T : \A j \in T : k <= j
  OBVIOUS
<1>7. i \in 1..Len(q)
  <2>1. i \in T
    BY <1>5, <1>6, Zenon
  <2>2. QED
    BY <1>4, <2>1
<1>8. /\ mem' = [mem EXCEPT ![q[i]] = NoStudent]
      /\ g_student_list' = SubSeq(q, 1, i - 1) \o SubSeq(q, i + 1, Len(q))
      /\ g_stu_hlist' = g_stu_hlist
  BY <1>1, <1>6 DEF del_stu
<1>9. /\ g_student_list' \in Seq(Addrs) /\ Distinct(g_student_list')
      /\ Elems(g_student_list') = Elems(q) \ {q[i]}
  BY <1>2, <1>7, <1>8, Without
<1>10. q[i] \in Addrs /\ q[i] \in Elems(q)
  BY <1>2, <1>3, <1>7 DEF Elems
<1>11. /\ Elems(q) \cap g_stu_hlist[0] = {} /\ Elems(q) \cap g_stu_hlist[1] = {}
       /\ Homes = Elems(q) \cup g_stu_hlist[0] \cup g_stu_hlist[1]
  BY <1>1, <1>2 DEF HomeInv, Homes
<1>12. Homes' = Homes \ {q[i]}
  BY <1>8, <1>9, <1>10, <1>11 DEF Homes
<1>13. /\ mem' \in [Addrs -> Record \cup {NoStudent}] /\ mem'[q[i]] = NoStudent
       /\ \A b \in Addrs : b # q[i] => mem'[b] = mem[b]
  BY <1>2, <1>8, <1>10
<1>14. Homes \subseteq Addrs
  BY <1>2, <1>11 DEF Elems
<1>15. HomeInv'
  <2>1. \A b \in Homes' : mem'[b] # NoStudent
    BY <1>2, <1>12, <1>13, <1>14 DEF HomeInv
  <2>2. QED
    BY <1>2, <1>8, <1>9, <1>11, <2>1 DEF HomeInv
<1>16. StrayInv'
  BY <1>2, <1>12, <1>13 DEF StrayInv
<1>17. QED
  BY <1>2, <1>8, <1>9, <1>13, <1>15, <1>16 DEF StoreInv

\* The exit frees what the three lists hold, and nothing else is left of it.
LEMMA ExitStore ==
  ASSUME StoreInv, student_mgt_exit
  PROVE  StoreInv' /\ Homes' = {}
<1>1. /\ mem \in [Addrs -> Record \cup {NoStudent}] /\ HomeInv /\ StrayInv
  BY DEF StoreInv
<1>2. clean_up = Homes
  BY DEF clean_up, Listed, Homes, Elems
<1>3. /\ mem' = [a \in Addrs |-> IF a \in Homes THEN NoStudent ELSE mem[a]]
      /\ g_student_list' = <<>> /\ g_stu_hlist' = [id \in {0, 1} |-> {}]
  BY <1>2 DEF student_mgt_exit
<1>4. Elems(g_student_list') = {} /\ Distinct(g_student_list')
  BY <1>3 DEF Elems, Distinct
<1>5. Homes' = {} /\ g_stu_hlist'[0] = {} /\ g_stu_hlist'[1] = {}
  BY <1>3, <1>4 DEF Homes
<1>6. HomeInv'
  BY <1>4, <1>5, FS_EmptySet DEF HomeInv
<1>7. StrayInv'
  BY <1>1, <1>3 DEF StrayInv
<1>8. mem' \in [Addrs -> Record \cup {NoStudent}] /\ g_student_list' \in Seq(Addrs)
  BY <1>1, <1>3
<1>9. QED
  BY <1>3, <1>5, <1>6, <1>7, <1>8 DEF StoreInv

LEMMA SameStore ==
  ASSUME StoreInv, UNCHANGED <<mem, g_student_list, g_stu_hlist>>
  PROVE  StoreInv' /\ Homes' = Homes
BY DEF StoreInv, HomeInv, StrayInv, Homes, Elems, Distinct

LEMMA InitSystemSInv ==
  ASSUME SInv, init_system
  PROVE  SInv'
<1>1. PICK n \in Nat : n = Len(Roster)
  BY LenProperties, StudentsAssumption
<1>2. added \in 0..n /\ added < n /\ mod' = "init" /\ added' = added + 1 /\ StoreInv
  BY <1>1 DEF SInv, PhaseInv, init_system
<1>3. PhaseInv'
  BY <1>1, <1>2 DEF PhaseInv
<1>4. PICK r : r = Roster[added + 1]
  OBVIOUS
<1>5. r[1] \in Names /\ r[2] \in Sexes
  <2>1. added + 1 \in 1..n
    BY <1>1, <1>2
  <2>2. r \in Names \X Sexes
    BY <1>1, <1>4, <2>1, StudentsAssumption
  <2>3. QED
    BY <2>2
<1>6. CASE Added(r[1], r[2])
  BY <1>2, <1>3, <1>5, <1>6, AddedStore DEF SInv
<1>7. CASE NotAdded
  BY <1>2, <1>3, <1>7, SameStore DEF SInv, NotAdded
<1>8. QED
  BY <1>4, <1>6, <1>7 DEF init_system

LEMMA MgtInitSInv ==
  ASSUME SInv, student_mgt_init
  PROVE  SInv'
<1>1. Len(Roster) \in Nat
  BY LenProperties, StudentsAssumption
<1>2. mod' = "loaded" /\ added' = 0 /\ Classify /\ StoreInv
  BY DEF student_mgt_init, SInv
<1>3. StoreInv'
  BY <1>2, ClassifyStore
<1>4. QED
  BY <1>1, <1>2, <1>3 DEF SInv, PhaseInv

\* While the module is loaded, a call changes the store only.
LEMMA LoadedSInv ==
  ASSUME SInv, mod = "loaded", UNCHANGED <<mod, added>>, StoreInv'
  PROVE  SInv'
BY DEF SInv, PhaseInv

LEMMA NextSInv ==
  ASSUME SInv, [SNext]_svars
  PROVE  SInv'
<1>1. StoreInv /\ PhaseInv
  BY DEF SInv
<1>2. CASE init_system
  BY <1>2, InitSystemSInv
<1>3. CASE student_mgt_init
  BY <1>3, MgtInitSInv
<1>4. CASE student_mgt_exit
  <2>1. StoreInv' /\ Homes' = {}
    BY <1>1, <1>4, ExitStore
  <2>2. mod' = "out" /\ added' = added
    BY <1>4 DEF student_mgt_exit
  <2>3. QED
    BY <1>1, <2>1, <2>2 DEF SInv, PhaseInv
<1>5. CASE classify_stu
  <2>1. mod = "loaded" /\ Classify /\ UNCHANGED <<mod, added>>
    BY <1>5 DEF classify_stu
  <2>2. StoreInv'
    BY <1>1, <2>1, ClassifyStore
  <2>3. QED
    BY <2>1, <2>2, LoadedSInv
<1>6. ASSUME NEW name \in Names, del_stu(name) PROVE SInv'
  <2>1. mod = "loaded" /\ UNCHANGED <<mod, added>>
    BY <1>6 DEF del_stu
  <2>2. StoreInv'
    BY <1>1, <1>6, DelStore
  <2>3. QED
    BY <2>1, <2>2, LoadedSInv
<1>7. ASSUME NEW name \in Names, NEW sex \in Sexes, add_stu(name, sex) PROVE SInv'
  <2>1. mod = "loaded" /\ Added(name, sex) /\ UNCHANGED <<mod, added>>
    BY <1>7 DEF add_stu
  <2>2. StoreInv'
    BY <1>1, <2>1, AddedStore
  <2>3. QED
    BY <2>1, <2>2, LoadedSInv
<1>8. CASE UNCHANGED svars
  <2>1. UNCHANGED <<mod, added>> /\ UNCHANGED <<mem, g_student_list, g_stu_hlist>>
    BY <1>8 DEF svars
  <2>2. StoreInv' /\ Homes' = Homes
    BY <1>1, <2>1, SameStore
  <2>3. QED
    BY <1>1, <2>1, <2>2 DEF SInv, PhaseInv
<1>9. QED
  BY <1>2, <1>3, <1>4, <1>5, <1>6, <1>7, <1>8 DEF SNext

\* add_stu, del_stu, classify_stu and the exit of hlist2 keep every student
\* that may be reached allocated and on one list, and lose none but the strays.
THEOREM StudentsInvariance == SSpec => []SInv
<1>1. SInit => SInv
  BY InitSInv
<1>2. SInv /\ [SNext]_svars => SInv'
  BY NextSInv
<1>3. QED
  BY <1>1, <1>2, PTL DEF SSpec

LEMMA HomesCounted ==
  ASSUME SInv
  PROVE  OneHome
<1>1. PICK boys, girls, wait : /\ boys = g_stu_hlist[0] /\ girls = g_stu_hlist[1]
                               /\ wait = Elems(g_student_list)
  OBVIOUS
<1>2. /\ g_student_list \in Seq(Addrs) /\ Distinct(g_student_list)
      /\ IsFiniteSet(boys) /\ IsFiniteSet(girls)
      /\ wait \cap boys = {} /\ wait \cap girls = {} /\ boys \cap girls = {}
  BY <1>1 DEF SInv, StoreInv, HomeInv
<1>3. IsFiniteSet(wait) /\ Cardinality(wait) = Len(g_student_list)
  BY <1>1, <1>2, Counted
<1>4. /\ IsFiniteSet(wait \cup boys)
      /\ Cardinality(wait \cup boys)
           = Cardinality(wait) + Cardinality(boys) - Cardinality(wait \cap boys)
  BY <1>2, <1>3, FS_Union
<1>5. Cardinality((wait \cup boys) \cup girls)
        = Cardinality(wait \cup boys) + Cardinality(girls)
            - Cardinality((wait \cup boys) \cap girls)
  BY <1>2, <1>4, FS_Union
<1>6. (wait \cup boys) \cap girls = {} /\ wait \cap boys = {}
  BY <1>2
<1>7. Cardinality((wait \cup boys) \cap girls) = 0 /\ Cardinality(wait \cap boys) = 0
  <2>1. Cardinality({}) = 0
    BY FS_EmptySet
  <2>2. QED
    BY <1>6, <2>1, Zenon
<1>8. /\ Cardinality(wait) \in Nat /\ Cardinality(boys) \in Nat /\ Cardinality(girls) \in Nat
  BY <1>2, <1>3, FS_CardinalityType
<1>9. Cardinality((wait \cup boys) \cup girls)
        = Len(g_student_list) + Cardinality(boys) + Cardinality(girls)
  <2>1. PICK a, b, g \in Nat : a = Cardinality(wait) /\ b = Cardinality(boys) /\ g = Cardinality(girls)
    BY <1>8
  <2>2. Cardinality(wait \cup boys) = a + b
    BY <1>4, <1>7, <2>1
  <2>3. Cardinality((wait \cup boys) \cup girls) = a + b + g
    BY <1>5, <1>7, <2>1, <2>2
  <2>4. QED
    BY <1>3, <2>1, <2>3
<1>10. Listed = wait
  BY <1>1 DEF Listed, Elems
<1>11. wait \cup boys \cup girls \subseteq Live
  <2>1. wait \cup boys \cup girls = Homes
    BY <1>1 DEF Homes
  <2>2. Homes \subseteq Addrs
    BY DEF SInv, StoreInv, Homes, Elems
  <2>3. \A a \in Homes : mem[a] # NoStudent
    BY DEF SInv, StoreInv, HomeInv
  <2>4. QED
    BY <2>1, <2>2, <2>3 DEF Live
<1>12. QED
  BY <1>1, <1>9, <1>10, <1>11 DEF OneHome

\* OneHome: whatever calls other modules make, del_stu and the clean-up
\* functions of hlist2 free no student twice and no list keeps one that is freed.
THEOREM OneHomeTheorem == SSpec => []OneHome
<1>1. SInv => OneHome
  BY HomesCounted
<1>2. QED
  BY <1>1, StudentsInvariance, PTL

\* OnlyStraysLeak: all that student_mgt_exit leaves allocated are the students
\* whom classify_stu took off the list and put on neither hash list.
THEOREM OnlyStraysLeakTheorem == SSpec => []OnlyStraysLeak
<1>1. SInv => OnlyStraysLeak
  BY DEF SInv, StoreInv, StrayInv, PhaseInv, OnlyStraysLeak, Live
<1>2. QED
  BY <1>1, StudentsInvariance, PTL

-----------------------------------------------------------------------------
(***************************************************************************)
(* Lifecycle.  The steps of init and exit are data, so the argument is in  *)
(* two halves: what each lab's table keeps to (Tidy), shown table by table, *)
(* and that tables which keep to it are safe, shown once.                   *)
(***************************************************************************)
\* What occurs in u.
Elts(u) == {u[i] : i \in 1..Len(u)}

\* t is the part of u from n to m.
Part(u, t, n, m) ==
  /\ u \in Seq(Elts(u)) /\ t \in Seq(Elts(u)) /\ n \in Nat /\ m = n + Len(t) /\ m <= Len(u)
  /\ \A i \in 1..Len(t) : u[n + i] = t[i]

\* Two parts that follow each other.
LEMMA Joined ==
  ASSUME NEW u, NEW s, NEW t, NEW n, NEW m, Part(u, s, 0, n), Part(u, t, n, m)
  PROVE  Part(u, s \o t, 0, m)
  <1> DEFINE A == Elts(u)
  <1>1. /\ s \in Seq(A) /\ t \in Seq(A) /\ n = Len(s) /\ m = Len(s) + Len(t) /\ m <= Len(u)
        /\ \A i \in 1..Len(s) : u[i] = s[i]
        /\ \A i \in 1..Len(t) : u[Len(s) + i] = t[i]
    BY DEF Part
  <1>2. Len(s \o t) = Len(s) + Len(t) /\ s \o t \in Seq(A)
    BY <1>1, ConcatProperties
  <1>3. ASSUME NEW i \in 1..Len(s \o t) PROVE (s \o t)[i] = u[i]
    <2>1. CASE i <= Len(s) BY <1>1, <1>2, <2>1
    <2>2. CASE i > Len(s)
      <3>1. i - Len(s) \in 1..Len(t) /\ Len(s) + (i - Len(s)) = i BY <1>1, <1>2, <2>2
      <3> QED BY <1>1, <2>2, <3>1
    <2> QED BY <1>1, <1>2, <2>1, <2>2
  <1> QED BY <1>1, <1>2, <1>3 DEF Part

\* A part that is all there is.
LEMMA Whole ==
  ASSUME NEW u, NEW s, Part(u, s, 0, Len(u))
  PROVE  s = u
  <1>1. /\ u \in Seq(Elts(u)) /\ s \in Seq(Elts(u)) /\ Len(s) = Len(u)
        /\ \A i \in 1..Len(u) : s[i] = u[i] BY DEF Part
  <1> QED BY <1>1, SeqEqual

\* The steps that may acquire what they name, those after which it is there,
\* those that take it away, and what EntriesBacked excuses.
Acquiring == {"do", "try", "hope", "must"}
Certain == {"try", "must", "touch"}
Giving == {"put", "drain"}
Excused ==
  {<<"test_driver", "global">>, <<"ramhd_req", "sdisk1">>, <<"ramhd_req", "sdisk2">>}

\* Init q skips no step that is certain to have what it names.
SkipTidy(q) ==
  \A i \in 1..Len(q) :
    /\ q[i].op \in Acquiring \cup {"check", "touch"}
    /\ q[i].op = "hope" => /\ q[i].skip \in Nat /\ i + q[i].skip <= Len(q)
                           /\ \A j \in (i + 1)..(i + q[i].skip) : q[j].op \notin Certain

\* A failure undoes what came before it or is known to leave it (F), and comes
\* before the entries U are registered.
FailTidy(l, q, U, F) ==
  \A i \in 1..Len(q) : q[i].op \in {"try", "check"} =>
    \A j \in 1..(i - 1) : q[j].op \in Acquiring =>
      /\ q[j].r \in F \/ q[j].r \in ToSet(q[i].undo)
      /\ l = "test_driver" \/ q[j].r \notin DOMAIN U

\* An entry is registered after what its calls touch.
EntryTidy(l, q, U) ==
  \A i \in 1..Len(q) : q[i].op \in Acquiring /\ q[i].r \in DOMAIN U =>
    \A r \in U[q[i].r] : <<l, r>> \notin Excused =>
      \E j \in 1..(i - 1) : q[j].op \in Certain /\ q[j].r = r

\* Everything is given back by exit p or known to be left (G).
GiveTidy(q, p, G) ==
  \A i \in 1..Len(q) : q[i].op \in Acquiring /\ q[i].r \notin G =>
    \E j \in 1..Len(p) : p[j].op \in Giving /\ p[j].r = q[i].r

\* A module that cannot be pinned waits for the calls of the entries it takes away.
TakeTidy(p, U, pins) ==
  \A i \in 1..Len(p) :
    /\ p[i].op \in Giving \cup {"touch"}
    /\ p[i].op = "put" => /\ p[i].r \in p[i].all
                          /\ pins \/ \A r \in p[i].all : r \notin DOMAIN U

\* What a step of exit takes away.
Taken(s) == IF s.op = "put" THEN s.all ELSE {s.r}

\* What calls touch goes after their entry.
OrderTidy(l, p, U) ==
  \A i \in 1..Len(p) : p[i].op \in Giving =>
    \A r \in Taken(p[i]) : \A e \in DOMAIN U :
      r \in U[e] /\ <<l, r>> \notin Excused =>
        \E j \in 1..(i - 1) : p[j].op \in Giving /\ p[j].r = e

\* What the argument needs to know of a lab l, with table x.
Tidy(l, x, F, G) ==
  /\ SkipTidy(x.load) /\ FailTidy(l, x.load, x.uses, F) /\ EntryTidy(l, x.load, x.uses)
  /\ GiveTidy(x.load, x.unload, G)
  /\ TakeTidy(x.unload, x.uses, x.pins) /\ OrderTidy(l, x.unload, x.uses)
  /\ l = "debugfs_demo" \/ \A e \in DOMAIN x.uses : e \notin G
  /\ l = "test_driver" => \A e \in DOMAIN x.uses : \A r \in x.uses[e] : <<l, r>> \in Excused

InOrder(x) == x.load \in Seq(Elts(x.load)) /\ x.unload \in Seq(Elts(x.unload))

\* The tables are sequences.
LEMMA TablesListed ==
  /\ InOrder(test_driver) /\ InOrder(sample) /\ InOrder(debugfs_demo)
  /\ InOrder(demo) /\ InOrder(globalvar) /\ InOrder(ct)
  /\ InOrder(sysctl_example) /\ InOrder(seq_file_demo) /\ InOrder(kobj_create_add)
  /\ InOrder(kobj_init_add) /\ InOrder(kset_example) /\ InOrder(binder_open)
  <1>1. InOrder(test_driver) BY DEF InOrder, Elts, Lab, test_driver
  <1>2. InOrder(sample) BY DEF InOrder, Elts, Lab, sample
  <1>3. InOrder(debugfs_demo) BY DEF InOrder, Elts, Lab, debugfs_demo
  <1>4. InOrder(demo) BY DEF InOrder, Elts, Lab, demo
  <1>5. InOrder(globalvar) BY DEF InOrder, Elts, Lab, globalvar
  <1>6. InOrder(ct) BY DEF InOrder, Elts, Lab, ct
  <1>7. InOrder(sysctl_example) BY DEF InOrder, Elts, Lab, sysctl_example
  <1>8. InOrder(seq_file_demo) BY DEF InOrder, Elts, Lab, seq_file_demo
  <1>9. InOrder(kobj_create_add) BY DEF InOrder, Elts, Lab, kobj_create_add
  <1>10. InOrder(kobj_init_add) BY DEF InOrder, Elts, Lab, kobj_init_add
  <1>11. InOrder(kset_example) BY DEF InOrder, Elts, Lab, kset_example
  <1>12. InOrder(binder_open) BY DEF InOrder, Elts, Lab, binder_open
  <1> QED BY <1>1, <1>2, <1>3, <1>4, <1>5, <1>6, <1>7, <1>8, <1>9, <1>10, <1>11, <1>12

\* What the two ram disks do, written out.
MkreqLoad ==
  <<Try("sdisk1", <<>>), Try("sdisk2", <<>>),
    Hope("rdev1", 1), Hope("rdev2", 0), Hope("major", 0),
    Touch("rdev1"), Must("queue1"), Must("gd1"), Do("disk1"),
    Touch("rdev2"), Must("queue2"), Must("gd2"), Do("disk2")>>
MkreqUnload ==
  <<Touch("rdev1"), Put("disk1"), Put("gd1"), Put("queue1"),
    Touch("rdev2"), Put("disk2"), Put("gd2"), Put("queue2"),
    Put("rdev1"), Put("rdev2"), Put("sdisk1"), Put("sdisk2"), Put("major")>>
ReqLoad ==
  <<Hope("sdisk1", 1), Hope("sdisk2", 0),
    Hope("rdev1", 1), Hope("rdev2", 0), Hope("major", 0),
    Touch("rdev1"), Hope("gd1", 0), Hope("queue1", 0), Touch("gd1"), Touch("queue1"),
    Do("disk1"),
    Touch("rdev2"), Hope("gd2", 0), Hope("queue2", 0), Touch("gd2"), Touch("queue2"),
    Do("disk2")>>
ReqUnload ==
  <<Touch("rdev1"), Put("disk1"), Put("gd1"), Put("queue1"),
    Touch("rdev2"), Put("disk2"), Put("gd2"), Put("queue2"),
    Put("major"), Put("rdev1"), Put("rdev2"), Put("sdisk1"), Put("sdisk2")>>

LEMMA MkreqLoad_is == ramhd_mkreq.load = MkreqLoad
  <1> DEFINE p1 == mkreq_space_init
             p2 == alloc_ramdev
             p3 == <<Hope("major", 0)>>
             p4 == mkreq_disk("rdev1", "queue1", "gd1", "disk1")
             p5 == mkreq_disk("rdev2", "queue2", "gd2", "disk2")
             u == MkreqLoad
  <1>1. ramhd_mkreq.load = p1 \o p2 \o p3 \o p4 \o p5 BY DEF ramhd_mkreq, Lab
  <1>2. Part(u, p1, 0, 2) BY DEF Part, Elts, MkreqLoad, mkreq_space_init
  <1>3. Part(u, p2, 2, 4) BY DEF Part, Elts, MkreqLoad, alloc_ramdev
  <1>4. Part(u, p3, 4, 5) BY DEF Part, Elts, MkreqLoad
  <1>5. Part(u, p4, 5, 9) BY DEF Part, Elts, MkreqLoad, mkreq_disk
  <1>6. Part(u, p5, 9, Len(u)) BY DEF Part, Elts, MkreqLoad, mkreq_disk
  <1> HIDE DEF p1, p2, p3, p4, p5, u
  <1>7. Part(u, p1 \o p2, 0, 4) BY <1>2, <1>3, Joined, Zenon
  <1>8. Part(u, p1 \o p2 \o p3, 0, 5) BY <1>7, <1>4, Joined, Zenon
  <1>9. Part(u, p1 \o p2 \o p3 \o p4, 0, 9) BY <1>8, <1>5, Joined, Zenon
  <1>10. Part(u, p1 \o p2 \o p3 \o p4 \o p5, 0, Len(u)) BY <1>9, <1>6, Joined, Zenon
  <1> QED BY <1>1, <1>10, Whole DEF u

LEMMA MkreqUnload_is == ramhd_mkreq.unload = MkreqUnload
  <1> DEFINE p1 == del_disk("rdev1", "queue1", "gd1", "disk1")
             p2 == del_disk("rdev2", "queue2", "gd2", "disk2")
             p3 == clean_ramdev
             p4 == ramhd_space_clean
             p5 == <<Put("major")>>
             u == MkreqUnload
  <1>1. ramhd_mkreq.unload = p1 \o p2 \o p3 \o p4 \o p5 BY DEF ramhd_mkreq, Lab, del_disks
  <1>2. Part(u, p1, 0, 4) BY DEF Part, Elts, MkreqUnload, del_disk
  <1>3. Part(u, p2, 4, 8) BY DEF Part, Elts, MkreqUnload, del_disk
  <1>4. Part(u, p3, 8, 10) BY DEF Part, Elts, MkreqUnload, clean_ramdev
  <1>5. Part(u, p4, 10, 12) BY DEF Part, Elts, MkreqUnload, ramhd_space_clean
  <1>6. Part(u, p5, 12, Len(u)) BY DEF Part, Elts, MkreqUnload
  <1> HIDE DEF p1, p2, p3, p4, p5, u
  <1>7. Part(u, p1 \o p2, 0, 8) BY <1>2, <1>3, Joined, Zenon
  <1>8. Part(u, p1 \o p2 \o p3, 0, 10) BY <1>7, <1>4, Joined, Zenon
  <1>9. Part(u, p1 \o p2 \o p3 \o p4, 0, 12) BY <1>8, <1>5, Joined, Zenon
  <1>10. Part(u, p1 \o p2 \o p3 \o p4 \o p5, 0, Len(u)) BY <1>9, <1>6, Joined, Zenon
  <1> QED BY <1>1, <1>10, Whole DEF u

LEMMA ReqLoad_is == ramhd_req.load = ReqLoad
  <1> DEFINE p1 == req_space_init
             p2 == alloc_ramdev
             p3 == <<Hope("major", 0)>>
             p4 == req_disk("rdev1", "queue1", "gd1", "disk1")
             p5 == req_disk("rdev2", "queue2", "gd2", "disk2")
             u == ReqLoad
  <1>1. ramhd_req.load = p1 \o p2 \o p3 \o p4 \o p5 BY DEF ramhd_req, Lab
  <1>2. Part(u, p1, 0, 2) BY DEF Part, Elts, ReqLoad, req_space_init
  <1>3. Part(u, p2, 2, 4) BY DEF Part, Elts, ReqLoad, alloc_ramdev
  <1>4. Part(u, p3, 4, 5) BY DEF Part, Elts, ReqLoad
  <1>5. Part(u, p4, 5, 11) BY DEF Part, Elts, ReqLoad, req_disk
  <1>6. Part(u, p5, 11, Len(u)) BY DEF Part, Elts, ReqLoad, req_disk
  <1> HIDE DEF p1, p2, p3, p4, p5, u
  <1>7. Part(u, p1 \o p2, 0, 4) BY <1>2, <1>3, Joined, Zenon
  <1>8. Part(u, p1 \o p2 \o p3, 0, 5) BY <1>7, <1>4, Joined, Zenon
  <1>9. Part(u, p1 \o p2 \o p3 \o p4, 0, 11) BY <1>8, <1>5, Joined, Zenon
  <1>10. Part(u, p1 \o p2 \o p3 \o p4 \o p5, 0, Len(u)) BY <1>9, <1>6, Joined, Zenon
  <1> QED BY <1>1, <1>10, Whole DEF u

LEMMA ReqUnload_is == ramhd_req.unload = ReqUnload
  <1> DEFINE p1 == del_disk("rdev1", "queue1", "gd1", "disk1")
             p2 == del_disk("rdev2", "queue2", "gd2", "disk2")
             p3 == <<Put("major")>>
             p4 == clean_ramdev
             p5 == ramhd_space_clean
             u == ReqUnload
  <1>1. ramhd_req.unload = p1 \o p2 \o p3 \o p4 \o p5 BY DEF ramhd_req, Lab, del_disks
  <1>2. Part(u, p1, 0, 4) BY DEF Part, Elts, ReqUnload, del_disk
  <1>3. Part(u, p2, 4, 8) BY DEF Part, Elts, ReqUnload, del_disk
  <1>4. Part(u, p3, 8, 9) BY DEF Part, Elts, ReqUnload
  <1>5. Part(u, p4, 9, 11) BY DEF Part, Elts, ReqUnload, clean_ramdev
  <1>6. Part(u, p5, 11, Len(u)) BY DEF Part, Elts, ReqUnload, ramhd_space_clean
  <1> HIDE DEF p1, p2, p3, p4, p5, u
  <1>7. Part(u, p1 \o p2, 0, 8) BY <1>2, <1>3, Joined, Zenon
  <1>8. Part(u, p1 \o p2 \o p3, 0, 9) BY <1>7, <1>4, Joined, Zenon
  <1>9. Part(u, p1 \o p2 \o p3 \o p4, 0, 11) BY <1>8, <1>5, Joined, Zenon
  <1>10. Part(u, p1 \o p2 \o p3 \o p4 \o p5, 0, Len(u)) BY <1>9, <1>6, Joined, Zenon
  <1> QED BY <1>1, <1>10, Whole DEF u

LEMMA ramhd_mkreq_listed == InOrder(ramhd_mkreq)
  <1>1. MkreqLoad \in Seq(Elts(MkreqLoad)) BY DEF MkreqLoad, Elts
  <1>2. MkreqUnload \in Seq(Elts(MkreqUnload)) BY DEF MkreqUnload, Elts
  <1> QED BY <1>1, <1>2, MkreqLoad_is, MkreqUnload_is DEF InOrder

LEMMA ramhd_req_listed == InOrder(ramhd_req)
  <1>1. ReqLoad \in Seq(Elts(ReqLoad)) BY DEF ReqLoad, Elts
  <1>2. ReqUnload \in Seq(Elts(ReqUnload)) BY DEF ReqUnload, Elts
  <1> QED BY <1>1, <1>2, ReqLoad_is, ReqUnload_is DEF InOrder

LEMMA hlist_is ==
  /\ hlist.load = <<Must("hello"), Must("help"), Must("scan"), Must("???")>>
  /\ hlist.unload = <<Put("hello"), Put("help"), Put("scan"), Put("???")>>
  <1>1. /\ node_type("hello") = 7 /\ node_type("help") = 7 /\ node_type("scan") = 18
        /\ node_type("???") = 26
    BY DEF node_type, First
  <1>2. /\ cmd_hash_cleanup("hello") = Put("hello") /\ cmd_hash_cleanup("help") = Put("help")
        /\ cmd_hash_cleanup("scan") = Put("scan") /\ cmd_hash_cleanup("???") = Put("???")
    BY <1>1 DEF cmd_hash_cleanup, Buckets
  <1>3. Commands = <<"hello", "help", "scan", "???">> /\ DOMAIN Commands = 1..4 BY DEF Commands
  <1>4. hlist.load = <<Must("hello"), Must("help"), Must("scan"), Must("???")>>
    BY <1>3 DEF hlist, Lab
  <1>5. hlist.unload = <<Put("hello"), Put("help"), Put("scan"), Put("???")>>
    BY <1>2, <1>3 DEF hlist, Lab
  <1> QED BY <1>4, <1>5

LEMMA hlist_listed == InOrder(hlist)
  BY hlist_is DEF InOrder, Elts

USE DEF Do, Try, Hope, Check, Must, Touch, Put, PutAll, Drain, Lab, None

\* The tables are tidy.
LEMMA TablesTidy ==
  /\ Tidy("test_driver", test_driver, {"timer"}, {})
  /\ Tidy("sample", sample, {}, {"probe"})
  /\ Tidy("debugfs_demo", debugfs_demo, {}, {"data", "dir", "file"})
  /\ Tidy("demo", demo, {"region"}, {})
  /\ Tidy("globalvar", globalvar, {}, {})
  /\ Tidy("ct", ct, {}, {})
  /\ Tidy("sysctl_example", sysctl_example, {}, {})
  /\ Tidy("seq_file_demo", seq_file_demo, {}, {})
  /\ Tidy("kobj_create_add", kobj_create_add, {"parent", "parentdir"}, {"parent", "child", "childdir"})
  /\ Tidy("kobj_init_add", kobj_init_add, {"kobj"}, {})
  /\ Tidy("kset_example", kset_example, {"kset", "parent", "parentdir", "child", "childdir"}, {"parent", "child"})
  <1> USE DEF Tidy, SkipTidy, FailTidy, EntryTidy, GiveTidy, TakeTidy, OrderTidy, Taken, Excused,
              Acquiring, Certain, Giving, ToSet
  <1>1. Tidy("test_driver", test_driver, {"timer"}, {})
    BY DEF test_driver
  <1>2. Tidy("sample", sample, {}, {"probe"})
    BY DEF sample
  <1>3. Tidy("debugfs_demo", debugfs_demo, {}, {"data", "dir", "file"})
    BY DEF debugfs_demo
  <1>4. Tidy("demo", demo, {"region"}, {})
    BY DEF demo
  <1>5. Tidy("globalvar", globalvar, {}, {})
    BY DEF globalvar
  <1>6. Tidy("ct", ct, {}, {})
    BY DEF ct
  <1>7. Tidy("sysctl_example", sysctl_example, {}, {})
    BY DEF sysctl_example
  <1>8. Tidy("seq_file_demo", seq_file_demo, {}, {})
    BY DEF seq_file_demo
  <1>9. Tidy("kobj_create_add", kobj_create_add, {"parent", "parentdir"}, {"parent", "child", "childdir"})
    BY DEF kobj_create_add
  <1>10. Tidy("kobj_init_add", kobj_init_add, {"kobj"}, {})
    BY DEF kobj_init_add
  <1>11. Tidy("kset_example", kset_example, {"kset", "parent", "parentdir", "child", "childdir"}, {"parent", "child"})
    BY DEF kset_example
  <1> HIDE DEF Tidy
  <1> QED BY <1>1, <1>2, <1>3, <1>4, <1>5, <1>6, <1>7, <1>8, <1>9, <1>10, <1>11

LEMMA binder_open_tidy == Tidy("binder_open", binder_open, {"fd"}, {})
  <1> DEFINE q == binder_open.load
             p == binder_open.unload
  <1>1. /\ Len(q) = 4
        /\ q[1].op = "try" /\ q[1].r = "bs"
        /\ q[2].op = "try" /\ q[2].r = "fd" /\ q[2].undo = <<"bs">>
        /\ q[3].op = "check" /\ q[3].undo = <<"bs">>
        /\ q[4].op = "try" /\ q[4].r = "mapped" /\ q[4].undo = <<"fd", "bs">>
    BY DEF binder_open
  <1>2. /\ Len(p) = 3 /\ p[1].op = "put" /\ p[1].r = "mapped" /\ p[2].op = "put" /\ p[2].r = "fd"
        /\ p[3].op = "put" /\ p[3].r = "bs"
    BY DEF binder_open
  <1>3. ToSet(<<"bs">>) = {"bs"} /\ ToSet(<<"fd", "bs">>) = {"fd", "bs"} BY DEF ToSet
  <1>4. DOMAIN binder_open.uses = {} BY DEF binder_open
  <1>5. TakeTidy(p, binder_open.uses, binder_open.pins) BY DEF binder_open, TakeTidy, Giving
  <1>6. OrderTidy("binder_open", p, binder_open.uses) BY <1>4 DEF OrderTidy
  <1> HIDE DEF p, q
  <1>7. \A i \in 1..4 : q[i].op = "try" \/ q[i].op = "check" BY <1>1
  <1>8. ASSUME NEW i \in 1..4, NEW j \in 1..(i - 1), q[j].op \in Acquiring
        PROVE  q[j].r = "fd" \/ q[j].r \in ToSet(q[i].undo)
    <2>1. (i = 2 \/ i = 3 \/ i = 4) /\ (j = 1 \/ j = 2 \/ j = 3) OBVIOUS
    <2>2. j # 3 BY <1>1, <1>8 DEF Acquiring
    <2> QED BY <1>1, <1>3, <2>1, <2>2
  <1>9. ASSUME NEW i \in 1..4, q[i].op \in Acquiring
        PROVE  \E j \in 1..3 : p[j].op \in Giving /\ p[j].r = q[i].r
    <2>1. i = 1 \/ i = 2 \/ i = 4 BY <1>1, <1>9 DEF Acquiring
    <2> QED BY <1>1, <1>2, <2>1 DEF Giving
  <1>10. SkipTidy(q) BY <1>1, <1>7 DEF SkipTidy, Acquiring
  <1>11. FailTidy("binder_open", q, binder_open.uses, {"fd"}) BY <1>1, <1>4, <1>8 DEF FailTidy
  <1>12. EntryTidy("binder_open", q, binder_open.uses) BY <1>4 DEF EntryTidy
  <1>13. GiveTidy(q, p, {}) BY <1>1, <1>2, <1>9 DEF GiveTidy
  <1> QED BY <1>4, <1>5, <1>6, <1>10, <1>11, <1>12, <1>13 DEF Tidy, p, q

LEMMA hlist_tidy == Tidy("hlist", hlist, {}, {})
  <1> USE DEF Acquiring, Certain, Giving
  <1> DEFINE q == <<Must("hello"), Must("help"), Must("scan"), Must("???")>>
             p == <<Put("hello"), Put("help"), Put("scan"), Put("???")>>
  <1>1. DOMAIN hlist.uses = {} BY DEF hlist
  <1>2. SkipTidy(q) BY DEF SkipTidy
  <1>3. FailTidy("hlist", q, hlist.uses, {}) BY DEF FailTidy
  <1>4. EntryTidy("hlist", q, hlist.uses) BY <1>1 DEF EntryTidy
  <1>5. GiveTidy(q, p, {}) BY DEF GiveTidy
  <1>6. TakeTidy(p, hlist.uses, hlist.pins) BY <1>1 DEF TakeTidy
  <1>7. OrderTidy("hlist", p, hlist.uses) BY <1>1 DEF OrderTidy
  <1>8. hlist.load = q /\ hlist.unload = p BY hlist_is
  <1> HIDE DEF p, q
  <1> QED BY <1>1, <1>2, <1>3, <1>4, <1>5, <1>6, <1>7, <1>8 DEF Tidy

LEMMA ramhd_mkreq_tidy == Tidy("ramhd_mkreq", ramhd_mkreq, {"sdisk1"}, {})
  <1> USE DEF Acquiring, Certain, Giving, MkreqLoad, MkreqUnload, DiskUses
  <1>1. SkipTidy(MkreqLoad) BY SMTT(30) DEF SkipTidy
  <1>2. FailTidy("ramhd_mkreq", MkreqLoad, DiskUses, {"sdisk1"}) BY SMTT(30) DEF FailTidy, ToSet
  <1>3. EntryTidy("ramhd_mkreq", MkreqLoad, DiskUses) BY DEF EntryTidy, Excused
  <1>4. GiveTidy(MkreqLoad, MkreqUnload, {})
    <2> DEFINE R == {"sdisk1", "sdisk2", "rdev1", "rdev2", "major", "gd1", "gd2", "queue1", "queue2",
                    "disk1", "disk2"}
    <2>1. \A i \in 1..Len(MkreqLoad) : MkreqLoad[i].op \in Acquiring => MkreqLoad[i].r \in R OBVIOUS
    <2>2. \A r \in R : \E j \in 1..Len(MkreqUnload) :
            MkreqUnload[j].op \in Giving /\ MkreqUnload[j].r = r
      OBVIOUS
    <2> HIDE DEF MkreqLoad, MkreqUnload, R
    <2> QED BY <2>1, <2>2, Zenon DEF GiveTidy
  <1>5. TakeTidy(MkreqUnload, DiskUses, TRUE) BY DEF TakeTidy
  <1>6. OrderTidy("ramhd_mkreq", MkreqUnload, DiskUses) BY DEF OrderTidy, Taken, Excused
  <1> HIDE DEF MkreqLoad, MkreqUnload, DiskUses
  <1>7. ramhd_mkreq.uses = DiskUses /\ ramhd_mkreq.pins = TRUE BY DEF ramhd_mkreq
  <1> QED BY <1>1, <1>2, <1>3, <1>4, <1>5, <1>6, <1>7, MkreqLoad_is, MkreqUnload_is DEF Tidy

LEMMA ramhd_req_tidy == Tidy("ramhd_req", ramhd_req, {}, {})
  <1> USE DEF Acquiring, Certain, Giving, ReqLoad, ReqUnload, DiskUses
  <1>1. SkipTidy(ReqLoad) BY DEF SkipTidy
  <1>2. FailTidy("ramhd_req", ReqLoad, DiskUses, {}) BY DEF FailTidy, ToSet
  <1>3. EntryTidy("ramhd_req", ReqLoad, DiskUses) BY DEF EntryTidy, Excused
  <1>4. GiveTidy(ReqLoad, ReqUnload, {})
    <2> DEFINE R == {"sdisk1", "sdisk2", "rdev1", "rdev2", "major", "gd1", "gd2", "queue1", "queue2",
                    "disk1", "disk2"}
    <2>1. \A i \in 1..Len(ReqLoad) : ReqLoad[i].op \in Acquiring => ReqLoad[i].r \in R OBVIOUS
    <2>2. \A r \in R : \E j \in 1..Len(ReqUnload) :
            ReqUnload[j].op \in Giving /\ ReqUnload[j].r = r
      OBVIOUS
    <2> HIDE DEF ReqLoad, ReqUnload, R
    <2> QED BY <2>1, <2>2, Zenon DEF GiveTidy
  <1>5. TakeTidy(ReqUnload, DiskUses, TRUE) BY DEF TakeTidy
  <1>6. OrderTidy("ramhd_req", ReqUnload, DiskUses) BY DEF OrderTidy, Taken, Excused
  <1> HIDE DEF ReqLoad, ReqUnload, DiskUses
  <1>7. ramhd_req.uses = DiskUses /\ ramhd_req.pins = TRUE BY DEF ramhd_req
  <1> QED BY <1>1, <1>2, <1>3, <1>4, <1>5, <1>6, <1>7, ReqLoad_is, ReqUnload_is DEF Tidy

HIDE DEF Do, Try, Hope, Check, Must, Touch, Put, PutAll, Drain, Lab, None

LabTidy(l) == InOrder(Labs[l]) /\ Tidy(l, Labs[l], LeftByFailure[l], LeftByUnload[l])

\* Every lab keeps to it.
LEMMA AllTidy == ASSUME NEW l \in DOMAIN Labs PROVE LabTidy(l)
  <1>1. CASE l = "test_driver"
    <2>1. /\ Labs[l] = test_driver
          /\ LeftByFailure[l] = {"timer"}
          /\ LeftByUnload[l] = {}
      BY <1>1 DEF Labs, LeftByFailure, LeftByUnload
    <2> QED BY <1>1, <2>1, TablesTidy, TablesListed DEF LabTidy
  <1>2. CASE l = "sample"
    <2>1. /\ Labs[l] = sample
          /\ LeftByFailure[l] = {}
          /\ LeftByUnload[l] = {"probe"}
      BY <1>2 DEF Labs, LeftByFailure, LeftByUnload
    <2> QED BY <1>2, <2>1, TablesTidy, TablesListed DEF LabTidy
  <1>3. CASE l = "debugfs_demo"
    <2>1. /\ Labs[l] = debugfs_demo
          /\ LeftByFailure[l] = {}
          /\ LeftByUnload[l] = {"data", "dir", "file"}
      BY <1>3 DEF Labs, LeftByFailure, LeftByUnload
    <2> QED BY <1>3, <2>1, TablesTidy, TablesListed DEF LabTidy
  <1>4. CASE l = "demo"
    <2>1. /\ Labs[l] = demo
          /\ LeftByFailure[l] = {"region"}
          /\ LeftByUnload[l] = {}
      BY <1>4 DEF Labs, LeftByFailure, LeftByUnload
    <2> QED BY <1>4, <2>1, TablesTidy, TablesListed DEF LabTidy
  <1>5. CASE l = "globalvar"
    <2>1. /\ Labs[l] = globalvar
          /\ LeftByFailure[l] = {}
          /\ LeftByUnload[l] = {}
      BY <1>5 DEF Labs, LeftByFailure, LeftByUnload
    <2> QED BY <1>5, <2>1, TablesTidy, TablesListed DEF LabTidy
  <1>6. CASE l = "ct"
    <2>1. /\ Labs[l] = ct
          /\ LeftByFailure[l] = {}
          /\ LeftByUnload[l] = {}
      BY <1>6 DEF Labs, LeftByFailure, LeftByUnload
    <2> QED BY <1>6, <2>1, TablesTidy, TablesListed DEF LabTidy
  <1>7. CASE l = "sysctl_example"
    <2>1. /\ Labs[l] = sysctl_example
          /\ LeftByFailure[l] = {}
          /\ LeftByUnload[l] = {}
      BY <1>7 DEF Labs, LeftByFailure, LeftByUnload
    <2> QED BY <1>7, <2>1, TablesTidy, TablesListed DEF LabTidy
  <1>8. CASE l = "seq_file_demo"
    <2>1. /\ Labs[l] = seq_file_demo
          /\ LeftByFailure[l] = {}
          /\ LeftByUnload[l] = {}
      BY <1>8 DEF Labs, LeftByFailure, LeftByUnload
    <2> QED BY <1>8, <2>1, TablesTidy, TablesListed DEF LabTidy
  <1>9. CASE l = "kobj_create_add"
    <2>1. /\ Labs[l] = kobj_create_add
          /\ LeftByFailure[l] = {"parent", "parentdir"}
          /\ LeftByUnload[l] = {"parent", "child", "childdir"}
      BY <1>9 DEF Labs, LeftByFailure, LeftByUnload
    <2> QED BY <1>9, <2>1, TablesTidy, TablesListed DEF LabTidy
  <1>10. CASE l = "kobj_init_add"
    <2>1. /\ Labs[l] = kobj_init_add
          /\ LeftByFailure[l] = {"kobj"}
          /\ LeftByUnload[l] = {}
      BY <1>10 DEF Labs, LeftByFailure, LeftByUnload
    <2> QED BY <1>10, <2>1, TablesTidy, TablesListed DEF LabTidy
  <1>11. CASE l = "kset_example"
    <2>1. /\ Labs[l] = kset_example
          /\ LeftByFailure[l] = {"kset", "parent", "parentdir", "child", "childdir"}
          /\ LeftByUnload[l] = {"parent", "child"}
      BY <1>11 DEF Labs, LeftByFailure, LeftByUnload
    <2> QED BY <1>11, <2>1, TablesTidy, TablesListed DEF LabTidy
  <1>12. CASE l = "binder_open"
    <2>1. /\ Labs[l] = binder_open
          /\ LeftByFailure[l] = {"fd"}
          /\ LeftByUnload[l] = {}
      BY <1>12 DEF Labs, LeftByFailure, LeftByUnload
    <2> QED BY <1>12, <2>1, binder_open_tidy, TablesListed DEF LabTidy
  <1>13. CASE l = "ramhd_mkreq"
    <2>1. /\ Labs[l] = ramhd_mkreq
          /\ LeftByFailure[l] = {"sdisk1"}
          /\ LeftByUnload[l] = {}
      BY <1>13 DEF Labs, LeftByFailure, LeftByUnload
    <2> QED BY <1>13, <2>1, ramhd_mkreq_tidy, ramhd_mkreq_listed DEF LabTidy
  <1>14. CASE l = "ramhd_req"
    <2>1. /\ Labs[l] = ramhd_req
          /\ LeftByFailure[l] = {}
          /\ LeftByUnload[l] = {}
      BY <1>14 DEF Labs, LeftByFailure, LeftByUnload
    <2> QED BY <1>14, <2>1, ramhd_req_tidy, ramhd_req_listed DEF LabTidy
  <1>15. CASE l = "hlist"
    <2>1. /\ Labs[l] = hlist
          /\ LeftByFailure[l] = {}
          /\ LeftByUnload[l] = {}
      BY <1>15 DEF Labs, LeftByFailure, LeftByUnload
    <2> QED BY <1>15, <2>1, hlist_tidy, hlist_listed DEF LabTidy
  <1> QED BY <1>1, <1>2, <1>3, <1>4, <1>5, <1>6, <1>7, <1>8, <1>9, <1>10, <1>11, <1>12, <1>13, <1>14, <1>15
          DEF Labs

-----------------------------------------------------------------------------
\* What is left of a sequence from position k: its head, its tail, and what is
\* left when n more elements are skipped.
LEMMA SuffixStep ==
  ASSUME NEW A, NEW q \in Seq(A), NEW k \in 1..(Len(q) + 1), NEW t, t = SubSeq(q, k, Len(q))
  PROVE  /\ t = <<>> <=> k = Len(q) + 1
         /\ t # <<>> => /\ k \in 1..Len(q) /\ Head(t) = q[k]
                        /\ Tail(t) = SubSeq(q, k + 1, Len(q))
                        /\ \A n \in Nat : k + n <= Len(q) =>
                             SubSeq(t, 2 + n, Len(t)) = SubSeq(q, k + 1 + n, Len(q))
  <1>1. /\ t \in Seq(A) /\ Len(t) = Len(q) - k + 1
        /\ \A i \in 1..(Len(q) - k + 1) : t[i] = q[k + i - 1]
    <2>1. CASE k = Len(q) + 1
      BY <2>1, SubSeqProperties
    <2>2. CASE k <= Len(q)
      BY <2>2, SubSeqProperties
    <2> QED BY <2>1, <2>2
  <1>2. t = <<>> <=> k = Len(q) + 1
    <2>1. t = <<>> <=> Len(t) = 0 BY <1>1, EmptySeq
    <2>2. Len(t) = 0 <=> k = Len(q) + 1 BY <1>1
    <2> QED BY <2>1, <2>2
  <1>3. ASSUME t # <<>> PROVE k \in 1..Len(q) /\ Head(t) = q[k]
    BY <1>1, <1>2, <1>3
  <1>4. ASSUME t # <<>> PROVE Tail(t) = SubSeq(q, k + 1, Len(q))
    <2> DEFINE a == Tail(t)
               b == SubSeq(q, k + 1, Len(q))
    <2>1. a \in Seq(A) /\ Len(a) = Len(q) - k /\ \A i \in 1..(Len(q) - k) : a[i] = q[k + i]
      <3>1. a \in Seq(A) /\ Len(a) = Len(t) - 1 /\ \A i \in 1..Len(a) : a[i] = t[i + 1]
        BY <1>1, <1>4, HeadTailProperties
      <3> HIDE DEF a
      <3>2. Len(a) = Len(q) - k BY <3>1, <1>1
      <3>3. ASSUME NEW i \in 1..(Len(q) - k) PROVE a[i] = q[k + i]
        <4>1. a[i] = t[i + 1] /\ i + 1 \in 1..(Len(q) - k + 1) /\ k + (i + 1) - 1 = k + i
          BY <3>1, <3>2
        <4> QED BY <4>1, <1>1
      <3> QED BY <3>1, <3>2, <3>3
    <2>2. b \in Seq(A) /\ Len(b) = Len(q) - k /\ \A i \in 1..(Len(q) - k) : b[i] = q[k + i]
      BY <1>3, <1>4, SubSeqProperties
    <2> HIDE DEF a, b
    <2>3. a = b BY <2>1, <2>2, SeqEqual
    <2> QED BY <2>3 DEF a, b
  <1>5. ASSUME t # <<>>, NEW n \in Nat, k + n <= Len(q)
        PROVE  SubSeq(t, 2 + n, Len(t)) = SubSeq(q, k + 1 + n, Len(q))
    <2> DEFINE a == SubSeq(t, 2 + n, Len(t))
               b == SubSeq(q, k + 1 + n, Len(q))
    <2>1. a \in Seq(A) /\ Len(a) = Len(q) - k - n /\ \A i \in 1..(Len(q) - k - n) : a[i] = q[k + n + i]
      <3>1. a \in Seq(A) /\ Len(a) = Len(t) - n - 1 /\ \A i \in 1..(Len(t) - n - 1) : a[i] = t[n + 1 + i]
        BY <1>1, <1>3, <1>5, SubSeqProperties
      <3> HIDE DEF a
      <3>2. Len(a) = Len(q) - k - n BY <3>1, <1>1
      <3>3. ASSUME NEW i \in 1..(Len(q) - k - n) PROVE a[i] = q[k + n + i]
        <4>1. a[i] = t[n + 1 + i] BY <3>1, <3>2, <1>1
        <4>2. n + 1 + i \in 1..(Len(q) - k + 1) /\ k + (n + 1 + i) - 1 = k + n + i
          OBVIOUS
        <4> QED BY <4>1, <4>2, <1>1
      <3> QED BY <3>1, <3>2, <3>3
    <2>2. b \in Seq(A) /\ Len(b) = Len(q) - k - n /\ \A i \in 1..(Len(q) - k - n) : b[i] = q[k + n + i]
      BY <1>3, <1>5, SubSeqProperties
    <2> HIDE DEF a, b
    <2>3. a = b BY <2>1, <2>2, SeqEqual
    <2> QED BY <2>3 DEF a, b
  <1> QED BY <1>2, <1>3, <1>4, <1>5

LEMMA SuffixAll == ASSUME NEW A, NEW q \in Seq(A) PROVE q = SubSeq(q, 1, Len(q))
  OBVIOUS

\* What the kernel calls the lab through.
Entries == DOMAIN L.uses

\* Init has taken its first k - 1 steps.
LoadAt(k) ==
  /\ todo = SubSeq(L.load, k, Len(L.load))
  /\ \A r \in held : \E i \in 1..(k - 1) : L.load[i].op \in Acquiring /\ L.load[i].r = r
  /\ \A i \in 1..(k - 1) : L.load[i].op \in Certain => L.load[i].r \in held
  /\ \A c \in Callers : call[c] # NoCall => call[c] \in held

\* Exit has taken its first k - 1 steps.
UnloadAt(k) ==
  /\ todo = SubSeq(L.unload, k, Len(L.unload))
  /\ \A r \in held : \/ r \in LeftByUnload[lab]
                     \/ \E i \in k..Len(L.unload) : /\ L.unload[i].op \in Giving
                                                      /\ L.unload[i].r = r
  /\ \A i \in 1..(k - 1) : L.unload[i].op \in Giving =>
       L.unload[i].r \notin held /\ \A c \in Callers : call[c] = NoCall \/ call[c] # L.unload[i].r
  /\ \A c \in Callers : call[c] # NoCall =>
       \/ call[c] \in held
       \/ \E i \in k..Len(L.unload) : L.unload[i].op = "drain" /\ L.unload[i].r = call[c]

\* The inductive invariant, phase by phase.
LoadInv == phase \in {"load", "in"} => \E k \in 1..(Len(L.load) + 1) : LoadAt(k)
UnloadInv ==
  /\ phase \in {"unload", "gone"} => \E k \in 1..(Len(L.unload) + 1) : UnloadAt(k)
  /\ phase = "unload" /\ L.pins => \A c \in Callers : call[c] = NoCall
  /\ phase = "gone" => todo = <<>>
FailedInv ==
  phase = "failed" =>
    /\ \A r \in held : r \in LeftByFailure[lab]
    /\ lab = "test_driver" \/ /\ \A e \in Entries : e \notin held
                              /\ \A c \in Callers : call[c] = NoCall

LifeInv ==
  LTypeOK /\ NoCall \notin Entries /\ EntriesBacked /\ LoadInv /\ UnloadInv /\ FailedInv

\* The table of the loaded lab, with what is known of it.
LEMMA LabFacts ==
  ASSUME LTypeOK
  PROVE  /\ L.load \in Seq(Elts(L.load)) /\ L.unload \in Seq(Elts(L.unload))
         /\ SkipTidy(L.load) /\ FailTidy(lab, L.load, L.uses, LeftByFailure[lab])
         /\ EntryTidy(lab, L.load, L.uses)
         /\ GiveTidy(L.load, L.unload, LeftByUnload[lab])
         /\ TakeTidy(L.unload, L.uses, L.pins) /\ OrderTidy(lab, L.unload, L.uses)
         /\ lab = "debugfs_demo" \/ \A e \in Entries : e \notin LeftByUnload[lab]
         /\ lab = "test_driver" => \A e \in Entries : \A r \in L.uses[e] : <<lab, r>> \in Excused
  BY AllTidy DEF LTypeOK, LabTidy, Tidy, InOrder, L, Entries

\* A step of init, by its position in the table.
LEMMA LoadStep ==
  ASSUME LifeInv, phase = "load", todo # <<>>
  PROVE  \E k \in 1..Len(L.load) :
           /\ LoadAt(k) /\ Head(todo) = L.load[k]
           /\ Tail(todo) = SubSeq(L.load, k + 1, Len(L.load))
           /\ L.load[k].op \in Acquiring \cup {"check", "touch"}
           /\ L.load[k].op = "hope" =>
                /\ L.load[k].skip \in Nat /\ k + L.load[k].skip <= Len(L.load)
                /\ SubSeq(todo, 2 + L.load[k].skip, Len(todo)) =
                     SubSeq(L.load, k + 1 + L.load[k].skip, Len(L.load))
  <1>1. LTypeOK /\ LoadInv BY DEF LifeInv
  <1>2. PICK k \in 1..(Len(L.load) + 1) : LoadAt(k) BY <1>1 DEF LoadInv
  <1>3. PICK q \in Seq(Elts(L.load)) : q = L.load /\ SkipTidy(q) BY <1>1, LabFacts
  <1>4. k \in 1..(Len(q) + 1) /\ todo = SubSeq(q, k, Len(q)) BY <1>2, <1>3 DEF LoadAt
  <1>5. /\ k \in 1..Len(q) /\ Head(todo) = q[k] /\ Tail(todo) = SubSeq(q, k + 1, Len(q))
        /\ \A n \in Nat : k + n <= Len(q) =>
             SubSeq(todo, 2 + n, Len(todo)) = SubSeq(q, k + 1 + n, Len(q))
    BY <1>4, SuffixStep
  <1>6. /\ q[k].op \in Acquiring \cup {"check", "touch"}
        /\ q[k].op = "hope" => q[k].skip \in Nat /\ k + q[k].skip <= Len(q)
    BY <1>3, <1>5 DEF SkipTidy
  <1>7. q[k].op = "hope" =>
          SubSeq(todo, 2 + q[k].skip, Len(todo)) = SubSeq(q, k + 1 + q[k].skip, Len(q))
    BY <1>5, <1>6
  <1> QED BY <1>2, <1>3, <1>5, <1>6, <1>7

\* A step of exit, by its position in the table.
LEMMA UnloadStep ==
  ASSUME LifeInv, phase = "unload", todo # <<>>
  PROVE  \E k \in 1..Len(L.unload) :
           /\ UnloadAt(k) /\ Head(todo) = L.unload[k]
           /\ Tail(todo) = SubSeq(L.unload, k + 1, Len(L.unload))
           /\ L.unload[k].op \in Giving \cup {"touch"}
  <1>1. LTypeOK /\ UnloadInv BY DEF LifeInv
  <1>2. PICK k \in 1..(Len(L.unload) + 1) : UnloadAt(k) BY <1>1 DEF UnloadInv
  <1>3. PICK q \in Seq(Elts(L.unload)) : q = L.unload /\ TakeTidy(q, L.uses, L.pins)
    BY <1>1, LabFacts
  <1>4. k \in 1..(Len(q) + 1) /\ todo = SubSeq(q, k, Len(q)) BY <1>2, <1>3 DEF UnloadAt
  <1>5. /\ k \in 1..Len(q) /\ Head(todo) = q[k] /\ Tail(todo) = SubSeq(q, k + 1, Len(q))
    BY <1>4, SuffixStep
  <1>6. q[k].op \in Giving \cup {"touch"}
    BY <1>3, <1>5 DEF TakeTidy
  <1> QED BY <1>2, <1>3, <1>5, <1>6

LEMMA InitLife ==
  ASSUME LInit
  PROVE  LifeInv
  <1>1. LTypeOK BY DEF LInit, LTypeOK
  <1>2. NoCall \notin Entries BY LifecycleAssumption DEF LInit, Entries, L
  <1>3. EntriesBacked BY <1>2 DEF LInit, EntriesBacked, Entries
  <1>4. LoadAt(1)
    <2>1. PICK q \in Seq(Elts(L.load)) : q = L.load BY <1>1, LabFacts
    <2>2. q = SubSeq(q, 1, Len(q)) BY SuffixAll
    <2>3. todo = SubSeq(L.load, 1, Len(L.load)) BY <2>1, <2>2 DEF LInit
    <2> QED BY <2>3 DEF LoadAt, LInit
  <1>5. 1 \in 1..(Len(L.load) + 1) BY <1>1, LabFacts
  <1> QED BY <1>1, <1>3, <1>4, <1>5, <1>2 DEF LifeInv, LoadInv, UnloadInv, FailedInv, LInit

\* A lab stays what it is.
LEMMA SameLab ==
  ASSUME lab' = lab
  PROVE  L' = L /\ Entries' = Entries
  BY DEF L, Entries

\* A step of init that acquires nothing.
LEMMA LoadOn ==
  ASSUME NEW k \in Nat, k > 0, LoadAt(k), L' = L, call' = call, held' = held,
         todo' = SubSeq(L.load, k + 1, Len(L.load)),
         L.load[k].op \in Certain => L.load[k].r \in held
  PROVE  LoadAt(k + 1)'
  <1>1. \A i \in 1..(k + 1 - 1) : i = k \/ i \in 1..(k - 1) OBVIOUS
  <1>2. \A i \in 1..(k - 1) : i \in 1..(k + 1 - 1) OBVIOUS
  <1>3. \A i \in 1..(k + 1 - 1) : L.load[i].op \in Certain => L.load[i].r \in held
    BY <1>1 DEF LoadAt
  <1>4. \A r \in held : \E i \in 1..(k + 1 - 1) : L.load[i].op \in Acquiring /\ L.load[i].r = r
    BY <1>2 DEF LoadAt
  <1> QED BY <1>3, <1>4 DEF LoadAt

LEMMA AcquireLife ==
  ASSUME LifeInv, Acquire
  PROVE  LifeInv'
  <1>1. /\ lab' = lab /\ phase' = phase /\ call' = call /\ todo # <<>> /\ todo' = Tail(todo)
        /\ held' = held \cup {Head(todo).r} /\ Head(todo).op \in Acquiring
        /\ phase = "load" \/ phase = "unload"
    BY DEF Acquire, Step, Acquiring
  <1>2. L' = L /\ Entries' = Entries BY <1>1, SameLab
  <1>3. phase = "load"
    BY <1>1, UnloadStep DEF Acquiring, Giving
  <1>4. PICK k \in 1..Len(L.load) :
          /\ LoadAt(k) /\ Head(todo) = L.load[k]
          /\ Tail(todo) = SubSeq(L.load, k + 1, Len(L.load))
    BY <1>1, <1>3, LoadStep
  <1>5. k + 1 \in 1..(Len(L.load) + 1) BY <1>4, LabFacts DEF LifeInv
  <1>6. LoadAt(k + 1)'
    <2>1. \A i \in 1..(k + 1 - 1) : i = k \/ i \in 1..(k - 1) BY <1>4
    <2>2. \A i \in 1..(k - 1) : i \in 1..(k + 1 - 1) BY <1>4
    <2>3. k \in 1..(k + 1 - 1) BY <1>4
    <2> QED BY <1>1, <1>2, <1>4, <2>1, <2>2, <2>3 DEF LoadAt
  <1>7. EntriesBacked'
    <2> SUFFICES ASSUME NEW e \in Entries, e \in held' \/ \E c \in Callers : call[c] = e,
                        NEW r \in L.uses[e], r \notin held'
                 PROVE  <<lab, r>> \in Excused
      BY <1>1, <1>2 DEF EntriesBacked, Entries, Excused
    <2>1. CASE e \in held \/ \E c \in Callers : call[c] = e
      BY <1>1, <2>1 DEF LifeInv, EntriesBacked, Entries, Excused
    <2>2. CASE e = L.load[k].r
      <3>1. EntryTidy(lab, L.load, L.uses) BY LabFacts DEF LifeInv
      <3>2. <<lab, r>> \notin Excused =>
              \E j \in 1..(k - 1) : L.load[j].op \in Certain /\ L.load[j].r = r
        BY <1>1, <1>4, <2>2, <3>1 DEF EntryTidy, Entries
      <3> QED BY <1>1, <1>4, <3>2 DEF LoadAt
    <2> QED BY <1>1, <1>4, <2>1, <2>2
  <1> QED BY <1>1, <1>2, <1>3, <1>5, <1>6, <1>7
          DEF LifeInv, LTypeOK, LoadInv, UnloadInv, FailedInv, Entries

LEMMA CheckPassedLife ==
  ASSUME LifeInv, CheckPassed
  PROVE  LifeInv'
  <1>1. /\ lab' = lab /\ phase' = phase /\ call' = call /\ held' = held /\ todo # <<>>
        /\ todo' = Tail(todo) /\ Head(todo).op = "check" /\ (phase = "load" \/ phase = "unload")
    BY DEF CheckPassed, Step
  <1>2. L' = L /\ Entries' = Entries BY <1>1, SameLab
  <1>3. phase = "load"
    BY <1>1, UnloadStep DEF Giving
  <1>4. PICK k \in 1..Len(L.load) :
          /\ LoadAt(k) /\ Head(todo) = L.load[k]
          /\ Tail(todo) = SubSeq(L.load, k + 1, Len(L.load))
    BY <1>1, <1>3, LoadStep
  <1>5. k + 1 \in 1..(Len(L.load) + 1) BY <1>4, LabFacts DEF LifeInv
  <1>6. LoadAt(k + 1)'
    <2>1. k \in Nat /\ k > 0 /\ L.load[k].op \notin Certain BY <1>1, <1>4 DEF Certain
    <2> QED BY <1>1, <1>2, <1>4, <2>1, LoadOn
  <1>7. EntriesBacked'
    BY <1>1, <1>2 DEF LifeInv, EntriesBacked
  <1> QED BY <1>1, <1>2, <1>3, <1>5, <1>6, <1>7
          DEF LifeInv, LTypeOK, LoadInv, UnloadInv, FailedInv, Entries

LEMMA FailureLife ==
  ASSUME LifeInv, Failure
  PROVE  LifeInv'
  <1>1. /\ lab' = lab /\ phase' = "failed" /\ call' = call /\ todo # <<>>
        /\ held' = held \ ToSet(Head(todo).undo)
        /\ Head(todo).op \in {"try", "check"} /\ (phase = "load" \/ phase = "unload")
    BY DEF Failure, Step
  <1>2. L' = L /\ Entries' = Entries BY <1>1, SameLab
  <1>3. phase = "load"
    BY <1>1, UnloadStep DEF Giving
  <1>4. PICK k \in 1..Len(L.load) : LoadAt(k) /\ Head(todo) = L.load[k]
    BY <1>1, <1>3, LoadStep
  <1>5. FailTidy(lab, L.load, L.uses, LeftByFailure[lab]) BY LabFacts DEF LifeInv
  <1>6. ASSUME NEW r \in held
        PROVE  /\ r \in LeftByFailure[lab] \/ r \in ToSet(Head(todo).undo)
               /\ lab = "test_driver" \/ r \notin Entries
    <2>1. PICK j \in 1..(k - 1) : L.load[j].op \in Acquiring /\ L.load[j].r = r
      BY <1>4 DEF LoadAt
    <2> QED BY <1>1, <1>4, <1>5, <2>1 DEF FailTidy, Entries
  <1>7. lab = "test_driver" \/ \A c \in Callers : call[c] = NoCall
    BY <1>4, <1>6 DEF LifeInv, LTypeOK, LoadAt, Entries
  <1>8. FailedInv' BY <1>1, <1>2, <1>6, <1>7 DEF FailedInv
  <1>9. EntriesBacked'
    <2>1. CASE lab = "test_driver"
      BY <1>1, <1>2, <2>1, LabFacts DEF LifeInv, EntriesBacked, Entries, Excused
    <2>2. CASE lab # "test_driver"
      BY <1>1, <1>2, <1>6, <1>7, <2>2 DEF LifeInv, EntriesBacked, Entries
    <2> QED BY <2>1, <2>2
  <1> QED BY <1>1, <1>2, <1>8, <1>9 DEF LifeInv, LTypeOK, LoadInv, UnloadInv, Entries

LEMMA IgnoredLife ==
  ASSUME LifeInv, Ignored
  PROVE  LifeInv'
  <1>1. /\ lab' = lab /\ phase' = phase /\ call' = call /\ held' = held /\ todo # <<>>
        /\ todo' = SubSeq(todo, 2 + Head(todo).skip, Len(todo))
        /\ Head(todo).op = "hope" /\ (phase = "load" \/ phase = "unload")
    BY DEF Ignored, Step
  <1>2. L' = L /\ Entries' = Entries BY <1>1, SameLab
  <1>3. phase = "load"
    BY <1>1, UnloadStep DEF Giving
  <1>4. PICK k \in 1..Len(L.load) :
          /\ LoadAt(k) /\ Head(todo) = L.load[k]
          /\ L.load[k].skip \in Nat /\ k + L.load[k].skip <= Len(L.load)
          /\ SubSeq(todo, 2 + L.load[k].skip, Len(todo)) =
               SubSeq(L.load, k + 1 + L.load[k].skip, Len(L.load))
    BY <1>1, <1>3, LoadStep
  <1>5. PICK n \in Nat : n = L.load[k].skip BY <1>4
  <1>6. PICK N \in Nat : N = Len(L.load) BY LabFacts DEF LifeInv
  <1>7. PICK m \in 1..(N + 1) : m = k + 1 + n
    <2>1. k \in 1..N /\ k + n <= N BY <1>4, <1>5, <1>6
    <2>2. k + 1 + n \in 1..(N + 1) BY <2>1
    <2> QED BY <2>2
  <1>8. k \in 1..N /\ m > k /\ todo' = SubSeq(L.load, m, N)
    <2>1. k \in 1..N /\ m > k BY <1>6, <1>7
    <2>2. todo' = SubSeq(todo, 2 + n, Len(todo)) BY <1>1, <1>4, <1>5
    <2>3. todo' = SubSeq(L.load, k + 1 + n, N) BY <2>2, <1>4, <1>5, <1>6
    <2> QED BY <2>1, <2>3, <1>7
  <1>9. \A j \in k..(m - 1) : L.load[j].op \notin Certain
    <2>1. SkipTidy(L.load) BY LabFacts DEF LifeInv
    <2>2. \A j \in (k + 1)..(k + n) : L.load[j].op \notin Certain
      BY <1>1, <1>4, <1>5, <2>1 DEF SkipTidy
    <2>3. L.load[k].op \notin Certain BY <1>1, <1>4 DEF Certain
    <2>4. \A j \in k..(m - 1) : j = k \/ j \in (k + 1)..(k + n) BY <1>7, <1>8
    <2> QED BY <2>2, <2>3, <2>4
  <1>10. LoadAt(m)'
    <2>1. \A i \in 1..(m - 1) : i \in 1..(k - 1) \/ i \in k..(m - 1) BY <1>8
    <2>2. \A i \in 1..(k - 1) : i \in 1..(m - 1) BY <1>8
    <2> QED BY <1>1, <1>2, <1>4, <1>9, <1>6, <1>8, <2>1, <2>2 DEF LoadAt
  <1>11. EntriesBacked'
    BY <1>1, <1>2 DEF LifeInv, EntriesBacked
  <1> QED BY <1>1, <1>2, <1>3, <1>10, <1>11, <1>6
          DEF LifeInv, LTypeOK, LoadInv, UnloadInv, FailedInv, Entries

LEMMA OopsLife ==
  ASSUME LifeInv, Oops
  PROVE  LifeInv'
  <1>1. lab' = lab /\ phase' = "oops" /\ call' = call /\ held' = held
    BY DEF Oops
  <1>2. L' = L /\ Entries' = Entries BY <1>1, SameLab
  <1>3. EntriesBacked'
    BY <1>1, <1>2 DEF LifeInv, EntriesBacked
  <1> QED BY <1>1, <1>2, <1>3 DEF LifeInv, LTypeOK, LoadInv, UnloadInv, FailedInv, Entries

\* A step of exit that gives nothing back.
LEMMA TouchedLife ==
  ASSUME LifeInv, Touched
  PROVE  LifeInv'
  <1>1. /\ lab' = lab /\ phase' = phase /\ call' = call /\ held' = held /\ todo # <<>>
        /\ todo' = Tail(todo) /\ Head(todo).op = "touch" /\ Head(todo).r \in held
        /\ phase = "load" \/ phase = "unload"
    BY DEF Touched, Step
  <1>2. L' = L /\ Entries' = Entries BY <1>1, SameLab
  <1>3. EntriesBacked'
    BY <1>1, <1>2 DEF LifeInv, EntriesBacked
  <1>4. CASE phase = "load"
    <2>1. PICK k \in 1..Len(L.load) :
            /\ LoadAt(k) /\ Head(todo) = L.load[k]
            /\ Tail(todo) = SubSeq(L.load, k + 1, Len(L.load))
      BY <1>1, <1>4, LoadStep
    <2>2. k + 1 \in 1..(Len(L.load) + 1) BY <2>1, LabFacts DEF LifeInv
    <2>3. LoadAt(k + 1)'
      <3>1. k \in Nat /\ k > 0 /\ L.load[k].r \in held BY <1>1, <2>1
      <3> QED BY <1>1, <1>2, <2>1, <3>1, LoadOn
    <2> QED BY <1>1, <1>2, <1>3, <1>4, <2>2, <2>3
            DEF LifeInv, LTypeOK, LoadInv, UnloadInv, FailedInv, Entries
  <1>5. CASE phase = "unload"
    <2>1. PICK k \in 1..Len(L.unload) :
            /\ UnloadAt(k) /\ Head(todo) = L.unload[k]
            /\ Tail(todo) = SubSeq(L.unload, k + 1, Len(L.unload))
      BY <1>1, <1>5, UnloadStep
    <2>2. PICK n \in Nat : n = Len(L.unload) BY LabFacts DEF LifeInv
    <2>3. k \in 1..n /\ k + 1 \in 1..(n + 1) BY <2>1, <2>2
    <2>4. UnloadAt(k + 1)'
      <3>1. \A i \in k..n : i = k \/ i \in (k + 1)..n BY <2>3
      <3>2. \A i \in 1..(k + 1 - 1) : i = k \/ i \in 1..(k - 1) BY <2>3
      <3>3. L.unload[k].op \notin Giving /\ L.unload[k].op # "drain" BY <1>1, <2>1 DEF Giving
      <3> QED BY <1>1, <1>2, <2>1, <2>2, <3>1, <3>2, <3>3 DEF UnloadAt
    <2> QED BY <1>1, <1>2, <1>3, <1>5, <2>2, <2>3, <2>4
            DEF LifeInv, LTypeOK, LoadInv, UnloadInv, FailedInv, Entries
  <1> QED BY <1>1, <1>4, <1>5

LEMMA ReleaseLife ==
  ASSUME LifeInv, Release
  PROVE  LifeInv'
  <1>1. /\ lab' = lab /\ phase' = phase /\ call' = call /\ todo # <<>> /\ todo' = Tail(todo)
        /\ held' = (IF Head(todo).r \in held THEN held \ Head(todo).all ELSE held)
        /\ Head(todo).op = "put" /\ (phase = "load" \/ phase = "unload")
    BY DEF Release, Step
  <1>2. L' = L /\ Entries' = Entries BY <1>1, SameLab
  <1>3. phase = "unload"
    BY <1>1, LoadStep DEF Acquiring
  <1>4. PICK k \in 1..Len(L.unload) :
          /\ UnloadAt(k) /\ Head(todo) = L.unload[k]
          /\ Tail(todo) = SubSeq(L.unload, k + 1, Len(L.unload))
    BY <1>1, <1>3, UnloadStep
  <1>5. PICK n \in Nat : n = Len(L.unload) BY LabFacts DEF LifeInv
  <1>6. k \in 1..n /\ k + 1 \in 1..(n + 1) BY <1>4, <1>5
  <1>7. /\ Head(todo).r \in Head(todo).all
        /\ \A c \in Callers : call[c] # NoCall => call[c] \notin Head(todo).all
    <2>1. TakeTidy(L.unload, L.uses, L.pins) BY LabFacts DEF LifeInv
    <2>2. /\ Head(todo).r \in Head(todo).all
          /\ L.pins \/ \A r \in Head(todo).all : r \notin Entries
      BY <1>1, <1>4, <2>1 DEF TakeTidy, Entries
    <2>3. CASE L.pins BY <1>3, <2>2, <2>3 DEF LifeInv, UnloadInv
    <2>4. CASE ~L.pins BY <2>2, <2>4 DEF LifeInv, LTypeOK, Entries
    <2> QED BY <2>3, <2>4
  <1>8. Head(todo).r \notin held' /\ \A r \in held' : r \in held
    BY <1>1, <1>7
  <1>9. \A r \in held : r \in held' \/ r \in Head(todo).all
    BY <1>1
  <1>10. \A c \in Callers : call[c] = NoCall \/ call[c] # Head(todo).r BY <1>7
  <1>11. UnloadAt(k + 1)'
    <2>1. \A i \in k..n : i = k \/ i \in (k + 1)..n BY <1>6
    <2>2. \A i \in 1..(k + 1 - 1) : i = k \/ i \in 1..(k - 1) BY <1>6
    <2>3. todo' = SubSeq(L.unload, k + 1, n) BY <1>1, <1>4, <1>5
    <2>4. ASSUME NEW r \in held', r \notin LeftByUnload[lab]
          PROVE  \E i \in (k + 1)..n : L.unload[i].op \in Giving /\ L.unload[i].r = r
      <3>1. r # L.unload[k].r /\ r \in held BY <1>4, <1>8, <2>4
      <3>2. PICK i \in k..n : L.unload[i].op \in Giving /\ L.unload[i].r = r
        BY <1>4, <1>5, <2>4, <3>1 DEF UnloadAt
      <3> QED BY <2>1, <3>1, <3>2
    <2>5. ASSUME NEW i \in 1..(k + 1 - 1), L.unload[i].op \in Giving
          PROVE  /\ L.unload[i].r \notin held'
                 /\ \A c \in Callers : call[c] = NoCall \/ call[c] # L.unload[i].r
      <3>1. CASE i = k BY <1>4, <1>8, <1>10, <3>1
      <3>2. CASE i \in 1..(k - 1) BY <1>4, <1>8, <2>5, <3>2 DEF UnloadAt
      <3> QED BY <2>2, <3>1, <3>2
    <2>6. ASSUME NEW c \in Callers, call[c] # NoCall
          PROVE  \/ call[c] \in held'
                 \/ \E i \in (k + 1)..n : L.unload[i].op = "drain" /\ L.unload[i].r = call[c]
      <3>1. CASE call[c] \in held BY <1>7, <1>9, <2>6, <3>1
      <3>2. CASE call[c] \notin held
        <4>1. PICK i \in k..n : L.unload[i].op = "drain" /\ L.unload[i].r = call[c]
          BY <1>4, <1>5, <2>6, <3>2 DEF UnloadAt
        <4>2. i # k BY <1>1, <1>4, <4>1
        <4> QED BY <2>1, <4>1, <4>2
      <3> QED BY <3>1, <3>2
    <2>7. lab' = lab /\ call' = call BY <1>1
    <2> QED BY <1>2, <1>5, <2>3, <2>4, <2>5, <2>6, <2>7 DEF UnloadAt
  <1>12. EntriesBacked'
    <2> SUFFICES ASSUME NEW e \in Entries, e \in held' \/ \E c \in Callers : call[c] = e,
                        NEW r \in L.uses[e], r \notin held'
                 PROVE  <<lab, r>> \in Excused
      BY <1>1, <1>2 DEF EntriesBacked, Entries, Excused
    <2>1. CASE r \notin held
      BY <1>8, <2>1 DEF LifeInv, EntriesBacked, Entries, Excused
    <2>2. CASE r \in held
      <3>1. r \in Taken(L.unload[k]) BY <1>1, <1>4, <1>9, <2>2 DEF Taken
      <3>2. OrderTidy(lab, L.unload, L.uses) BY LabFacts DEF LifeInv
      <3>3. <<lab, r>> \notin Excused =>
              \E j \in 1..(k - 1) : L.unload[j].op \in Giving /\ L.unload[j].r = e
        <4>1. L.unload[k].op \in Giving BY <1>1, <1>4 DEF Giving
        <4>2. e \in DOMAIN L.uses BY DEF Entries
        <4> QED BY <1>4, <3>1, <3>2, <4>1, <4>2, ZenonT(30) DEF OrderTidy
      <3> QED BY <1>4, <1>8, <3>3 DEF UnloadAt, LifeInv
    <2> QED BY <2>1, <2>2
  <1> QED BY <1>1, <1>2, <1>3, <1>5, <1>6, <1>11, <1>12
          DEF LifeInv, LTypeOK, LoadInv, UnloadInv, FailedInv, Entries

\* The entry goes first, and the step ends when its calls have.
LEMMA DrainingLife ==
  ASSUME LifeInv, Draining
  PROVE  LifeInv'
  <1>1. /\ lab' = lab /\ phase' = phase /\ call' = call /\ todo # <<>>
        /\ held' = held \ {Head(todo).r}
        /\ Head(todo).op = "drain" /\ (phase = "load" \/ phase = "unload")
        /\ \/ todo' = todo
           \/ todo' = Tail(todo) /\ \A c \in Callers : call[c] # Head(todo).r
    BY DEF Draining, Step
  <1>2. L' = L /\ Entries' = Entries BY <1>1, SameLab
  <1>3. phase = "unload"
    BY <1>1, LoadStep DEF Acquiring
  <1>4. PICK k \in 1..Len(L.unload) :
          /\ UnloadAt(k) /\ Head(todo) = L.unload[k]
          /\ Tail(todo) = SubSeq(L.unload, k + 1, Len(L.unload))
    BY <1>1, <1>3, UnloadStep
  <1>5. PICK n \in Nat : n = Len(L.unload) BY LabFacts DEF LifeInv
  <1>6. k \in 1..n /\ k \in 1..(n + 1) /\ k + 1 \in 1..(n + 1) /\ k \in k..n BY <1>4, <1>5
  <1>7. /\ Head(todo).r \notin held' /\ \A r \in held' : r \in held
        /\ \A r \in held : r \in held' \/ r = Head(todo).r
    BY <1>1
  <1>8. UnloadAt(k)' \/ UnloadAt(k + 1)'
    <2>1. \A i \in k..n : i = k \/ i \in (k + 1)..n BY <1>6
    <2>2. \A i \in 1..(k + 1 - 1) : i = k \/ i \in 1..(k - 1) BY <1>6
    <2>3. ASSUME NEW r \in held', r \notin LeftByUnload[lab]
          PROVE  \E i \in (k + 1)..n : L.unload[i].op \in Giving /\ L.unload[i].r = r
      <3>1. r # L.unload[k].r /\ r \in held BY <1>4, <1>7, <2>3
      <3>2. PICK i \in k..n : L.unload[i].op \in Giving /\ L.unload[i].r = r
        BY <1>4, <1>5, <2>3, <3>1 DEF UnloadAt
      <3> QED BY <2>1, <3>1, <3>2
    <2>4. ASSUME NEW i \in 1..(k - 1), L.unload[i].op \in Giving
          PROVE  /\ L.unload[i].r \notin held'
                 /\ \A c \in Callers : call[c] = NoCall \/ call[c] # L.unload[i].r
      BY <1>4, <1>7, <2>4 DEF UnloadAt
    <2>5. ASSUME NEW c \in Callers, call[c] # NoCall
          PROVE  \/ call[c] = L.unload[k].r \/ call[c] \in held'
                 \/ \E i \in (k + 1)..n : L.unload[i].op = "drain" /\ L.unload[i].r = call[c]
      <3>1. CASE call[c] \in held BY <1>4, <1>7, <3>1
      <3>2. CASE call[c] \notin held
        <4>1. PICK i \in k..n : L.unload[i].op = "drain" /\ L.unload[i].r = call[c]
          BY <1>4, <1>5, <2>5, <3>2 DEF UnloadAt
        <4> QED BY <2>1, <4>1
      <3> QED BY <3>1, <3>2
    <2>6. \A i \in (k + 1)..n : i \in k..n BY <1>6
    <2>7. CASE todo' = todo
      <3>1. todo' = SubSeq(L.unload, k, n) BY <1>4, <1>5, <2>7 DEF UnloadAt
      <3>2. L.unload[k].op = "drain" BY <1>1, <1>4
      <3>3. \A c \in Callers : call[c] # NoCall =>
              \/ call[c] \in held'
              \/ \E i \in k..n : L.unload[i].op = "drain" /\ L.unload[i].r = call[c]
        BY <1>6, <2>5, <2>6, <3>2
      <3>4. \A r \in held' : r \in LeftByUnload[lab] \/
              \E i \in k..n : L.unload[i].op \in Giving /\ L.unload[i].r = r
        BY <2>3, <2>6
      <3> QED BY <1>1, <1>2, <1>5, <2>4, <3>1, <3>3, <3>4 DEF UnloadAt
    <2>8. CASE todo' = Tail(todo) /\ \A c \in Callers : call[c] # Head(todo).r
      <3>1. todo' = SubSeq(L.unload, k + 1, n) BY <1>4, <1>5, <2>8
      <3>2. ASSUME NEW i \in 1..(k + 1 - 1), L.unload[i].op \in Giving
            PROVE  /\ L.unload[i].r \notin held'
                   /\ \A c \in Callers : call[c] = NoCall \/ call[c] # L.unload[i].r
        <4>1. CASE i = k BY <1>4, <1>7, <2>8, <4>1
        <4>2. CASE i \in 1..(k - 1) BY <2>4, <3>2, <4>2
        <4> QED BY <2>2, <4>1, <4>2
      <3>3. \A c \in Callers : call[c] # NoCall =>
              \/ call[c] \in held'
              \/ \E i \in (k + 1)..n : L.unload[i].op = "drain" /\ L.unload[i].r = call[c]
        BY <1>4, <2>5, <2>8
      <3> QED BY <1>1, <1>2, <1>5, <2>3, <3>1, <3>2, <3>3 DEF UnloadAt
    <2> QED BY <1>1, <2>7, <2>8
  <1>9. EntriesBacked'
    <2> SUFFICES ASSUME NEW e \in Entries, e \in held' \/ \E c \in Callers : call[c] = e,
                        NEW r \in L.uses[e], r \notin held'
                 PROVE  <<lab, r>> \in Excused
      BY <1>1, <1>2 DEF EntriesBacked, Entries, Excused
    <2>1. CASE r \notin held
      BY <1>7, <2>1 DEF LifeInv, EntriesBacked, Entries, Excused
    <2>2. CASE r \in held
      <3>1. r \in Taken(L.unload[k]) BY <1>1, <1>4, <1>7, <2>2 DEF Taken
      <3>2. OrderTidy(lab, L.unload, L.uses) BY LabFacts DEF LifeInv
      <3>3. <<lab, r>> \notin Excused =>
              \E j \in 1..(k - 1) : L.unload[j].op \in Giving /\ L.unload[j].r = e
        <4>1. L.unload[k].op \in Giving BY <1>1, <1>4 DEF Giving
        <4>2. e \in DOMAIN L.uses BY DEF Entries
        <4> QED BY <1>4, <3>1, <3>2, <4>1, <4>2, ZenonT(30) DEF OrderTidy
      <3> QED BY <1>4, <1>7, <3>3, ZenonT(30) DEF UnloadAt, LifeInv
    <2> QED BY <2>1, <2>2
  <1> QED BY <1>1, <1>2, <1>3, <1>5, <1>6, <1>8, <1>9
          DEF LifeInv, LTypeOK, LoadInv, UnloadInv, FailedInv, Entries

LEMMA LoadedLife ==
  ASSUME LifeInv, Loaded
  PROVE  LifeInv'
  <1>1. /\ lab' = lab /\ phase = "load" /\ phase' = "in" /\ call' = call /\ held' = held
        /\ todo' = todo
    BY DEF Loaded
  <1>2. L' = L /\ Entries' = Entries BY <1>1, SameLab
  <1>3. EntriesBacked' BY <1>1, <1>2 DEF LifeInv, EntriesBacked
  <1>4. LoadInv' BY <1>1, <1>2 DEF LifeInv, LoadInv, LoadAt
  <1> QED BY <1>1, <1>2, <1>3, <1>4 DEF LifeInv, LTypeOK, UnloadInv, FailedInv, Entries

LEMMA UnloadedLife ==
  ASSUME LifeInv, Unloaded
  PROVE  LifeInv'
  <1>1. /\ lab' = lab /\ phase = "unload" /\ phase' = "gone" /\ call' = call /\ held' = held
        /\ todo' = todo /\ todo = <<>>
    BY DEF Unloaded
  <1>2. L' = L /\ Entries' = Entries BY <1>1, SameLab
  <1>3. EntriesBacked' BY <1>1, <1>2 DEF LifeInv, EntriesBacked
  <1>4. UnloadInv'
    <2>1. PICK k \in 1..(Len(L.unload) + 1) : UnloadAt(k) BY <1>1 DEF LifeInv, UnloadInv
    <2>2. UnloadAt(k)' BY <1>1, <1>2, <2>1 DEF UnloadAt
    <2> QED BY <1>1, <1>2, <2>2 DEF UnloadInv
  <1> QED BY <1>1, <1>2, <1>3, <1>4 DEF LifeInv, LTypeOK, LoadInv, FailedInv, Entries

LEMMA UnloadLife ==
  ASSUME LifeInv, Unload
  PROVE  LifeInv'
  <1>1. /\ lab' = lab /\ phase = "in" /\ phase' = "unload" /\ call' = call /\ held' = held
        /\ todo' = L.unload /\ (L.pins => \A c \in Callers : call[c] = NoCall)
    BY DEF Unload
  <1>2. L' = L /\ Entries' = Entries BY <1>1, SameLab
  <1>3. EntriesBacked' BY <1>1, <1>2 DEF LifeInv, EntriesBacked
  <1>4. PICK k \in 1..(Len(L.load) + 1) : LoadAt(k) BY <1>1 DEF LifeInv, LoadInv
  <1>5. PICK q \in Seq(Elts(L.unload)) : q = L.unload BY LabFacts DEF LifeInv
  <1>6. q = SubSeq(q, 1, Len(q)) BY SuffixAll
  <1>7. GiveTidy(L.load, L.unload, LeftByUnload[lab]) BY LabFacts DEF LifeInv
  <1>8. ASSUME NEW r \in held, r \notin LeftByUnload[lab]
        PROVE  \E i \in 1..Len(q) : L.unload[i].op \in Giving /\ L.unload[i].r = r
    <2>1. PICK j \in 1..(k - 1) : L.load[j].op \in Acquiring /\ L.load[j].r = r
      BY <1>4 DEF LoadAt
    <2>2. j \in 1..Len(L.load) BY <2>1, LabFacts DEF LifeInv
    <2> QED BY <1>5, <1>7, <1>8, <2>1, <2>2 DEF GiveTidy
  <1>9. UnloadAt(1)'
    <2>1. todo' = SubSeq(L.unload, 1, Len(q)) BY <1>1, <1>5, <1>6
    <2> QED BY <1>1, <1>2, <1>4, <1>5, <1>8, <2>1 DEF UnloadAt, LoadAt
  <1>10. 1 \in 1..(Len(L.unload) + 1) BY <1>5
  <1>11. UnloadInv' BY <1>1, <1>2, <1>9, <1>10 DEF UnloadInv
  <1> QED BY <1>1, <1>2, <1>3, <1>11 DEF LifeInv, LTypeOK, LoadInv, FailedInv, Entries

\* A call starts only through an entry that is there.
LEMMA CallLife ==
  ASSUME LifeInv, NEW c \in Callers, Call(c)
  PROVE  LifeInv'
  <1>1. PICK e \in Entries : e \in held /\ call' = [call EXCEPT ![c] = e]
    BY DEF Call, Entries
  <1>2. /\ lab' = lab /\ phase' = phase /\ todo' = todo /\ held' = held
        /\ phase # "oops" /\ (phase = "unload" => ~L.pins)
    BY DEF Call
  <1>3. L' = L /\ Entries' = Entries BY <1>2, SameLab
  <1>4. call \in [Callers -> Entries \cup {NoCall}] BY DEF LifeInv, LTypeOK, Entries
  <1>5. /\ call' \in [Callers -> Entries \cup {NoCall}]
        /\ \A d \in Callers : call'[d] = call[d] \/ call'[d] = e
    BY <1>1, <1>4
  <1>6. LTypeOK' BY <1>2, <1>3, <1>5 DEF LifeInv, LTypeOK, Entries
  <1>7. EntriesBacked' BY <1>1, <1>2, <1>3, <1>5 DEF LifeInv, EntriesBacked, Entries
  <1>8. LoadInv'
    <2>1. \A k \in 1..(Len(L.load) + 1) : LoadAt(k) => LoadAt(k)'
      BY <1>1, <1>2, <1>3, <1>5 DEF LoadAt
    <2> QED BY <1>2, <1>3, <2>1 DEF LifeInv, LoadInv
  <1>9. UnloadInv'
    <2>1. ASSUME NEW k \in 1..(Len(L.unload) + 1), UnloadAt(k) PROVE UnloadAt(k)'
      BY <1>1, <1>2, <1>3, <1>5, <2>1 DEF UnloadAt
    <2> QED BY <1>2, <1>3, <2>1 DEF LifeInv, UnloadInv
  <1>10. FailedInv' BY <1>1, <1>2, <1>3, <1>5 DEF LifeInv, FailedInv
  <1> QED BY <1>3, <1>6, <1>7, <1>8, <1>9, <1>10 DEF LifeInv

LEMMA ReturnLife ==
  ASSUME LifeInv, NEW c \in Callers, Return(c)
  PROVE  LifeInv'
  <1>1. /\ lab' = lab /\ phase' = phase /\ todo' = todo /\ held' = held
        /\ call' = [call EXCEPT ![c] = NoCall]
    BY DEF Return
  <1>2. L' = L /\ Entries' = Entries BY <1>1, SameLab
  <1>3. call \in [Callers -> Entries \cup {NoCall}] BY DEF LifeInv, LTypeOK, Entries
  <1>4. /\ call' \in [Callers -> Entries \cup {NoCall}]
        /\ \A d \in Callers : call'[d] = call[d] \/ call'[d] = NoCall
    BY <1>1, <1>3
  <1>5. LTypeOK' BY <1>1, <1>2, <1>4 DEF LifeInv, LTypeOK, Entries
  <1>6. EntriesBacked' BY <1>1, <1>2, <1>4 DEF LifeInv, EntriesBacked, Entries
  <1>7. LoadInv'
    <2>1. \A k \in 1..(Len(L.load) + 1) : LoadAt(k) => LoadAt(k)'
      BY <1>1, <1>2, <1>4 DEF LoadAt
    <2> QED BY <1>1, <1>2, <2>1 DEF LifeInv, LoadInv
  <1>8. UnloadInv'
    <2>1. ASSUME NEW k \in 1..(Len(L.unload) + 1), UnloadAt(k) PROVE UnloadAt(k)'
      BY <1>1, <1>2, <1>4, <2>1 DEF UnloadAt
    <2> QED BY <1>1, <1>2, <1>4, <2>1 DEF LifeInv, UnloadInv
  <1>9. FailedInv' BY <1>1, <1>2, <1>4 DEF LifeInv, FailedInv
  <1> QED BY <1>2, <1>5, <1>6, <1>7, <1>8, <1>9 DEF LifeInv

LEMMA StutterLife ==
  ASSUME LifeInv, UNCHANGED lvars
  PROVE  LifeInv'
  <1>1. lab' = lab /\ phase' = phase /\ todo' = todo /\ held' = held /\ call' = call
    BY DEF lvars
  <1>2. L' = L /\ Entries' = Entries BY <1>1, SameLab
  <1>3. LoadInv' BY <1>1, <1>2 DEF LifeInv, LoadInv, LoadAt
  <1>4. UnloadInv'
    <2>1. ASSUME NEW k \in 1..(Len(L.unload) + 1), UnloadAt(k) PROVE UnloadAt(k)'
      BY <1>1, <1>2, <2>1 DEF UnloadAt
    <2> QED BY <1>1, <1>2, <2>1 DEF LifeInv, UnloadInv
  <1> QED BY <1>1, <1>2, <1>3, <1>4 DEF LifeInv, LTypeOK, EntriesBacked, FailedInv, Entries

LEMMA NextLife ==
  ASSUME LifeInv, [LNext]_lvars
  PROVE  LifeInv'
  BY AcquireLife, CheckPassedLife, FailureLife, IgnoredLife, OopsLife, TouchedLife, ReleaseLife,
     DrainingLife, LoadedLife, UnloadLife, UnloadedLife, CallLife, ReturnLife, StutterLife
  DEF LNext

\* Whatever fails and whoever calls, init and exit are where their tables say
\* and what is held and called follows from that position.
THEOREM LifecycleInvariance == LSpec => []LifeInv
  BY InitLife, NextLife, PTL DEF LSpec

\* For any number of callers, every call of a module finds what it touches,
\* but for the timer of test_driver and the space of ramhd_req.
THEOREM EntriesBackedTheorem == LSpec => []EntriesBacked
  <1>1. LifeInv => EntriesBacked BY DEF LifeInv
  <1> QED BY <1>1, LifecycleInvariance, PTL

\* What a module has when its exit has returned.
LEMMA GoneLeaves ==
  ASSUME LifeInv, phase = "gone"
  PROVE  /\ \A r \in held : r \in LeftByUnload[lab]
         /\ \A c \in Callers : call[c] # NoCall => call[c] \in held
  <1>1. PICK k \in 1..(Len(L.unload) + 1) : UnloadAt(k) BY DEF LifeInv, UnloadInv
  <1>2. PICK q \in Seq(Elts(L.unload)) : q = L.unload BY LabFacts DEF LifeInv
  <1>3. todo = SubSeq(q, k, Len(q)) /\ todo = <<>> BY <1>1, <1>2 DEF UnloadAt, LifeInv, UnloadInv
  <1>4. k = Len(q) + 1
    <2>1. k \in 1..(Len(q) + 1) BY <1>2
    <2>2. todo = <<>> <=> k = Len(q) + 1 BY <1>3, <2>1, SuffixStep
    <2> QED BY <1>3, <2>2
  <1>5. \A i \in k..Len(L.unload) : FALSE BY <1>2, <1>4
  <1> QED BY <1>1, <1>5 DEF UnloadAt

\* For any number of callers, no call is left in a module whose init failed or
\* whose exit returned, but for test_driver and debugfs_demo.
THEOREM NoLateCallTheorem == LSpec => []NoLateCall
  <1>1. ASSUME LifeInv PROVE NoLateCall
    <2>1. CASE phase = "failed" BY <1>1, <2>1 DEF LifeInv, FailedInv, NoLateCall
    <2>2. CASE phase = "gone"
      <3>1. ASSUME NEW c \in Callers, call[c] # NoCall PROVE lab = "debugfs_demo"
        <4>1. call[c] \in Entries /\ call[c] \in LeftByUnload[lab]
          BY <1>1, <2>2, <3>1, GoneLeaves DEF LifeInv, LTypeOK, Entries
        <4> QED BY <1>1, <4>1, LabFacts DEF LifeInv
      <3> QED BY <2>2, <3>1 DEF NoLateCall
    <2> QED BY <2>1, <2>2 DEF NoLateCall
  <1> QED BY <1>1, LifecycleInvariance, PTL

\* A failed init and an exit leave behind what is listed and nothing else, at
\* whichever step init failed and whatever was called meanwhile.
THEOREM NothingElseLeftTheorem == LSpec => []NothingElseLeft
  <1>1. ASSUME LifeInv PROVE NothingElseLeft
    BY <1>1, GoneLeaves DEF LifeInv, FailedInv, NothingElseLeft
  <1> QED BY <1>1, LifecycleInvariance, PTL
=============================================================================
