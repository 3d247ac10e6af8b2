------------------------------- MODULE Students -------------------------------
(***************************************************************************)
(* hlist/hlist2/hlist.c: students on a list until they are classified, then*)
(* on one of two hash lists by sex.  The functions are exported for other  *)
(* modules to call; there is no locking, so calls are taken one at a time. *)
(*                                                                         *)
(* A student is the address kmalloc returned for it.                       *)
(***************************************************************************)
EXTENDS Naturals, Sequences, FiniteSets

CONSTANTS
  Addrs,           \* bound: what kmalloc has to give
  Names, Sexes,
  Roster,          \* the students init_system adds: <<name, sex>> pairs
  NoStudent        \* contents of memory that is not allocated

ASSUME StudentsAssumption ==
  /\ Roster \in Seq(Names \X Sexes) /\ NoStudent \notin [m_name : Names, m_sex : Sexes]

VARIABLES
  mod,               \* "out", "init" or "loaded"
  added,             \* students init_system has tried to add
  mem,               \* the Student at each address
  g_student_list,
  g_stu_hlist        \* 0: boys, 1: girls; their order is of no consequence

svars == <<mod, added, mem, g_student_list, g_stu_hlist>>

SInit ==
  /\ mod = "out" /\ added = 0
  /\ mem = [a \in Addrs |-> NoStudent]
  /\ g_student_list = <<>> /\ g_stu_hlist = [id \in {0, 1} |-> {}]

Live == {a \in Addrs : mem[a] # NoStudent}
Listed == {g_student_list[i] : i \in DOMAIN g_student_list}

-----------------------------------------------------------------------------
\* A student of this name waits to be classified.
Conflict(name) == \E i \in DOMAIN g_student_list : mem[g_student_list[i]].m_name = name

\* add_stu succeeds ...
Added(name, sex) ==
  /\ ~Conflict(name)
  /\ \E a \in Addrs \ Live :
       /\ mem' = [mem EXCEPT ![a] = [m_name |-> name, m_sex |-> sex]]
       /\ g_student_list' = Append(g_student_list, a)
  /\ UNCHANGED g_stu_hlist

\* ... or returns -1: the name is taken, or kmalloc failed.
NotAdded == UNCHANGED <<mem, g_student_list, g_stu_hlist>>

add_stu(name, sex) ==
  /\ mod = "loaded" /\ Added(name, sex)
  /\ UNCHANGED <<mod, added>>

\* Positions of the list that hold the name; del_stu takes the first.
Named(name) == {i \in DOMAIN g_student_list : mem[g_student_list[i]].m_name = name}

del_stu(name) ==
  /\ mod = "loaded" /\ Named(name) # {}
  /\ LET i == CHOOSE i \in Named(name) : \A j \in Named(name) : i <= j
     IN  /\ mem' = [mem EXCEPT ![g_student_list[i]] = NoStudent]
         /\ g_student_list' = SubSeq(g_student_list, 1, i - 1)
                                \o SubSeq(g_student_list, i + 1, Len(g_student_list))
  /\ UNCHANGED <<mod, added, g_stu_hlist>>

\* classify_stu stops at the first student that is neither 'm' nor 'f', whom
\* it has already taken off the list.
Sex(i) == mem[g_student_list[i]].m_sex
Stop ==
  LET bad == {i \in DOMAIN g_student_list : Sex(i) \notin {"m", "f"}}
  IN  IF bad = {} THEN Len(g_student_list) + 1 ELSE CHOOSE i \in bad : \A j \in bad : i <= j
Classified(sex) == {g_student_list[i] : i \in {j \in 1..(Stop - 1) : Sex(j) = sex}}

\* Mutant: the students stay on the list as well.
Classify_copies ==
  /\ g_stu_hlist' = [g_stu_hlist EXCEPT ![0] = @ \cup Classified("m"), ![1] = @ \cup Classified("f")]
  /\ UNCHANGED <<mem, g_student_list>>

Classify ==
  /\ g_stu_hlist' = [g_stu_hlist EXCEPT ![0] = @ \cup Classified("m"), ![1] = @ \cup Classified("f")]
  /\ g_student_list' = SubSeq(g_student_list, Stop + 1, Len(g_student_list))
  /\ UNCHANGED mem

classify_stu == mod = "loaded" /\ Classify /\ UNCHANGED <<mod, added>>

-----------------------------------------------------------------------------
\* student_mgt_init: init_system adds the roster, whatever add_stu returns ...
init_system ==
  /\ mod \in {"out", "init"} /\ added < Len(Roster)
  /\ mod' = "init" /\ added' = added + 1
  /\ Added(Roster[added + 1][1], Roster[added + 1][2]) \/ NotAdded

\* ... and the students are classified.
student_mgt_init ==
  /\ mod = "init" /\ added = Len(Roster)
  /\ mod' = "loaded" /\ added' = 0
  /\ Classify

\* Mutant: clean_up_hlist stops before the last hash list.
clean_up_boys == Listed \cup g_stu_hlist[0]

\* What clean_up_list and clean_up_hlist free.
clean_up == Listed \cup g_stu_hlist[0] \cup g_stu_hlist[1]

student_mgt_exit ==
  /\ mod = "loaded" /\ mod' = "out"
  /\ mem' = [a \in Addrs |-> IF a \in clean_up THEN NoStudent ELSE mem[a]]
  /\ g_student_list' = <<>> /\ g_stu_hlist' = [id \in {0, 1} |-> {}]
  /\ UNCHANGED added

-----------------------------------------------------------------------------
SNext ==
  \/ init_system \/ student_mgt_init \/ student_mgt_exit \/ classify_stu
  \/ \E name \in Names : del_stu(name) \/ \E sex \in Sexes : add_stu(name, sex)

SSpec == SInit /\ [][SNext]_svars

-----------------------------------------------------------------------------
STypeOK ==
  /\ mod \in {"out", "init", "loaded"} /\ added \in 0..Len(Roster)
  /\ mem \in [Addrs -> [m_name : Names, m_sex : Sexes] \cup {NoStudent}]
  /\ g_student_list \in Seq(Addrs)
  /\ g_stu_hlist \in [{0, 1} -> SUBSET Addrs]

\* Every student on a list is allocated and is there once, on one of the
\* three lists: del_stu and clean_up free nothing twice and nothing dangles.
OneHome ==
  /\ Listed \cup g_stu_hlist[0] \cup g_stu_hlist[1] \subseteq Live
  /\ Len(g_student_list) + Cardinality(g_stu_hlist[0]) + Cardinality(g_stu_hlist[1])
       = Cardinality(Listed \cup g_stu_hlist[0] \cup g_stu_hlist[1])

\* All that an exit leaves allocated are students that classify_stu took for
\* neither boy nor girl.
OnlyStraysLeak == mod = "out" => \A a \in Live : mem[a].m_sex \notin {"m", "f"}
=============================================================================
