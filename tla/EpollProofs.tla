------------------------------ MODULE EpollProofs ------------------------------
(***************************************************************************)
(* For any number of clients, descriptors and lines and any buffer: the     *)
(* server's blocking calls never block, it forgets no connection that has   *)
(* something to say, and it prints for each connection what was sent there. *)
(***************************************************************************)
EXTENDS Epoll, SequenceTheorems, TLAPS

Fds == Clients \cup {Listener}
Distinct(q) == \A j, k \in DOMAIN q : q[j] = q[k] => j = k

\* A connection is in one place, and the epoll set holds nothing else.
PlaceInv ==
  /\ Distinct(backlog) /\ Distinct(rdl) /\ Distinct(events)
  /\ \A c \in Clients : Contains(backlog, c) => c \notin open /\ client[c] # "off"
  /\ \A c \in open : client[c] # "off"
  /\ interest \subseteq open \cup {Listener}
  /\ srv = "off" => open = {} /\ interest = {}

\* What is on the ready list, or was reported, is ready.
ReadyInv ==
  /\ \A f \in Fds : Contains(rdl, f) => Ready(f)
  /\ \A f \in Fds : Contains(events, f) => Ready(f)

\* Only a client that is done has closed or broken its connection.
EndInv == \A c \in Clients : fin[c] \/ rst[c] => client[c] = "done"

\* Nothing is lost or made up between a client and what is printed for it.
StreamInv == srv # "exited" => \A c \in Clients : printed[c] \o rx[c] = sent[c]

IInv ==
  /\ TypeOK /\ PlaceInv /\ ReadyInv /\ EndInv /\ OnlyDeadLeak /\ StreamInv

-----------------------------------------------------------------------------
(* Sequences without repetition. *)

LEMMA SeqOver ==
  ASSUME NEW S, NEW T, NEW q \in Seq(S), \A x \in S : Contains(q, x) => x \in T
  PROVE  q \in Seq(T)
<1>1. \A k \in 1..Len(q) : q[k] \in T
  BY DEF Contains
<1>2. QED
  BY <1>1

LEMMA SeqIn ==
  ASSUME NEW S, NEW q \in Seq(S), NEW x, Contains(q, x)
  PROVE  x \in S
BY DEF Contains

LEMMA Empty == \A x : ~Contains(<<>>, x)
BY DEF Contains

LEMMA Appended ==
  ASSUME NEW S, NEW q \in Seq(S), NEW x \in S, Distinct(q), ~Contains(q, x)
  PROVE  /\ Append(q, x) \in Seq(S) /\ Distinct(Append(q, x))
         /\ \A y : Contains(Append(q, x), y) <=> Contains(q, y) \/ y = x
<1>1. PICK u : u = Append(q, x)
  OBVIOUS
<1>2. /\ u \in Seq(S) /\ Len(u) = Len(q) + 1 /\ u[Len(q) + 1] = x /\ Len(q) \in Nat
      /\ \A k \in 1..Len(q) : u[k] = q[k]
  BY <1>1
<1>3. \A k \in 1..Len(u) : k \in 1..Len(q) \/ k = Len(q) + 1
  BY <1>2
<1>4. Distinct(u)
  <2> SUFFICES ASSUME NEW j \in 1..Len(u), NEW k \in 1..Len(u), u[j] = u[k] PROVE j = k
    BY <1>2 DEF Distinct
  <2> QED BY <1>2, <1>3 DEF Distinct, Contains
<1>5. \A y : Contains(u, y) <=> Contains(q, y) \/ y = x
  <2>1. ASSUME NEW y, Contains(u, y) PROVE Contains(q, y) \/ y = x
    BY <1>2, <1>3, <2>1 DEF Contains
  <2>2. ASSUME NEW y, Contains(q, y) PROVE Contains(u, y)
    <3>1. PICK k \in 1..Len(q) : q[k] = y
      BY <2>2 DEF Contains
    <3>2. k \in 1..Len(u) /\ u[k] = y
      BY <1>2, <3>1
    <3>3. QED
      BY <3>2 DEF Contains
  <2>3. Contains(u, x)
    BY <1>2 DEF Contains
  <2>4. QED
    BY <2>1, <2>2, <2>3
<1>6. QED
  BY <1>1, <1>2, <1>4, <1>5

LEMMA Without ==
  ASSUME NEW S, NEW q \in Seq(S), NEW k \in 1..Len(q), Distinct(q), NEW u \in Seq(S),
         Len(u) + 1 = Len(q), \A j \in 1..(k - 1) : u[j] = q[j],
         \A j \in k..(Len(q) - 1) : u[j] = q[j + 1]
  PROVE  Distinct(u) /\ \A y : Contains(u, y) <=> Contains(q, y) /\ y # q[k]
<1>1. \A j \in 1..Len(u) : \/ j < k /\ j \in 1..Len(q) /\ u[j] = q[j]
                           \/ j >= k /\ j + 1 \in 1..Len(q) /\ u[j] = q[j + 1]
  <2> SUFFICES ASSUME NEW j \in 1..Len(u)
               PROVE  \/ j < k /\ j \in 1..Len(q) /\ u[j] = q[j]
                      \/ j >= k /\ j + 1 \in 1..Len(q) /\ u[j] = q[j + 1]
    OBVIOUS
  <2>0. Len(q) \in Nat /\ Len(u) \in Nat
    BY LenProperties
  <2>1. Len(q) \in Nat /\ Len(u) \in Nat /\ Len(u) + 1 = Len(q)
    BY <2>0
  <2>2. CASE j < k
    <3>1. j \in 1..(k - 1) /\ j \in 1..Len(q)
      BY <2>1, <2>2
    <3>2. QED
      BY <2>2, <3>1
  <2>3. CASE j >= k
    <3>1. j \in k..(Len(q) - 1) /\ j + 1 \in 1..Len(q)
      BY <2>1, <2>3
    <3>2. QED
      BY <2>3, <3>1
  <2>4. QED
    BY <2>2, <2>3
<1>2. \A i, j \in 1..Len(q) : q[i] = q[j] => i = j
  BY SMTT(30) DEF Distinct
<1>3. Distinct(u)
  <2> SUFFICES ASSUME NEW i \in 1..Len(u), NEW j \in 1..Len(u), u[i] = u[j] PROVE i = j
    BY DEF Distinct
  <2> QED BY <1>1, <1>2
<1>4. ASSUME NEW y, Contains(u, y) PROVE Contains(q, y) /\ y # q[k]
  <2>1. PICK j \in 1..Len(u) : u[j] = y
    BY <1>4 DEF Contains
  <2>2. QED
    BY <1>1, <1>2, <2>1 DEF Contains
<1>5. ASSUME NEW y, Contains(q, y), y # q[k] PROVE Contains(u, y)
  <2>1. PICK j \in 1..Len(q) : q[j] = y
    BY <1>5 DEF Contains
  <2>2. CASE j < k
    <3>1. j \in 1..Len(u) /\ u[j] = y
      BY <2>1, <2>2
    <3>2. QED
      BY <3>1 DEF Contains
  <2>3. CASE j > k
    <3>1. j - 1 \in 1..Len(u) /\ j - 1 \in k..(Len(q) - 1)
      BY <2>1, <2>3
    <3>2. u[j - 1] = q[(j - 1) + 1]
      BY <3>1
    <3>3. u[j - 1] = y
      BY <2>1, <3>2
    <3>4. QED
      BY <3>1, <3>3 DEF Contains
  <2>4. QED
    BY <1>5, <2>1, <2>2, <2>3
<1>6. QED
  BY <1>3, <1>4, <1>5

LEMMA Popped ==
  ASSUME NEW S, NEW q \in Seq(S), q # <<>>, Distinct(q)
  PROVE  /\ Tail(q) \in Seq(S) /\ Distinct(Tail(q)) /\ Head(q) \in S /\ Contains(q, Head(q))
         /\ \A y : Contains(Tail(q), y) <=> Contains(q, y) /\ y # Head(q)
<1>1. PICK u : u = Tail(q)
  OBVIOUS
<1>2. /\ u \in Seq(S) /\ Len(u) + 1 = Len(q) /\ 1 \in 1..Len(q)
      /\ \A j \in 1..(1 - 1) : u[j] = q[j]
      /\ \A j \in 1..(Len(q) - 1) : u[j] = q[j + 1]
      /\ Head(q) = q[1]
  BY <1>1
<1>3. Distinct(u) /\ \A y : Contains(u, y) <=> Contains(q, y) /\ y # q[1]
  BY <1>2, Without
<1>4. QED
  BY <1>1, <1>2, <1>3 DEF Contains

LEMMA Unlinked ==
  ASSUME NEW S, NEW q \in Seq(S), Distinct(q), NEW f
  PROVE  /\ Unlink(q, f) \in Seq(S) /\ Distinct(Unlink(q, f))
         /\ \A y : Contains(Unlink(q, f), y) <=> Contains(q, y) /\ y # f
<1>1. CASE ~Contains(q, f)
  BY <1>1 DEF Unlink
<1>2. CASE Contains(q, f)
  <2>1. PICK k \in 1..Len(q) : k = CHOOSE i \in DOMAIN q : q[i] = f
    BY <1>2 DEF Contains
  <2>2. q[k] = f
    BY <1>2, <2>1 DEF Contains
  <2>3. PICK a, b : a = SubSeq(q, 1, k - 1) /\ b = SubSeq(q, k + 1, Len(q))
    OBVIOUS
  <2>4. PICK u : u = a \o b
    OBVIOUS
  <2>5. Unlink(q, f) = u
    BY <1>2, <2>1, <2>3, <2>4 DEF Unlink, RemoveAt
  <2>6. /\ a \in Seq(S) /\ Len(a) = k - 1 /\ \A i \in 1..(k - 1) : a[i] = q[i]
        /\ b \in Seq(S) /\ Len(b) = Len(q) - k
        /\ \A i \in 1..(Len(q) - k) : b[i] = q[k + i]
    BY <2>3
  <2>7. /\ u \in Seq(S) /\ Len(u) + 1 = Len(q)
        /\ \A j \in 1..(Len(q) - 1) : u[j] = IF j <= k - 1 THEN a[j] ELSE b[j - (k - 1)]
    <3>1. /\ u \in Seq(S) /\ Len(u) = Len(a) + Len(b)
          /\ \A j \in 1..(Len(a) + Len(b)) : u[j] = IF j <= Len(a) THEN a[j] ELSE b[j - Len(a)]
      BY <2>4, <2>6, ConcatProperties
    <3>2. Len(a) + Len(b) = Len(q) - 1
      BY <2>6
    <3>3. QED
      BY <2>6, <3>1, <3>2, SMTT(30)
  <2>8. ASSUME NEW j \in 1..(k - 1) PROVE u[j] = q[j]
    <3>1. j \in 1..(Len(q) - 1) /\ j <= k - 1
      OBVIOUS
    <3>2. u[j] = a[j]
      BY <2>7, <3>1
    <3>3. QED
      BY <2>6, <3>2
  <2>9. ASSUME NEW j \in k..(Len(q) - 1) PROVE u[j] = q[j + 1]
    <3>1. j - (k - 1) \in 1..(Len(q) - k) /\ k + (j - (k - 1)) = j + 1
      OBVIOUS
    <3>2. b[j - (k - 1)] = q[k + (j - (k - 1))]
      BY <2>6, <3>1
    <3>3. u[j] = b[j - (k - 1)]
      BY <2>7
    <3>4. QED
      BY <3>1, <3>2, <3>3
  <2>10. Distinct(u) /\ \A y : Contains(u, y) <=> Contains(q, y) /\ y # f
    BY <2>2, <2>7, <2>8, <2>9, Without
  <2>11. QED
    BY <2>5, <2>7, <2>10
<1>3. QED
  BY <1>1, <1>2

\* a is the first n entries of q, u the last m followed by a.
Turned(q, a, u, m, n) ==
  /\ Len(q) = m + n /\ DOMAIN q = 1..(m + n)
  /\ Len(a) = n /\ DOMAIN a = 1..n /\ Len(u) = m + n /\ DOMAIN u = 1..(m + n)
  /\ \A i \in 1..n : a[i] = q[i]
  /\ \A i \in 1..m : u[i] = q[n + i]
  /\ \A i \in 1..n : u[m + i] = q[i]

LEMMA RotatedBy ==
  ASSUME NEW q, NEW a, NEW u, NEW m \in Nat, NEW n \in Nat, Distinct(q), Turned(q, a, u, m, n)
  PROVE  /\ Distinct(a) /\ \A y : Contains(a, y) => Contains(q, y)
         /\ Distinct(u) /\ \A y : Contains(u, y) => Contains(q, y)
<1>0. /\ Len(q) = m + n /\ DOMAIN q = 1..(m + n)
      /\ Len(a) = n /\ DOMAIN a = 1..n /\ Len(u) = m + n /\ DOMAIN u = 1..(m + n)
      /\ \A i \in 1..n : a[i] = q[i]
      /\ \A i \in 1..m : u[i] = q[n + i]
      /\ \A i \in 1..n : u[m + i] = q[i]
  BY DEF Turned
<1>1. \A i, j \in 1..(m + n) : q[i] = q[j] => i = j
  BY <1>0 DEF Distinct
<1>2. Distinct(a) /\ \A y : Contains(a, y) => Contains(q, y)
  <2>1. \A i \in 1..n : i \in 1..(m + n)
    OBVIOUS
  <2>2. Distinct(a)
    BY <1>0, <1>1, <2>1 DEF Distinct
  <2>3. \A y : Contains(a, y) => Contains(q, y)
    BY <1>0, <2>1 DEF Contains
  <2>4. QED
    BY <2>2, <2>3
<1>3. ASSUME NEW i \in 1..(m + n)
      PROVE  \/ i <= m /\ n + i \in 1..(m + n) /\ u[i] = q[n + i]
             \/ i > m /\ i - m \in 1..n /\ i - m \in 1..(m + n) /\ u[i] = q[i - m]
  <2>1. CASE i <= m
    BY <1>0, <2>1
  <2>2. CASE i > m
    <3>1. i - m \in 1..n /\ i - m \in 1..(m + n) /\ m + (i - m) = i
      BY <2>2
    <3>2. u[m + (i - m)] = q[i - m]
      BY <1>0, <3>1
    <3>3. QED
      BY <2>2, <3>1, <3>2
  <2>3. QED
    BY <2>1, <2>2
<1>4. Distinct(u)
  <2> SUFFICES ASSUME NEW i \in 1..(m + n), NEW j \in 1..(m + n), u[i] = u[j] PROVE i = j
    BY <1>0 DEF Distinct
  <2>1. CASE i <= m /\ j <= m
    BY <1>1, <1>3, <2>1
  <2>2. CASE i > m /\ j > m
    BY <1>1, <1>3, <2>2
  <2>3. CASE i <= m /\ j > m
    BY <1>1, <1>3, <2>3
  <2>4. CASE i > m /\ j <= m
    BY <1>1, <1>3, <2>4
  <2>5. QED
    BY <2>1, <2>2, <2>3, <2>4
<1>5. \A y : Contains(u, y) => Contains(q, y)
  BY <1>0, <1>3 DEF Contains
<1>6. QED
  BY <1>2, <1>4, <1>5

\* epoll_wait moves the first n entries to the end and reports them.
LEMMA Rotated ==
  ASSUME NEW S, NEW q \in Seq(S), Distinct(q), NEW n \in 0..Len(q)
  PROVE  LET a == SubSeq(q, 1, n)
             u == SubSeq(q, n + 1, Len(q)) \o SubSeq(q, 1, n)
         IN  /\ a \in Seq(S) /\ Distinct(a) /\ \A y : Contains(a, y) => Contains(q, y)
             /\ u \in Seq(S) /\ Distinct(u) /\ \A y : Contains(u, y) => Contains(q, y)
<1>1. PICK a, b : a = SubSeq(q, 1, n) /\ b = SubSeq(q, n + 1, Len(q))
  OBVIOUS
<1>2. PICK m \in Nat : m = Len(q) - n /\ Len(q) = m + n /\ n \in Nat
  OBVIOUS
<1>3. /\ a \in Seq(S) /\ Len(a) = n /\ \A i \in 1..n : a[i] = q[i]
      /\ b \in Seq(S) /\ Len(b) = m /\ \A i \in 1..m : b[i] = q[n + i]
  BY <1>1, <1>2
<1>4. PICK u : u = b \o a
  OBVIOUS
<1>5. /\ u \in Seq(S) /\ Len(u) = Len(b) + Len(a)
      /\ \A i \in 1..(Len(b) + Len(a)) : u[i] = IF i <= Len(b) THEN b[i] ELSE a[i - Len(b)]
  BY <1>3, <1>4, ConcatProperties
<1>6. /\ DOMAIN a = 1..n /\ DOMAIN u = 1..(m + n) /\ DOMAIN q = 1..(m + n) /\ Len(u) = m + n
  BY <1>2, <1>3, <1>5
<1>7. \A i \in 1..(m + n) : u[i] = IF i <= m THEN b[i] ELSE a[i - m]
  BY <1>3, <1>5
<1>8. \A i \in 1..m : u[i] = q[n + i]
  <2> SUFFICES ASSUME NEW i \in 1..m PROVE u[i] = q[n + i]
    OBVIOUS
  <2>1. i \in 1..(m + n) /\ i <= m
    BY <1>2
  <2>2. QED
    BY <1>3, <1>7, <2>1
<1>9. \A i \in 1..n : u[m + i] = q[i]
  <2> SUFFICES ASSUME NEW i \in 1..n PROVE u[m + i] = q[i]
    OBVIOUS
  <2>1. m + i \in 1..(m + n) /\ ~(m + i <= m) /\ (m + i) - m = i
    BY <1>2
  <2>2. u[m + i] = a[(m + i) - m]
    BY <1>7, <2>1
  <2>3. QED
    BY <1>3, <2>1, <2>2
<1>10. /\ Distinct(a) /\ \A y : Contains(a, y) => Contains(q, y)
       /\ Distinct(u) /\ \A y : Contains(u, y) => Contains(q, y)
  <2>1. Turned(q, a, u, m, n)
    BY <1>2, <1>3, <1>6, <1>8, <1>9 DEF Turned
  <2>2. QED
    BY <1>2, <2>1, RotatedBy
<1>11. QED
  BY <1>1, <1>3, <1>4, <1>5, <1>10

-----------------------------------------------------------------------------
(* The state, and the steps that leave most of it alone. *)

LEMMA Names == Listener \notin Clients /\ Listener \in Fds /\ Clients \subseteq Fds
BY DEF Listener, Clients, Fds

LEMMA Typing ==
  ASSUME TypeOK
  PROVE  /\ backlog \in Seq(Clients) /\ rdl \in Seq(interest) /\ rdl \in Seq(Fds)
         /\ events \in Seq(Fds) /\ open \subseteq Clients /\ interest \subseteq Fds
         /\ rx \in [Clients -> Seq(1..MaxLines)]
<1>1. rdl \in Seq(interest) /\ interest \subseteq Fds
  BY DEF TypeOK, Fds
<1>2. rdl \in Seq(Fds)
  BY <1>1, SeqMonotonic
<1>3. QED
  BY <1>1, <1>2 DEF TypeOK, Fds

LEMMA InitIInv == Init => IInv
<1> SUFFICES ASSUME Init PROVE IInv
  OBVIOUS
<1>1. TypeOK
  <2>1. buf \in [1..BUFLEN -> 0..MaxLines]
    BY EpollAssumption DEF Init
  <2>2. QED
    BY <2>1, EpollAssumption DEF Init, TypeOK
<1>2. PlaceInv
  BY Empty DEF Init, PlaceInv, Distinct
<1>3. ReadyInv
  BY Empty DEF Init, ReadyInv
<1>4. EndInv /\ OnlyDeadLeak
  BY DEF Init, EndInv, OnlyDeadLeak
<1>5. StreamInv
  <2>1. \A c \in Clients : printed[c] = <<>> /\ rx[c] = <<>> /\ sent[c] = <<>>
    BY DEF Init
  <2>2. <<>> \o <<>> = <<>>
    OBVIOUS
  <2>3. QED
    BY <2>1, <2>2, Zenon DEF StreamInv
<1>6. QED
  BY <1>1, <1>2, <1>3, <1>4, <1>5 DEF IInv

LEMMA StutterIInv ==
  ASSUME IInv, UNCHANGED vars
  PROVE  IInv'
<1>1. UNCHANGED <<srv, backlog, open, interest, rdl, events, buf, client, lines, rx, fin, rst,
                sent, printed>>
  BY DEF vars, epoll, sockets, streams
<1>2. TypeOK' /\ PlaceInv' /\ EndInv' /\ OnlyDeadLeak'
  BY <1>1 DEF IInv, TypeOK, PlaceInv, EndInv, OnlyDeadLeak
<1>3. ReadyInv' /\ StreamInv'
  BY <1>1 DEF IInv, ReadyInv, Ready, StreamInv
<1>4. QED
  BY <1>2, <1>3 DEF IInv

LEMMA WakeFacts ==
  ASSUME IInv, NEW f \in Fds
  PROVE  /\ Wake(f) \in Seq(interest) /\ Distinct(Wake(f))
         /\ \A x : Contains(Wake(f), x) => Contains(rdl, x) \/ x = f
<1>1. rdl \in Seq(interest) /\ Distinct(rdl)
  BY DEF IInv, TypeOK, PlaceInv
<1>2. CASE f \in interest /\ ~Contains(rdl, f)
  <2>1. Wake(f) = Append(rdl, f)
    BY <1>2 DEF Wake
  <2>2. QED
    BY <1>1, <1>2, <2>1, Appended
<1>3. CASE ~(f \in interest /\ ~Contains(rdl, f))
  <2>1. Wake(f) = rdl
    BY <1>3 DEF Wake
  <2>2. QED
    BY <1>1, <2>1
<1>4. QED
  BY <1>2, <1>3

\* A step that makes f ready and nothing else unready.
LEMMA WakeReady ==
  ASSUME IInv, NEW f \in Fds, rdl' = Wake(f), events' = events,
         f \in interest => Ready(f)', \A x \in Fds : Ready(x) => Ready(x)'
  PROVE  ReadyInv'
<1>1. ASSUME NEW x \in Fds, Contains(rdl', x) PROVE Ready(x)'
  <2>1. Contains(rdl, x) \/ x = f
    BY <1>1, WakeFacts
  <2>2. x \in interest
    <3>1. rdl' \in Seq(interest)
      BY WakeFacts
    <3>2. QED
      BY <1>1, <3>1, SeqIn
  <2>3. QED
    BY <2>1, <2>2 DEF IInv, ReadyInv
<1>2. ASSUME NEW x \in Fds, Contains(events', x) PROVE Ready(x)'
  BY <1>2 DEF IInv, ReadyInv
<1>3. QED
  BY <1>1, <1>2 DEF ReadyInv

LEMMA StartIInv ==
  ASSUME IInv, Start
  PROVE  IInv'
<1>1. /\ srv = "off" /\ srv' \in {"up", "exited"} /\ interest' \in {interest, {Listener}}
      /\ UNCHANGED <<backlog, open, rdl, events, buf, client, lines, rx, fin, rst, sent, printed>>
  BY DEF Start, sockets, streams
<1>2. interest = {} /\ open = {}
  BY <1>1 DEF IInv, PlaceInv
<1>3. rdl \in Seq(interest')
  <2>1. interest \subseteq interest' /\ rdl \in Seq(interest)
    BY <1>1, <1>2 DEF IInv, TypeOK
  <2>2. QED
    BY <2>1, SeqMonotonic
<1>4. TypeOK'
  BY <1>1, <1>3 DEF IInv, TypeOK
<1>5. PlaceInv'
  BY <1>1, <1>2 DEF IInv, PlaceInv
<1>6. ReadyInv' /\ StreamInv' /\ EndInv'
  BY <1>1 DEF IInv, ReadyInv, Ready, StreamInv, EndInv
<1>7. OnlyDeadLeak'
  BY <1>1, <1>2 DEF OnlyDeadLeak
<1>8. QED
  BY <1>4, <1>5, <1>6, <1>7 DEF IInv

LEMMA WaitIInv ==
  ASSUME IInv, epoll_wait
  PROVE  IInv'
<1>1. UNCHANGED <<srv, backlog, open, interest, buf, client, lines, rx, fin, rst,
                sent, printed>>
  BY DEF epoll_wait, sockets, streams
<1>2. rdl \in Seq(interest) /\ Distinct(rdl) /\ interest \subseteq Fds
  BY Typing DEF IInv, PlaceInv
<1>3. PICK n \in 0..Len(rdl) :
        /\ events' = SubSeq(rdl, 1, n)
        /\ rdl' = SubSeq(rdl, n + 1, Len(rdl)) \o SubSeq(rdl, 1, n)
  <2>1. Len(rdl) \in Nat /\ epoll_num \in Nat
    BY <1>2, LenProperties, EpollAssumption
  <2>2. PICK n : n = IF Len(rdl) < epoll_num THEN Len(rdl) ELSE epoll_num
    OBVIOUS
  <2>3. n \in 0..Len(rdl)
    BY <2>1, <2>2
  <2>4. /\ events' = SubSeq(rdl, 1, n)
        /\ rdl' = SubSeq(rdl, n + 1, Len(rdl)) \o SubSeq(rdl, 1, n)
    BY <2>2, Zenon DEF epoll_wait
  <2>5. QED
    BY <2>3, <2>4
<1>4. /\ events' \in Seq(interest) /\ Distinct(events')
      /\ \A y : Contains(events', y) => Contains(rdl, y)
      /\ rdl' \in Seq(interest) /\ Distinct(rdl') /\ \A y : Contains(rdl', y) => Contains(rdl, y)
  BY <1>2, <1>3, Rotated
<1>5. events' \in Seq(Fds)
  BY <1>2, <1>4, SeqMonotonic
<1>6. TypeOK'
  BY <1>1, <1>4, <1>5 DEF IInv, TypeOK, Fds
<1>7. PlaceInv'
  BY <1>1, <1>4 DEF IInv, PlaceInv
<1>8. ReadyInv'
  BY <1>1, <1>4 DEF IInv, ReadyInv, Ready
<1>9. EndInv' /\ OnlyDeadLeak' /\ StreamInv'
  BY <1>1 DEF IInv, EndInv, OnlyDeadLeak, StreamInv
<1>10. QED
  BY <1>6, <1>7, <1>8, <1>9 DEF IInv

LEMMA AcceptErrorIInv ==
  ASSUME IInv, AcceptError
  PROVE  IInv'
<1>1. /\ srv' = "exited" /\ open' = {} /\ interest' = {}
      /\ backlog' = <<>> /\ rdl' = <<>> /\ events' = <<>>
      /\ buf' = [i \in 1..BUFLEN |-> 0]
      /\ rx' = [c \in Clients |-> <<>>]
      /\ fin' = [c \in Clients |-> FALSE] /\ rst' = [c \in Clients |-> FALSE]
      /\ UNCHANGED <<client, lines, sent, printed>>
  BY DEF AcceptError, streams
<1>2. TypeOK'
  <2>1. buf' \in [1..BUFLEN -> 0..MaxLines]
    BY <1>1, EpollAssumption
  <2>2. QED
    BY <1>1, <2>1 DEF IInv, TypeOK
<1>3. PlaceInv'
  BY <1>1, Empty DEF PlaceInv, Distinct
<1>4. ReadyInv' /\ EndInv' /\ OnlyDeadLeak'
  BY <1>1, Empty DEF ReadyInv, EndInv, OnlyDeadLeak
<1>5. StreamInv'
  BY <1>1 DEF StreamInv
<1>6. QED
  BY <1>2, <1>3, <1>4, <1>5 DEF IInv

-----------------------------------------------------------------------------
(* The server's calls. *)

LEMMA AcceptIInv ==
  ASSUME IInv, Accept
  PROVE  IInv'
<1>1. /\ srv = "up" /\ events # <<>> /\ Head(events) = Listener /\ backlog # <<>>
      /\ events' = Tail(events) /\ backlog' = Tail(backlog)
      /\ UNCHANGED <<srv, buf, client, lines, rx, fin, rst, sent, printed>>
  BY DEF Accept, Ready, sockets, streams
<1>2. /\ backlog \in Seq(Clients) /\ rdl \in Seq(interest) /\ events \in Seq(Fds)
      /\ open \subseteq Clients /\ interest \subseteq Fds
      /\ Distinct(backlog) /\ Distinct(rdl) /\ Distinct(events)
  BY Typing DEF IInv, PlaceInv
<1>3. PICK c \in Clients : c = Head(backlog) /\ Contains(backlog, c)
  BY <1>1, <1>2, Popped
<1>4. PICK rest : rest = IF Len(backlog) = 1 THEN Unlink(rdl, Listener) ELSE rdl
  OBVIOUS
<1>5. /\ open' = open \cup {c} /\ interest' = interest \cup {c}
      /\ rdl' = IF Ready(c) THEN Append(rest, c) ELSE rest
  BY <1>3, <1>4, Zenon DEF Accept
<1>6. c \notin open /\ client[c] # "off" /\ c \notin interest /\ c # Listener
  BY <1>3, Names DEF IInv, PlaceInv
<1>7. /\ rest \in Seq(interest) /\ Distinct(rest) /\ \A x : Contains(rest, x) => Contains(rdl, x)
      /\ Contains(rest, Listener) => Len(backlog) # 1
  <2>1. CASE Len(backlog) = 1
    BY <1>2, <1>4, <2>1, Unlinked
  <2>2. CASE Len(backlog) # 1
    BY <1>2, <1>4, <2>2
  <2>3. QED
    BY <2>1, <2>2
<1>8. rest \in Seq(interest') /\ ~Contains(rest, c) /\ c \in interest'
  <2>1. interest \subseteq interest'
    BY <1>5
  <2>2. rest \in Seq(interest')
    BY <1>7, <2>1, SeqMonotonic
  <2>3. ~Contains(rest, c)
    BY <1>6, <1>7, SeqIn
  <2>4. QED
    BY <1>5, <2>2, <2>3
<1>9. /\ rdl' \in Seq(interest') /\ Distinct(rdl')
      /\ \A x : Contains(rdl', x) => Contains(rest, x) \/ (x = c /\ Ready(c))
  <2>1. CASE Ready(c)
    <3>1. rdl' = Append(rest, c)
      BY <1>5, <2>1
    <3>2. QED
      BY <1>7, <1>8, <2>1, <3>1, Appended
  <2>2. CASE ~Ready(c)
    BY <1>5, <1>7, <1>8, <2>2
  <2>3. QED
    BY <2>1, <2>2
<1>10. /\ events' \in Seq(Fds) /\ Distinct(events')
       /\ \A x : Contains(events', x) => Contains(events, x) /\ x # Listener
  BY <1>1, <1>2, Popped
<1>11. /\ backlog' \in Seq(Clients) /\ Distinct(backlog')
       /\ \A x : Contains(backlog', x) => Contains(backlog, x) /\ x # c
  BY <1>1, <1>2, <1>3, Popped
<1>12. TypeOK'
  BY <1>1, <1>2, <1>5, <1>9, <1>10, <1>11 DEF IInv, TypeOK, Fds
<1>13. PlaceInv'
  <2>1. Distinct(backlog') /\ Distinct(rdl') /\ Distinct(events')
    BY <1>9, <1>10, <1>11
  <2>2. \A d \in Clients : Contains(backlog', d) => d \notin open' /\ client'[d] # "off"
    BY <1>1, <1>5, <1>11 DEF IInv, PlaceInv
  <2>3. \A d \in open' : client'[d] # "off"
    BY <1>1, <1>5, <1>6 DEF IInv, PlaceInv
  <2>4. interest' \subseteq open' \cup {Listener} /\ srv' # "off"
    BY <1>1, <1>5 DEF IInv, PlaceInv
  <2>5. QED
    BY <2>1, <2>2, <2>3, <2>4 DEF PlaceInv
<1>14. ReadyInv'
  <2>1. \A x \in Clients : Ready(x) => Ready(x)'
    BY <1>1, Names DEF Ready
  <2>2. Len(backlog) # 1 => Ready(Listener)'
    <3>1. Len(backlog') = Len(backlog) - 1 /\ Len(backlog) \in Nat /\ Len(backlog) # 0
      BY <1>1, <1>2
    <3>2. Len(backlog) # 1 => Len(backlog') # 0
      BY <3>1
    <3>3. Len(backlog) # 1 => backlog' # <<>>
      BY <3>2
    <3>4. QED
      BY <3>3 DEF Ready
  <2>3. ASSUME NEW x \in Fds, Contains(rdl', x) PROVE Ready(x)'
    <3>1. CASE x = Listener
      BY <1>6, <1>7, <1>9, <2>2, <2>3, <3>1
    <3>2. CASE x \in Clients
      <4>1. Ready(x)
        BY <1>7, <1>9, <2>3 DEF IInv, ReadyInv
      <4>2. QED
        BY <2>1, <3>2, <4>1
    <3>3. QED
      BY <3>1, <3>2 DEF Fds
  <2>4. ASSUME NEW x \in Fds, Contains(events', x) PROVE Ready(x)'
    <3>1. Ready(x) /\ x \in Clients
      BY <1>10, <2>4 DEF IInv, ReadyInv, Fds
    <3>2. QED
      BY <2>1, <3>1
  <2>5. QED
    BY <2>3, <2>4 DEF ReadyInv
<1>15. EndInv' /\ StreamInv'
  BY <1>1 DEF IInv, EndInv, StreamInv
<1>16. OnlyDeadLeak'
  BY <1>1, <1>5 DEF IInv, OnlyDeadLeak
<1>17. QED
  BY <1>12, <1>13, <1>14, <1>15, <1>16 DEF IInv

\* What a read takes of a socket, and what it leaves.
LEMMA Parts ==
  ASSUME NEW S, NEW q \in Seq(S), NEW n \in 0..Len(q)
  PROVE  LET a == SubSeq(q, 1, n)
             b == SubSeq(q, n + 1, Len(q))
         IN  /\ a \in Seq(S) /\ Len(a) = n /\ \A i \in 1..n : a[i] = q[i]
             /\ b \in Seq(S) /\ Len(b) = Len(q) - n
             /\ \A i \in 1..(Len(q) - n) : b[i] = q[n + i]
<1>1. PICK a, b : a = SubSeq(q, 1, n) /\ b = SubSeq(q, n + 1, Len(q))
  OBVIOUS
<1>2. PICK m \in Nat : m = Len(q) - n /\ Len(q) = m + n /\ n \in Nat
  OBVIOUS
<1>3. a \in Seq(S) /\ Len(a) = n /\ \A i \in 1..n : a[i] = q[i]
  BY <1>1, <1>2
<1>4. b \in Seq(S) /\ Len(b) = m /\ \A i \in 1..m : b[i] = q[n + i]
  BY <1>1, <1>2
<1>5. QED
  BY <1>1, <1>2, <1>3, <1>4

\* memset's zeros are all that ends what printf prints: it is what was read.
LEMMA Terminated ==
  ASSUME NEW q \in Seq(1..MaxLines), NEW n \in 0..Len(q), n <= BUFLEN,
         NEW b, b = [i \in 1..BUFLEN |-> IF i <= n THEN q[i] ELSE 0]
  PROVE  b \in [1..BUFLEN -> 0..MaxLines] /\ Printable(b) = SubSeq(q, 1, n)
<1>0. BUFLEN \in Nat /\ MaxLines \in Nat /\ Len(q) \in Nat /\ n \in Nat /\ n <= Len(q)
  BY EpollAssumption, LenProperties
<1>1. \A i \in 1..n : i \in 1..Len(q) /\ i \in 1..BUFLEN
  BY <1>0
<1>2. \A i \in 1..n : b[i] = q[i] /\ q[i] \in 1..MaxLines
  <2> SUFFICES ASSUME NEW i \in 1..n PROVE b[i] = q[i] /\ q[i] \in 1..MaxLines
    OBVIOUS
  <2>1. i <= n /\ i \in 1..BUFLEN /\ i \in 1..Len(q)
    BY <1>0, <1>1
  <2>2. q[i] \in 1..MaxLines
    BY <2>1, ElementOfSeq
  <2>3. QED
    BY <2>1, <2>2
<1>3. \A i \in 1..n : b[i] # 0
  BY <1>0, <1>2
<1>4. n < BUFLEN => b[n + 1] = 0
  BY <1>0
<1>5. b \in [1..BUFLEN -> 0..MaxLines]
  <2>1. \A x \in 1..MaxLines : x \in 0..MaxLines
    BY <1>0
  <2>2. 0 \in 0..MaxLines
    BY <1>0
  <2>3. ASSUME NEW i \in 1..BUFLEN PROVE (IF i <= n THEN q[i] ELSE 0) \in 0..MaxLines
    <3>1. CASE i <= n
      <4>1. i \in 1..n
        BY <1>0, <3>1
      <4>2. QED
        BY <1>2, <2>1, <3>1, <4>1
    <3>2. CASE ~(i <= n)
      BY <2>2, <3>2
    <3>3. QED
      BY <3>1, <3>2
  <2>4. QED
    BY <2>3
<1> DEFINE Stops(m) == /\ \A i \in 1..m : b[i] # 0
                       /\ m < BUFLEN => b[m + 1] = 0
<1>6. n \in 0..BUFLEN /\ Stops(n)
  BY <1>0, <1>3, <1>4
<1>7. PICK m : m = strlen(b)
  OBVIOUS
<1>8. m \in 0..BUFLEN /\ Stops(m)
  BY <1>6, <1>7, Zenon DEF strlen
<1>9. m = n
  <2>1. ASSUME m < n PROVE FALSE
    <3>1. m + 1 \in 1..n /\ m < BUFLEN
      BY <1>0, <1>8, <2>1
    <3>2. QED
      BY <1>3, <1>8, <3>1
  <2>2. ASSUME n < m PROVE FALSE
    <3>1. n + 1 \in 1..m /\ n < BUFLEN
      BY <1>0, <1>8, <2>2
    <3>2. QED
      BY <1>4, <1>8, <3>1
  <2>3. m \in Nat
    BY <1>0, <1>8
  <2>4. QED
    BY <1>0, <2>1, <2>2, <2>3
<1>10. Printable(b) = [i \in 1..m |-> b[i]]
  BY <1>7, Zenon DEF Printable
<1>11. PICK a : a = SubSeq(q, 1, n)
  OBVIOUS
<1>12. a \in Seq(1..MaxLines) /\ Len(a) = n /\ \A i \in 1..n : a[i] = q[i]
  BY <1>11, Parts
<1>13. [i \in 1..n |-> b[i]] = a
  <2>1. a = [i \in 1..n |-> a[i]]
    BY <1>0, <1>12
  <2>2. \A i \in 1..n : a[i] = b[i]
    BY <1>2, <1>12
  <2>3. QED
    BY <2>1, <2>2
<1>14. QED
  BY <1>5, <1>9, <1>10, <1>11, <1>13, Zenon

\* What is read moves from the socket to what was printed.
LEMMA Carried ==
  ASSUME NEW S, NEW p \in Seq(S), NEW q \in Seq(S), NEW n \in 0..Len(q)
  PROVE  (p \o SubSeq(q, 1, n)) \o SubSeq(q, n + 1, Len(q)) = p \o q
<1>1. PICK a, b : a = SubSeq(q, 1, n) /\ b = SubSeq(q, n + 1, Len(q))
  OBVIOUS
<1>2. PICK m \in Nat : m = Len(q) - n /\ Len(q) = n + m /\ n \in Nat
  OBVIOUS
<1>3. /\ a \in Seq(S) /\ Len(a) = n /\ \A i \in 1..n : a[i] = q[i]
      /\ b \in Seq(S) /\ Len(b) = m /\ \A i \in 1..m : b[i] = q[n + i]
  BY <1>1, <1>2, Parts
<1>4. PICK u : u = a \o b
  OBVIOUS
<1>5. /\ u \in Seq(S) /\ Len(u) = n + m
      /\ \A i \in 1..(n + m) : u[i] = IF i <= n THEN a[i] ELSE b[i - n]
  <2>1. /\ u \in Seq(S) /\ Len(u) = Len(a) + Len(b)
        /\ \A i \in 1..(Len(a) + Len(b)) : u[i] = IF i <= Len(a) THEN a[i] ELSE b[i - Len(a)]
    BY <1>3, <1>4, ConcatProperties
  <2>2. QED
    BY <1>3, <2>1
<1>6. ASSUME NEW i \in 1..(n + m) PROVE u[i] = q[i]
  <2>1. CASE i <= n
    <3>1. i \in 1..n
      BY <1>2, <2>1
    <3>2. QED
      BY <1>3, <1>5, <2>1, <3>1
  <2>2. CASE i > n
    <3>1. i - n \in 1..m /\ n + (i - n) = i
      BY <1>2, <2>2
    <3>2. b[i - n] = q[n + (i - n)]
      BY <1>3, <3>1
    <3>3. u[i] = b[i - n]
      BY <1>2, <1>5, <2>2
    <3>4. QED
      BY <3>1, <3>2, <3>3
  <2>3. QED
    BY <1>2, <2>1, <2>2
<1>7. u = q
  BY <1>2, <1>5, <1>6, SeqEqual
<1>8. (p \o a) \o b = p \o (a \o b)
  BY <1>3, ConcatAssociative, SMTT(30)
<1>9. QED
  BY <1>1, <1>4, <1>7, <1>8, Zenon

LEMMA ReadIInv ==
  ASSUME IInv, NEW c \in Clients, Read(c)
  PROVE  IInv'
<1>1. /\ srv = "up" /\ events # <<>> /\ Head(events) = c /\ Ready(c)
      /\ events' = Tail(events)
      /\ UNCHANGED <<srv, backlog, open, client, lines, sent>>
  BY DEF Read, NextEvent
<1>2. /\ rdl \in Seq(interest) /\ events \in Seq(Fds) /\ open \subseteq Clients
      /\ interest \subseteq Fds /\ rx \in [Clients -> Seq(1..MaxLines)]
      /\ Distinct(rdl) /\ Distinct(events) /\ c # Listener
  BY Typing, Names DEF IInv, PlaceInv
<1>3. PICK q \in Seq(1..MaxLines) : q = rx[c]
  BY <1>2
<1>4. PICK n \in 0..Len(q) :
        /\ n = (IF Len(q) < BUFLEN THEN Len(q) ELSE BUFLEN) /\ n <= BUFLEN
        /\ buf' = [i \in 1..BUFLEN |-> IF i <= n THEN q[i] ELSE 0]
        /\ rx' = [rx EXCEPT ![c] = SubSeq(q, n + 1, Len(q))]
        /\ printed' = IF n > 0 THEN [printed EXCEPT ![c] = @ \o Printable(buf')] ELSE printed
  <2>1. Len(q) \in Nat /\ BUFLEN \in Nat
    BY LenProperties, EpollAssumption
  <2>2. PICK n : n = IF Len(q) < BUFLEN THEN Len(q) ELSE BUFLEN
    OBVIOUS
  <2>3. n \in 0..Len(q) /\ n <= BUFLEN
    BY <2>1, <2>2
  <2>4. /\ buf' = [i \in 1..BUFLEN |-> IF i <= n THEN q[i] ELSE Cleared[i]]
        /\ rx' = [rx EXCEPT ![c] = SubSeq(q, n + 1, Len(q))]
        /\ printed' = IF n > 0 THEN [printed EXCEPT ![c] = @ \o Printable(buf')] ELSE printed
    BY <1>3, <2>2, Zenon DEF Read
  <2>5. \A i \in 1..BUFLEN : Cleared[i] = 0
    BY DEF Cleared
  <2>6. buf' = [i \in 1..BUFLEN |-> IF i <= n THEN q[i] ELSE 0]
    BY <2>4, <2>5
  <2>7. QED
    BY <2>2, <2>3, <2>4, <2>6
<1>5. PICK a, b : a = SubSeq(q, 1, n) /\ b = SubSeq(q, n + 1, Len(q))
  OBVIOUS
<1>6. /\ a \in Seq(1..MaxLines) /\ Len(a) = n
      /\ b \in Seq(1..MaxLines) /\ Len(b) = Len(q) - n
      /\ buf' \in [1..BUFLEN -> 0..MaxLines] /\ Printable(buf') = a
  <2>1. /\ a \in Seq(1..MaxLines) /\ Len(a) = n
        /\ b \in Seq(1..MaxLines) /\ Len(b) = Len(q) - n
    BY <1>5, Parts
  <2>2. PICK z : z = buf'
    OBVIOUS
  <2>3. z \in [1..BUFLEN -> 0..MaxLines] /\ Printable(z) = a
    BY <1>4, <1>5, <2>2, Terminated
  <2>4. QED
    BY <2>1, <2>2, <2>3
<1>7. /\ rx' \in [Clients -> Seq(1..MaxLines)] /\ rx'[c] = b
      /\ \A d \in Clients : d # c => rx'[d] = rx[d]
  BY <1>2, <1>4, <1>5, <1>6
<1>8. /\ fin' \in [Clients -> BOOLEAN] /\ rst' \in [Clients -> BOOLEAN]
      /\ \A d \in Clients : d # c => fin'[d] = fin[d] /\ rst'[d] = rst[d]
      /\ fin'[c] \/ rst'[c] => fin[c] \/ rst[c]
      /\ fin[c] => fin'[c]
      /\ ~rst[c] => ~rst'[c]
  <2>1. fin \in [Clients -> BOOLEAN] /\ rst \in [Clients -> BOOLEAN]
    BY DEF IInv, TypeOK
  <2>2. CASE rx[c] = <<>> /\ rst[c]
    <3>1. rst' = [rst EXCEPT ![c] = FALSE] /\ fin' = [fin EXCEPT ![c] = TRUE]
      BY <2>2 DEF Read
    <3>2. QED
      BY <2>1, <2>2, <3>1
  <2>3. CASE ~(rx[c] = <<>> /\ rst[c])
    <3>1. rst' = rst /\ fin' = fin
      BY <2>3 DEF Read
    <3>2. QED
      BY <2>1, <3>1
  <2>4. QED
    BY <2>2, <2>3
<1>9. interest' = IF EndOfFile(c) THEN interest \ {c} ELSE interest
  BY DEF Read
<1>10. /\ rdl' \in Seq(interest') /\ Distinct(rdl')
       /\ \A x : Contains(rdl', x) => Contains(rdl, x)
       /\ Contains(rdl', c) => Ready(c)'
  <2>1. CASE c \in interest' /\ (rx'[c] # <<>> \/ fin'[c] \/ rst'[c])
    <3>1. rdl' = rdl
      BY <2>1 DEF Read
    <3>2. interest' = interest
      BY <1>9, <2>1
    <3>3. Ready(c)'
      BY <1>2, <2>1 DEF Ready
    <3>4. QED
      BY <1>2, <3>1, <3>2, <3>3
  <2>2. CASE ~(c \in interest' /\ (rx'[c] # <<>> \/ fin'[c] \/ rst'[c]))
    <3>1. rdl' = Unlink(rdl, c)
      BY <2>2 DEF Read
    <3>2. /\ rdl' \in Seq(interest) /\ Distinct(rdl')
          /\ \A y : Contains(rdl', y) <=> Contains(rdl, y) /\ y # c
      BY <1>2, <3>1, Unlinked
    <3>3. \A x \in interest : Contains(rdl', x) => x \in interest'
      BY <1>9, <3>2
    <3>4. rdl' \in Seq(interest')
      BY <3>2, <3>3, SeqOver
    <3>5. QED
      BY <3>2, <3>4
  <2>3. QED
    BY <2>1, <2>2
<1>11. /\ events' \in Seq(Fds) /\ Distinct(events')
       /\ \A x : Contains(events', x) => Contains(events, x) /\ x # c
  BY <1>1, <1>2, Popped
<1>12. PICK p \in Seq(1..MaxLines) :
         /\ p = printed[c] /\ p \o a \in Seq(1..MaxLines)
         /\ printed' \in [Clients -> Seq(1..MaxLines)] /\ printed'[c] = p \o a
         /\ \A d \in Clients : d # c => printed'[d] = printed[d]
  <2>1. printed \in [Clients -> Seq(1..MaxLines)]
    BY DEF IInv, TypeOK
  <2>2. PICK p \in Seq(1..MaxLines) : p = printed[c]
    BY <2>1
  <2>3. p \o a \in Seq(1..MaxLines)
    BY <1>6, ConcatProperties
  <2>4. PICK w \in Seq(1..MaxLines) : w = p \o a
    BY <2>3
  <2>5. printed' = [printed EXCEPT ![c] = w]
    <3>1. CASE n > 0
      <4>1. printed' = [printed EXCEPT ![c] = @ \o Printable(buf')]
        BY <1>4, <3>1
      <4>2. QED
        BY <1>6, <2>2, <2>4, <4>1, Zenon
    <3>2. CASE ~(n > 0)
      <4>1. Len(a) = 0 /\ printed' = printed
        BY <1>4, <1>6, <3>2
      <4>2. a = <<>>
        BY <1>6, <4>1, EmptySeq
      <4>3. w = p
        BY <2>4, <4>2, ConcatEmptySeq
      <4>4. QED
        BY <2>1, <2>2, <4>1, <4>3
    <3>3. QED
      BY <3>1, <3>2
  <2>6. /\ printed' \in [Clients -> Seq(1..MaxLines)] /\ printed'[c] = w
        /\ \A d \in Clients : d # c => printed'[d] = printed[d]
    BY <2>1, <2>5
  <2>7. QED
    BY <2>2, <2>3, <2>4, <2>6
<1>20. TypeOK'
  BY <1>1, <1>2, <1>6, <1>7, <1>8, <1>9, <1>10, <1>11, <1>12 DEF IInv, TypeOK, Fds
<1>13. PlaceInv'
  <2>1. interest' \subseteq interest
    BY <1>9
  <2>2. QED
    BY <1>1, <1>10, <1>11, <2>1 DEF IInv, PlaceInv
<1>14. ReadyInv'
  <2>1. \A x \in Fds : x # c /\ Ready(x) => Ready(x)'
    BY <1>1, <1>7, <1>8 DEF Ready, Fds
  <2>2. ASSUME NEW x \in Fds, Contains(rdl', x) PROVE Ready(x)'
    <3>1. Ready(x)
      BY <1>10, <2>2 DEF IInv, ReadyInv
    <3>2. CASE x = c
      BY <1>10, <2>2, <3>2
    <3>3. QED
      BY <2>1, <3>1, <3>2
  <2>3. ASSUME NEW x \in Fds, Contains(events', x) PROVE Ready(x)'
    BY <1>11, <2>1, <2>3 DEF IInv, ReadyInv
  <2>4. QED
    BY <2>2, <2>3 DEF ReadyInv
<1>15. EndInv'
  BY <1>1, <1>8 DEF IInv, EndInv
<1>16. q = <<>> => b = <<>>
  <2>1. q = <<>> => Len(q) = 0 /\ n = 0
    OBVIOUS
  <2>2. q = <<>> => Len(b) = 0
    BY <1>6, <2>1
  <2>3. QED
    BY <1>6, <2>2
<1>17. OnlyDeadLeak'
  <2> SUFFICES ASSUME NEW d \in open', d \notin interest'
               PROVE  rx'[d] = <<>> /\ fin'[d] /\ ~rst'[d]
    BY DEF OnlyDeadLeak
  <2>0. d \in Clients /\ d \in open
    BY <1>1, <1>2
  <2>1. CASE d # c
    <3>1. d \notin interest
      BY <1>9, <2>1
    <3>2. rx[d] = <<>> /\ fin[d] /\ ~rst[d]
      BY <2>0, <3>1 DEF IInv, OnlyDeadLeak
    <3>3. QED
      BY <1>7, <1>8, <2>0, <2>1, <3>2
  <2>2. CASE d = c
    <3>1. rx[c] = <<>> /\ fin[c] /\ ~rst[c]
      <4>1. CASE c \in interest
        <5>1. EndOfFile(c)
          BY <1>9, <2>2, <4>1
        <5>2. QED
          BY <1>1, <1>2, <5>1 DEF EndOfFile, Ready
      <4>2. CASE c \notin interest
        BY <2>0, <2>2, <4>2 DEF IInv, OnlyDeadLeak
      <4>3. QED
        BY <4>1, <4>2
    <3>2. QED
      BY <1>3, <1>7, <1>8, <1>16, <2>2, <3>1
  <2>3. QED
    BY <2>1, <2>2
<1>18. StreamInv'
  <2> SUFFICES ASSUME NEW d \in Clients PROVE printed'[d] \o rx'[d] = sent'[d]
    BY DEF StreamInv
  <2>1. printed[d] \o rx[d] = sent[d]
    BY <1>1 DEF IInv, StreamInv
  <2>2. CASE d = c
    <3>1. (p \o a) \o b = p \o q
      BY <1>5, Carried
    <3>2. QED
      BY <1>1, <1>3, <1>7, <1>12, <2>1, <2>2, <3>1, Zenon
  <2>3. CASE d # c
    BY <1>1, <1>7, <1>12, <2>1, <2>3, Zenon
  <2>4. QED
    BY <2>2, <2>3
<1>19. QED
  BY <1>13, <1>14, <1>15, <1>17, <1>18, <1>20 DEF IInv

-----------------------------------------------------------------------------
(* The clients' calls. *)

LEMMA ConnectIInv ==
  ASSUME IInv, NEW c \in Clients, Connect(c)
  PROVE  IInv'
<1>1. /\ client[c] = "off"
      /\ UNCHANGED <<srv, open, interest, events, buf, lines, rx, fin, rst, sent, printed>>
  BY DEF Connect, sockets, streams
<1>2. /\ backlog \in Seq(Clients) /\ rdl \in Seq(interest) /\ Distinct(backlog)
      /\ Distinct(rdl) /\ Distinct(events)
      /\ client \in [Clients -> {"off", "run", "silent", "done"}]
  BY DEF IInv, TypeOK, PlaceInv
<1>3. ~Contains(backlog, c) /\ c \notin open /\ ~fin[c] /\ ~rst[c]
  BY <1>1 DEF IInv, PlaceInv, EndInv
<1>4. PICK s \in {"run", "done"} : client' = [client EXCEPT ![c] = s]
  BY DEF Connect
<1>5. /\ client' \in [Clients -> {"off", "run", "silent", "done"}] /\ client'[c] # "off"
      /\ \A d \in Clients : d # c => client'[d] = client[d]
  BY <1>2, <1>4
<1>6. /\ backlog' \in Seq(Clients) /\ Distinct(backlog')
      /\ \A x : Contains(backlog', x) => Contains(backlog, x) \/ x = c
      /\ rdl' \in Seq(interest) /\ Distinct(rdl') /\ ReadyInv'
  <2>1. CASE srv = "up"
    <3>1. backlog' = Append(backlog, c) /\ rdl' = Wake(Listener)
      BY <2>1 DEF Connect
    <3>2. /\ backlog' \in Seq(Clients) /\ Distinct(backlog')
          /\ \A x : Contains(backlog', x) <=> Contains(backlog, x) \/ x = c
      BY <1>2, <1>3, <3>1, Appended
    <3>3. backlog' # <<>>
      BY <3>2, Empty
    <3>4. \A x \in Fds : Ready(x) => Ready(x)'
      BY <1>1, <3>3 DEF Ready
    <3>5. Ready(Listener)'
      BY <3>3 DEF Ready
    <3>6. ReadyInv'
      BY <1>1, <3>1, <3>4, <3>5, Names, WakeReady
    <3>7. rdl' \in Seq(interest) /\ Distinct(rdl')
      BY <3>1, Names, WakeFacts
    <3>8. QED
      BY <3>2, <3>6, <3>7
  <2>2. CASE srv # "up"
    <3>1. backlog' = backlog /\ rdl' = rdl
      BY <2>2 DEF Connect
    <3>2. ReadyInv'
      BY <1>1, <3>1 DEF IInv, ReadyInv, Ready
    <3>3. QED
      BY <1>2, <3>1, <3>2
  <2>3. QED
    BY <2>1, <2>2
<1>7. TypeOK'
  BY <1>1, <1>5, <1>6 DEF IInv, TypeOK
<1>8. PlaceInv'
  <2>1. open \subseteq Clients
    BY DEF IInv, TypeOK
  <2>2. \A d \in Clients : Contains(backlog', d) => d \notin open' /\ client'[d] # "off"
    BY <1>1, <1>3, <1>5, <1>6 DEF IInv, PlaceInv
  <2>3. \A d \in open' : client'[d] # "off"
    BY <1>1, <1>5, <2>1 DEF IInv, PlaceInv
  <2>4. QED
    BY <1>1, <1>2, <1>6, <2>2, <2>3 DEF IInv, PlaceInv
<1>9. EndInv'
  BY <1>1, <1>3, <1>5 DEF IInv, EndInv
<1>10. OnlyDeadLeak' /\ StreamInv'
  BY <1>1 DEF IInv, OnlyDeadLeak, StreamInv
<1>11. QED
  BY <1>6, <1>7, <1>8, <1>9, <1>10 DEF IInv

\* A line, and what it is at the end of.
LEMMA Line ==
  ASSUME NEW k \in Nat, k < MaxLines, NEW n \in LineLens
  PROVE  [i \in 1..n |-> k + 1] \in Seq(1..MaxLines) /\ Len([i \in 1..n |-> k + 1]) # 0
<1>1. BUFLEN \in Nat /\ MaxLines \in Nat /\ n \in Nat /\ n >= 1
  BY EpollAssumption DEF LineLens
<1>2. PICK w : w = [i \in 1..n |-> k + 1]
  OBVIOUS
<1>3. w \in Seq(1..MaxLines) /\ Len(w) = n
  BY <1>1, <1>2
<1>4. Len(w) # 0
  BY <1>1, <1>3
<1>5. QED
  BY <1>2, <1>3, <1>4

LEMMA OneMore ==
  ASSUME NEW S, NEW q \in Seq(S), NEW w \in Seq(S)
  PROVE  q \o w \in Seq(S) /\ (Len(w) # 0 => Len(q \o w) # 0)
<1>1. Len(q) \in Nat /\ Len(w) \in Nat
  BY LenProperties
<1>2. q \o w \in Seq(S) /\ Len(q \o w) = Len(q) + Len(w)
  BY ConcatProperties
<1>3. QED
  BY <1>1, <1>2

LEMMA WriteLineIInv ==
  ASSUME IInv, NEW c \in Clients, WriteLine(c)
  PROVE  IInv'
<1>1. /\ client[c] = "run" /\ lines < MaxLines /\ lines' = lines + 1 /\ rdl' = Wake(c)
      /\ UNCHANGED <<srv, backlog, open, interest, events, buf, fin, rst, printed>>
  BY DEF WriteLine
<1>2. /\ rx \in [Clients -> Seq(1..MaxLines)] /\ sent \in [Clients -> Seq(1..MaxLines)]
      /\ printed \in [Clients -> Seq(1..MaxLines)] /\ lines \in Nat /\ MaxLines \in Nat
      /\ client \in [Clients -> {"off", "run", "silent", "done"}]
      /\ open \subseteq Clients
  BY EpollAssumption DEF IInv, TypeOK
<1>0. PICK n \in LineLens :
        /\ rx' = [rx EXCEPT ![c] = @ \o [i \in 1..n |-> lines + 1]]
        /\ sent' = [sent EXCEPT ![c] = @ \o [i \in 1..n |-> lines + 1]]
  BY DEF WriteLine
<1>3. PICK w : w = [i \in 1..n |-> lines + 1]
  OBVIOUS
<1>4. PICK s \in {"run", "silent"} : client' = [client EXCEPT ![c] = s]
  BY DEF WriteLine
<1>5. PICK p \in Seq(1..MaxLines), q \in Seq(1..MaxLines), z \in Seq(1..MaxLines) :
        p = printed[c] /\ q = rx[c] /\ z = sent[c]
  BY <1>2
<1>6. PICK u, v : u = q \o w /\ v = z \o w
  OBVIOUS
<1>7. /\ u \in Seq(1..MaxLines) /\ u # <<>> /\ v \in Seq(1..MaxLines)
      /\ w \in Seq(1..MaxLines)
  <2>0. lines \in Nat /\ lines < MaxLines
    BY <1>1, <1>2
  <2>1. w \in Seq(1..MaxLines) /\ Len(w) # 0
    BY <1>3, <2>0, Line, Zenon
  <2>2. q \o w \in Seq(1..MaxLines) /\ Len(q \o w) # 0 /\ z \o w \in Seq(1..MaxLines)
    BY <2>1, OneMore, SMTT(30)
  <2>3. u \in Seq(1..MaxLines) /\ v \in Seq(1..MaxLines) /\ Len(u) # 0
    BY <1>6, <2>1, <2>2, Zenon
  <2>4. QED
    BY <2>1, <2>3
<1>8. /\ rx' \in [Clients -> Seq(1..MaxLines)] /\ rx'[c] = u
      /\ \A d \in Clients : d # c => rx'[d] = rx[d]
      /\ sent' \in [Clients -> Seq(1..MaxLines)] /\ sent'[c] = v
      /\ \A d \in Clients : d # c => sent'[d] = sent[d]
  <2>1. rx' = [rx EXCEPT ![c] = u] /\ sent' = [sent EXCEPT ![c] = v]
    BY <1>0, <1>3, <1>5, <1>6, Zenon
  <2>2. QED
    BY <1>2, <1>7, <2>1
<1>9. /\ client' \in [Clients -> {"off", "run", "silent", "done"}]
      /\ client'[c] # "off" /\ client'[c] # "done"
      /\ \A d \in Clients : d # c => client'[d] = client[d]
  BY <1>2, <1>4
<1>10. c \in Fds /\ c # Listener
  BY Names
<1>11. rdl' \in Seq(interest) /\ Distinct(rdl')
  BY <1>1, <1>10, WakeFacts
<1>12. TypeOK'
  <2>1. lines' \in 0..MaxLines
    BY <1>1, <1>2
  <2>2. QED
    BY <1>1, <1>8, <1>9, <1>11, <2>1 DEF IInv, TypeOK
<1>13. PlaceInv'
  <2>1. \A d \in Clients : client[d] # "off" => client'[d] # "off"
    BY <1>9
  <2>2. QED
    BY <1>1, <1>2, <1>11, <2>1 DEF IInv, PlaceInv
<1>14. ReadyInv'
  <2>1. \A x \in Fds : Ready(x) => Ready(x)'
    BY <1>1, <1>7, <1>8 DEF Ready, Fds
  <2>2. Ready(c)'
    BY <1>7, <1>8, <1>10 DEF Ready
  <2>3. QED
    BY <1>1, <1>10, <2>1, <2>2, WakeReady
<1>15. ~fin[c] /\ ~rst[c]
  BY <1>1 DEF IInv, EndInv
<1>16. EndInv'
  BY <1>1, <1>9, <1>15 DEF IInv, EndInv
<1>17. OnlyDeadLeak'
  <2>1. \A d \in open \ interest : d # c
    BY <1>15 DEF IInv, OnlyDeadLeak
  <2>2. QED
    BY <1>1, <1>2, <1>8, <2>1 DEF IInv, OnlyDeadLeak
<1>18. StreamInv'
  <2> SUFFICES ASSUME NEW d \in Clients PROVE printed'[d] \o rx'[d] = sent'[d]
    BY DEF StreamInv
  <2>1. srv # "exited"
    BY DEF WriteLine
  <2>2. printed[d] \o rx[d] = sent[d]
    BY <2>1 DEF IInv, StreamInv
  <2>3. CASE d = c
    <3>1. (p \o q) \o w = p \o u
      <4>1. (p \o q) \o w = p \o (q \o w)
        BY <1>7, ConcatAssociative, SMTT(30)
      <4>2. QED
        BY <1>6, <4>1, Zenon
    <3>2. QED
      BY <1>1, <1>5, <1>6, <1>8, <2>2, <2>3, <3>1, Zenon
  <2>4. CASE d # c
    BY <1>1, <1>8, <2>2, <2>4, Zenon
  <2>5. QED
    BY <2>3, <2>4
<1>19. QED
  BY <1>12, <1>13, <1>14, <1>16, <1>17, <1>18 DEF IInv

LEMMA QuietIInv ==
  ASSUME IInv, NEW c \in Clients, Eof(c) \/ ServerGone(c)
  PROVE  IInv'
<1>1. /\ client[c] \in {"run", "silent"}
      /\ UNCHANGED <<srv, backlog, open, interest, rdl, events, buf, lines, rx, fin, rst,
                   sent, printed>>
  BY DEF Eof, ServerGone, epoll, sockets, streams
<1>2. PICK s \in {"silent", "done"} : client' = [client EXCEPT ![c] = s]
  BY DEF Eof, ServerGone
<1>3. client \in [Clients -> {"off", "run", "silent", "done"}] /\ open \subseteq Clients
  BY DEF IInv, TypeOK
<1>4. /\ client' \in [Clients -> {"off", "run", "silent", "done"}] /\ client'[c] # "off"
      /\ \A d \in Clients : d # c => client'[d] = client[d]
  BY <1>2, <1>3
<1>5. TypeOK'
  BY <1>1, <1>4 DEF IInv, TypeOK
<1>6. PlaceInv'
  <2>1. \A d \in Clients : client[d] # "off" => client'[d] # "off"
    BY <1>4
  <2>2. QED
    BY <1>1, <1>3, <2>1 DEF IInv, PlaceInv
<1>7. EndInv'
  <2>1. ~fin[c] /\ ~rst[c]
    BY <1>1 DEF IInv, EndInv
  <2>2. QED
    BY <1>1, <1>4, <2>1 DEF IInv, EndInv
<1>8. ReadyInv'
  BY <1>1 DEF IInv, ReadyInv, Ready
<1>9. OnlyDeadLeak' /\ StreamInv'
  BY <1>1 DEF IInv, OnlyDeadLeak, StreamInv
<1>10. QED
  BY <1>5, <1>6, <1>7, <1>8, <1>9 DEF IInv

LEMMA EndIInv ==
  ASSUME IInv, NEW c \in Clients, Close(c) \/ Reset(c)
  PROVE  IInv'
<1>1. /\ client[c] \in {"run", "silent"} /\ client' = [client EXCEPT ![c] = "done"]
      /\ rdl' = Wake(c)
      /\ UNCHANGED <<srv, backlog, open, interest, events, buf, lines, rx, sent, printed>>
  BY DEF Close, Reset, streams
<1>2. /\ client \in [Clients -> {"off", "run", "silent", "done"}] /\ open \subseteq Clients
      /\ fin \in [Clients -> BOOLEAN] /\ rst \in [Clients -> BOOLEAN]
  BY DEF IInv, TypeOK
<1>3. /\ client' \in [Clients -> {"off", "run", "silent", "done"}] /\ client'[c] = "done"
      /\ \A d \in Clients : d # c => client'[d] = client[d]
  BY <1>1, <1>2
<1>4. /\ fin' \in [Clients -> BOOLEAN] /\ rst' \in [Clients -> BOOLEAN]
      /\ fin'[c] \/ rst'[c]
      /\ \A d \in Clients : d # c => fin'[d] = fin[d] /\ rst'[d] = rst[d]
  <2>1. CASE Close(c)
    <3>1. fin' = [fin EXCEPT ![c] = TRUE] /\ rst' = rst
      BY <2>1 DEF Close
    <3>2. QED
      BY <1>2, <3>1
  <2>2. CASE Reset(c)
    <3>1. rst' = [rst EXCEPT ![c] = TRUE] /\ fin' = fin
      BY <2>2 DEF Reset
    <3>2. QED
      BY <1>2, <3>1
  <2>3. QED
    BY <2>1, <2>2
<1>5. c \in Fds /\ c # Listener
  BY Names
<1>6. rdl' \in Seq(interest) /\ Distinct(rdl')
  BY <1>1, <1>5, WakeFacts
<1>7. TypeOK'
  BY <1>1, <1>3, <1>4, <1>6 DEF IInv, TypeOK
<1>8. PlaceInv'
  <2>1. \A d \in Clients : client[d] # "off" => client'[d] # "off"
    BY <1>3
  <2>2. QED
    BY <1>1, <1>2, <1>6, <2>1 DEF IInv, PlaceInv
<1>9. ReadyInv'
  <2>1. Ready(c)'
    BY <1>4, <1>5 DEF Ready
  <2>2. \A x \in Fds : Ready(x) => Ready(x)'
    <3>1. \A x \in Fds : x # c /\ Ready(x) => Ready(x)'
      BY <1>1, <1>4 DEF Ready, Fds
    <3>2. QED
      BY <2>1, <3>1
  <2>3. QED
    BY <1>1, <1>5, <2>1, <2>2, WakeReady
<1>10. EndInv'
  BY <1>3, <1>4 DEF IInv, EndInv
<1>11. OnlyDeadLeak'
  <2>1. \A d \in open \ interest : d # c
    BY <1>1 DEF IInv, OnlyDeadLeak, EndInv
  <2>2. QED
    BY <1>1, <1>2, <1>4, <2>1 DEF IInv, OnlyDeadLeak
<1>12. StreamInv'
  BY <1>1 DEF IInv, StreamInv
<1>13. QED
  BY <1>7, <1>8, <1>9, <1>10, <1>11, <1>12 DEF IInv

-----------------------------------------------------------------------------
(* The specification. *)

\* Every step of the server and of a client keeps the ready list and the places
\* of the connections in order, and takes no byte out of a connection but the
\* ones it prints.
THEOREM Invariance == Spec => []IInv
<1>1. IInv /\ [Next]_vars => IInv'
  <2> SUFFICES ASSUME IInv, [Next]_vars PROVE IInv'
    OBVIOUS
  <2>1. CASE Start
    BY <2>1, StartIInv
  <2>2. CASE epoll_wait
    BY <2>2, WaitIInv
  <2>3. CASE Accept
    BY <2>3, AcceptIInv
  <2>4. CASE AcceptError
    BY <2>4, AcceptErrorIInv
  <2>5. CASE \E c \in Clients : Read(c)
    BY <2>5, ReadIInv
  <2>6. ASSUME NEW c \in Clients, ClientStep(c) PROVE IInv'
    <3>1. CASE Connect(c)
      BY <3>1, ConnectIInv
    <3>2. CASE WriteLine(c)
      BY <3>2, WriteLineIInv
    <3>3. CASE Eof(c) \/ ServerGone(c)
      BY <3>3, QuietIInv
    <3>4. CASE Close(c) \/ Reset(c)
      BY <3>4, EndIInv
    <3>5. QED
      BY <2>6, <3>1, <3>2, <3>3, <3>4 DEF ClientStep
  <2>7. CASE UNCHANGED vars
    BY <2>7, StutterIInv
  <2>8. QED
    BY <2>1, <2>2, <2>3, <2>4, <2>5, <2>6, <2>7 DEF Next, Server
<1>2. QED
  BY <1>1, InitIInv, PTL DEF Spec

\* One thread, blocking sockets and events that are older than the calls made
\* since: accept and read in main's loop still never block.
THEOREM ServerNeverBlocks == Spec => []NeverBlocks
<1>1. IInv => NeverBlocks
  <2> SUFFICES ASSUME IInv, NEW i \in DOMAIN events PROVE Ready(events[i])
    BY DEF NeverBlocks
  <2>1. events \in Seq(Fds)
    BY Typing DEF IInv
  <2>2. events[i] \in Fds /\ Contains(events, events[i])
    BY <2>1 DEF Contains
  <2>3. QED
    BY <2>2 DEF IInv, ReadyInv
<1>2. QED
  BY <1>1, Invariance, PTL

\* A descriptor the server keeps open and no longer watches is of a connection
\* that is closed and read to its end.
THEOREM OnlyDeadOnesLeak == Spec => []OnlyDeadLeak
<1>1. IInv => OnlyDeadLeak
  BY DEF IInv
<1>2. QED
  BY <1>1, Invariance, PTL

\* What main prints for a connection and what is still in its socket are what
\* the client wrote, in its order, for every buffer and every length of lines.
THEOREM PrintsWhatWasSent == Spec => []PrintedAsSent
<1>1. IInv => PrintedAsSent
  BY DEF IInv, StreamInv, PrintedAsSent
<1>2. QED
  BY <1>1, Invariance, PTL
=============================================================================
