-------------------------------- MODULE Epoll --------------------------------
(***************************************************************************)
(* epoll/epoll_server.c and epoll/epoll_client.c: one thread serves every   *)
(* connection from one level-triggered epoll set, with blocking sockets;    *)
(* each run of the client program makes one connection and sends lines.     *)
(*                                                                         *)
(* The server never closes a descriptor, so a descriptor number is never    *)
(* reused and a connection is named by the client that made it.  A byte in  *)
(* a socket is the number of the line it belongs to; none is the 0 that    *)
(* ends a string, for the client writes strlen(buf) bytes.                 *)
(***************************************************************************)
EXTENDS Naturals, FiniteSets, SequencesExt

CONSTANTS
  MaxClients,    \* bound: runs of the client program
  MaxFd,         \* connections the limit on open descriptors leaves room for
  Backlog,       \* the queue of listen()
  epoll_num,     \* events one epoll_wait returns at most
  BUFLEN,        \* the server's and the client's buffer
  MaxLines,      \* bound: lines of all clients
  Lens           \* bound: the lengths they have

ASSUME EpollAssumption ==
  /\ MaxFd \in Nat /\ Backlog \in Nat \ {0} /\ epoll_num \in Nat \ {0}
  /\ BUFLEN \in Nat /\ BUFLEN > 2 /\ MaxLines \in Nat /\ MaxClients \in Nat

\* Runs of the client are numbered in the order of their connect.
Clients == 1..MaxClients
Listener == 0    \* epoll_sockfd

VARIABLES
  srv,           \* "off", "up" or "exited"
  backlog,       \* connections nobody has accepted
  open,          \* the server's connection descriptors
  interest,      \* the epoll set
  rdl,           \* its ready descriptors, in the order epoll_wait reports them
  events,        \* events[i..ret-1]
  buf,           \* the server's, one for all connections
  client,        \* "off", "run", "silent" (connected, writes no more) or "done"
  lines,         \* lines written so far; numbers them
  rx,            \* bytes the server has not read
  fin, rst,      \* the connection was closed, was reset
  sent, printed  \* history: bytes written to a connection, and printed of buf
                 \* for it

streams == <<sent, printed>>
sockets == <<rx, fin, rst>>
epoll == <<interest, rdl>>
vars == <<srv, backlog, open, epoll, events, buf, client, lines, sockets, streams>>

Init ==
  /\ srv = "off" /\ open = {} /\ interest = {}
  /\ backlog = <<>> /\ rdl = <<>> /\ events = <<>> /\ buf = [i \in 1..BUFLEN |-> 0]
  /\ client = [c \in Clients |-> "off"] /\ lines = 0
  /\ rx = [c \in Clients |-> <<>>]
  /\ fin = [c \in Clients |-> FALSE] /\ rst = [c \in Clients |-> FALSE]
  /\ sent = [c \in Clients |-> <<>>] /\ printed = [c \in Clients |-> <<>>]

\* A call on the descriptor would not block.
Ready(f) == IF f = Listener THEN backlog # <<>> ELSE rx[f] # <<>> \/ fin[f] \/ rst[f]

\* The kernel puts f on the ready list.
Wake(f) == IF f \in interest /\ ~Contains(rdl, f) THEN Append(rdl, f) ELSE rdl

\* The kernel takes f off the ready list, where it is at most once.
Unlink(q, f) ==
  IF Contains(q, f) THEN RemoveAt(q, CHOOSE k \in DOMAIN q : q[k] = f) ELSE q

-----------------------------------------------------------------------------
\* socket_server and epoll_create; a server that fails to bind or listen is gone.
Start ==
  /\ srv = "off"
  /\ \/ srv' = "up" /\ interest' = {Listener}
     \/ srv' = "exited" /\ UNCHANGED interest
  /\ UNCHANGED <<backlog, open, rdl, events, buf, client, lines, sockets, streams>>

\* What is reported goes to the end of the list.
epoll_wait ==
  /\ srv = "up" /\ events = <<>> /\ rdl # <<>>
  /\ LET ret == IF Len(rdl) < epoll_num THEN Len(rdl) ELSE epoll_num
     IN  /\ events' = SubSeq(rdl, 1, ret)
         /\ rdl' = SubSeq(rdl, ret + 1, Len(rdl)) \o SubSeq(rdl, 1, ret)
  /\ UNCHANGED <<srv, backlog, open, interest, buf, client, lines, sockets, streams>>

\* The listener's event.  The connection may have sent something already.
Accept ==
  /\ srv = "up" /\ events # <<>> /\ Head(events) = Listener /\ Ready(Listener)
  /\ Cardinality(open) < MaxFd
  /\ LET c == Head(backlog)
         rest == IF Len(backlog) = 1 THEN Unlink(rdl, Listener) ELSE rdl
     IN  /\ open' = open \cup {c} /\ interest' = interest \cup {c}
         /\ rdl' = IF Ready(c) THEN Append(rest, c) ELSE rest
  /\ events' = Tail(events) /\ backlog' = Tail(backlog)
  /\ UNCHANGED <<srv, buf, client, lines, sockets, streams>>

\* No descriptor left: "accept error" and exit(1), which closes everything.
AcceptError ==
  /\ srv = "up" /\ events # <<>> /\ Head(events) = Listener /\ Ready(Listener)
  /\ Cardinality(open) = MaxFd
  /\ srv' = "exited" /\ open' = {} /\ interest' = {}
  /\ backlog' = <<>> /\ rdl' = <<>> /\ events' = <<>> /\ buf' = [i \in 1..BUFLEN |-> 0]
  /\ rx' = [c \in Clients |-> <<>>]
  /\ fin' = [c \in Clients |-> FALSE] /\ rst' = [c \in Clients |-> FALSE]
  /\ UNCHANGED <<client, lines, streams>>

\* Mutant: a read that did not fill the buffer is taken for the end.
EndOfFile_short(c) == Len(rx[c]) < BUFLEN

\* Mutant: only an error takes a connection off the set.
EndOfFile_error(c) == rx[c] = <<>> /\ rst[c]

\* rdlen == 0, after everything sent was read and an error was reported once.
EndOfFile(c) == rx[c] = <<>> /\ ~rst[c]

\* Mutant: buf keeps what the last read left there.
Cleared_not == buf

\* memset(buf, 0, BUFLEN)
Cleared == [i \in 1..BUFLEN |-> 0]

\* What printf("%s") prints of a buffer.  It goes on beyond one that has no 0;
\* what it finds there is not in the model.
strlen(b) ==
  CHOOSE n \in 0..BUFLEN :
    /\ \A i \in 1..n : b[i] # 0
    /\ n < BUFLEN => b[n + 1] = 0
Printable(b) == [i \in 1..strlen(b) |-> b[i]]

\* Mutant: read again until the socket is empty, the event stays.
NextEvent_again(c) == IF rx[c] = <<>> THEN Tail(events) ELSE events

NextEvent(c) == Tail(events)

\* A connection's event: print, forget the connection, or (an error) nothing.
\* The descriptor of a forgotten connection stays open.
Read(c) ==
  /\ srv = "up" /\ events # <<>> /\ Head(events) = c /\ Ready(c)
  /\ LET rdlen == IF Len(rx[c]) < BUFLEN THEN Len(rx[c]) ELSE BUFLEN
     IN  /\ buf' = [i \in 1..BUFLEN |-> IF i <= rdlen THEN rx[c][i] ELSE Cleared[i]]
         /\ rx' = [rx EXCEPT ![c] = SubSeq(@, rdlen + 1, Len(@))]
         /\ printed' = IF rdlen > 0 THEN [printed EXCEPT ![c] = @ \o Printable(buf')] ELSE printed
  /\ IF rx[c] = <<>> /\ rst[c]
     THEN rst' = [rst EXCEPT ![c] = FALSE] /\ fin' = [fin EXCEPT ![c] = TRUE]
     ELSE UNCHANGED <<fin, rst>>
  /\ interest' = IF EndOfFile(c) THEN interest \ {c} ELSE interest
  /\ rdl' = IF c \in interest' /\ (rx'[c] # <<>> \/ fin'[c] \/ rst'[c]) THEN rdl ELSE Unlink(rdl, c)
  /\ events' = NextEvent(c)
  /\ UNCHANGED <<srv, backlog, open, client, lines, sent>>

-----------------------------------------------------------------------------
\* socket and connect; a full queue makes connect wait.
Connect(c) ==
  /\ client[c] = "off" /\ \A d \in 1..(c - 1) : client[d] # "off"
  /\ IF srv = "up"
     THEN /\ Len(backlog) <= Backlog
          /\ client' = [client EXCEPT ![c] = "run"]
          /\ backlog' = Append(backlog, c) /\ rdl' = Wake(Listener)
     ELSE client' = [client EXCEPT ![c] = "done"] /\ UNCHANGED <<backlog, rdl>>
  /\ UNCHANGED <<srv, open, interest, events, buf, lines, sockets, streams>>

\* fgets(buf, BUFLN - 1, stdin) leaves room for the terminator and one more.
LineLens == Lens \cap 1..(BUFLEN - 2)

\* fgets and write; the line "quit" ends the loop after it was written.
WriteLine(c) ==
  /\ client[c] = "run" /\ srv = "up" /\ lines < MaxLines
  /\ \E n \in LineLens :
       LET line == [i \in 1..n |-> lines + 1]
       IN  rx' = [rx EXCEPT ![c] = @ \o line] /\ sent' = [sent EXCEPT ![c] = @ \o line]
  /\ \E s \in {"run", "silent"} : client' = [client EXCEPT ![c] = s]
  /\ lines' = lines + 1
  /\ rdl' = Wake(c)
  /\ UNCHANGED <<srv, backlog, open, interest, events, buf, fin, rst, printed>>

\* fgets at the end of stdin: the loop goes round without writing, for ever.
Eof(c) ==
  /\ client[c] = "run"
  /\ client' = [client EXCEPT ![c] = "silent"]
  /\ UNCHANGED <<srv, backlog, open, epoll, events, buf, lines, sockets, streams>>

\* A write or the end of a client whose server is gone, or it is killed.
ServerGone(c) ==
  /\ client[c] \in {"run", "silent"} /\ srv = "exited"
  /\ client' = [client EXCEPT ![c] = "done"]
  /\ UNCHANGED <<srv, backlog, open, epoll, events, buf, lines, sockets, streams>>

\* close(fd), by the program or by the kernel when the client is killed.
Close(c) ==
  /\ client[c] \in {"run", "silent"} /\ srv = "up"
  /\ client' = [client EXCEPT ![c] = "done"]
  /\ fin' = [fin EXCEPT ![c] = TRUE] /\ rdl' = Wake(c)
  /\ UNCHANGED <<srv, backlog, open, interest, events, buf, lines, rx, rst, streams>>

\* The connection breaks: read reports an error once and then the end.
Reset(c) ==
  /\ client[c] \in {"run", "silent"} /\ srv = "up"
  /\ client' = [client EXCEPT ![c] = "done"]
  /\ rst' = [rst EXCEPT ![c] = TRUE] /\ rdl' = Wake(c)
  /\ UNCHANGED <<srv, backlog, open, interest, events, buf, lines, rx, fin, streams>>

-----------------------------------------------------------------------------
Server == epoll_wait \/ Accept \/ AcceptError \/ \E c \in Clients : Read(c)

ClientStep(c) ==
  Connect(c) \/ WriteLine(c) \/ Eof(c) \/ ServerGone(c) \/ Close(c) \/ Reset(c)

Next == Start \/ Server \/ \E c \in Clients : ClientStep(c)

Spec == Init /\ [][Next]_vars
\* The server's process runs; nobody has to connect, write or close.
FairSpec == Spec /\ WF_vars(Server)

-----------------------------------------------------------------------------
TypeOK ==
  /\ srv \in {"off", "up", "exited"}
  /\ backlog \in Seq(Clients) /\ open \subseteq Clients
  /\ interest \subseteq Clients \cup {Listener} /\ rdl \in Seq(interest)
  /\ events \in Seq(Clients \cup {Listener}) /\ buf \in [1..BUFLEN -> 0..MaxLines]
  /\ client \in [Clients -> {"off", "run", "silent", "done"}]
  /\ lines \in 0..MaxLines /\ rx \in [Clients -> Seq(1..MaxLines)]
  /\ fin \in [Clients -> BOOLEAN] /\ rst \in [Clients -> BOOLEAN]
  /\ sent \in [Clients -> Seq(1..MaxLines)] /\ printed \in [Clients -> Seq(1..MaxLines)]

\* The sockets are blocking and one thread serves them all: when the loop gets
\* to an event of an earlier epoll_wait, accept or read still has something to
\* return, whatever was handled and happened in between.
NeverBlocks == \A i \in DOMAIN events : Ready(events[i])

\* Descriptors that are open and no longer watched leak (nothing closes them),
\* but none is of a connection that still has something to say: all it sent was
\* read, and it is closed.
OnlyDeadLeak == \A c \in open \ interest : rx[c] = <<>> /\ fin[c] /\ ~rst[c]

\* While the server lives, what it has printed for a connection and what it has
\* still to read there are together what the client wrote, in order: no byte is
\* lost or printed twice when lines arrive in pieces or several at once or the
\* connection breaks, and none is of another client, although all share buf and
\* read puts no terminator behind what it stores.
PrintedAsSent == srv = "up" => \A c \in Clients : printed[c] \o rx[c] = sent[c]

\* While the server lives, a queued connection is accepted, what a client sent
\* is read and a closed connection leaves the set, also when there are more
\* events than one epoll_wait returns and when connections break.
EveryoneServed ==
  \A c \in Clients :
    /\ Contains(backlog, c) ~> (c \in open \/ srv = "exited")
    /\ (c \in open /\ rx[c] # <<>>) ~> (rx[c] = <<>> \/ srv = "exited")
    /\ (c \in open /\ (fin[c] \/ rst[c])) ~> (c \notin interest \/ srv = "exited")
=============================================================================
