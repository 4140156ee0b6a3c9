------------------------------ MODULE SelectEcho ------------------------------
(****************************************************************************)
(* 12-2-select/echoserver.c: one process echoes to every client, and        *)
(* select() tells it which descriptors it may accept() or read() from       *)
(* without blocking.  Its write() may still block, and then nobody is       *)
(* served; what ends the process ends every session.                        *)
(*                                                                          *)
(* The scan of lines 75-108 visits the set bits of cpy_reads in ascending   *)
(* order: `ready` holds those not yet visited, and while it is empty the    *)
(* process is in select().  A select() that times out is called again with  *)
(* the same arguments, which changes nothing.                               *)
(****************************************************************************)
EXTENDS Tcp, FiniteSetsExt, Functions

CONSTANTS
  Conns,      \* the connections clients may open
  NoConn,     \* what a free descriptor refers to
  Serv,       \* the number of serv_sock
  FdLimit,    \* descriptors are less than this: RLIMIT_NOFILE
  Backlog,    \* listen()'s backlog
  Quota       \* bound on the bytes each client sends

\* Everything below serv_sock stays open: stdin, stdout and stderr.
ASSUME SelectAssumption ==
  /\ IsFiniteSet(Conns) /\ NoConn \notin Conns
  /\ Serv \in Nat /\ FdLimit \in Nat /\ Serv < FdLimit
  /\ Backlog \in Nat \ {0} /\ Quota \in [Conns -> Nat]

VARIABLES
  pc,         \* scan (or select() if nothing is ready), write or exited
  table,      \* the descriptor table above serv_sock: connection or NoConn
  reads,      \* the bits of reads
  ready,      \* the bits of cpy_reads the scan has still to visit
  fdMax,      \* fd_max
  clnt,       \* clnt_sock during write(); Serv otherwise, where it is dead
  buf,        \* rcv_buffer[0..rcv_size-1], what is left to write
  queue,      \* the listen queue
  net,        \* the connections
  sent,       \* bytes sent by each client
  got         \* bytes read back by each client

sets == <<reads, ready, fdMax>>
echo == <<clnt, buf>>
clients == <<sent, got>>
vars == <<pc, table, reads, ready, fdMax, clnt, buf, queue, net, sent, got>>

Fds == (Serv + 1)..(FdLimit - 1)
Open == { f \in Fds : table[f] # NoConn }
Free == Fds \ Open

TypeOK ==
  /\ pc \in {"scan", "write", "exited"}
  /\ table \in [Fds -> Conns \union {NoConn}]
  /\ reads \subseteq Fds \union {Serv}
  /\ ready \subseteq Fds \union {Serv}
  /\ fdMax \in Fds \union {Serv}
  /\ clnt \in Fds \union {Serv}
  /\ buf \in Seq(Nat)
  /\ queue \in Seq(Conns)
  /\ net \in [Conns -> Connection]
  /\ sent \in [Conns -> Nat]
  /\ got \in [Conns -> Seq(Nat)]

\* serv_sock listens, and is the only descriptor in reads.
Init ==
  /\ pc = "scan"
  /\ table = [f \in Fds |-> NoConn]
  /\ reads = {Serv}
  /\ ready = {}
  /\ fdMax = Serv
  /\ clnt = Serv
  /\ buf = <<>>
  /\ queue = <<>>
  /\ net = [c \in Conns |-> Unconnected]
  /\ sent = [c \in Conns |-> 0]
  /\ got = [c \in Conns |-> <<>>]

-----------------------------------------------------------------------------
\* Clients: what echoclient.c does (see SelectSession), and whatever else a
\* TCP client may do in another order: connect, send a byte of its lines,
\* read, close.  The kernel queues its connection.

Connect(c) ==
  /\ net[c].cli = "none"
  /\ pc # "exited"
  /\ Len(queue) < Backlog
  /\ net' = [net EXCEPT ![c] = Connected(@)]
  /\ queue' = Append(queue, c)
  /\ UNCHANGED <<pc, table, sets, echo, clients>>

ServerHolds(c) == c \in Range(queue) \/ c \in Range(table)

CliSend(c) ==
  /\ CanSend(net[c])
  /\ ServerHolds(c)
  /\ sent[c] < Quota[c]
  /\ sent' = [sent EXCEPT ![c] = @ + 1]
  /\ net' = [net EXCEPT ![c] = Sent(@, sent[c] + 1)]
  /\ UNCHANGED <<pc, table, sets, echo, queue, got>>

CliRead(c) ==
  /\ net[c].cli = "open"
  /\ \E n \in Counts(net[c].down, Cap) :
       /\ got' = [got EXCEPT ![c] = @ \o Front(net[c].down, n)]
       /\ net' = [net EXCEPT ![c] = Taken(@, n)]
  /\ UNCHANGED <<pc, table, sets, echo, queue, sent>>

CliClose(c) ==
  /\ net[c].cli = "open"
  /\ net' = [net EXCEPT ![c] = Left(@)]
  /\ UNCHANGED <<pc, table, sets, echo, queue, clients>>

ClientNext(c) == Connect(c) \/ CliSend(c) \/ CliRead(c) \/ CliClose(c)

-----------------------------------------------------------------------------
\* The descriptors a call on which would return at once, and those of them
\* that select(fd_max + 1, ...) reports.
ReadableFds ==
  { f \in {Serv} \union Open :
      IF f = Serv THEN queue # <<>> ELSE Readable(net[table[f]]) }

Selected == { f \in reads \intersect ReadableFds : f <= fdMax }

\* The scan is at descriptor f.
Visits(f) == pc = "scan" /\ ready # {} /\ f = Min(ready)

VisitsClient(f) == Visits(f) /\ f # Serv

-----------------------------------------------------------------------------
\* Faults: what a slip would make of the actions below.  No specification
\* uses them; README.md says which property rules each of them out.

\* select(fd_max + 1, &reads, ...): reads is overwritten by the result.
SelectWithoutCopy ==
  /\ pc = "scan" /\ ready = {} /\ Selected # {}
  /\ ready' = Selected
  /\ reads' = Selected
  /\ UNCHANGED <<pc, table, fdMax, echo, queue, net, clients>>

\* FD_ISSET(i, &reads): the scan goes over all that is watched.
SelectScansReads ==
  /\ pc = "scan" /\ ready = {} /\ Selected # {}
  /\ ready' = reads
  /\ UNCHANGED <<pc, table, reads, fdMax, echo, queue, net, clients>>

\* fd_max is not raised.
AcceptKeepsMax ==
  /\ Visits(Serv) /\ queue # <<>> /\ Free # {}
  /\ table' = [table EXCEPT ![Min(Free)] = Head(queue)]
  /\ queue' = Tail(queue)
  /\ reads' = reads \union {Min(Free)}
  /\ ready' = ready \ {Serv}
  /\ UNCHANGED <<pc, fdMax, echo, net, clients>>

\* End of file ends the server instead of the session.
EofStopsServer(f) ==
  /\ VisitsClient(f) /\ ReadMeetsEof(net[table[f]])
  /\ pc' = "exited"
  /\ table' = [g \in Fds |-> NoConn]
  /\ reads' = {} /\ ready' = {} /\ queue' = <<>>
  /\ UNCHANGED <<fdMax, echo, net, clients>>

\* After a short count the buffer is written again from its start.
WriteAgain ==
  /\ pc = "write"
  /\ \E n \in Writes(net[table[clnt]], buf) :
       /\ net' = [net EXCEPT ![table[clnt]] = AfterWrite(@, buf, n)]
       /\ IF n = Len(buf)
            THEN pc' = "scan" /\ clnt' = Serv /\ buf' = <<>>
            ELSE UNCHANGED <<pc, echo>>
  /\ UNCHANGED <<table, sets, queue, clients>>

-----------------------------------------------------------------------------
\* The server.  select() cannot fail: no handler interrupts it, and reads has
\* no closed descriptor (DescriptorsWatched).

Select ==
  /\ pc = "scan"
  /\ ready = {}
  /\ Selected # {}
  /\ ready' = Selected
  /\ UNCHANGED <<pc, table, reads, fdMax, echo, queue, net, clients>>

\* accept() returns the lowest free descriptor.
Accept ==
  /\ Visits(Serv)
  /\ queue # <<>>
  /\ Free # {}
  /\ table' = [table EXCEPT ![Min(Free)] = Head(queue)]
  /\ queue' = Tail(queue)
  /\ reads' = reads \union {Min(Free)}
  /\ ready' = ready \ {Serv}
  /\ fdMax' = Max({fdMax, Min(Free)})
  /\ UNCHANGED <<pc, echo, net, clients>>

\* The process is gone: the kernel closes its sockets.
Stops ==
  /\ pc' = "exited"
  /\ table' = [f \in Fds |-> NoConn]
  /\ reads' = {} /\ ready' = {}
  /\ clnt' = Serv /\ buf' = <<>>
  /\ queue' = <<>>
  /\ UNCHANGED <<fdMax, clients>>

\* No descriptor is left: main() returns 1.
AcceptFails ==
  /\ Visits(Serv)
  /\ Free = {}
  /\ Stops
  /\ UNCHANGED net

ServRead(f) ==
  /\ VisitsClient(f)
  /\ \E n \in Reads(net[table[f]]) :
       /\ buf' = Front(net[table[f]].up, n)
       /\ net' = [net EXCEPT ![table[f]] = AfterRead(@, n)]
  /\ clnt' = f
  /\ pc' = "write"
  /\ ready' = ready \ {f}
  /\ UNCHANGED <<table, reads, fdMax, queue, clients>>

\* read() returns -1: it is passed on as the size of a write(), which refuses
\* it; the next round meets end of file.
ServReadFails(f) ==
  /\ VisitsClient(f)
  /\ ReadFails(net[table[f]])
  /\ net' = [net EXCEPT ![table[f]] = Reported(@)]
  /\ ready' = ready \ {f}
  /\ UNCHANGED <<pc, table, reads, fdMax, echo, queue, clients>>

\* read() returns 0.
ServEof(f) ==
  /\ VisitsClient(f)
  /\ ReadMeetsEof(net[table[f]])
  /\ table' = [table EXCEPT ![f] = NoConn]
  /\ reads' = reads \ {f}
  /\ ready' = ready \ {f}
  /\ UNCHANGED <<pc, fdMax, echo, queue, net, clients>>

EndsWrite == pc' = "scan" /\ clnt' = Serv /\ buf' = <<>>

\* write() copies what fits and sleeps for the rest, and the server with it.
ServWrite ==
  /\ pc = "write"
  /\ \E n \in Writes(net[table[clnt]], buf) :
       /\ net' = [net EXCEPT ![table[clnt]] = AfterWrite(@, buf, n)]
       /\ IF n = Len(buf)
            THEN EndsWrite
            ELSE buf' = Rest(buf, n) /\ UNCHANGED <<pc, clnt>>
  /\ UNCHANGED <<table, sets, queue, clients>>

\* The client is gone: write()'s result is not looked at.
ServWriteLost ==
  /\ pc = "write"
  /\ LET c == table[clnt]
     IN  \/ WriteDrawsReset(net[c]) /\ net' = [net EXCEPT ![c] = AfterReset(@)]
         \/ WriteFails(net[c]) /\ net' = [net EXCEPT ![c] = Reported(@)]
  /\ EndsWrite
  /\ UNCHANGED <<table, sets, queue, clients>>

\* write() raises SIGPIPE, which this server does not handle.
ServKilled ==
  /\ pc = "write"
  /\ WriteKills(net[table[clnt]])
  /\ net' = [net EXCEPT ![table[clnt]] = Reported(@)]
  /\ Stops

ServerNext ==
  \/ Select \/ Accept \/ AcceptFails
  \/ \E f \in Fds : ServRead(f) \/ ServReadFails(f) \/ ServEof(f)
  \/ ServWrite \/ ServWriteLost \/ ServKilled

-----------------------------------------------------------------------------
Next == ServerNext \/ \E c \in Conns : ClientNext(c)

\* The server is scheduled, and a connected client reads what has come back
\* (echoclient.c reads until it has the whole message).  No client has to
\* connect, send or close.
Fairness == WF_vars(ServerNext) /\ \A c \in Conns : WF_vars(CliRead(c))

Safety == Init /\ [][Next]_vars
Spec == Safety /\ Fairness

-----------------------------------------------------------------------------
(* The two sets, fd_max and the kernel's table agree: select() is given all *)
(* open sockets, no closed one (it would fail with EBADF and end the loop)  *)
(* and a limit above all of them, however descriptors are reused.           *)
DescriptorsWatched ==
  /\ reads = IF pc = "exited" THEN {} ELSE {Serv} \union Open
  /\ ready \subseteq reads
  /\ \A f \in reads : f <= fdMax
  /\ pc = "write" <=> clnt \in Open

(* What select() reported is still true when the scan gets there, after the *)
(* accept(), read(), write() and close() calls of the descriptors before:   *)
(* neither accept() nor read() ever blocks the server.                      *)
ReadyStaysReady == ready \subseteq ReadableFds

(* So the one thread that serves everybody sleeps in select() and, while a  *)
(* client does not read, in write(), and nowhere else.                      *)
LoopNeverBlocks == DescriptorsWatched /\ ReadyStaysReady

\* More connections are there at this moment than descriptors for them.
Crowded == Cardinality({ c \in Conns : ServerHolds(c) }) > Cardinality(Fds)

\* A session is open whose client has left without the whole of its echo.
Abandoned ==
  \E c \in Conns : ServerHolds(c) /\ ClientLeft(net[c]) /\ Len(got[c]) < sent[c]

\* The step that ends the process.
ServerStops == pc # "exited" /\ pc' = "exited"

(* No client that waits for the whole of its echo before it closes can stop *)
(* the server: at the step that ends it (SIGPIPE, or accept() without a     *)
(* descriptor), it has a session whose client left early, or holds more     *)
(* connections than it has descriptors.  Those of earlier clients are no    *)
(* excuse.                                                                  *)
PatientClientsSafe == [][ServerStops => Abandoned \/ Crowded]_vars

(* The clients see an echo service: their own bytes in order, no hang-up    *)
(* before they close, unless the server stops.                              *)
Service == INSTANCE EchoService WITH
  MaxSend <- Max(Range(Quota)),
  client <- [c \in Conns |->
               IF ClientLeft(net[c]) THEN "closed" ELSE net[c].cli],
  service <- [c \in Conns |->
               CASE net[c].cli = "none" -> "none"
                 [] net[c].cli # "none" /\ ServerHolds(c) -> "open"
                 [] OTHER -> "closed"],
  running <- pc # "exited"

ServesEcho == Service!Spec

(* A session whose client has left ends for the server too, and its         *)
(* descriptor is free again.                                                *)
SessionReleased == \A c \in Conns : ClientLeft(net[c]) ~> ~ServerHolds(c)

(* Nobody starves: if clients read their echoes, every byte of every client *)
(* comes back, queued and busy neighbours notwithstanding, as long as       *)
(* client and server are there.                                             *)
EchoCompletes ==
  \A c \in Conns : \A k \in 1..Quota[c] :
    sent[c] >= k ~> \/ Len(got[c]) >= k
                    \/ net[c].cli # "open"
                    \/ ~ServerHolds(c)

(* Every session gets its bytes back, and its end.                          *)
SessionsComplete == EchoCompletes /\ SessionReleased
=============================================================================
