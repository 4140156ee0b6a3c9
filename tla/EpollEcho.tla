------------------------------ MODULE EpollEcho ------------------------------
(****************************************************************************)
(* 17-1-epoll/echoserver.c and 17-2-trigger/echoserver.c, which differ in   *)
(* BUFFER_SIZE only: one process, told by a level-triggered epoll instance  *)
(* which descriptors to accept() or read() from.                            *)
(*                                                                          *)
(* `events` holds the entries of ep_events not yet handled by the loop of   *)
(* lines 72-97; while it is empty the process is in epoll_wait().           *)
(****************************************************************************)
EXTENDS Tcp, FiniteSetsExt, Functions

CONSTANTS
  Conns,      \* the connections clients may open
  NoConn,     \* what a free descriptor refers to
  Serv,       \* the number of serv_sock; epfd and the clients' are above it
  FdLimit,    \* descriptors are less than this: RLIMIT_NOFILE
  EpollSize,  \* EPOLL_SIZE, the most events epoll_wait() returns
  Backlog,    \* listen()'s backlog
  MaxSend,    \* bound on the bytes one client sends
  Quota       \* how many bytes each client sends at most

\* epfd is Serv + 1: epoll_create() follows socket().
ASSUME EpollAssumption ==
  /\ IsFiniteSet(Conns) /\ NoConn \notin Conns
  /\ Serv \in Nat /\ FdLimit \in Nat /\ Serv + 1 < FdLimit
  /\ EpollSize \in Nat \ {0}
  /\ Backlog \in Nat \ {0} /\ MaxSend \in Nat
  /\ Quota \in [Conns -> 0..MaxSend]

VARIABLES
  pc,         \* loop (or epoll_wait() if no event is left), write or exited
  table,      \* the descriptor table above epfd: connection or NoConn
  interest,   \* the descriptors registered with epfd
  events,     \* the descriptors of the events still to be handled
  clnt,       \* clnt_sock during write(); Serv otherwise, where it is dead
  buf,        \* buffer[0..rcv_size-1], what is left to write
  queue,      \* the listen queue
  net,        \* the connections
  sent,       \* bytes sent by each client
  got         \* bytes read back by each client

epoll == <<interest, events>>
echo == <<clnt, buf>>
clients == <<sent, got>>
vars == <<pc, table, interest, events, clnt, buf, queue, net, sent, got>>

Fds == (Serv + 2)..(FdLimit - 1)
Open == { f \in Fds : table[f] # NoConn }
Free == Fds \ Open

TypeOK ==
  /\ pc \in {"loop", "write", "exited"}
  /\ table \in [Fds -> Conns \union {NoConn}]
  /\ interest \subseteq Fds \union {Serv}
  /\ events \subseteq Fds \union {Serv}
  /\ clnt \in Fds \union {Serv}
  /\ buf \in Seq(Nat)
  /\ queue \in Seq(Conns)
  /\ net \in [Conns -> Connection]
  /\ sent \in [Conns -> Nat]
  /\ got \in [Conns -> Seq(Nat)]

\* serv_sock listens and is registered.
Init ==
  /\ pc = "loop"
  /\ table = [f \in Fds |-> NoConn]
  /\ interest = {Serv}
  /\ events = {}
  /\ clnt = Serv
  /\ buf = <<>>
  /\ queue = <<>>
  /\ net = [c \in Conns |-> Unconnected]
  /\ sent = [c \in Conns |-> 0]
  /\ got = [c \in Conns |-> <<>>]

-----------------------------------------------------------------------------
\* Clients: what echoclient.c does, and whatever else a TCP client may do in
\* another order: connect, send a byte of its lines, read, close.  The kernel
\* queues its connection.

Connect(c) ==
  /\ net[c].cli = "none"
  /\ pc # "exited"
  /\ Len(queue) < Backlog
  /\ net' = [net EXCEPT ![c] = Connected(@)]
  /\ queue' = Append(queue, c)
  /\ UNCHANGED <<pc, table, epoll, echo, clients>>

ServerHolds(c) == c \in Range(queue) \/ c \in Range(table)

CliSend(c) ==
  /\ CanSend(net[c])
  /\ ServerHolds(c)
  /\ sent[c] < Quota[c]
  /\ sent' = [sent EXCEPT ![c] = @ + 1]
  /\ net' = [net EXCEPT ![c] = Sent(@, sent[c] + 1)]
  /\ UNCHANGED <<pc, table, epoll, echo, queue, got>>

CliRead(c) ==
  /\ net[c].cli = "open"
  /\ \E n \in Counts(net[c].down, Cap) :
       /\ got' = [got EXCEPT ![c] = @ \o Front(net[c].down, n)]
       /\ net' = [net EXCEPT ![c] = Taken(@, n)]
  /\ UNCHANGED <<pc, table, epoll, echo, queue, sent>>

CliClose(c) ==
  /\ net[c].cli = "open"
  /\ net' = [net EXCEPT ![c] = Left(@)]
  /\ UNCHANGED <<pc, table, epoll, echo, queue, clients>>

ClientNext(c) == Connect(c) \/ CliSend(c) \/ CliRead(c) \/ CliClose(c)

-----------------------------------------------------------------------------
\* The registered descriptors a call on which would return at once.
ReadableFds ==
  { f \in {Serv} \union Open :
      IF f = Serv THEN queue # <<>> ELSE Readable(net[table[f]]) }

\* The loop may come to f next: epoll_wait() orders its events as it likes.
Handles(f) == pc = "loop" /\ f \in events

HandlesClient(f) == Handles(f) /\ f # Serv

-----------------------------------------------------------------------------
\* Faults: what a slip would make of the actions below.  No specification
\* uses them; README.md says which property rules each of them out.

\* EPOLLIN | EPOLLONESHOT, and nobody arms the descriptor again.
EpollOneShot ==
  /\ pc = "loop" /\ events = {}
  /\ interest \intersect ReadableFds # {}
  /\ events' = interest \intersect ReadableFds
  /\ interest' = interest \ events'
  /\ UNCHANGED <<pc, table, echo, queue, net, clients>>

\* The socket is closed, and its other events are left in the batch.
EofKeepsEvent(f) ==
  /\ HandlesClient(f) /\ ReadMeetsEof(net[table[f]])
  /\ table' = [table EXCEPT ![f] = NoConn]
  /\ interest' = interest \ {f}
  /\ UNCHANGED <<pc, events, echo, queue, net, clients>>

\* A session is over when its client has sent less than a buffer.
ReadShortEnds(f) ==
  /\ HandlesClient(f)
  /\ \E n \in Reads(net[table[f]]) :
       /\ net' = [net EXCEPT ![table[f]] = AfterRead(@, n)]
       /\ buf' = Front(net[table[f]].up, n)
       /\ IF n < BufSize
            THEN /\ table' = [table EXCEPT ![f] = NoConn]
                 /\ interest' = interest \ {f} /\ UNCHANGED <<pc, clnt>>
            ELSE pc' = "write" /\ clnt' = f /\ UNCHANGED <<table, interest>>
  /\ events' = events \ {f}
  /\ UNCHANGED <<queue, clients>>

-----------------------------------------------------------------------------
\* The server.  epoll_wait() cannot fail: no handler interrupts it, and the
\* server's own process is taken not to be stopped and continued, which would
\* end it with EINTR.

\* All that is ready, or EPOLL_SIZE of it.
EpollWait ==
  /\ pc = "loop"
  /\ events = {}
  /\ \E E \in SUBSET (interest \intersect ReadableFds) :
       /\ E # {}
       /\ \/ E = interest \intersect ReadableFds /\ Cardinality(E) <= EpollSize
          \/ Cardinality(E) = EpollSize
       /\ events' = E
  /\ UNCHANGED <<pc, table, interest, echo, queue, net, clients>>

\* accept() returns the lowest free descriptor.
Accept ==
  /\ Handles(Serv)
  /\ queue # <<>>
  /\ Free # {}
  /\ table' = [table EXCEPT ![Min(Free)] = Head(queue)]
  /\ queue' = Tail(queue)
  /\ interest' = interest \union {Min(Free)}
  /\ events' = events \ {Serv}
  /\ UNCHANGED <<pc, echo, net, clients>>

\* No descriptor is left, in the process or in the system: the -1 is refused
\* by epoll_ctl() in its turn, and the connection stays queued.
AcceptFails ==
  /\ Handles(Serv)
  /\ events' = events \ {Serv}
  /\ UNCHANGED <<pc, table, interest, echo, queue, net, clients>>

ServRead(f) ==
  /\ HandlesClient(f)
  /\ \E n \in Reads(net[table[f]]) :
       /\ buf' = Front(net[table[f]].up, n)
       /\ net' = [net EXCEPT ![table[f]] = AfterRead(@, n)]
  /\ clnt' = f
  /\ pc' = "write"
  /\ events' = events \ {f}
  /\ UNCHANGED <<table, interest, queue, clients>>

\* read() returns -1: it is passed on as the size of a write(), which refuses
\* it; the next round meets end of file.
ServReadFails(f) ==
  /\ HandlesClient(f)
  /\ ReadFails(net[table[f]])
  /\ net' = [net EXCEPT ![table[f]] = Reported(@)]
  /\ events' = events \ {f}
  /\ UNCHANGED <<pc, table, interest, echo, queue, clients>>

\* read() returns 0: EPOLL_CTL_DEL and close().
ServEof(f) ==
  /\ HandlesClient(f)
  /\ ReadMeetsEof(net[table[f]])
  /\ interest' = interest \ {f}
  /\ table' = [table EXCEPT ![f] = NoConn]
  /\ events' = events \ {f}
  /\ UNCHANGED <<pc, echo, queue, net, clients>>

EndsWrite == pc' = "loop" /\ clnt' = Serv /\ buf' = <<>>

\* write() copies what fits and sleeps for the rest, and the server with it.
ServWrite ==
  /\ pc = "write"
  /\ \E n \in Writes(net[table[clnt]], buf) :
       /\ net' = [net EXCEPT ![table[clnt]] = AfterWrite(@, buf, n)]
       /\ IF n = Len(buf)
            THEN EndsWrite
            ELSE buf' = Rest(buf, n) /\ UNCHANGED <<pc, clnt>>
  /\ UNCHANGED <<table, epoll, queue, clients>>

\* The client is gone: write()'s result is not looked at.
ServWriteLost ==
  /\ pc = "write"
  /\ LET c == table[clnt]
     IN  \/ WriteDrawsReset(net[c]) /\ net' = [net EXCEPT ![c] = AfterReset(@)]
         \/ WriteFails(net[c]) /\ net' = [net EXCEPT ![c] = Reported(@)]
  /\ EndsWrite
  /\ UNCHANGED <<table, epoll, queue, clients>>

\* write() raises SIGPIPE, which this server does not handle: the kernel
\* closes its sockets and its epoll instance.
ServKilled ==
  /\ pc = "write"
  /\ WriteKills(net[table[clnt]])
  /\ net' = [net EXCEPT ![table[clnt]] = Reported(@)]
  /\ pc' = "exited"
  /\ table' = [f \in Fds |-> NoConn]
  /\ interest' = {} /\ events' = {}
  /\ clnt' = Serv /\ buf' = <<>>
  /\ queue' = <<>>
  /\ UNCHANGED clients

HandleClient(f) == ServRead(f) \/ ServReadFails(f) \/ ServEof(f)

WriteNext == ServWrite \/ ServWriteLost \/ ServKilled

ServerNext ==
  \/ EpollWait \/ Accept \/ AcceptFails
  \/ \E f \in Fds : HandleClient(f)
  \/ WriteNext

-----------------------------------------------------------------------------
Next == ServerNext \/ \E c \in Conns : ClientNext(c)

\* The server is scheduled; epoll_wait() goes round the ready descriptors, so
\* that none is passed over for ever; a connected client reads what has come
\* back (echoclient.c reads until it has the whole message).  accept() need
\* never succeed, and no client has to connect, send or close.
Fairness ==
  /\ WF_vars(ServerNext)
  /\ \A f \in Fds : SF_vars(EpollWait /\ f \in events')
  /\ \A c \in Conns : WF_vars(CliRead(c))

Safety == Init /\ [][Next]_vars
Spec == Safety /\ Fairness

-----------------------------------------------------------------------------
(* What epoll_wait() reported is still true when the loop gets there: an    *)
(* event not yet handled names an open descriptor that can be read without  *)
(* blocking, though sessions of the same batch have ended and descriptors   *)
(* have been used again; and all open ones are registered.                  *)
EventsCurrent ==
  /\ interest = IF pc = "exited" THEN {} ELSE {Serv} \union Open
  /\ events \subseteq interest \intersect ReadableFds

(* The clients see an echo service: their own bytes in order, no hang-up    *)
(* before they close, unless SIGPIPE ends the server.                       *)
Service == INSTANCE EchoService WITH
  client <- [c \in Conns |->
               IF ClientLeft(net[c]) THEN "closed" ELSE net[c].cli],
  service <- [c \in Conns |->
               CASE net[c].cli = "none" -> "none"
                 [] net[c].cli # "none" /\ ServerHolds(c) -> "open"
                 [] OTHER -> "closed"],
  running <- pc # "exited"

ServesEcho == Service!Spec

(* An accepted client gets every byte back though read() takes BUFFER_SIZE  *)
(* bytes per event, more descriptors are ready than one epoll_wait()        *)
(* returns, and the listening socket is ready for ever because accept()     *)
(* fails.                                                                   *)
EchoCompletes ==
  \A c \in Conns, k \in 1..MaxSend :
    c \in Range(table) /\ sent[c] >= k ~> \/ Len(got[c]) >= k
                                        \/ net[c].cli # "open"
                                        \/ ~ServerHolds(c)
=============================================================================
