---------------------------- MODULE MultiProcEcho ----------------------------
(****************************************************************************)
(* 10-4-multiprocecho/echoserver.c: main() accepts and forks an echo        *)
(* process per connection; a SIGCHLD handler collects the ended ones.       *)
(* 10-5-iosplit/echoserver.c makes the same calls in the same order.        *)
(*                                                                          *)
(* A process is named by what it serves: the child of connection c is c,    *)
(* the parent is Main.  fork() copies the descriptor table, so a socket is  *)
(* closed by the kernel when its last holder closes it: `refs` and          *)
(* `servRefs` are the holders.                                              *)
(****************************************************************************)
EXTENDS Tcp, FiniteSets, Functions

CONSTANTS
  Conns,      \* the connections clients may open
  Main,       \* the parent process
  Backlog,    \* listen()'s backlog
  MaxSend,    \* bound on the bytes one client sends
  Quota       \* how many bytes each client sends at most

ASSUME ConnsAssumption == IsFiniteSet(Conns) /\ Main \notin Conns
ASSUME BoundsAssumption ==
  /\ Backlog \in Nat \ {0} /\ MaxSend \in Nat
  /\ Quota \in [Conns -> 0..MaxSend]

VARIABLES
  mainPc,     \* the call main() is about to make, or exited
  clnt,       \* clnt_sock in main()
  queue,      \* the listen queue: connected, not yet accepted
  net,        \* the connections
  proc,       \* the process table: the child of each connection, and its pc
  buf,        \* rcv_buffer[0..rcv_size-1] of each child, what is left to write
  refs,       \* the processes that hold the socket of a connection
  servRefs,   \* the processes that hold serv_sock
  pending,    \* SIGCHLD is pending for the parent
  handling,   \* the parent is in read_chlidproc()
  sent,       \* bytes sent by each client
  got         \* bytes read back by each client

main == <<mainPc, clnt>>
signal == <<pending, handling>>
clients == <<sent, got>>
vars == <<mainPc, clnt, queue, net, proc, buf, refs, servRefs,
          pending, handling, sent, got>>

Procs == Conns \union {Main}

\* Where a child is in lines 94-106, and what is left of it afterwards.
Alive == {"start", "read", "write", "close", "exit"}
Ended == {"zombie", "reaped"}

TypeOK ==
  /\ mainPc \in {"accept", "eintr", "fork", "close", "exited"}
  /\ clnt \in Procs                           \* Main: no connection yet
  /\ queue \in Seq(Conns)
  /\ net \in [Conns -> Connection]
  /\ proc \in [Conns -> {"none"} \union Alive \union Ended]
  /\ buf \in [Conns -> Seq(Nat)]
  /\ refs \in [Conns -> SUBSET Procs]
  /\ servRefs \in SUBSET Procs
  /\ pending \in BOOLEAN
  /\ handling \in BOOLEAN
  /\ sent \in [Conns -> Nat]
  /\ got \in [Conns -> Seq(Nat)]

\* The handler is installed and serv_sock listens.
Init ==
  /\ mainPc = "accept"
  /\ clnt = Main
  /\ queue = <<>>
  /\ net = [c \in Conns |-> Unconnected]
  /\ proc = [c \in Conns |-> "none"]
  /\ buf = [c \in Conns |-> <<>>]
  /\ refs = [c \in Conns |-> {}]
  /\ servRefs = {Main}
  /\ pending = FALSE
  /\ handling = FALSE
  /\ sent = [c \in Conns |-> 0]
  /\ got = [c \in Conns |-> <<>>]

-----------------------------------------------------------------------------
\* Faults: what a slip would make of the actions below.  No specification
\* uses them; README.md says which property rules each of them out.

\* accept()'s -1 is noticed, but the loop goes on to fork().
AcceptFallsThrough ==
  /\ mainPc = "eintr" /\ ~handling
  /\ mainPc' = IF clnt = Main THEN "accept" ELSE "fork"
  /\ UNCHANGED <<clnt, queue, net, proc, buf, refs, servRefs, signal, clients>>

\* The parent forgets close(clnt_sock).
CloseClntForgotten ==
  /\ mainPc = "close" /\ ~handling
  /\ mainPc' = "accept"
  /\ UNCHANGED <<clnt, queue, net, proc, buf, refs, servRefs, signal, clients>>

\* while (waitpid(-1, &status, WNOHANG) > 0)
ReapAll ==
  /\ handling
  /\ proc' = [c \in Conns |-> IF proc[c] = "zombie" THEN "reaped" ELSE proc[c]]
  /\ mainPc' \in {mainPc} \union (IF mainPc = "accept" THEN {"eintr"} ELSE {})
  /\ handling' = FALSE
  /\ UNCHANGED <<clnt, queue, net, buf, refs, servRefs, pending, clients>>

\* The child forgets close(serv_sock).
ChildKeepsServ(c) ==
  /\ proc[c] = "start"
  /\ proc' = [proc EXCEPT ![c] = "read"]
  /\ UNCHANGED <<main, queue, net, buf, refs, servRefs, signal, clients>>

\* while (1): end of file is an empty message.
ChildEofIgnored(c) ==
  /\ proc[c] = "read"
  /\ ReadMeetsEof(net[c])
  /\ UNCHANGED vars

\* The child waits for BUFFER_SIZE bytes before it echoes them.
ChildReadFull(c) ==
  /\ proc[c] = "read"
  /\ BufSize \in Reads(net[c])
  /\ buf' = [buf EXCEPT ![c] = Front(net[c].up, BufSize)]
  /\ net' = [net EXCEPT ![c] = AfterRead(@, BufSize)]
  /\ proc' = [proc EXCEPT ![c] = "write"]
  /\ UNCHANGED <<main, queue, refs, servRefs, signal, clients>>

\* A short count of write() is taken for the whole buffer.
ChildWriteShort(c) ==
  /\ proc[c] = "write"
  /\ \E n \in Writes(net[c], buf[c]) :
       net' = [net EXCEPT ![c] = AfterWrite(@, buf[c], n)]
  /\ buf' = [buf EXCEPT ![c] = <<>>]
  /\ proc' = [proc EXCEPT ![c] = "read"]
  /\ UNCHANGED <<main, queue, refs, servRefs, signal, clients>>

\* After a short count the buffer is written again from its start.
ChildWriteAgain(c) ==
  /\ proc[c] = "write"
  /\ \E n \in Writes(net[c], buf[c]) :
       /\ net' = [net EXCEPT ![c] = AfterWrite(@, buf[c], n)]
       /\ proc' = [proc EXCEPT ![c] = IF n = Len(buf[c]) THEN "read" ELSE "write"]
       /\ buf' = [buf EXCEPT ![c] = IF n = Len(@) THEN <<>> ELSE @]
  /\ UNCHANGED <<main, queue, refs, servRefs, signal, clients>>

-----------------------------------------------------------------------------
\* Clients: what echoclient.c does, and whatever else a TCP client may do in
\* another order: connect, send a byte of its lines, read, close.

\* The kernel completes the handshake and queues the connection.
Connect(c) ==
  /\ net[c].cli = "none"
  /\ servRefs # {}
  /\ Len(queue) < Backlog
  /\ net' = [net EXCEPT ![c] = Connected(@)]
  /\ queue' = Append(queue, c)
  /\ UNCHANGED <<main, proc, buf, refs, servRefs, signal, clients>>

ServerHolds(c) == c \in Range(queue) \/ refs[c] # {}

CliSend(c) ==
  /\ CanSend(net[c])
  /\ ServerHolds(c)
  /\ sent[c] < Quota[c]
  /\ sent' = [sent EXCEPT ![c] = @ + 1]
  /\ net' = [net EXCEPT ![c] = Sent(@, sent[c] + 1)]
  /\ UNCHANGED <<main, queue, proc, buf, refs, servRefs, signal, got>>

CliRead(c) ==
  /\ net[c].cli = "open"
  /\ \E n \in Counts(net[c].down, Cap) :
       /\ got' = [got EXCEPT ![c] = @ \o Front(net[c].down, n)]
       /\ net' = [net EXCEPT ![c] = Taken(@, n)]
  /\ UNCHANGED <<main, queue, proc, buf, refs, servRefs, signal, sent>>

CliClose(c) ==
  /\ net[c].cli = "open"
  /\ net' = [net EXCEPT ![c] = Left(@)]
  /\ UNCHANGED <<main, queue, proc, buf, refs, servRefs, signal, clients>>

ClientNext(c) == Connect(c) \/ CliSend(c) \/ CliRead(c) \/ CliClose(c)

-----------------------------------------------------------------------------
\* main().  It does not run while its handler does.

Accept ==
  /\ mainPc = "accept"
  /\ ~handling
  /\ queue # <<>>
  /\ clnt' = Head(queue)
  /\ queue' = Tail(queue)
  /\ refs' = [refs EXCEPT ![Head(queue)] = {Main}]
  /\ mainPc' = "fork"
  /\ UNCHANGED <<net, proc, buf, servRefs, signal, clients>>

\* accept() was interrupted by the handler (sa_flags has no SA_RESTART):
\* `continue`.
AcceptInterrupted ==
  /\ mainPc = "eintr"
  /\ ~handling
  /\ mainPc' = "accept"
  /\ UNCHANGED <<clnt, queue, net, proc, buf, refs, servRefs, signal, clients>>

\* The child inherits every descriptor the parent holds.
Fork ==
  /\ mainPc = "fork"
  /\ ~handling
  /\ proc' = [proc EXCEPT ![clnt] = "start"]
  /\ refs' = [c \in Conns |->
                IF Main \in refs[c] THEN refs[c] \union {clnt} ELSE refs[c]]
  /\ servRefs' = servRefs \union {clnt}
  /\ mainPc' = "close"
  /\ UNCHANGED <<clnt, queue, net, buf, signal, clients>>

CloseClnt ==
  /\ mainPc = "close"
  /\ ~handling
  /\ refs' = [refs EXCEPT ![clnt] = @ \ {Main}]
  /\ mainPc' = "accept"
  /\ UNCHANGED <<clnt, queue, net, proc, buf, servRefs, signal, clients>>

\* The connections queued on serv_sock are reset with its last close.
QueueKept(holders) == IF holders = {} THEN <<>> ELSE queue

\* fork() fails: main() returns 1.  The kernel closes its descriptors, and
\* init collects its zombies.
ForkFails ==
  /\ mainPc = "fork"
  /\ ~handling
  /\ mainPc' = "exited"
  /\ refs' = [c \in Conns |-> refs[c] \ {Main}]
  /\ servRefs' = servRefs \ {Main}
  /\ queue' = QueueKept(servRefs')
  /\ proc' = [c \in Conns |-> IF proc[c] = "zombie" THEN "reaped" ELSE proc[c]]
  /\ pending' = FALSE
  /\ UNCHANGED <<clnt, net, buf, handling, clients>>

MainNext == Accept \/ AcceptInterrupted \/ Fork \/ CloseClnt \/ ForkFails

-----------------------------------------------------------------------------
\* SIGCHLD and read_chlidproc().

\* An echo process is stopped or goes on again, which raises SIGCHLD as its end
\* does (see Ends), for sa_flags is 0.
StopOrContinue(c) ==
  /\ mainPc # "exited"
  /\ proc[c] \in Alive
  /\ pending' = TRUE
  /\ UNCHANGED <<main, queue, net, proc, buf, refs, servRefs, handling, clients>>

Deliver ==
  /\ mainPc # "exited"
  /\ pending
  /\ ~handling
  /\ pending' = FALSE
  /\ handling' = TRUE
  /\ UNCHANGED <<main, queue, net, proc, buf, refs, servRefs, clients>>

\* One waitpid(-1, &status, WNOHANG), which may find nobody.  If main() was asleep in accept() the
\* call fails when the handler returns; if it had not entered it, not.
Reap ==
  /\ handling
  /\ IF \E c \in Conns : proc[c] = "zombie"
       THEN \E c \in Conns :
              proc[c] = "zombie" /\ proc' = [proc EXCEPT ![c] = "reaped"]
       ELSE UNCHANGED proc
  /\ mainPc' \in {mainPc} \union (IF mainPc = "accept" THEN {"eintr"} ELSE {})
  /\ handling' = FALSE
  /\ UNCHANGED <<clnt, queue, net, buf, refs, servRefs, pending, clients>>

-----------------------------------------------------------------------------
\* The echo process of connection c.

\* close(serv_sock)
ChildCloseServ(c) ==
  /\ proc[c] = "start"
  /\ proc' = [proc EXCEPT ![c] = "read"]
  /\ servRefs' = servRefs \ {c}
  /\ queue' = QueueKept(servRefs')
  /\ UNCHANGED <<main, net, buf, refs, signal, clients>>

ChildRead(c) ==
  /\ proc[c] = "read"
  /\ \E n \in Reads(net[c]) :
       /\ buf' = [buf EXCEPT ![c] = Front(net[c].up, n)]
       /\ net' = [net EXCEPT ![c] = AfterRead(@, n)]
  /\ proc' = [proc EXCEPT ![c] = "write"]
  /\ UNCHANGED <<main, queue, refs, servRefs, signal, clients>>

\* read() returns 0.
ChildEof(c) ==
  /\ proc[c] = "read"
  /\ ReadMeetsEof(net[c])
  /\ proc' = [proc EXCEPT ![c] = "close"]
  /\ UNCHANGED <<main, queue, net, buf, refs, servRefs, signal, clients>>

\* write() copies what fits and sleeps for the rest; read() comes next.
ChildWrite(c) ==
  /\ proc[c] = "write"
  /\ \E n \in Writes(net[c], buf[c]) :
       /\ net' = [net EXCEPT ![c] = AfterWrite(@, buf[c], n)]
       /\ buf' = [buf EXCEPT ![c] = Rest(@, n)]
       /\ proc' = [proc EXCEPT ![c] = IF n = Len(buf[c]) THEN "read" ELSE "write"]
  /\ UNCHANGED <<main, queue, refs, servRefs, signal, clients>>

\* The client is gone: write()'s result is not looked at.
ChildWriteLost(c) ==
  /\ proc[c] = "write"
  /\ \/ WriteDrawsReset(net[c]) /\ net' = [net EXCEPT ![c] = AfterReset(@)]
     \/ WriteFails(net[c]) /\ net' = [net EXCEPT ![c] = Reported(@)]
  /\ buf' = [buf EXCEPT ![c] = <<>>]
  /\ proc' = [proc EXCEPT ![c] = "read"]
  /\ UNCHANGED <<main, queue, refs, servRefs, signal, clients>>

ChildClose(c) ==
  /\ proc[c] = "close"
  /\ refs' = [refs EXCEPT ![c] = @ \ {c}]
  /\ proc' = [proc EXCEPT ![c] = "exit"]
  /\ UNCHANGED <<main, queue, net, buf, servRefs, signal, clients>>

\* The kernel closes what the process still holds; it stays a zombie and
\* SIGCHLD is raised, unless the parent is gone.
Ends(c) ==
  /\ refs' = [d \in Conns |-> refs[d] \ {c}]
  /\ servRefs' = servRefs \ {c}
  /\ queue' = QueueKept(servRefs')
  /\ buf' = [buf EXCEPT ![c] = <<>>]
  /\ IF mainPc = "exited"
       THEN proc' = [proc EXCEPT ![c] = "reaped"] /\ UNCHANGED pending
       ELSE proc' = [proc EXCEPT ![c] = "zombie"] /\ pending' = TRUE
  /\ UNCHANGED <<main, handling, clients>>

ChildExit(c) ==
  /\ proc[c] = "exit"
  /\ Ends(c)
  /\ UNCHANGED net

\* read() returns -1: return 1, with clnt_sock open.
ChildReadFails(c) ==
  /\ proc[c] = "read"
  /\ ReadFails(net[c])
  /\ net' = [net EXCEPT ![c] = Reported(@)]
  /\ Ends(c)

\* write() raises SIGPIPE, which no process of this server handles.
ChildKilled(c) ==
  /\ proc[c] = "write"
  /\ WriteKills(net[c])
  /\ net' = [net EXCEPT ![c] = Reported(@)]
  /\ Ends(c)

ChildNext(c) ==
  \/ ChildCloseServ(c) \/ ChildRead(c) \/ ChildEof(c) \/ ChildWrite(c)
  \/ ChildWriteLost(c) \/ ChildClose(c) \/ ChildExit(c)
  \/ ChildReadFails(c) \/ ChildKilled(c)

-----------------------------------------------------------------------------
Next ==
  \/ MainNext
  \/ Deliver
  \/ Reap
  \/ \E c \in Conns : ClientNext(c) \/ ChildNext(c) \/ StopOrContinue(c)

\* Every process that can run is scheduled, a pending signal is delivered, and
\* a connected client reads what has come back (echoclient.c reads until it has
\* the whole message).  No client has to connect, send or close.  A stopped
\* process is continued some day, and nobody goes on stopping and continuing
\* them for ever: each SIGCHLD may make main()'s accept() fail.
Fairness ==
  /\ WF_vars(MainNext)
  /\ WF_vars(Deliver)
  /\ WF_vars(Reap)
  /\ \A c \in Conns : WF_vars(ChildNext(c)) /\ WF_vars(CliRead(c))
  /\ <>[][\A c \in Conns : ~StopOrContinue(c)]_vars

Safety == Init /\ [][Next]_vars
Spec == Safety /\ Fairness

-----------------------------------------------------------------------------
\* The parent holds the socket it is about to hand over, and no other.
MainHolds(c) == clnt = c /\ mainPc \in {"fork", "close"}

\* accept() gave a connection that fork() could not give a process.
ForkFailed == mainPc = "exited" /\ clnt # Main /\ proc[clnt] = "none"

(* No descriptor leaks through fork(): a connection is held by its own      *)
(* child while it needs it and by the parent until line 109, so that the    *)
(* child's close() really hangs up, and no later child keeps it open.       *)
NoSocketLeak ==
  \A c \in Conns :
    refs[c] = { p \in {Main, c} :
                  \/ p = Main /\ MainHolds(c)
                  \/ p = c /\ proc[c] \in Alive \ {"exit"} }

(* The listening socket belongs to the parent alone once a child has        *)
(* started, so the port is free as soon as the parent is gone and the last  *)
(* child has reached line 95.                                               *)
NoListenerLeak ==
  servRefs = { p \in Procs :
                 IF p = Main THEN mainPc # "exited" ELSE proc[p] = "start" }

(* fork() copies every descriptor, and every copy that is not wanted is     *)
(* closed: no socket outlives the processes that are there to serve it.     *)
NoDescriptorLeak == NoSocketLeak /\ NoListenerLeak

(* A connection is in one place: not yet made, in the listen queue, in the  *)
(* parent's hands between accept() and fork(), or given to a process; and   *)
(* it gets one process in its life.                                         *)
OneProcessPerConnection ==
  /\ \A i \in DOMAIN queue :
       /\ net[queue[i]].cli # "none"
       /\ proc[queue[i]] = "none"
       /\ ~MainHolds(queue[i])
  /\ \A i, j \in DOMAIN queue : queue[i] = queue[j] => i = j
  /\ \A c \in Conns :
       net[c].cli = "none" => proc[c] = "none" /\ ~MainHolds(c)
  /\ mainPc = "fork" => clnt \in Conns /\ proc[clnt] = "none"
  /\ mainPc = "close" => clnt \in Conns /\ proc[clnt] # "none"

(* While both ends are there, no byte is lost, duplicated or reordered:     *)
(* what the client has read, what is on its way back, what the child has    *)
(* in rcv_buffer and what it has not read yet are all the client sent.      *)
NothingLost ==
  \A c \in Conns :
    net[c].cli = "open" /\ ServerHolds(c) =>
      got[c] \o net[c].down \o buf[c] \o net[c].up = [i \in 1..sent[c] |-> i]

(* The children are collected as the handler's protocol says: the server    *)
(* refines SigChld, fairness included.                                      *)
Reaping == INSTANCE SigChld WITH
  Children <- Conns,
  proc <- [c \in Conns |-> IF proc[c] \in Alive THEN "running" ELSE proc[c]],
  parent <- IF mainPc = "exited" THEN "exited" ELSE "running"

ReapsBySigChld == Reaping!Spec

(* The clients see an echo service: their own bytes in order, no hang-up    *)
(* before they close, unless the server stops because fork() failed.        *)
Service == INSTANCE EchoService WITH
  client <- [c \in Conns |->
               IF ClientLeft(net[c]) THEN "closed" ELSE net[c].cli],
  service <- [c \in Conns |->
               CASE net[c].cli = "none" -> "none"
                 [] net[c].cli # "none" /\ ServerHolds(c) -> "open"
                 [] OTHER -> "closed"],
  running <- ~ForkFailed

ServesEcho == Service!Spec

(* A session whose client has left is over for the server too: its process  *)
(* ends, by end of file, by a read error or by SIGPIPE, and its socket is   *)
(* closed everywhere.                                                       *)
SessionReleased ==
  \A c \in Conns :
    ClientLeft(net[c]) ~> ~ServerHolds(c) /\ proc[c] \notin Alive

(* Every byte sent comes back while client and server keep the connection.  *)
EchoCompletes ==
  \A c \in Conns, k \in 1..MaxSend :
    sent[c] >= k ~> \/ Len(got[c]) >= k
                    \/ net[c].cli # "open"
                    \/ ~ServerHolds(c)
=============================================================================
