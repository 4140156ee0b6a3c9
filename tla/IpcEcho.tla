------------------------------- MODULE IpcEcho -------------------------------
(****************************************************************************)
(* 11-2-ipcecho/echoserver.c: the forking echo server, whose echo processes *)
(* also write what they echo to a pipe, and a logger process that copies    *)
(* the pipe to a file until every writer has closed it.                     *)
(*                                                                          *)
(* The SIGCHLD handler only changes the process table (module SigChld), and *)
(* an accept() it interrupts is called again: neither is modelled here.     *)
(* What the parent's close(clnt_sock) of line 155 is for is checked in      *)
(* MultiProcEcho; here it follows fork() at once.  The holders of the pipe  *)
(* are this module's subject.                                               *)
(****************************************************************************)
EXTENDS Tcp, FiniteSets, Functions

CONSTANTS
  Conns,      \* the connections clients may open
  Main,       \* the parent process
  Logger,     \* the logger process
  Backlog,    \* listen()'s backlog
  PipeCap,    \* bytes a pipe holds
  PipeBuf,    \* PIPE_BUF: a write of no more bytes is atomic
  MaxSend,    \* bound on the bytes one client sends
  Quota       \* how many bytes each client sends at most

ASSUME IpcAssumption ==
  /\ IsFiniteSet(Conns) /\ {Main, Logger} \intersect Conns = {} /\ Main # Logger
  /\ Backlog \in Nat \ {0} /\ MaxSend \in Nat
  /\ Quota \in [Conns -> 0..MaxSend]
  /\ PipeBuf \in Nat \ {0} /\ PipeCap \in Nat /\ PipeBuf <= PipeCap

VARIABLES
  mainPc,     \* what main() does next, from line 71 on, or exited
  clnt,       \* clnt_sock in main()
  queue,      \* the listen queue
  conn,       \* the connections
  proc,       \* the echo process of each connection
  buf,        \* its rcv_buffer[0..rcv_size-1]
  at,         \* how much of buf the current write() has copied
  pipe,       \* the bytes in the pipe: <<connection, byte>>
  writers,    \* the processes that hold fds[1]
  logger,     \* the logger: start, read, write or ended
  opened,     \* its open() has succeeded
  logBuf,     \* what it has read from the pipe and not yet written
  log,        \* the bytes of each client in the log file
  sent        \* bytes sent by each client

ipcVars == <<mainPc, clnt, queue, conn, proc, buf, at, pipe, writers,
             logger, opened, logBuf, log, sent>>
main == <<mainPc, clnt>>
child == <<proc, buf, at>>
logging == <<logger, opened, logBuf, log>>

Alive == {"start", "read", "write", "log", "close"}

\* killed: by SIGPIPE, before it logged its buffer.
Ended == {"exited", "killed"}

IpcTypeOK ==
  /\ mainPc \in {"fork logger", "accept", "fork", "exited"}
  /\ clnt \in Conns \union {Main}             \* Main: no connection yet
  /\ queue \in Seq(Conns)
  /\ conn \in [Conns -> Connection]
  /\ proc \in [Conns -> {"none"} \union Alive \union Ended]
  /\ buf \in [Conns -> Seq(Nat)]
  /\ at \in [Conns -> 0..BufSize]
  /\ {pipe, logBuf} \subseteq Seq(Conns \X Nat)
  /\ log \in [Conns -> Seq(Nat)]
  /\ Len(pipe) <= PipeCap /\ Len(logBuf) <= BufSize
  /\ writers \subseteq Conns \union {Main, Logger}
  /\ logger \in {"none", "start", "read", "write", "ended"}
  /\ opened \in BOOLEAN
  /\ sent \in [Conns -> 0..MaxSend]

\* serv_sock listens and the pipe is open.
IpcInit ==
  /\ mainPc = "fork logger"
  /\ clnt = Main
  /\ queue = <<>>
  /\ conn = [c \in Conns |-> Unconnected]
  /\ proc = [c \in Conns |-> "none"]
  /\ buf = [c \in Conns |-> <<>>]
  /\ at = [c \in Conns |-> 0]
  /\ pipe = <<>>
  /\ writers = {Main}
  /\ logger = "none"
  /\ opened = FALSE
  /\ logBuf = <<>>
  /\ log = [c \in Conns |-> <<>>]
  /\ sent = [c \in Conns |-> 0]

-----------------------------------------------------------------------------
\* Faults: what a slip would make of the actions below.  No specification
\* uses them; README.md says which property rules each of them out.

\* The logger's read() is given more than sizeof(rcv_buffer).
LoggerOverreads ==
  /\ logger = "read"
  /\ pipe # <<>>
  /\ logBuf' = pipe
  /\ pipe' = <<>>
  /\ logger' = "write"
  /\ UNCHANGED <<main, queue, conn, child, writers, opened, log, sent>>

\* The logger waits for the last session to end before it reads the pipe.
LoggerReadsAtEnd ==
  /\ logger = "read"
  /\ pipe # <<>> /\ writers = {}
  /\ LET n == IF Len(pipe) < BufSize THEN Len(pipe) ELSE BufSize
     IN logBuf' = Front(pipe, n) /\ pipe' = Rest(pipe, n)
  /\ logger' = "write"
  /\ UNCHANGED <<main, queue, conn, child, writers, opened, log, sent>>

\* A write() whose client is gone ends the session before it is logged.
ChildWriteAborts(c) ==
  /\ proc[c] = "write"
  /\ \/ WriteDrawsReset(conn[c]) /\ conn' = [conn EXCEPT ![c] = AfterReset(@)]
     \/ WriteFails(conn[c]) /\ conn' = [conn EXCEPT ![c] = Reported(@)]
  /\ buf' = [buf EXCEPT ![c] = <<>>]
  /\ at' = [at EXCEPT ![c] = 0]
  /\ proc' = [proc EXCEPT ![c] = "close"]
  /\ UNCHANGED <<main, queue, pipe, writers, logging, sent>>

-----------------------------------------------------------------------------
\* Clients, such as 11-2's echoclient, and the kernel's listen queue.

ServerHolds(c) ==
  \/ c \in Range(queue)
  \/ clnt = c /\ mainPc = "fork"
  \/ proc[c] \in Alive

\* serv_sock is open in a child, in the logger, or anywhere.
ChildListens == { c \in Conns : proc[c] = "start" }
SharedListener == ChildListens # {} \/ logger = "start"
Listening == mainPc # "exited" \/ SharedListener

\* What echoclient.c does, and whatever else a TCP client may do in another
\* order: connect, send a byte of its lines, read, close.
Connect(c) ==
  /\ conn[c].cli = "none"
  /\ Listening
  /\ Len(queue) < Backlog
  /\ conn' = [conn EXCEPT ![c] = Connected(@)]
  /\ queue' = Append(queue, c)
  /\ UNCHANGED <<main, child, pipe, writers, logging, sent>>

CliSend(c) ==
  /\ CanSend(conn[c])
  /\ ServerHolds(c)
  /\ sent[c] < Quota[c]
  /\ sent' = [sent EXCEPT ![c] = @ + 1]
  /\ conn' = [conn EXCEPT ![c] = Sent(@, sent[c] + 1)]
  /\ UNCHANGED <<main, queue, child, pipe, writers, logging>>

\* All that has come back: only the room it leaves matters here.
CliRead(c) ==
  /\ conn[c].cli = "open" /\ conn[c].down # <<>>
  /\ conn' = [conn EXCEPT ![c] = Taken(@, Len(@.down))]
  /\ UNCHANGED <<main, queue, child, pipe, writers, logging, sent>>

CliClose(c) ==
  /\ conn[c].cli = "open"
  /\ conn' = [conn EXCEPT ![c] = Left(@)]
  /\ UNCHANGED <<main, queue, child, pipe, writers, logging, sent>>

ClientNext(c) == Connect(c) \/ CliSend(c) \/ CliRead(c) \/ CliClose(c)

-----------------------------------------------------------------------------
\* main(), from line 71 on.

\* The logger inherits both ends of the pipe and serv_sock; line 106 closes
\* the parent's reading end.
ForkLogger ==
  /\ mainPc = "fork logger"
  /\ logger' = "start"
  /\ writers' = writers \union {Logger}
  /\ mainPc' = "accept"
  /\ UNCHANGED <<clnt, queue, conn, child, pipe, opened, logBuf, log, sent>>

\* fork() fails: return 1, and the kernel closes what is open.
ForkLoggerFails ==
  /\ mainPc = "fork logger"
  /\ mainPc' = "exited"
  /\ writers' = {}
  /\ queue' = <<>>
  /\ UNCHANGED <<clnt, conn, child, pipe, logging, sent>>

Accept ==
  /\ mainPc = "accept"
  /\ queue # <<>>
  /\ clnt' = Head(queue)
  /\ queue' = Tail(queue)
  /\ mainPc' = "fork"
  /\ UNCHANGED <<conn, child, pipe, writers, logging, sent>>

\* The child inherits serv_sock, clnt_sock and fds[1]; close(clnt_sock).
Fork ==
  /\ mainPc = "fork"
  /\ proc' = [proc EXCEPT ![clnt] = "start"]
  /\ writers' = writers \union {clnt}
  /\ mainPc' = "accept"
  /\ UNCHANGED <<clnt, queue, conn, buf, at, pipe, logging, sent>>

\* fork() fails: return 1.  The queue goes with serv_sock's last holder.
ForkFails ==
  /\ mainPc = "fork"
  /\ mainPc' = "exited"
  /\ writers' = writers \ {Main}
  /\ queue' = IF SharedListener THEN queue ELSE <<>>
  /\ UNCHANGED <<clnt, conn, child, pipe, logging, sent>>

MainNext ==
  \/ ForkLogger \/ ForkLoggerFails
  \/ Accept \/ Fork \/ ForkFails

-----------------------------------------------------------------------------
\* The logger.

\* open() (which fails if there is no such file, and is not checked),
\* close(serv_sock), close(fds[1]).
LoggerStart ==
  /\ logger = "start"
  /\ logger' = "read"
  /\ opened' \in BOOLEAN
  /\ writers' = writers \ {Logger}
  /\ queue' = IF mainPc = "exited" /\ ChildListens = {} THEN <<>> ELSE queue
  /\ UNCHANGED <<main, conn, child, pipe, logBuf, log, sent>>

\* A read() of a pipe returns what is there, up to BUFFER_SIZE.
LoggerRead ==
  /\ logger = "read"
  /\ pipe # <<>>
  /\ LET n == IF Len(pipe) < BufSize THEN Len(pipe) ELSE BufSize
     IN logBuf' = Front(pipe, n) /\ pipe' = Rest(pipe, n)
  /\ logger' = "write"
  /\ UNCHANGED <<main, queue, conn, child, writers, opened, log, sent>>

\* The bytes of c's client in s, in their order there.
BytesOf(c, s) ==
  LET of[n \in 0..Len(s)] ==
        CASE n = 0 -> <<>>
          [] n > 0 /\ s[n][1] = c -> Append(of[n - 1], s[n][2])
          [] OTHER -> of[n - 1]
  IN of[Len(s)]

LoggerWrite ==
  /\ logger = "write"
  /\ log' = IF opened THEN [c \in Conns |-> log[c] \o BytesOf(c, logBuf)] ELSE log
  /\ logBuf' = <<>>
  /\ logger' = "read"
  /\ UNCHANGED <<main, queue, conn, child, pipe, writers, opened, sent>>

\* read() returns 0 when the pipe is empty and nobody holds fds[1].
LoggerEof ==
  /\ logger = "read"
  /\ pipe = <<>> /\ writers = {}
  /\ logger' = "ended"
  /\ UNCHANGED <<main, queue, conn, child, pipe, writers, opened, logBuf, log, sent>>

LoggerNext == LoggerStart \/ LoggerRead \/ LoggerWrite \/ LoggerEof

-----------------------------------------------------------------------------
\* The echo process of connection c.

\* close(serv_sock)
ChildCloseServ(c) ==
  /\ proc[c] = "start"
  /\ proc' = [proc EXCEPT ![c] = "read"]
  /\ queue' = IF mainPc = "exited" /\ logger # "start" /\ ChildListens = {c}
                THEN <<>> ELSE queue
  /\ UNCHANGED <<main, conn, buf, at, pipe, writers, logging, sent>>

ChildRead(c) ==
  /\ proc[c] = "read"
  /\ \E n \in Reads(conn[c]) :
       /\ buf' = [buf EXCEPT ![c] = Front(conn[c].up, n)]
       /\ conn' = [conn EXCEPT ![c] = AfterRead(@, n)]
  /\ proc' = [proc EXCEPT ![c] = "write"]
  /\ UNCHANGED <<main, queue, at, pipe, writers, logging, sent>>

\* read() returns 0.
ChildEof(c) ==
  /\ proc[c] = "read"
  /\ ReadMeetsEof(conn[c])
  /\ proc' = [proc EXCEPT ![c] = "close"]
  /\ UNCHANGED <<main, queue, conn, buf, at, pipe, writers, logging, sent>>

\* write(clnt_sock, ...) copies what fits and sleeps for the rest.
ChildWrite(c) ==
  /\ proc[c] = "write"
  /\ \E n \in Writes(conn[c], Rest(buf[c], at[c])) :
       LET all == at[c] + n = Len(buf[c])
       IN /\ conn' = [conn EXCEPT ![c] = AfterWrite(@, Rest(buf[c], at[c]), n)]
          /\ at' = [at EXCEPT ![c] = IF all THEN 0 ELSE @ + n]
          /\ proc' = [proc EXCEPT ![c] = IF all THEN "log" ELSE "write"]
  /\ UNCHANGED <<main, queue, buf, pipe, writers, logging, sent>>

\* The client is gone: write()'s result is not looked at, and the bytes are
\* logged all the same.
ChildWriteLost(c) ==
  /\ proc[c] = "write"
  /\ \/ WriteDrawsReset(conn[c]) /\ conn' = [conn EXCEPT ![c] = AfterReset(@)]
     \/ WriteFails(conn[c]) /\ conn' = [conn EXCEPT ![c] = Reported(@)]
  /\ at' = [at EXCEPT ![c] = 0]
  /\ proc' = [proc EXCEPT ![c] = "log"]
  /\ UNCHANGED <<main, queue, buf, pipe, writers, logging, sent>>

\* How many bytes write(fds[1], ...) copies at once: a short message as a
\* whole, a longer one in pieces between which others may write.
LogCounts(c) ==
  { n \in 1..(Len(buf[c]) - at[c]) :
      /\ n <= PipeCap - Len(pipe)
      /\ Len(buf[c]) <= PipeBuf => n = Len(buf[c]) }

ChildLog(c) ==
  /\ proc[c] = "log"
  /\ \E n \in LogCounts(c) :
       LET all == at[c] + n = Len(buf[c])
       IN /\ pipe' = pipe \o [i \in 1..n |-> <<c, buf[c][at[c] + i]>>]
          /\ at' = [at EXCEPT ![c] = IF all THEN 0 ELSE @ + n]
          /\ buf' = [buf EXCEPT ![c] = IF all THEN <<>> ELSE @]
          /\ proc' = [proc EXCEPT ![c] = IF all THEN "read" ELSE "log"]
  /\ UNCHANGED <<main, queue, conn, writers, logging, sent>>

\* close(clnt_sock), close(fds[1]), return
ChildClose(c) ==
  /\ proc[c] = "close"
  /\ proc' = [proc EXCEPT ![c] = "exited"]
  /\ writers' = writers \ {c}
  /\ UNCHANGED <<main, queue, conn, buf, at, pipe, logging, sent>>

\* read() returns -1: both descriptors are closed.
ChildReadFails(c) ==
  /\ proc[c] = "read"
  /\ ReadFails(conn[c])
  /\ conn' = [conn EXCEPT ![c] = Reported(@)]
  /\ proc' = [proc EXCEPT ![c] = "close"]
  /\ UNCHANGED <<main, queue, buf, at, pipe, writers, logging, sent>>

\* write() raises SIGPIPE: buf never reaches the log.
ChildKilled(c) ==
  /\ proc[c] = "write"
  /\ WriteKills(conn[c])
  /\ conn' = [conn EXCEPT ![c] = Reported(@)]
  /\ proc' = [proc EXCEPT ![c] = "killed"]
  /\ writers' = writers \ {c}
  /\ UNCHANGED <<main, queue, buf, at, pipe, logging, sent>>

ChildNext(c) ==
  \/ ChildCloseServ(c) \/ ChildRead(c) \/ ChildEof(c)
  \/ ChildWrite(c) \/ ChildWriteLost(c) \/ ChildLog(c)
  \/ ChildClose(c) \/ ChildReadFails(c) \/ ChildKilled(c)

-----------------------------------------------------------------------------
IpcNext ==
  \/ MainNext
  \/ LoggerNext
  \/ \E c \in Conns : ClientNext(c) \/ ChildNext(c)

\* The processes of the server are scheduled; nothing is asked of a client.
IpcFairness ==
  /\ WF_ipcVars(MainNext)
  /\ WF_ipcVars(LoggerNext)
  /\ \A c \in Conns : WF_ipcVars(ChildNext(c))

IpcSpec == IpcInit /\ [][IpcNext]_ipcVars /\ IpcFairness

-----------------------------------------------------------------------------
\* What c's process has read: all but what it still has to write to the pipe.
HandedOn(c) ==
  sent[c] - Len(conn[c].up) - Len(buf[c]) + (IF proc[c] = "log" THEN at[c] ELSE 0)

(* If the log file could be opened, the log has what the echo processes     *)
(* have read of each client, in order and nothing twice, however their      *)
(* writes interleave and whether or not the client took its echo: all but   *)
(* the one buffer of a process that SIGPIPE killed.  The logger ends with   *)
(* everything in the file.                                                  *)
EveryByteLogged ==
  /\ logger \in {"none", "start"} \/ opened =>
       \A c \in Conns : log[c] \o BytesOf(c, logBuf \o pipe) = [i \in 1..HandedOn(c) |-> i]
  /\ logger = "ended" => logBuf \o pipe = <<>> /\ \A c \in Conns : proc[c] \notin Alive

\* The parent has left line 121 and no client needs its process any more.
ServiceOver ==
  mainPc = "exited" /\ \A c \in Conns : proc[c] \in Alive => ClientLeft(conn[c])

Logs(c) == proc[c] = "log"

(* The logger outlives the parent and ends when the last session has, so    *)
(* nobody keeps a writing end of the pipe too long; and an echo process     *)
(* never waits for it for ever.                                             *)
LoggerServes ==
  /\ ServiceOver /\ logger # "none" ~> logger = "ended"
  /\ \A c \in Conns : Logs(c) ~> ~Logs(c)
=============================================================================
