# Models of the TCP/IP programming examples

The repository is a collection of small C programs, one directory per chapter of
a course on TCP/IP programming.  Most are straight-line demonstrations of one
system call.  The ones with logic of their own are the **echo servers** — one
protocol, multiplexed in five ways: one client after another, a process per
client, a process per client with a logger process, `select()`, `epoll` — their
**clients**, echo over **datagrams** and over **FILE streams**, the **SIGCHLD
handler** the forking programs share, a small **calculator protocol**, and the
programs that take a connection down **one process or one direction at a time**.
Those are modelled here.

Everything below is TLA+: modules `*.tla`, TLC configurations `*.cfg`, and
proofs for TLAPS (`*_proofs.tla`).  `PROJECT.json` lists components, runs,
source lines of every definition, hazards, mutants and theorems.

    tlc -workers 2 -config MCSelectEcho.cfg MCSelectEcho    # a run
    tlapm SigChld_proofs.tla                                # the proofs

## 1. Inventory

| Component (source) | State it keeps | Operations | Interacts with |
|---|---|---|---|
| Zombie collection (`10-3-3-zombie`) | process table, one pending SIGCHLD | fork, exit, stop and continue, deliver signal, one `waitpid()`, return from `main()` | children, by exit and signal |
| Forking echo server (`10-4`, `10-5` `echoserver.c`) | `clnt_sock`, each child's `rcv_buffer`, who holds which socket, process table | `accept`, `fork`, `close` in the parent; `close(serv_sock)`, `read`, `write`, `close`, `return` in the child; handler | clients over TCP, children over inherited descriptors and SIGCHLD |
| Logging echo server (`11-2`) | the same, a pipe, its holders, the logger's buffer and file | as above, `write` to the pipe; the logger's `open`, `read`, `write` | echo processes and logger over the pipe |
| `select()` echo server (`12-2`) | `reads`, `cpy_reads`, `fd_max`, descriptor table, one shared `rcv_buffer` | `select`, `accept`, `read`, `write`, `close` | clients; the sessions share one process |
| `epoll` echo servers (`17-1`, `17-2`) | interest list, batch of events, descriptor table, one buffer | `epoll_wait`, `epoll_ctl`, `accept`, `read`, `write`, `close` | as above |
| Iterative echo servers and the echo clients (`4-3`, `5-1-1`, `9-2`; one client program in `10-4`, `11-2`, `12-2`, `17-1`, `17-2`) | served count, buffer; a client's line, `input_size`, `total_rcv_size` | server: `accept`, `read`, `write`, `close`; client: `fgets`, `write`, `read` until its criterion holds | each other over TCP |
| Calculator (`5-1-2`) | bytes on the wire, receive buffers, result | build message, send, receive in a loop, evaluate, answer | client and server over TCP |
| Splitting client (`10-5` `echoclient.c`) | the line being sent, which process holds the socket | parent: `fgets`, `write`, `close`; child: `read`, `close` | each other by the shared socket; `10-5`'s server |
| Half-closed connections (`7-1`, `16-1`) | the file, the chunk being sent, what has been read | server: `fread`/`fputs`, `write`, `shutdown`, `read`, `close`; client: `read` to the end, `write`, `close` | each other over TCP |
| Message and close (`1-1`, `2-1`, `13-1`) | the bytes on the wire | one side `write`, `close`; the other one `read`, `read` byte by byte, or `recv(MSG_PEEK)` until there is something and `recv` | each other over TCP |
| UDP echo (`6-2`) | the server's buffer and the address beside it; the client waits or not | `recvfrom`, `sendto`; `write`, `recvfrom` | each other over datagrams; ICMP errors |
| Multicast and broadcast news (`14-1`, `14-2`) | `news.txt`, its end-of-file flag, the line buffer | `fgets`, `sendto`; `recvfrom`, `fputs` | sender to all receivers over datagrams |
| Echo over `FILE*` (`15-3`) | one line buffer on the server, two on the client, `feof()` | `fgets`, `fputs`, `fflush`, `fclose` | each other over TCP |
| Pipes (`11-1-x`), signals and processes (`10-1`, `10-2`, `10-3-1`, `10-3-2`), files, addresses and options | — | — | left out, see section 8 |

What is hard in them, and what makes them correct:

* **Concurrency.** A signal handler interrupts `main()` in `accept()`; parent and
  children share descriptors, so that a `close()` hangs up only if it is the last;
  echo processes write to one pipe; a client's two processes share one socket;
  clients send, read, close or reset at any moment of a server's call.  *Correct:* no descriptor leaks, every connection
  gets one process, no byte is lost or crosses into another session.
* **One process for all.** In the `select()` and `epoll` servers a snapshot of
  ready descriptors is used while the loop itself accepts, closes and reuses
  descriptors.  *Correct:* the snapshot is never stale where it is used, no call
  blocks, nobody starves, one client cannot stop the others' service — and
  exactly when it can.
* **Failure.** `fork()` fails, descriptors run out, a client resets its
  connection (`read()` fails, or `write()` raises SIGPIPE), the log cannot be
  opened, standard signals merge.  *Correct:* only what must end ends, the rest
  is released.
* **Framing.** TCP may cut any message anywhere; the clients differ in how they
  tell that an answer is complete; `fgets()` waits for a newline; the calculator
  sends a size that counts something else than it sends.  *Correct:* what is read,
  evaluated and printed does not depend on the cuts.
* **Delivery.** Datagrams are lost, duplicated and reordered, their server is killed
  and started again, and no program has a timeout, a retry or a number in its
  messages.  *Correct:* an answer is the answer to the question just asked, or
  there is none.

The list of hazards, each at its line and with the properties that cover it, is
in `PROJECT.json`.

## 2. Modules

| Module | Models | Proofs |
|---|---|---|
| `Tcp` | one connection as the programs' calls see it: bytes in both directions, FIN, reset (environment; nothing of it is in the repository) | `Tcp_proofs` |
| `EchoService` | *abstract:* what an echo server promises its clients | |
| `SigChld` | `10-3-3-zombie`; at the same time the *abstract* reaping protocol of the servers | `SigChld_proofs` |
| `SigChldStrays` | `SigChld` with a history variable, which counts the signals no exit stands behind | in `SigChld_proofs` |
| `MultiProcEcho` | `10-4` server (`10-5`'s makes the same calls) | `MultiProcEcho_proofs` |
| `IpcEcho` | `11-2` server: processes, pipe and logger | in `Datagrams_proofs` |
| `SelectEcho` | `12-2` server, with any TCP clients | `SelectEcho_proofs` |
| `SelectSession` | `12-2` server with `12-2` clients | in `SelectEcho_proofs` |
| `EpollEcho` | `17-1` and `17-2` servers, which differ in `BUFFER_SIZE` | `EpollEcho_proofs` |
| `EchoClients` | the clients, each with an iterative server | `EchoClients_proofs` |
| `CloseOrder` | `10-5` client with its server's echo process; `7-1`; `16-1`; `1-1`; `2-1`; `13-1` | `CloseOrder_proofs` |
| `Datagrams` | `6-2`, `14-1`, `14-2`, and the network between them | `Datagrams_proofs` |
| `StreamEcho` | `15-3` client and server | in `MultiProcEcho_proofs` |
| `CalcProtocol` | `5-1-2` client and server | in `CloseOrder_proofs` |
| `MC*` | the instances TLC checks | |

Composition: `MultiProcEcho`, `SelectEcho`, `EpollEcho`, `IpcEcho`, `EchoClients`,
`CloseOrder` and `StreamEcho` EXTEND `Tcp`.  The first three implement
`EchoService` (`Service == INSTANCE EchoService WITH ...`, property `ServesEcho`),
and `MultiProcEcho` also implements `SigChld`, fairness included
(`ReapsBySigChld`).  `SelectSession` EXTENDS `SelectEcho`: each client step is a
step of `SelectEcho`'s client joined with one of `echoclient.c`'s own, and the
whole implements `SelectEcho`'s specification (`IsSelectClient`), its assumption
that clients read included.

Conventions:

* Variables have the code's names where it has one (`clnt` is `clnt_sock`, `buf`
  is `rcv_buffer[0..rcv_size-1]` or what `write()` has not yet copied of it,
  `reads`, `fdMax`, `total`); a `pc`-like variable names the call a process is
  about to make.  One action is one system call with the assignments around it,
  since between two calls nothing of a process can be seen by another.
* The bytes of a client are numbered 1, 2, 3, ...: a gap, a duplicate or a byte
  of somebody else shows at once.
* `read()` returns any number of bytes up to `BufSize` and what has arrived.
  A blocking `write()` copies what fits, sleeps, and goes on: it is a sequence of
  steps between which others run.
* `fork()` fails at any time, `accept()` when descriptors are out (in `EpollEcho`
  at any time, ENFILE included).
* Closing with unread bytes resets the connection; writing to a closed one draws
  a reset; after that `read()` or `write()` fails, or SIGPIPE ends the process,
  in the combinations Linux and BSD show.
* Each module has a section *Faults*: actions no specification uses.  They are
  the slips of section 6.

### State and actions against the code

* **`SigChld`** — `Spawn` is `fork_and_exit()` in the parent, `Exit` its child's
  `return`, `Deliver` the entry into `read_childproc()`, `Reap` its one
  `waitpid(-1, &status, WNOHANG)`, `ParentExit` the end of `main()`.
  `StopOrContinue` is what happens to a child and not what it does: Ctrl-Z and
  `fg`, or `kill -STOP` and `-CONT`.  `sa_flags` is 0 and not `SA_NOCLDSTOP`
  (`zombie.c:42`), so the kernel raises SIGCHLD then too, with nobody to collect
  (a `kill -CHLD` does the same).  `Reap` may therefore find no zombie:
  `waitpid()` returns 0, or -1 without children, and `zombie.c:14` reads a `status`
  nobody has set.  What that read gives changes nothing but a line of output.
* **`SigChldStrays`** — `strays` counts the signals of `StopOrContinue` that merge
  with no other, less the runs of `Reap` that find nobody.
* **`MultiProcEcho`** — `Accept`, `Fork`/`ForkFails`, `CloseClnt` are lines 71 to
  110, `Deliver` and `Reap` the handler, after which an `accept()` that slept has
  failed (`AcceptInterrupted`).  `StopOrContinue` is `SigChld`'s, of an echo process
  (`sa_flags` is 0 at line 36): the handler of such a signal collects a zombie that
  was left behind, or finds none, and line 124 prints whatever `waitpid()` has
  returned.  `ChildCloseServ` ... `ChildExit` are lines 92 to
  107.  `refs` and `servRefs` are the processes that hold a socket.
* **`IpcEcho`** — `ForkLogger` ... `ForkFails` are the parent, `LoggerStart` ...
  `LoggerEof` lines 82 to 104, `Child...` lines 131 to 153.  `writers` are the
  holders of `fds[1]`.  A message no longer than `PIPE_BUF` is written to the
  pipe as a whole or not at all yet, a longer one in pieces (`BUFFER_SIZE` is
  1024, and POSIX guarantees a `PIPE_BUF` of 512 only).
* **`SelectEcho`** — `Select` is lines 60 to 73; `ready` is what the loop over the
  descriptors has still to visit of `cpy_reads`, in ascending order; `Accept`,
  `Stops`, `ServRead`, `ServEof`, `ServReadFails`, `ServWrite...` are the loop's
  body.  `table` is the kernel's descriptor table; `accept()` takes the lowest
  free number.
* **`EpollEcho`** — `EpollWait` takes at most `EPOLL_SIZE` of the ready descriptors;
  `events` are those of the batch not handled yet.
* **`SelectSession`** — `cpc` is the client's next call, `left` what `write()` has
  not copied, `due` is `input_size - total_rcv_size`.  `ReadsEcho` is lines 56 to
  68, `Dies` their `return 1` and SIGPIPE.  A client whose server has closed goes
  round its loop for ever, as the code does.
* **`EchoClients`** — `Examples` says how the programs differ: one `read()` per
  line (`4-3`); `total_rcvd_size` counted over all lines (`5-1-1`, `9-2`); counted
  per line (`10-4` and later).  `9-2`'s `trim_lineend()` decrements its pointer and
  not the length, so that its shortest line has one byte.  `10-4`'s client runs
  against `9-2`'s server here.
* **`CloseOrder`** — six examples from `accept()` on.  `holders` are the client's
  processes with the socket open; `Closes` sends FIN or reset with the last of
  them only.  `serv` adds to `Tcp` a server's end that is shut for writing,
  `crst` resets that reach the client.  `TypeLine`, `Quit` and the `Clnt...` writes
  are `write_routine()`, `ClntRead`, `ClntEof`, `ClntReadFails` are
  `read_routine()`; the `Clnt...` actions are also the clients of `7-1` and `16-1`,
  which read and then write, of `1-1` (`ClntReadOnce`) and `2-1`, which only read,
  and of `13-1`, which only writes.  `ServPeek` is `recv(MSG_PEEK | MSG_DONTWAIT)`
  when it returns something; returning 0 or -1 the loop goes round unchanged.
  Either side may be killed.
* **`Datagrams`** — `net` is the set of datagrams on their way; taking any of them
  is reordering and delay, and copies are told apart by a number.  `TypeLine` is
  lines 51 to 61 of `6-2`'s client, `Receive` and `ReceiveFails` lines 62 to 66:
  `recv_buffer[-1] = 0` either changes nothing the program uses or leaves a process
  of which nothing more is said.  `Refuse` and `Report` are the ICMP error of a
  killed server and its arrival, which the next `write()` or `recvfrom()` of the
  connected socket returns.  `ServRecv` and `ServSend` are `6-2`'s server;
  `SendNews`, `EndOfFile` and `Text` the `feof()` loop of `14-1` and `14-2`, for a file
  that ends with a newline and one that does not; `Listen` the receivers.
* **`StreamEcho`** — `Lines(s)` is what `fgets()` returns of a stream: up to a newline
  or a full buffer, or nothing yet.  `Type...` are the client's `fgets(stdin)`,
  `TypeEof` the one that fails and leaves the buffer, which is then sent again;
  `ServGetsEof` is the server's at the end of the stream, `ServGetsFails` at a reset,
  which does not set `feof()`.
* **`CalcProtocol`** — `Written` is the memory image `write()` sends; `Expects`,
  `RcvCnt`, `RcvOp`, `RcvOprs` are `recv_msg()`; `EvalMsg` is `eval_msg()`, whose loop
  is the function `Results`.

## 3. Runs

| Run | Question | Bounds |
|---|---|---|
| `sigchld` | when does a handler with one `waitpid()` leave a zombie, what collects it, and when is there none? | 4 children |
| `multiproc` | descriptors, one process per connection, bytes, `EchoService` and `SigChld`; does everybody get answered and released? | 2 connections, queue 1, buffers of 2; the clients send up to 3 and 1 bytes |
| `ipc_logger` | is everything logged, does a process wait for the logger for ever, and does the logger end? | 2 connections, pipe of 3 for up to 3 and 1 bytes, `PIPE_BUF` 1, reads of 2 |
| `select_service` | bytes, who can stop the server, starvation, `EchoService` | 3 connections for 2 descriptors, queue 1, buffers of 2; the clients send up to 3, 1 and 0 bytes |
| `select_session` | does a call of the loop block? are the repository's clients those `SelectEcho` supposes? does every line come back? | 3 clients for 2 descriptors, lines of up to 2 bytes, buffers of 1 |
| `epoll` | stale events, `EchoService`, starvation | 3 connections for 2 descriptors, queue 1, batches of 2, reads of 2; the clients send up to 3, 1 and 0 bytes |
| `echo_clients` | how far has each client read when it prompts? what stops a server? | 2 clients, lines of up to 2 bytes, 7 bytes |
| `close_order` | who hangs up at "q"? does a long line stall? what does an acknowledgement prove, and does it come? does anybody miss a byte? | buffers of 2, 7 bytes typed, files of 5, messages of 3 |
| `datagrams` | does an answer belong to its question? what does a loss cost? what does `feof()` send? | 2 clients of 3 lines, 2 lines of news, 1 duplication, 1 kill, any losses |
| `stream_echo` | do echoes lag? what happens to the last line? | buffers of 3 bytes and the final NUL, 10 bytes typed, 6 buffers sent |
| `calc` | what is sent, evaluated, printed | requests with 0, 1, 2, 4, 64 and negative counts, and INT_MIN / -1, see `MCCalcProtocol` |
| `calc_answer` | *violated:* the printed answer is the operation's result | as `calc` |

Why the bounds are enough to mean something.  Interference is between two
sessions, or a session and the listening socket: two connections show it, and
where descriptors are reused or run out there are three for two places.  Buffers
of two bytes and messages of three make reads and writes partial and make
`write()` block; with a queue of one a client waits.  With four children two
signals can merge while a third is being handled, and stopped children add any
number.  In `epoll` two clients and the listening socket are ready at once, and
`epoll_wait()` returns two of the three.  In `ipc_logger` a read of two
bytes exceeds `PIPE_BUF`, so that writes interleave; the clients send four bytes
and the pipe holds three, so that it fills before the logger has read a byte,
and an echo process waits for it.  In
`close_order` the seven bytes of a line are one more than two socket buffers and
the server's own hold: without the reading process it would never be sent.  In
`datagrams` a client types more lines than there are duplications, so that answers
could run behind questions and catch up or not; one kill and one restart of the
server meet datagrams on their way, queued errors and a pending answer.  In
`stream_echo` lines are shorter than, as long as and longer than a buffer.  The
number of bytes a client sends is bounded (`MaxTyped`, and `Quota` client by client
in the servers, at most `MaxSend`) because byte numbers would grow for ever; where bytes are compared
it exceeds a buffer.  In all passing runs every action is taken.  Deadlock is not checked, as every system here may stop: when all clients
have left, when a server has exited, when nobody types.

What the violation shows.  `make_msg_header()` stores the size of the operands
without the header and both programs write that many bytes: three are missing,
so the server gets one byte of the last operand and the client one byte of the
result.  `4 + 5` is right, `300 + 1` is not.  The layout in the example's README
(size of the whole message, four bytes per operand) is not the program's.
`LastNumberCut` says exactly what the program computes instead, and holds.

What the passing runs say that is less comfortable than it sounds:

* `LossesAreMerges`: a merged SIGCHLD leaves a zombie — `zombie.c`'s two children
  end in the same second — and no later exit makes up for it: it stays until the
  parent ends, or until a child is stopped or continued, whose signal brings a
  handler run with no exit of its own.
* `HandlerFindsZombie` does not say that `zombie.c:14` never reads an uninitialized
  `status`: it does, once a child is stopped or continued.  It says that this
  happens at most once for each such signal, and for no other reason.
* `PatientClientsSafe`: the `select()` server *can* be ended, in a step in which a
  client has left before it has its echo, or in which the server holds every
  descriptor it has and one connection more is queued; the property says that
  nothing else ends it.  What counts are the connections held at that step, not those
  that have come and gone.  `OnlyCrowdingStops`: its own clients never leave early,
  so that only one connection too many ends it.
* `LineReturns` is about lines that fit the buffers on their way (`LineAssumption`), as
  those of `echoclient.c` do: `fgets()` ends them at `BUFFER_SIZE`.  Where the server has
  ended, the client spins at end of file for ever (line 58); the property says
  that this is the only case and that it is final, and does not exclude it.
* `ExchangeEnds` likewise states the spin of `recv_msg()` (line 15) when a division
  has killed the server, by zero or INT_MIN / -1 where that traps (x86, and not
  arm64): the client then never ends, and nothing else makes it spin.
* A *refusal* in `AnswersItsLine` (`Refused`) is no error message: when `recvfrom()` fails
  the UDP client prints that it has received -1 bytes, with whatever `recv_buffer` holds:
  the echo before, or what it was started with (`udpechoclient.c:63-66`).
* `KeepsPace` says `>= need` for the clients of `5-1-1` and `9-2`: from the second
  line on they may have read nothing of that line's echo.  `FullQuota`: when such
  a client then quits it resets its connection, and the server may die before it
  has served everybody it is made for.
* `QuitHangsUpNobody`: after "q" the splitting client's child and the server's
  process wait for each other until one of them is killed, because `close()` of a
  socket that another process holds sends no FIN.  `EchoComesBack` is the good side
  of the same design.
* `AnswersItsLine` excludes clients of whose datagrams one was duplicated: a second
  echo of a line is taken for the answer to the next, and from then on the client
  may stay one line behind.  Losses alone never do that, for the reason `LossIsFinal`
  gives: a client that has lost its answer asks nothing more, ever.
* `LastLineTwice` (`StreamEcho` and `Datagrams`): `feof()` turns true too late.
* `RoundTrip`: a last line without newline leaves client and server waiting for
  each other until one of them is killed.
* `NothingMissed` is silent about `1-1`'s client: its one `read()` may return a part
  of the message.

## 4. Fairness

Server processes are scheduled (`WF` of each process's next step), a pending
signal is delivered, a handler returns.  `fork()` may always fail, and no client
ever has to connect, send or close.  A process that is stopped is continued some
day, and nobody stops and continues processes for ever (`<>[][~StopOrContinue]` in
`MultiProcEcho`): each SIGCHLD interrupts `accept()`, and an endless sequence of
them could keep the server from ever accepting.

* **Clients read** (`WF` of `CliRead`) in `MultiProcEcho`, `SelectEcho` and
  `EpollEcho`: `echoclient.c` reads until it has its message.  It is needed: the
  single-process servers block in `write()` on a client that does not read, and
  with them everybody else.  `IpcEcho` does not assume it, and claims only what
  holds without it.
  `SelectSession` does not assume it but shows it (`IsSelectClient`) of
  `echoclient.c`, whose own steps are all that is fair there.
* **`epoll_wait()` goes round** the ready descriptors when there are more than
  `maxevents` (`SF` of `EpollWait /\ f \in events'`): epoll_wait(2) promises it.
* **Users need not type**, nor quit, nor kill anything: in `SelectSession`,
  `CloseOrder`, `Datagrams` and `StreamEcho` only what a program does without its
  user is fair.
* **A datagram that is not lost arrives** (`Datagrams`): a `recvfrom()` with a
  datagram or an error to return does return.  Nothing makes the network lose or
  duplicate, or deliver an ICMP error (`Report`); no claim needs it.
* `EchoClients` states no fairness: an iterative server and its clients may all
  come to a stop, and only safety is claimed.
* In `IpcEcho` the bytes sent are finitely many, so the pipe drains; who gets the
  room in a pipe that is always full is the kernel's choice and not claimed.

## 5. What is proved

TLAPS proves the following for *every* finite set of children, connections or
clients and every buffer size, backlog, number of descriptors and of bytes, and for every request of the
calculator.  It covers every invariant and every `[][...]_vars` property that a passing
run checks, and the safety part of every refinement.

`SigChld_proofs`
: `TypeCorrect`; `OnlyMergesLose` (`LossesAreMerges`); `EmptyRunsAreStray`
  (`HandlerFindsZombie` of `SigChldStrays`); `ExitsAloneBringZombies`, which needs no
  history variable: in a behaviour without `StopOrContinue` the handler never runs
  without a zombie.  The argument is a balance: *zombies minus signals, pending or
  being handled* (`Lost`).  One lemma per action says how it moves: an exit adds a
  zombie and at most a signal, delivery moves a signal from pending to handling, a
  stop or continuation adds at most a signal, the handler removes one of each, or
  only the signal.  So `Lost` falls by stray signals only and rises by merges and
  empty runs only, which is `OnlyMergesLose`; and `Lost + strays` falls by nothing at
  all, so that it is never negative (`SignalsCovered`, inductive with the types and
  with `strays` being a whole number).  A handler that runs without a zombie has
  `Lost < 0`, hence `strays > 0`.

`Tcp_proofs`
: what the other proofs share.  The types of `Tcp`'s operators; that no operation
  of either side but a `read()` makes a readable connection unreadable
  (`OpsKeep`); that a finite set of numbers has a least and a greatest element (by
  the library's well-foundedness of `Nat`), which is what "the lowest free
  descriptor" and `Max(Range(Quota))` need, and which takes the place of induction
  over data (below).  And the **flow** of a connection:

      Flow(g, k, b, n)    g is what the client has read, b what the server holds of
                          what it has read, n how many bytes the client has sent

  says that `g`, `k.down`, `b` and `k.up` are runs of consecutive numbers in this
  order: `g` starts at 1, `k.up` ends at `n`, and while the client is there nothing
  is missing between them (after it has left, bytes may be dropped where they
  would have been delivered to it).  `FlowClient` and `FlowServer`
  show that each operation of either side, with any count `read()` or `write()`
  returns, keeps it; `FlowIsStream` that it makes the four together `1..n`.  All
  properties about bytes follow from it.

`MultiProcEcho_proofs`
: `TypeCorrect`; `OneProcess` (`OneProcessPerConnection` is inductive with the
  types: a connection leaves the queue only through `accept()`, and `clnt` is not
  overwritten before `fork()`); `DescriptorsDoNotLeak` (`NoDescriptorLeak`), from
  an invariant that gives the exact holders of every socket and needs
  `OneProcessPerConnection`: otherwise `fork()` could pass on a socket that
  another child already holds.
: `NothingIsLost` (`NothingLost`), from `BytesInv`: the bytes of every connection
  flow, `rcv_buffer` is empty outside `write()`, and a session is over only when
  its client has left.
: `ImplementsEchoService` (`ServesEcho`): under the runs' refinement mapping the
  initial state is `EchoService`'s, a client's step is its `Connect`, `Send`,
  `Echo` or `Leave`, and a step of the server or of a child is its `Release` or a
  stutter.  The mapping needs all three invariants: that a connection is let go
  of only by its last holder, after its client or after a failed `fork()`, and
  that what a client reads is the next of its own bytes.
: `ServerReaps`: every step of the server is a step of `SigChld` or a stutter,
  under the mapping the runs use; and two theorems of `SigChld` carried over by that
  refinement and not proved again: `ServerLosesByMerging` (`LossesAreMerges`, with the
  server's processes for children), and `ServerHandlerFindsZombie`, which supposes,
  as `ExitsAloneBringZombies` does, that no process of the server is stopped or
  continued.

`MultiProcEcho_proofs`, from `StreamInv` on: `StreamEcho`
: `StreamTypeCorrect` (`StreamTypeOK`), `EchoesNeverLag` (`NoLag`) and
  `LastLineComesTwice` (`LastLineTwice`).  None of the three is inductive: they are
  about what has been printed, and say nothing of the bytes on their way.
  `StreamInv` does: at any moment at most one buffer is on its way, and it is in one
  of four places (`InStep`: `Idle`, `SentWhole`, `Echoing`, `Echoed`), whole; once the
  client has gone the server is in one of three others, by whether it met a reset, the
  end of the file, or the end of a line that has no newline (`Failed`, `LastAgain`,
  `LastOnce`).  What makes the pieces the same on both sides is `AtMostAll`: the
  server's `fgets()` of a buffer the client's `fgets()` has returned gives all of it or
  waits.  `Repeats` says what the server still has in its buffer, from which the line
  that comes twice is the last one.
: `StalledUntilKilled`, the safety half of what `RoundTrip` leaves out: once a last
  line without newline has both sides wait for each other, every step but a kill
  leaves them there.

`SelectEcho_proofs`
: `TypeCorrect` and `LoopSleepsInSelectOnly` (`LoopNeverBlocks`), from two lemmas.
  `reads`, `fd_max` and the kernel's table agree: one inductive invariant
  (`Watched`) of the types, the agreement, and one fact neither of them says, that
  outside `write()` `clnt` is the listening socket, so that no stale number is
  written to or closed.  And what `select()` reported is still readable when the
  scan reaches it, which needs to know where connections are (`Placed`): in the
  queue or behind one descriptor, and reset only if their client has gone.  Then
  `OpsKeep` keeps them readable, a `read()` on one descriptor leaves the
  connections of the others alone, and only the scan's own step takes a descriptor
  out of `ready`.
: `ImplementsEchoService` (`ServesEcho`): as for `MultiProcEcho`, but the sessions
  share one `rcv_buffer`, so that the flow of a connection goes through it only
  while it is the one in `write()` (`Held`), and a descriptor that is used again
  must not be taken for its old connection, which `Placed` excludes.
: `PatientClientsKeepServer` (`PatientClientsSafe`): only `ServKilled` and `Stops` end
  the server.  The first needs a client that has left with bytes of its own in the
  buffer, which by the flow it has not read (`Abandoned`); the second a full table,
  whose descriptors are as many connections, and one more in the queue, all of them
  held in that state (`Crowded`, a cardinality argument on the table).  Both are
  action properties: they speak of the step that ends the server, not of all that
  has happened before.
: `OwnClientsKeepServer` (`OnlyCrowdingStops` of `SelectSession`): the clients'
  program counters are added to the invariant.  When `echoclient.c` prompts it has
  its whole echo; while it writes or reads, `due` and `left` are what is missing
  (`InSession`).  By the flow a client that is served and waits is never at the end
  of file, so it leaves only from its prompt, with everything read.  Every step of
  `SelectSession` is one of `SelectEcho` (`SessionIsSafe`), so that everything
  proved of the server holds here, and this is the safety part of `IsSelectClient`.

`EpollEcho_proofs`
: `TypeCorrect`; `EventsStayCurrent` (`EventsCurrent`), by the same argument over
  batches: a descriptor is closed only by the step that has taken its own event
  out of the batch, so an `accept()` that uses it again meets no event of the old
  connection.  `ImplementsEchoService` (`ServesEcho`); and `PatientClientsKeepServer`,
  which no run states: here a failing `accept()` ends nothing, so a client that
  has left early, and whose echo is being written, is the only thing that does.

`EchoClients_proofs`
: `TypeCorrect`; `ClientsKeepPace` (`KeepsPace`) and `QuotaIsServed` (`FullQuota`).
  The invariant says of each connection that its bytes flow, where its client
  stands in its program (`Stands`), and how `total`, `need` and `left` compare with
  what it has read and sent (`Pace`), in the three ways the clients count.  A server
  ends before its quota only by a reset, for which a client must have closed with
  echo unread; `10-4`'s client has read all it has sent whenever it prompts while
  it is served.

`Datagrams_proofs`
: `TypeCorrect`, which includes that the server's buffer holds a datagram exactly
  between `recvfrom()` and `sendto()`, and the bound on `calls`.
: `EchoAnswersItsLine` (`AnswersItsLine`), from `EchoInv`: what is on its way to or
  from a client, in the server's buffer or pending as an error is of its own, and
  if none was duplicated there is at most one, of its last line, and none while it
  prompts; what it has printed is as long as what it has typed, or one shorter
  while it waits.
: `LossStaysFinal` (`LossIsFinal`, an action property): no step of anybody else puts
  on its way what carries a client's address.
: `NewsLastLineTwice` (`LastLineTwice`), from `NewsInv`: for a receiver that loses
  nothing there is an injection from the things it has printed to the calls of
  `sendto()`, and the calls it misses are exactly the datagrams on their way.  When
  none is left it is a bijection, and counting lines is counting calls.

`Datagrams_proofs`, from `Entries` on: `IpcEcho`
: `IpcTypeCorrect` (`IpcTypeOK`), which includes that the pipe is never overfull and
  that no buffer is read or written past its end, and `EveryByteReachesTheLog`
  (`EveryByteLogged`).  The invariant `IpcInv` has three parts besides the types.
  `Holders`: `main()`, the logger and each echo process hold the pipe's writing end
  exactly until they end or close it, so that when the logger meets the end of file
  nobody who could still write is left and the pipe is empty.  `OneEach` and
  `Buffers`: a connection has one process, and it finds its buffer as it left it.
  `Trails`: of every client the bytes logged, in the logger's buffer and in the pipe,
  those its process has still to write, and those it has still to read are runs of
  consecutive numbers that follow each other (`LogFlow`).  The pipe mixes the
  pieces of all clients; lemmas on `BytesOf` say that taking from its front and adding
  to its end does to the bytes of one client just that, and nothing to those of
  another.

`CloseOrder_proofs`
: `TypeCorrect` (`TypeOK`), `QuitLeavesSession` (`QuitHangsUpNobody`) and
  `ReadersMissNothing` (`NothingMissed`), from one invariant of ten parts for the six
  examples.  `Holding`: a process of the client holds the socket exactly while it
  runs, and the client's end is open while one does.  `Resetting`: resets only
  follow the end of the other side.  `FileKept`: while the client is there,
  `got`, what is on its way, the chunk and the rest of the file are the file.
  `Transfers`, `WritesAll`: the server shuts or closes its end when chunk and rest
  are empty, and the client turns to its acknowledgement only at the end of file.
  `Peeks`: what was peeked at is a prefix of what is still to be read, and only
  grows.  `Splits`: in `10-5` the server's process cannot have come to `close()`
  while the client's end is open.

`CloseOrder_proofs`, from `BytesOfWord` on: `CalcProtocol`
: `CalcTypeCorrect` (`CalcTypeOK`) and `OnlyLastNumberCut` (`LastNumberCut`).  The
  invariant `CalcInv` adds that what has been read and what is on its way are, in each
  direction, the bytes of one message (`Requested`, `Answered`); so when the loop of
  `recv_msg()` ends it has all of them, however `read()` has cut them.  The rest is
  arithmetic: the four bytes of a word make the word again (`BytesOfWord`), all
  operands but the last are sent with all four, and of the last, as of the answer,
  the lowest byte is sent and three zeroes take the place of the others.  It
  holds for requests of one to four operands (`Fits`); the bytes of longer ones run
  past the `msg_t`.  Numbers are not bounded: where a calculation leaves `int32_t` C
  promises nothing, and the theorem speaks of the numbers only.
: `UnsentRequestsStall`, the safety half of `ExchangeEnds`: a request whose size is no
  positive `int8_t` is never sent, and client and server wait for each other.
: `DeadServerIsAwaited`, the other one: the client of a server that a division has
  killed does not get out of `recv_msg()`, for it has nothing of the answer
  (`NoAnswerYet`).

Of `MultiProcEcho`, `SelectEcho`, `EpollEcho`, `EchoClients` and `Datagrams` the type
invariants are proved and no run lists them; those of `CloseOrder`, `IpcEcho`,
`CalcProtocol` and `StreamEcho` are proved and checked.  Where a module of proofs
treats two components these share neither variables nor theorems: only lemmas about
sequences and about `Tcp` serve both.

**Recursion.**  The library's induction rules take an operator as a parameter, which
the installed provers cannot instantiate.  `Results` (the calculator's loop) and
`BytesOf` (a session's bytes in the pipe) are therefore recursive *functions*, and
nothing is assumed of them: that a function satisfying the equation exists, and so
that they satisfy it, is shown by a smallest counterexample
(`SmallestOf` of `Tcp_proofs`: if some prefix had none there would be a shortest such
prefix, and the function for the one before it extends to it).

The assumptions are the modules' own `ASSUME`s: finite sets, positive buffer
sizes, the parent not being a connection.

Only model-checked:

* liveness, and whatever rests on fairness or `ENABLED`, which TLAPS does not reach:
  `EchoCompletes`, `SessionReleased`, `SessionsComplete`, `LineReturns`, `AckArrives`,
  `EchoComesBack`, `AnswerArrives`, `LoggerServes`, `ExchangeEnds` and `RoundTrip`, and the
  fairness parts of `ReapsBySigChld` and `IsSelectClient` (`EchoService` has none);
* that `AnswerIsRight` is false, which is a counterexample and needs no proof.

## 6. Faults, and the property that rules each out

| Module | Fault | Slip | Property |
|---|---|---|---|
| `SigChld` | `ReapAll` | while (waitpid(-1, &status, WNOHANG) > 0) | `HandlerFindsZombie` |
| `SigChld` | `ReapNone` | The handler returns before waitpid() | `LossesAreMerges` |
| `MultiProcEcho` | `CloseClntForgotten` | The parent forgets close(clnt_sock) | `NoDescriptorLeak` |
| `MultiProcEcho` | `ChildKeepsServ` | The child forgets close(serv_sock) | `NoDescriptorLeak` |
| `MultiProcEcho` | `AcceptFallsThrough` | accept()'s -1 is noticed, but the loop goes on to fork() | `OneProcessPerConnection` |
| `MultiProcEcho` | `ChildWriteShort` | A short count of write() is taken for the whole buffer | `NothingLost` |
| `MultiProcEcho` | `ChildWriteAgain` | After a short count the buffer is written again from its start | `ServesEcho` |
| `MultiProcEcho` | `ReapAll` | while (waitpid(-1, &status, WNOHANG) > 0) | `ReapsBySigChld` |
| `MultiProcEcho` | `ChildEofIgnored` | while (1): end of file is an empty message | `SessionReleased` |
| `MultiProcEcho` | `ChildReadFull` | The child waits for BUFFER_SIZE bytes before it echoes them | `EchoCompletes` |
| `SelectEcho` | `EofStopsServer` | End of file ends the server instead of the session | `PatientClientsSafe` |
| `SelectEcho` | `WriteAgain` | After a short count the buffer is written again from its start | `ServesEcho` |
| `SelectEcho` | `SelectWithoutCopy` | select(fd_max + 1, &reads, ...): reads is overwritten by the result | `SessionsComplete` |
| `SelectEcho` | `AcceptKeepsMax` | fd_max is not raised | `LoopNeverBlocks` |
| `SelectEcho` | `SelectScansReads` | FD_ISSET(i, &reads): the scan goes over all that is watched | `LoopNeverBlocks` |
| `SelectSession` | `NoMoreToRead` | One read() for each line | `OnlyCrowdingStops` |
| `SelectSession` | `OneByteLess` | while (total_rcv_size < input_size - 1) | `IsSelectClient` |
| `SelectSession` | `OneByteMore` | while (total_rcv_size <= input_size) | `LineReturns` |
| `EpollEcho` | `EofKeepsEvent` | The socket is closed, and its other events are left in the batch | `EventsCurrent` |
| `EpollEcho` | `ReadShortEnds` | A session is over when its client has sent less than a buffer | `ServesEcho` |
| `EpollEcho` | `EpollOneShot` | EPOLLIN and EPOLLONESHOT, and nobody arms the descriptor again | `EchoCompletes` |
| `EchoClients` | `NeverFresh` | 10-4's client keeps its total like 5-1-1's | `KeepsPace` |
| `EchoClients` | `EofExits` | if (rcvd_size <= 0) error_handling(...): end of file ends the server | `FullQuota` |
| `IpcEcho` | `LoggerOverreads` | The logger's read() is given more than sizeof(rcv_buffer) | `IpcTypeOK` |
| `IpcEcho` | `ChildWriteAborts` | A write() whose client is gone ends the session before it is logged | `EveryByteLogged` |
| `IpcEcho` | `LoggerReadsAtEnd` | The logger waits for the last session to end before it reads the pipe | `LoggerServes` |
| `CalcProtocol` | `ByteUncut` | The byte is not cut out of the word | `CalcTypeOK` |
| `CalcProtocol` | `ExpectsOnce` | The first `read()` is taken for the whole message | `LastNumberCut` |
| `CalcProtocol` | `ExpectsMore` | The loop goes on until there is more than a message | `ExchangeEnds` |
| `CloseOrder` | `ClosesAtOnce` | close() hangs up at once, whoever else holds the socket | `TypeOK` |
| `CloseOrder` | `QuitEndsReader` | Line 56 of 10-5's client with kill(pid, SIGTERM) before it | `QuitHangsUpNobody` |
| `CloseOrder` | `ShortReadEnds` | A read() of less than BUFFER_SIZE is taken for the end of the file | `NothingMissed` |
| `CloseOrder` | `ReadsWhenWritten` | One process for both: it reads when it has written its line | `EchoComesBack` |
| `CloseOrder` | `NoShutdown` | fflush() without shutdown() | `AckArrives` |
| `Datagrams` | `TimesOut` | setsockopt(SO_RCVTIMEO): recvfrom() gives up on a late datagram | `AnswersItsLine`, `LossIsFinal` |
| `Datagrams` | `EndOfFileFirst` | while (fgets(...)): the end of the file is met before, not after, sending | `LastLineTwice` |
| `Datagrams` | `SendsAnywhere` | recvfrom(..., NULL, 0): sendto() goes to whatever address is there | `AnswerArrives` |
| `StreamEcho` | `TypePartOver` | fgets(input_buffer, BUFFER_SIZE + 1, stdin) | `StreamTypeOK` |
| `StreamEcho` | `CliReadsAny` | read(sock, rcv_buffer, BUFFER_SIZE - 1): what has arrived is the echo | `NoLag` |
| `StreamEcho` | `EofEndsLoop` | while (fgets(...)): end of file ends the loop before another echo | `LastLineTwice` |
| `StreamEcho` | `WithoutFlush` | No fflush(wfp): the echo stays in the FILE until it is closed | `RoundTrip` |

## 7. Plan

Done: every component whose programs interact or decide something is modelled, and
every safety property of the passing runs is a theorem (section 5).  What remains
is out of the prover's reach and stays with TLC: the liveness properties and the
fairness of two refinements.

## 8. Not modelled

* `printf()` in handlers (not async-signal-safe) and stdio buffers duplicated by
  `fork()`: no property of the service depends on the output.
* The pipes of `11-1-1` and `11-1-3`: two processes send each other one short message,
  and each writes before it reads, an order without a choice in which no write
  fills a pipe.  The pipe with several writers is in `IpcEcho`.
* Lines of `news.txt` or of a UDP client that exceed the buffer: they are cut as
  `StreamEcho` shows for TCP, and every part is a line to the rest of the program.
* `FD_SET()` of a descriptor that is not below `FD_SETSIZE`: the sets of `SelectEcho` have
  no size, so that what it says is said of limits (`FdLimit`) up to `FD_SETSIZE`.  With the
  usual limit of 1024 open files they are the same number.
* A server's own process that is killed, or stopped and continued.  The latter matters
  to `EpollEcho` alone: on Linux `epoll_wait()` then fails with EINTR, although no
  handler is installed, and line 69 leaves the loop.  The stops that
  reach `main()` as signals of its children are modelled, in the forking servers.
* `SO_REUSEADDR` and TIME_WAIT: they decide whether a server can be started, not
  what it does.
* Failures of the set-up calls (`socket`, `bind`, `listen`, `pipe`): the program
  returns before anything has happened.
* The length of `sleep()`s and `select()`'s timeout: children end at any time, and a
  timeout changes nothing.
* Signed overflow of the calculator's sums, differences and products, which C leaves
  undefined: the requests of the runs avoid it, and the theorems speak of unbounded
  numbers there.  INT_MIN / -1 is modelled, with what x86 and arm64 do.  One request is
  served per run of the program.
* A pipe `read()` that fails, an interrupted `read()` or `write()`: no handler of
  these processes runs while they are in one.
* The sequential examples (`1-2`, `3-x`, `8-2`, `9-1`, `10-1`, `10-2`, `10-3-1`, `10-3-2`,
  `13-2`, `15-1`, `15-2`): one call after the other, without state shared with anybody.
  `PROJECT.json` names each with its reason.
