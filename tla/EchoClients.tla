----------------------------- MODULE EchoClients -----------------------------
(****************************************************************************)
(* The echo clients with the iterative echo servers: 4-3-iterecho,          *)
(* 5-1-1-iterecho, 9-2-reuseaddr, and 10-4's echoclient (the same program   *)
(* in 11-2, 12-2, 17-1 and 17-2) with 9-2's server.                         *)
(*                                                                          *)
(* A server serves one connection at a time, the others wait in its listen  *)
(* queue.  The clients send a line and then read its echo, and differ in    *)
(* how they tell that it is complete:                                       *)
(*   once    one read() per line (4-3)                                      *)
(*   total   until as many bytes have been read as the line has, counting   *)
(*           those read for earlier lines (5-1-1, 9-2)                      *)
(*   fresh   until as many bytes have been read for this line (10-4)        *)
(****************************************************************************)
EXTENDS Tcp, FiniteSets, Functions

CONSTANTS
  Conns,      \* the clients, each with its connection
  NoConn,     \* clnt_sock while no connection is served
  Limit,      \* connections 4-3's and 5-1-1's servers accept: 5
  Backlog,    \* listen()'s backlog
  MaxLine,    \* bound on the length of a line
  MaxSend     \* bound on the bytes one client sends

ASSUME EchoClientsAssumption ==
  /\ IsFiniteSet(Conns) /\ NoConn \notin Conns
  /\ Limit \in Nat \ {0} /\ Backlog \in Nat \ {0}
  /\ MaxLine \in Nat \ {0} /\ MaxSend \in Nat

\* What differs between the examples: how the client reads, its shortest
\* line (9-2's trim_lineend() leaves a NUL for the newline in the count), how
\* many connections the server accepts, and whether a failed read() ends it.
Example(reads, minLine, limit, exits) ==
  [reads |-> reads, minLine |-> minLine, limit |-> limit, exits |-> exits]

Examples ==
  { Example("once", 0, Limit, TRUE),     \* 4-3
    Example("total", 0, Limit, FALSE),   \* 5-1-1
    Example("total", 1, 1, TRUE),        \* 9-2
    Example("fresh", 0, 1, TRUE) }       \* 10-4's client, 9-2's server

VARIABLES
  example,    \* the example that runs
  pc,         \* the server: accept, read, write or exited
  clnt,       \* clnt_sock
  served,     \* connections accepted
  buf,        \* buffer[0..rcvd_size-1], what is left to write
  queue,      \* the listen queue
  net,        \* the connections
  cpc,        \* a client: start, prompt, write, read or done
  left,       \* what is left of its line to write
  need,       \* input_size
  total,      \* total_rcvd_size
  sent,       \* bytes written by each client
  got         \* bytes read back by each client

server == <<pc, clnt, served, buf>>
client == <<cpc, left, need, total, sent, got>>
vars == <<example, pc, clnt, served, buf, queue, net,
          cpc, left, need, total, sent, got>>

TypeOK ==
  /\ example \in Examples
  /\ pc \in {"accept", "read", "write", "exited"}
  /\ clnt \in Conns \union {NoConn}
  /\ served \in 0..example.limit
  /\ buf \in Seq(Nat)
  /\ queue \in Seq(Conns)
  /\ net \in [Conns -> Connection]
  /\ cpc \in [Conns -> {"start", "prompt", "write", "read", "done"}]
  /\ left \in [Conns -> 0..MaxLine]
  /\ need \in [Conns -> 0..MaxLine]
  /\ total \in [Conns -> Nat]
  /\ sent \in [Conns -> Nat]
  /\ got \in [Conns -> Seq(Nat)]

Init ==
  /\ example \in Examples
  /\ pc = "accept"
  /\ clnt = NoConn
  /\ served = 0
  /\ buf = <<>>
  /\ queue = <<>>
  /\ net = [c \in Conns |-> Unconnected]
  /\ cpc = [c \in Conns |-> "start"]
  /\ left = [c \in Conns |-> 0]
  /\ need = [c \in Conns |-> 0]
  /\ total = [c \in Conns |-> 0]
  /\ sent = [c \in Conns |-> 0]
  /\ got = [c \in Conns |-> <<>>]

ServerHolds(c) == c \in Range(queue) \/ clnt = c

-----------------------------------------------------------------------------
\* Faults: what a slip would make of the definitions below.  No specification
\* uses them; README.md says which property rules each of them out.

\* 10-4's client keeps its total like 5-1-1's.
NeverFresh(c) == total[c]

\* if (rcvd_size <= 0) error_handling(...): end of file ends the server.
EofExits ==
  /\ pc = "read"
  /\ ReadMeetsEof(net[clnt])
  /\ pc' = "exited"
  /\ clnt' = NoConn /\ buf' = <<>> /\ queue' = <<>>
  /\ UNCHANGED <<example, served, net, client>>

-----------------------------------------------------------------------------
\* The clients.

\* total_rcv_size when a line has been typed.
TotalAtLine(c) == IF example.reads = "fresh" THEN 0 ELSE total[c]

\* The client calls read() (again) for a line of n bytes, t being the total.
MoreToRead(n, t) == example.reads # "once" /\ t < n

Connect(c) ==
  /\ cpc[c] = "start"
  /\ pc # "exited"
  /\ Len(queue) < Backlog
  /\ net' = [net EXCEPT ![c] = Connected(@)]
  /\ queue' = Append(queue, c)
  /\ cpc' = [cpc EXCEPT ![c] = "prompt"]
  /\ UNCHANGED <<example, server, left, need, total, sent, got>>

TypeLine(c) ==
  /\ cpc[c] = "prompt"
  /\ \E n \in example.minLine..MaxLine :
       /\ sent[c] + n <= MaxSend
       /\ need' = [need EXCEPT ![c] = n]
       /\ left' = [left EXCEPT ![c] = n]
  /\ total' = [total EXCEPT ![c] = TotalAtLine(c)]
  /\ cpc' = [cpc EXCEPT ![c] = "write"]
  /\ UNCHANGED <<example, server, queue, net, sent, got>>

\* The line is "q": close(), even if more echo is on its way.
Quit(c) ==
  /\ cpc[c] = "prompt"
  /\ net' = [net EXCEPT ![c] = Left(@)]
  /\ cpc' = [cpc EXCEPT ![c] = "done"]
  /\ UNCHANGED <<example, server, queue, left, need, total, sent, got>>

\* write() copies byte after byte as there is room.
CliWrite(c) ==
  /\ cpc[c] = "write" /\ left[c] > 0
  /\ ServerHolds(c)
  /\ CanSend(net[c])
  /\ net' = [net EXCEPT ![c] = Sent(@, sent[c] + 1)]
  /\ sent' = [sent EXCEPT ![c] = @ + 1]
  /\ left' = [left EXCEPT ![c] = @ - 1]
  /\ UNCHANGED <<example, server, queue, cpc, need, total, got>>

\* The server has closed its end: the rest of the line is accepted and lost.
CliWriteLost(c) ==
  /\ cpc[c] = "write" /\ left[c] > 0
  /\ ~ServerHolds(c)
  /\ left' = [left EXCEPT ![c] = 0]
  /\ UNCHANGED <<example, server, queue, net, cpc, need, total, sent, got>>

CliWritten(c) ==
  /\ cpc[c] = "write" /\ left[c] = 0
  /\ cpc' = [cpc EXCEPT ![c] =
               IF example.reads = "once" \/ MoreToRead(need[c], total[c])
                 THEN "read" ELSE "prompt"]
  /\ UNCHANGED <<example, server, queue, net, left, need, total, sent, got>>

CliRead(c) ==
  /\ cpc[c] = "read"
  /\ \E n \in Counts(net[c].down, BufSize) :
       /\ got' = [got EXCEPT ![c] = @ \o Front(net[c].down, n)]
       /\ net' = [net EXCEPT ![c] = Taken(@, n)]
       /\ total' = [total EXCEPT ![c] = IF example.reads = "once" THEN 0 ELSE @ + n]
       /\ cpc' = [cpc EXCEPT ![c] =
                    IF MoreToRead(need[c], total'[c]) THEN "read" ELSE "prompt"]
  /\ UNCHANGED <<example, server, queue, left, need, sent>>

\* read() returns 0: an empty answer for 4-3's client; the others' loops go
\* round unchanged for ever.
CliReadEof(c) ==
  /\ cpc[c] = "read" /\ example.reads = "once"
  /\ net[c].down = <<>>
  /\ ~ServerHolds(c)
  /\ cpc' = [cpc EXCEPT ![c] = "prompt"]
  /\ UNCHANGED <<example, server, queue, net, left, need, total, sent, got>>

\* The server's end was reset: read() fails, or write() raises SIGPIPE.
CliDies(c) ==
  /\ cpc[c] = "read" \/ (cpc[c] = "write" /\ left[c] > 0)
  /\ net[c].down = <<>>
  /\ ~ServerHolds(c)
  /\ net' = [net EXCEPT ![c] = Left(@)]
  /\ cpc' = [cpc EXCEPT ![c] = "done"]
  /\ UNCHANGED <<example, server, queue, left, need, total, sent, got>>

\* What the client does without its user.
ClientRuns(c) ==
  \/ CliWrite(c) \/ CliWriteLost(c) \/ CliWritten(c)
  \/ CliRead(c) \/ CliReadEof(c) \/ CliDies(c)

ClientNext(c) == Connect(c) \/ TypeLine(c) \/ Quit(c) \/ ClientRuns(c)

-----------------------------------------------------------------------------
\* The server.

Accept ==
  /\ pc = "accept"
  /\ served < example.limit
  /\ queue # <<>>
  /\ clnt' = Head(queue)
  /\ queue' = Tail(queue)
  /\ served' = served + 1
  /\ pc' = "read"
  /\ UNCHANGED <<example, buf, net, client>>

\* The sockets are closed, by main() or by the kernel; what is still in the
\* listen queue is reset.
Exits ==
  /\ pc' = "exited"
  /\ clnt' = NoConn /\ buf' = <<>> /\ queue' = <<>>
  /\ UNCHANGED <<example, served, client>>

Returns ==
  /\ pc = "accept"
  /\ served = example.limit
  /\ Exits
  /\ UNCHANGED net

ServRead ==
  /\ pc = "read"
  /\ \E n \in Reads(net[clnt]) :
       /\ buf' = Front(net[clnt].up, n)
       /\ net' = [net EXCEPT ![clnt] = AfterRead(@, n)]
  /\ pc' = "write"
  /\ UNCHANGED <<example, clnt, served, queue, client>>

\* close(clnt_sock)
CloseClnt ==
  /\ pc' = "accept"
  /\ clnt' = NoConn
  /\ UNCHANGED <<example, served, buf, queue, client>>

\* read() returns 0.
ServEof ==
  /\ pc = "read"
  /\ ReadMeetsEof(net[clnt])
  /\ CloseClnt
  /\ UNCHANGED net

\* read() returns -1.
ServReadFails ==
  /\ pc = "read"
  /\ ReadFails(net[clnt])
  /\ net' = [net EXCEPT ![clnt] = Reported(@)]
  /\ IF example.exits THEN Exits ELSE CloseClnt

ServWrite ==
  /\ pc = "write"
  /\ \E n \in Writes(net[clnt], buf) :
       /\ net' = [net EXCEPT ![clnt] = AfterWrite(@, buf, n)]
       /\ buf' = Rest(buf, n)
       /\ pc' = IF n = Len(buf) THEN "read" ELSE "write"
  /\ UNCHANGED <<example, clnt, served, queue, client>>

\* The client is gone: write()'s result is not looked at.
ServWriteLost ==
  /\ pc = "write"
  /\ \/ WriteDrawsReset(net[clnt]) /\ net' = [net EXCEPT ![clnt] = AfterReset(@)]
     \/ WriteFails(net[clnt]) /\ net' = [net EXCEPT ![clnt] = Reported(@)]
  /\ buf' = <<>>
  /\ pc' = "read"
  /\ UNCHANGED <<example, clnt, served, queue, client>>

\* write() raises SIGPIPE.
ServKilled ==
  /\ pc = "write"
  /\ WriteKills(net[clnt])
  /\ net' = [net EXCEPT ![clnt] = Reported(@)]
  /\ Exits

ServerNext ==
  \/ Accept \/ Returns
  \/ ServRead \/ ServEof \/ ServReadFails
  \/ ServWrite \/ ServWriteLost \/ ServKilled

-----------------------------------------------------------------------------
Next == ServerNext \/ \E c \in Conns : ClientNext(c)

\* No fairness: an iterative server and its clients may all come to a stop.
Spec == Init /\ [][Next]_vars

-----------------------------------------------------------------------------
(* How far a client has read when it prompts for the next line: 10-4's has  *)
(* the whole echo of all lines; 5-1-1's and 9-2's no less than their last   *)
(* line is long, which may be the echo of earlier lines; 4-3's something,   *)
(* if anything was sent.  What they have read is their own text in order.   *)
KeepsPace ==
  \A c \in Conns :
    /\ got[c] = [i \in 1..Len(got[c]) |-> i]
    /\ cpc[c] = "prompt" =>
         CASE example.reads = "fresh" -> Len(got[c]) = sent[c]
           [] example.reads = "total" -> Len(got[c]) >= need[c]
           [] example.reads = "once" -> ServerHolds(c) /\ sent[c] > 0 => got[c] # <<>>

\* A client left with a part of its echo unread.
LeftBehind(c) == cpc[c] = "done" /\ Len(got[c]) < sent[c]

(* A server serves as many connections as it is made for, in spite of what  *)
(* its clients do, unless one of them closed with echo unread and so reset  *)
(* its connection; 10-4's client never does while it is served.             *)
FullQuota ==
  /\ pc = "exited" /\ served < example.limit => \E c \in Conns : LeftBehind(c)
  /\ example.reads = "fresh" =>
       \A c \in Conns : LeftBehind(c) => ~ServerHolds(c)
=============================================================================
