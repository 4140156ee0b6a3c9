----------------------------- MODULE CloseOrder ------------------------------
(****************************************************************************)
(* How a connection is taken down when more than one process, or only one   *)
(* direction of it, is involved:                                            *)
(*   split     10-5-iosplit: the client forks; the parent types and writes, *)
(*             the child reads and prints; the server echoes.  At "q" the   *)
(*             parent closes its copy of the socket.                        *)
(*   transfer  7-1-filetrans: the server writes a file and shuts its        *)
(*             direction down; the client reads to the end and sends a      *)
(*             message, of which the server reads what one read() returns.  *)
(*   stream    16-1-streamsep: the same over FILE*; the client's message is *)
(*             a line, and the server's fgets() reads all of it.            *)
(*   hello     1-1-hello: the server writes and closes; the client reads    *)
(*             once and closes.                                             *)
(*   bytes     2-1-tcp: the same, the client reading to the end.            *)
(*   peek      13-1-recv: the client writes and closes; the server asks for *)
(*             a copy of what has come until there is something, without    *)
(*             blocking, and then reads it.                                 *)
(* One connection, from the moment it is accepted.  Either side may be      *)
(* killed (by its user; 7-1's client also by its fwrite() to a NULL FILE).  *)
(****************************************************************************)
EXTENDS Tcp

CONSTANTS
  MaxSend,    \* bound on the bytes typed by split's user
  FileLen,    \* bytes of the file, or of what else the server writes
  AckLen      \* bytes of the client's message

ASSUME CloseOrderAssumption ==
  MaxSend \in Nat /\ FileLen \in Nat \ {0} /\ AckLen \in Nat \ {0}

Upto(n) == [i \in 1..n |-> i]
File == Upto(FileLen)

VARIABLES
  example,    \* the example that runs
  conn,       \* the connection; its client's end is open while it is held
  holders,    \* the client's processes that hold the socket
  serv,       \* the server's end: open, shut for writing, or closed
  crst,       \* a reset received by the client: none, pending or reported
  spc,        \* the server's next call
  rest,       \* what fread() has not read of the file
  sbuf,       \* what the server's write() has not copied yet
  ack,        \* what the server has read of the client's message
  wpc,        \* split's parent: its next call
  rpc,        \* the client's reading process: its next call
  left,       \* what the client's write() has not copied yet, a number
  sent,       \* bytes the client has sent, a number
  got         \* bytes the client has read

server == <<serv, spc, rest, sbuf, ack>>
client == <<holders, wpc, rpc, left, sent, got>>
vars == <<example, conn, crst, server, client>>

split == example = "split"

\* The examples that half-close: the client answers the whole of a file.
answers == example \in {"transfer", "stream"}

TypeOK ==
  /\ example \in {"split", "transfer", "stream", "hello", "bytes", "peek"}
  /\ conn \in Connection
  /\ holders \subseteq {"writer", "reader"}
  /\ serv \in {"open", "shut", "closed"}
  /\ crst \in {"none", "pending", "reported"}
  /\ spc \in {"fopen", "fread", "write", "shut", "peek", "read", "close",
              "done", "killed"}
  /\ {rest, sbuf, ack, got} \subseteq Seq(Nat)
  /\ wpc \in {"none", "fork", "type", "write", "done", "killed"}
  /\ rpc \in {"none", "read", "ack", "done", "killed"}
  /\ left \in Nat /\ sent \in Nat
  /\ Len(ack) <= sent
  /\ holders = {} <=> conn.cli # "open"

Init ==
  /\ conn = Connected(Unconnected)
  /\ serv = "open" /\ crst = "none"
  /\ ack = <<>> /\ got = <<>>
  /\ sent = 0
  /\ \/ /\ example = "split"
        /\ holders = {"writer"} /\ wpc = "fork" /\ rpc = "none" /\ left = 0
        /\ spc = "read" /\ rest = <<>> /\ sbuf = <<>>
     \/ /\ example = "transfer"
        /\ holders = {"reader"} /\ wpc = "none" /\ rpc = "read" /\ left = 0
        /\ spc = "fopen" /\ rest = File /\ sbuf = <<>>
     \/ /\ example \in {"stream", "hello", "bytes"}
        /\ holders = {"reader"} /\ wpc = "none" /\ rpc = "read" /\ left = 0
        /\ spc = "write" /\ rest = <<>> /\ sbuf = File
     \/ /\ example = "peek"
        /\ holders = {"reader"} /\ wpc = "none" /\ rpc = "ack" /\ left = AckLen
        /\ spc = "peek" /\ rest = <<>> /\ sbuf = <<>>

-----------------------------------------------------------------------------
\* Faults: what a slip would make of the actions below.  No specification
\* uses them; README.md says which property rules each of them out.

\* close() hangs up at once, whoever else holds the socket.
ClosesAtOnce(p) == holders' = holders \ {p} /\ conn' = Left(conn)

\* Line 56 of 10-5's client with kill(pid, SIGTERM) before it.
QuitEndsReader ==
  /\ wpc = "type"
  /\ wpc' = "done" /\ rpc' = "done"
  /\ holders' = {}
  /\ conn' = Left(conn)
  /\ UNCHANGED <<example, crst, server, left, sent, got>>

\* One process for both: it reads when it has written its line.
ReadsWhenWritten ==
  /\ rpc = "read" /\ wpc # "write"
  /\ \E n \in Counts(conn.down, BufSize) :
       got' = got \o Front(conn.down, n) /\ conn' = Taken(conn, n)
  /\ UNCHANGED <<example, crst, server, holders, wpc, rpc, left, sent>>

\* A read() of less than BUFFER_SIZE is taken for the end of the file.
ShortReadEnds ==
  /\ rpc = "read"
  /\ \E n \in Counts(conn.down, BufSize) :
       /\ got' = got \o Front(conn.down, n)
       /\ conn' = Taken(conn, n)
       /\ IF answers /\ n < BufSize
            THEN rpc' = "ack" /\ left' = AckLen
            ELSE UNCHANGED <<rpc, left>>
  /\ UNCHANGED <<example, crst, server, holders, wpc, sent>>

\* fflush() without shutdown().
NoShutdown ==
  /\ spc = "shut" \/ (spc = "fread" /\ rest = <<>>)
  /\ spc' = "read"
  /\ UNCHANGED <<example, conn, crst, serv, rest, sbuf, ack, client>>

-----------------------------------------------------------------------------
\* A process closes its copy of the socket: the last one takes the client's
\* end down.
Closes(p) ==
  /\ holders' = holders \ {p}
  /\ conn' = IF holders = {p} THEN Left(conn) ELSE conn

\* The server's end is closed: unread bytes make it a reset.
ServCloses ==
  /\ serv' = "closed"
  /\ crst' = IF conn.up # <<>> /\ conn.cli = "open" THEN "pending" ELSE crst

-----------------------------------------------------------------------------
\* split's parent.

Fork ==
  /\ wpc = "fork"
  /\ wpc' = "type" /\ rpc' = "read"
  /\ holders' = {"writer", "reader"}
  /\ UNCHANGED <<example, conn, crst, server, left, sent, got>>

ForkFails ==
  /\ wpc = "fork"
  /\ wpc' = "done"
  /\ Closes("writer")
  /\ UNCHANGED <<example, crst, server, rpc, left, sent, got>>

\* fgets(), which at the end of stdin leaves the last line where it was, so
\* that it is sent once more.  An empty line is a write() of nothing.
TypeLine ==
  /\ wpc = "type"
  /\ left' \in 1..(MaxSend - sent)
  /\ wpc' = "write"
  /\ UNCHANGED <<example, conn, crst, server, holders, rpc, sent, got>>

\* "q": return and close(sock).
Quit ==
  /\ wpc = "type"
  /\ wpc' = "done"
  /\ Closes("writer")
  /\ UNCHANGED <<example, crst, server, rpc, left, sent, got>>

-----------------------------------------------------------------------------
\* write() of a line by split's parent, or of the message by the others.

Copies(n) == left' = left - n /\ UNCHANGED <<holders, wpc, rpc, got>>

ClntWrite ==
  /\ left > 0 /\ serv # "closed" /\ CanSend(conn)
  /\ conn' = Sent(conn, sent + 1)
  /\ sent' = sent + 1
  /\ Copies(1)
  /\ UNCHANGED <<example, crst, server>>

\* The server is gone: the bytes are accepted, and answered by a reset.
ClntWriteLost ==
  /\ left > 0 /\ serv = "closed" /\ crst = "none"
  /\ crst' = "pending"
  /\ Copies(left)
  /\ UNCHANGED <<example, conn, server, sent>>

\* write() returns -1, which nobody looks at.
ClntWriteFails ==
  /\ left > 0 /\ crst = "pending"
  /\ crst' = "reported"
  /\ Copies(left)
  /\ UNCHANGED <<example, conn, server, sent>>

\* SIGPIPE ends the process that writes.
ClntSigpipe ==
  /\ left > 0 /\ crst # "none"
  /\ left' = 0
  /\ \/ wpc = "write" /\ wpc' = "killed" /\ UNCHANGED rpc /\ Closes("writer")
     \/ rpc = "ack" /\ rpc' = "killed" /\ UNCHANGED wpc /\ Closes("reader")
  /\ UNCHANGED <<example, crst, server, sent, got>>

\* split's parent prompts again; the others close().
ClntWritten ==
  /\ left = 0
  /\ \/ wpc = "write" /\ wpc' = "type" /\ UNCHANGED <<conn, holders, rpc>>
     \/ rpc = "ack" /\ rpc' = "done" /\ UNCHANGED wpc /\ Closes("reader")
  /\ UNCHANGED <<example, crst, server, left, sent, got>>

WriterRuns ==
  ClntWrite \/ ClntWriteLost \/ ClntWriteFails \/ ClntSigpipe \/ ClntWritten

-----------------------------------------------------------------------------
\* read() or fgets() by the client's reading process.

ClntRead ==
  /\ rpc = "read" /\ example # "hello"
  /\ \E n \in Counts(conn.down, BufSize) :
       got' = got \o Front(conn.down, n) /\ conn' = Taken(conn, n)
  /\ UNCHANGED <<example, crst, server, holders, wpc, rpc, left, sent>>

\* 1-1's one read() and close().
ClntReadOnce ==
  /\ rpc = "read" /\ example = "hello"
  /\ \E n \in Counts(conn.down, BufSize) :
       got' = Front(conn.down, n) /\ conn' = Left(Taken(conn, n))
  /\ holders' = {} /\ rpc' = "done"
  /\ UNCHANGED <<example, crst, server, wpc, left, sent>>

\* End of file: the half-closing examples' clients write, the others close.
ClntEof ==
  /\ rpc = "read" /\ conn.down = <<>>
  /\ serv # "open" \/ crst = "reported"
  /\ \/ ~answers /\ rpc' = "done" /\ UNCHANGED left /\ Closes("reader")
     \/ answers /\ rpc' = "ack" /\ left' = AckLen /\ UNCHANGED <<conn, holders>>
  /\ UNCHANGED <<example, crst, server, wpc, sent, got>>

\* read() returns -1, to split's child only: the others' clients have sent
\* nothing yet that could have drawn a reset.
ClntReadFails ==
  /\ rpc = "read" /\ conn.down = <<>> /\ crst = "pending"
  /\ crst' = "reported"
  /\ rpc' = "done"
  /\ Closes("reader")
  /\ UNCHANGED <<example, server, wpc, left, sent, got>>

ReaderRuns == ClntRead \/ ClntReadOnce \/ ClntEof \/ ClntReadFails

ClntKilled ==
  /\ holders # {}
  /\ holders' = {}
  /\ conn' = Left(conn)
  /\ wpc' = IF "writer" \in holders THEN "killed" ELSE wpc
  /\ rpc' = IF "reader" \in holders THEN "killed" ELSE rpc
  /\ left' = 0
  /\ UNCHANGED <<example, crst, server, sent, got>>

-----------------------------------------------------------------------------
\* The server.

ServFopen ==
  /\ spc = "fopen"
  /\ spc' \in {"fread", "close"}        \* exit(1) if there is no file
  /\ UNCHANGED <<example, conn, crst, serv, rest, sbuf, ack, client>>

\* fread() returns BUFFER_SIZE bytes as long as there are as many.
ServFread ==
  /\ spc = "fread" /\ rest # <<>>
  /\ \E n \in Counts(rest, BufSize) :
       /\ n = BufSize \/ n = Len(rest)
       /\ sbuf' = Front(rest, n) /\ rest' = Rest(rest, n)
  /\ spc' = "write"
  /\ UNCHANGED <<example, conn, crst, serv, ack, client>>

EndsWrite ==
  spc' = CASE example = "split"    -> "read"
           [] example = "transfer" -> "fread"
           [] example = "stream"   -> "shut"
           [] OTHER                -> "close"

ServWrite ==
  /\ spc = "write"
  /\ \E n \in Writes(conn, sbuf) :
       conn' = AfterWrite(conn, sbuf, n) /\ sbuf' = Rest(sbuf, n)
  /\ IF sbuf' = <<>> THEN EndsWrite ELSE UNCHANGED spc
  /\ UNCHANGED <<example, crst, serv, rest, ack, client>>

\* The client is gone: write()'s result is not looked at.
ServWriteLost ==
  /\ spc = "write"
  /\ \/ WriteDrawsReset(conn) /\ conn' = AfterReset(conn)
     \/ WriteFails(conn) /\ conn' = Reported(conn)
  /\ sbuf' = <<>>
  /\ EndsWrite
  /\ UNCHANGED <<example, crst, serv, rest, ack, client>>

ServSigpipe ==
  /\ spc = "write" /\ WriteKills(conn)
  /\ spc' = "killed"
  /\ ServCloses
  /\ UNCHANGED <<example, conn, rest, sbuf, ack, client>>

ServShutdown ==
  /\ spc = "shut" \/ (spc = "fread" /\ rest = <<>>)
  /\ serv' = "shut"
  /\ spc' = "read"
  /\ UNCHANGED <<example, conn, crst, rest, sbuf, ack, client>>

\* split's echo process.
ServRead ==
  /\ split /\ spc = "read"
  /\ \E n \in Reads(conn) :
       sbuf' = Front(conn.up, n) /\ conn' = AfterRead(conn, n)
  /\ spc' = "write"
  /\ UNCHANGED <<example, crst, serv, rest, ack, client>>

\* 13-1's recv(MSG_PEEK | MSG_DONTWAIT), which leaves what it copies; as long
\* as it returns 0 or -1 the loop goes round.
ServPeek ==
  /\ spc = "peek"
  /\ \E n \in Reads(conn) : sbuf' = Front(conn.up, n)
  /\ spc' = "read"
  /\ UNCHANGED <<example, conn, crst, serv, rest, ack, client>>

\* The client's message: one read(), or fgets() up to the newline at its end.
\* What has been peeked at has arrived.
ServReadAck ==
  /\ ~split /\ spc = "read"
  /\ \E n \in Reads(conn) :
       /\ example = "peek" => n >= Len(sbuf)
       /\ ack' = ack \o Front(conn.up, n) /\ conn' = AfterRead(conn, n)
  /\ spc' = IF example = "stream" /\ Len(ack') < AckLen THEN "read" ELSE "close"
  /\ UNCHANGED <<example, crst, serv, rest, sbuf, client>>

\* read() returns 0 or -1.
ServReadEnds ==
  /\ spc = "read"
  /\ \/ ReadMeetsEof(conn) /\ UNCHANGED conn
     \/ ReadFails(conn) /\ conn' = Reported(conn)
  /\ spc' = "close"
  /\ UNCHANGED <<example, crst, serv, rest, sbuf, ack, client>>

ServClose ==
  /\ spc = "close"
  /\ spc' = "done"
  /\ ServCloses
  /\ UNCHANGED <<example, conn, rest, sbuf, ack, client>>

ServKilled ==
  /\ spc \notin {"done", "killed"}
  /\ spc' = "killed"
  /\ ServCloses
  /\ UNCHANGED <<example, conn, rest, sbuf, ack, client>>

ServerRuns ==
  \/ ServFopen \/ ServFread \/ ServWrite \/ ServWriteLost \/ ServSigpipe
  \/ ServShutdown \/ ServPeek \/ ServRead \/ ServReadAck \/ ServReadEnds \/ ServClose

-----------------------------------------------------------------------------
Next ==
  \/ Fork \/ ForkFails \/ TypeLine \/ Quit
  \/ WriterRuns \/ ReaderRuns \/ ClntKilled
  \/ ServerRuns \/ ServKilled

\* The processes are scheduled.  Nobody has to type or to be killed.
Fairness == WF_vars(WriterRuns) /\ WF_vars(ReaderRuns) /\ WF_vars(ServerRuns)

Spec == Init /\ [][Next]_vars /\ Fairness

-----------------------------------------------------------------------------
Killed == spc = "killed" \/ wpc = "killed" \/ rpc = "killed"

(* "q" ends the parent and nothing else: the child still holds the socket,  *)
(* so no FIN is sent, the server's process keeps the session, and the child *)
(* waits for an end of file that only the server's close() could send, until*)
(* somebody kills one of them.                                              *)
QuitHangsUpNobody ==
  split /\ wpc = "done" /\ rpc # "none" /\ ~Killed =>
    conn.cli = "open" /\ rpc = "read" /\ spc \in {"read", "write"}

(* What two processes are for: a line longer than all buffers on its way    *)
(* comes back, for the child reads while the parent's write() sleeps.       *)
EchoComesBack ==
  \A n \in 1..MaxSend :
    split /\ sent >= n ~> Len(got) >= n \/ Killed

(* Nobody who reads to the end misses a byte: a half-closing server reads   *)
(* nothing of the client's message before the client has the whole file, so *)
(* that it acknowledges it; 2-1's client closes with the whole message; and *)
(* what 13-1's receiver reads begins with what it has peeked at.            *)
NothingMissed ==
  /\ answers /\ ack # <<>> => got = File
  /\ example = "bytes" /\ rpc = "done" /\ ~Killed => got = File
  /\ example = "peek" /\ ack # <<>> => sbuf \in { Front(ack, n) : n \in 1..Len(ack) }

NoFile == example = "transfer" /\ spc \in {"close", "done"} /\ rest # <<>>

(* Shutting down one direction lets the other one be used: the server gets  *)
(* its acknowledgement, 16-1's to the end of the line.  13-1's receiver, at *)
(* last, finds what it polls for, even if the sender has closed by then.    *)
AckArrives ==
  answers \/ example = "peek" ~>
    \/ ack # <<>> /\ (example = "stream" => Len(ack) = AckLen)
    \/ NoFile \/ Killed
=============================================================================
