-------------------------- MODULE CloseOrder_proofs --------------------------
(****************************************************************************)
(* What holds of CloseOrder, whatever the sizes of buffers, file, message   *)
(* and lines: which processes hold the socket, so that "q" hangs up nobody; *)
(* and where the bytes of the file, and of what was peeked at, are, so that *)
(* nobody misses one.                                                       *)
(*                                                                          *)
(* And, from BytesOfWord on, the calculator protocol of CalcProtocol, for   *)
(* any requests. Those results only cite lemmas about sequences from above; *)
(* the two share no variable, and nothing assumed of one is used of the     *)
(* other.                                                                   *)
(****************************************************************************)
EXTENDS CloseOrder, CalcProtocol, Tcp_proofs

(* What the client's calls do to a connection, field by field.              *)
LEMMA ClientFields ==
  ASSUME NEW k \in Connection
  PROVE  /\ Left(k).up = k.up /\ Left(k).cli \in {"fin", "aborted"}
         /\ \A b : /\ Sent(k, b).up = Append(k.up, b) /\ Sent(k, b).down = k.down
                   /\ Sent(k, b).cli = k.cli /\ Sent(k, b).rst = k.rst
         /\ \A n : /\ Taken(k, n).up = k.up /\ Taken(k, n).down = Rest(k.down, n)
                   /\ Taken(k, n).cli = k.cli /\ Taken(k, n).rst = k.rst
BY DEF Connection, Left, Sent, Taken

(* ... and the server's.                                                    *)
LEMMA ServerFields ==
  ASSUME NEW k \in Connection
  PROVE  /\ \A n : /\ AfterRead(k, n).up = Rest(k.up, n)
                   /\ AfterRead(k, n).down = k.down
                   /\ AfterRead(k, n).cli = k.cli /\ AfterRead(k, n).rst = k.rst
         /\ \A b, n : /\ AfterWrite(k, b, n).up = k.up
                      /\ AfterWrite(k, b, n).down = k.down \o Front(b, n)
                      /\ AfterWrite(k, b, n).cli = k.cli
                      /\ AfterWrite(k, b, n).rst = k.rst
         /\ AfterReset(k).up = k.up /\ AfterReset(k).down = k.down
         /\ AfterReset(k).cli = k.cli /\ AfterReset(k).rst = "pending"
         /\ Reported(k).up = k.up /\ Reported(k).down = k.down
         /\ Reported(k).cli = k.cli /\ Reported(k).rst = "reported"
BY DEF Connection, AfterRead, AfterWrite, AfterReset, Reported

(* A read() takes at least a byte from what it reads, and not more than is  *)
(* there.                                                                   *)
LEMMA ReadTakes ==
  ASSUME NEW s \in Seq(Nat), NEW room, NEW n \in Counts(s, room)
  PROVE  /\ n \in Nat /\ Len(Front(s, n)) = n
         /\ Len(s) \in Nat /\ Len(Rest(s, n)) = Len(s) - n
<1>1. n \in Nat /\ 1 <= n /\ n <= Len(s) /\ Len(s) \in Nat
  BY DEF Counts
<1>2. Len(Front(s, n)) = n
  BY <1>1 DEF Front
<1>3. Len(Rest(s, n)) = Len(s) - n
  BY <1>1 DEF Rest
<1> QED
  BY <1>1, <1>2, <1>3

(* Three pieces of a stream, put together from either end.                  *)
LEMMA Regrouped ==
  \A x, y, z \in Seq(Nat) : (x \o y) \o z = x \o (y \o z)
<1> SUFFICES ASSUME NEW x \in Seq(Nat), NEW y \in Seq(Nat), NEW z \in Seq(Nat)
             PROVE  (x \o y) \o z = x \o (y \o z)
  OBVIOUS
<1> QED
  BY SMTT(60)

(* Bytes handed on from b to a are neither lost nor reordered.              *)
LEMMA HandedOver ==
  ASSUME NEW a \in Seq(Nat), NEW b \in Seq(Nat), NEW room, NEW n \in Counts(b, room)
  PROVE  (a \o Front(b, n)) \o Rest(b, n) = a \o b
<1> DEFINE p == Front(b, n)
           q == Rest(b, n)
<1>1. p \in Seq(Nat) /\ q \in Seq(Nat)
  BY SplitType
<1>2. p \o q = b
  BY SplitJoins
<1> HIDE DEF p, q
<1>3. (a \o p) \o q = a \o (p \o q)
  BY <1>1, Regrouped, Zenon
<1>4. (a \o p) \o q = a \o b
  BY <1>2, <1>3, Zenon
<1> QED
  BY <1>4 DEF p, q

(* ... also when a is not next to the reader.                               *)
LEMMA HandedThrough ==
  ASSUME NEW r \in Seq(Nat), NEW a \in Seq(Nat), NEW b \in Seq(Nat), NEW room,
         NEW n \in Counts(b, room)
  PROVE  (r \o (a \o Front(b, n))) \o Rest(b, n) = (r \o a) \o b
<1> DEFINE p == Front(b, n)
           q == Rest(b, n)
<1>1. p \in Seq(Nat)
  BY SplitType
<1>2. r \o a \in Seq(Nat)
  BY ConcatProperties
<1>3. ((r \o a) \o p) \o q = (r \o a) \o b
  BY <1>2, HandedOver
<1> HIDE DEF p, q
<1>4. (r \o a) \o p = r \o (a \o p)
  BY <1>1, Regrouped, Zenon
<1>5. (r \o (a \o p)) \o q = (r \o a) \o b
  BY <1>3, <1>4, Zenon
<1> QED
  BY <1>5 DEF p, q
-----------------------------------------------------------------------------
\* The types: of the connection, of the bytes elsewhere, and of the rest.
BytesTyped ==
  rest \in Seq(Nat) /\ sbuf \in Seq(Nat) /\ ack \in Seq(Nat) /\ got \in Seq(Nat)

StatesTyped ==
  /\ example \in {"split", "transfer", "stream", "hello", "bytes", "peek"}
  /\ holders \subseteq {"writer", "reader"}
  /\ serv \in {"open", "shut", "closed"}
  /\ crst \in {"none", "pending", "reported"}
  /\ spc \in {"fopen", "fread", "write", "shut", "peek", "read", "close",
              "done", "killed"}
  /\ wpc \in {"none", "fork", "type", "write", "done", "killed"}
  /\ rpc \in {"none", "read", "ack", "done", "killed"}
  /\ left \in Nat /\ sent \in Nat

Typed == conn \in Connection /\ BytesTyped /\ StatesTyped

\* The processes that hold the socket.
ParentRuns == wpc \in {"fork", "type", "write"}
ReaderHolds == rpc \in {"read", "ack"}

\* Who holds the socket, and so whether the client's end is open.
Holding ==
  /\ "writer" \in holders <=> ParentRuns
  /\ "reader" \in holders <=> ReaderHolds
  /\ holders = {} <=> conn.cli # "open"

\* Resets only follow the end of the other side.
Resetting ==
  /\ conn.cli = "open" => conn.rst = "none"
  /\ serv = "closed" <=> spc \in {"done", "killed"}
  /\ crst # "none" => serv = "closed"

\* Who has something to write, and how much has come.
Writing ==
  /\ left > 0 => wpc = "write" \/ rpc = "ack"
  /\ Len(ack) + Len(conn.up) <= sent

\* The calls that each example makes.
Programs ==
  /\ split => /\ ack = <<>> /\ serv # "shut" /\ rpc # "ack"
              /\ spc \in {"read", "write", "close", "done", "killed"}
  /\ ~split => wpc = "none"
  /\ answers => rpc \in {"read", "ack", "done", "killed"} /\ spc # "peek"
  /\ example \in {"hello", "bytes"} => /\ rpc \in {"read", "done", "killed"}
                        /\ spc \in {"write", "close", "done", "killed"}
                        /\ serv # "shut" /\ sent = 0
  /\ example = "peek" => /\ rpc \in {"ack", "done", "killed"}
                         /\ spc \in {"peek", "read", "close", "done", "killed"}
                         /\ serv # "shut"

\* split: only the last close() ends the session.
Splits ==
  split =>
    /\ wpc = "fork" => rpc = "none"
    /\ spc \in {"close", "done"} => conn.cli # "open"
    /\ rpc = "done" => spc = "killed"

\* The file, from the disk to the client that is still there.
FileKept ==
  (answers \/ example = "bytes") /\ conn.cli = "open" =>
    ((got \o conn.down) \o sbuf) \o rest = File

\* The half-closing examples: first the file, and then the message.
Transfers ==
  answers =>
    /\ serv = "open" => rpc \in {"read", "killed"} /\ sent = 0
    /\ serv = "shut" => spc \in {"read", "close"} /\ sbuf = <<>> /\ rest = <<>>
    /\ spc = "read" => serv = "shut"
    /\ spc = "shut" => sbuf = <<>> /\ rest = <<>>
    /\ spc \in {"fopen", "fread"} => sbuf = <<>>
    /\ example = "stream" => rest = <<>>
    /\ rpc = "read" => sent = 0 /\ left = 0
    /\ rpc = "ack" \/ sent > 0 => got = File \/ (serv = "closed" /\ ack = <<>>)

\* 2-1: the server closes when it has written everything.
WritesAll ==
  example = "bytes" =>
    /\ rest = <<>>
    /\ spc \in {"close", "done"} /\ conn.cli = "open" => sbuf = <<>>
    /\ rpc = "done" => got = File \/ spc = "killed"

\* p is not empty, and s begins with it.
IsBegin(p, s) == p \in { Front(s, n) : n \in 1..Len(s) }

\* What has been peeked at is where it was until read() takes it.
Peeks ==
  example = "peek" =>
    /\ spc = "peek" => ack = <<>>
    /\ spc = "read" => ack = <<>> /\ IsBegin(sbuf, conn.up)
    /\ ack # <<>> => IsBegin(sbuf, ack)

CloseInv ==
  Typed /\ Holding /\ Resetting /\ Writing /\ Programs
  /\ Splits /\ FileKept /\ Transfers /\ WritesAll /\ Peeks

(* Every step keeps the connection a connection.                            *)
LEMMA StepConnection ==
  ASSUME Typed, [Next]_vars
  PROVE  conn' \in Connection
<1> USE DEF Typed
<1>0. /\ Left(conn) \in Connection /\ AfterReset(conn) \in Connection
      /\ Reported(conn) \in Connection /\ Sent(conn, sent + 1) \in Connection
  <2>1. <<>> \in Seq(Nat) /\ sent + 1 \in Nat
    BY DEF StatesTyped
  <2>2. /\ Left(conn) \in Connection
        /\ \A byte \in Nat : Sent(conn, byte) \in Connection
    BY ClientOpsType
  <2>3. AfterReset(conn) \in Connection /\ Reported(conn) \in Connection
    BY <2>1, ServerOpsType
  <2> QED
    BY <2>1, <2>2, <2>3
<1>1. CASE \/ conn' \in {conn, Left(conn), AfterReset(conn), Reported(conn)}
           \/ conn' = Sent(conn, sent + 1)
  BY <1>0, <1>1
<1>2. CASE ClntRead \/ ClntReadOnce
  <2>1. PICK n \in Counts(conn.down, BufSize) :
          conn' \in {Taken(conn, n), Left(Taken(conn, n))}
    BY <1>2 DEF ClntRead, ClntReadOnce
  <2> QED
    BY <2>1, ClientOpsType
<1>3. CASE ServWrite
  <2>1. PICK n \in Writes(conn, sbuf) : conn' = AfterWrite(conn, sbuf, n)
    BY <1>3 DEF ServWrite
  <2> QED
    BY <2>1, ServerOpsType DEF BytesTyped
<1>4. CASE ServRead \/ ServReadAck
  <2>1. PICK n \in Reads(conn) : conn' = AfterRead(conn, n)
    BY <1>4 DEF ServRead, ServReadAck
  <2> QED
    BY <2>1, ServerOpsType, <<>> \in Seq(Nat)
<1>5. CASE Fork \/ ForkFails \/ TypeLine \/ Quit \/ ClntKilled \/ ServKilled
  BY <1>1, <1>5 DEF Fork, ForkFails, TypeLine, Quit, ClntKilled, ServKilled, Closes
<1>6. CASE WriterRuns
  BY <1>1, <1>6 DEF WriterRuns, ClntWrite, ClntWriteLost, ClntWriteFails,
    ClntSigpipe, ClntWritten, Closes
<1>7. CASE ClntEof \/ ClntReadFails
  BY <1>1, <1>7 DEF ClntEof, ClntReadFails, Closes
<1>8. CASE ServFopen \/ ServFread \/ ServWriteLost \/ ServSigpipe
  BY <1>1, <1>8 DEF ServFopen, ServFread, ServWriteLost, ServSigpipe
<1>9. CASE ServShutdown \/ ServPeek \/ ServReadEnds \/ ServClose
  BY <1>1, <1>9 DEF ServShutdown, ServPeek, ServReadEnds, ServClose
<1>10. CASE UNCHANGED vars
  BY <1>1, <1>10 DEF vars
<1> QED
  BY <1>2, <1>3, <1>4, <1>5, <1>6, <1>7, <1>8, <1>9, <1>10 DEF Next, ReaderRuns, ServerRuns

(* ... and sequences of bytes where there were some.                        *)
LEMMA StepBytes ==
  ASSUME Typed, [Next]_vars
  PROVE  BytesTyped'
<1> USE DEF Typed
<1>0. conn.up \in Seq(Nat) /\ conn.down \in Seq(Nat) /\ <<>> \in Seq(Nat)
  BY DEF Connection
<1>1. CASE UNCHANGED <<rest, sbuf, ack, got>>
  BY <1>1 DEF BytesTyped
<1>2. CASE ClntRead \/ ClntReadOnce
  <2>1. PICK n \in Counts(conn.down, BufSize) :
          /\ got' \in {got \o Front(conn.down, n), Front(conn.down, n)}
          /\ UNCHANGED <<rest, sbuf, ack>>
    BY <1>2 DEF ClntRead, ClntReadOnce, server
  <2>2. Front(conn.down, n) \in Seq(Nat)
    BY <1>0, SplitType
  <2> QED
    BY <2>1, <2>2, ConcatProperties DEF BytesTyped
<1>3. CASE ServFread \/ ServWrite \/ ServWriteLost
  <2>1. UNCHANGED <<ack, got>>
    BY <1>3 DEF ServFread, ServWrite, ServWriteLost, client
  <2>2. rest' \in Seq(Nat) /\ sbuf' \in Seq(Nat)
    BY <1>0, <1>3, SplitType DEF ServFread, ServWrite, ServWriteLost, Writes, BytesTyped
  <2> QED
    BY <2>1, <2>2 DEF BytesTyped
<1>4. CASE ServRead \/ ServPeek \/ ServReadAck
  <2>1. PICK n \in Counts(conn.up, BufSize) :
          /\ sbuf' \in {sbuf, Front(conn.up, n)}
          /\ ack' \in {ack, ack \o Front(conn.up, n)}
          /\ UNCHANGED <<rest, got>>
    BY <1>4 DEF ServRead, ServPeek, ServReadAck, Reads, client
  <2>2. Front(conn.up, n) \in Seq(Nat)
    BY <1>0, SplitType
  <2> QED
    BY <2>1, <2>2, ConcatProperties DEF BytesTyped
<1>5. CASE Fork \/ ForkFails \/ TypeLine \/ Quit \/ ClntKilled \/ ServKilled
  BY <1>1, <1>5 DEF Fork, ForkFails, TypeLine, Quit, ClntKilled, ServKilled, server, client
<1>6. CASE WriterRuns
  BY <1>1, <1>6 DEF WriterRuns, ClntWrite, ClntWriteLost, ClntWriteFails,
    ClntSigpipe, ClntWritten, Copies, server
<1>7. CASE ClntEof \/ ClntReadFails
  BY <1>1, <1>7 DEF ClntEof, ClntReadFails, server
<1>8. CASE ServFopen \/ ServSigpipe \/ ServShutdown \/ ServReadEnds \/ ServClose
  BY <1>1, <1>8 DEF ServFopen, ServSigpipe, ServShutdown, ServReadEnds, ServClose, client
<1>9. CASE UNCHANGED vars
  BY <1>1, <1>9 DEF vars, server, client
<1> QED
  BY <1>2, <1>3, <1>4, <1>5, <1>6, <1>7, <1>8, <1>9 DEF Next, ReaderRuns, ServerRuns

(* ... and everything else what it may be.                                  *)
LEMMA StepStates ==
  ASSUME Typed, [Next]_vars
  PROVE  StatesTyped'
<1> USE DEF Typed, StatesTyped
<1>1. CASE ServerRuns \/ ServKilled
  <2>1. UNCHANGED <<example, client>>
    BY <1>1 DEF ServKilled, ServerRuns, ServFopen, ServFread, ServWrite, ServWriteLost,
      ServSigpipe, ServShutdown, ServPeek, ServRead, ServReadAck, ServReadEnds, ServClose
  <2>2. serv' \in {serv, "shut", "closed"} /\ crst' \in {crst, "pending"}
    BY <1>1 DEF ServKilled, ServerRuns, ServFopen, ServFread, ServWrite, ServWriteLost,
      ServSigpipe, ServShutdown, ServPeek, ServRead, ServReadAck, ServReadEnds, ServClose,
      ServCloses
  <2>3. spc' \in {spc, "fread", "close", "write", "shut", "read", "killed", "done"}
    BY <1>1 DEF ServKilled, ServerRuns, ServFopen, ServFread, ServWrite, ServWriteLost,
      ServSigpipe, ServShutdown, ServPeek, ServRead, ServReadAck, ServReadEnds, ServClose,
      EndsWrite
  <2> QED
    BY <2>1, <2>2, <2>3 DEF client
<1>2. CASE \/ Fork \/ ForkFails \/ Quit \/ TypeLine \/ ClntKilled
           \/ WriterRuns \/ ReaderRuns
  <2>1. UNCHANGED <<example, serv, spc>>
    BY <1>2 DEF Fork, ForkFails, Quit, TypeLine, ClntKilled, WriterRuns, ClntWrite,
      ClntWriteLost, ClntWriteFails, ClntSigpipe, ClntWritten, ReaderRuns, ClntRead,
      ClntReadOnce, ClntEof, ClntReadFails, server
  <2>2. holders' \subseteq {"writer", "reader"}
    <3>1. holders' \in {holders, {"writer", "reader"}, {}, holders \ {"writer"},
                        holders \ {"reader"}}
      BY <1>2 DEF Fork, ForkFails, Quit, TypeLine, ClntKilled, WriterRuns, ClntWrite,
        ClntWriteLost, ClntWriteFails, ClntSigpipe, ClntWritten, ReaderRuns, ClntRead,
        ClntReadOnce, ClntEof, ClntReadFails, Closes, Copies
    <3> QED
      BY <3>1
  <2>3. /\ crst' \in {crst, "pending", "reported"}
        /\ wpc' \in {wpc, "type", "done", "write", "killed"}
        /\ rpc' \in {rpc, "read", "done", "ack", "killed"}
    BY <1>2 DEF Fork, ForkFails, Quit, TypeLine, ClntKilled, WriterRuns, ClntWrite,
      ClntWriteLost, ClntWriteFails, ClntSigpipe, ClntWritten, ReaderRuns, ClntRead,
      ClntReadOnce, ClntEof, ClntReadFails, Copies
  <2>4. left' \in Nat
    <3>1. /\ left > 0 => left - 1 \in Nat
          /\ left - left \in Nat /\ AckLen \in Nat /\ 0 \in Nat
          /\ 1..(MaxSend - sent) \subseteq Nat
      BY CloseOrderAssumption
    <3> QED
      BY <1>2, <3>1 DEF Fork, ForkFails, Quit, TypeLine, ClntKilled, WriterRuns, ClntWrite,
        ClntWriteLost, ClntWriteFails, ClntSigpipe, ClntWritten, ReaderRuns, ClntRead,
        ClntReadOnce, ClntEof, ClntReadFails, Copies
  <2>5. sent' \in Nat
    <3>1. sent' \in {sent, sent + 1}
      BY <1>2 DEF Fork, ForkFails, Quit, TypeLine, ClntKilled, WriterRuns, ClntWrite,
        ClntWriteLost, ClntWriteFails, ClntSigpipe, ClntWritten, ReaderRuns, ClntRead,
        ClntReadOnce, ClntEof, ClntReadFails, Copies
    <3> QED
      BY <3>1
  <2> QED
    BY <2>1, <2>2, <2>3, <2>4, <2>5
<1>3. CASE UNCHANGED vars
  BY <1>3 DEF vars, server, client
<1> QED
  BY <1>1, <1>2, <1>3 DEF Next

\* The steps of either side.
ClientSteps ==
  \/ Fork \/ ForkFails \/ TypeLine \/ Quit
  \/ WriterRuns \/ ReaderRuns \/ ClntKilled
ServerSteps == ServerRuns \/ ServKilled

(* The client leaves the server alone, the server the client, and no server *)
(* ends the connection for the client.                                      *)
LEMMA StepSides ==
  ASSUME Typed, Resetting, [Next]_vars
  PROVE  /\ example' = example
         /\ ClientSteps \/ ServerSteps \/ UNCHANGED vars
         /\ ClientSteps => UNCHANGED server
         /\ ServerSteps => /\ UNCHANGED client /\ conn'.cli = conn.cli
                           /\ conn.cli = "open" => conn'.rst = conn.rst
<1>1. ClientSteps \/ ServerSteps \/ UNCHANGED vars
  BY DEF Next, ClientSteps, ServerSteps
<1>2. ClientSteps => UNCHANGED <<example, server>>
  BY DEF ClientSteps, Fork, ForkFails, Quit, TypeLine, ClntKilled, WriterRuns, ClntWrite,
    ClntWriteLost, ClntWriteFails, ClntSigpipe, ClntWritten, ReaderRuns, ClntRead,
    ClntReadOnce, ClntEof, ClntReadFails
<1>3. ServerSteps => UNCHANGED <<example, client>>
  BY DEF ServerSteps, ServKilled, ServerRuns, ServFopen, ServFread, ServWrite,
    ServWriteLost, ServSigpipe, ServShutdown, ServPeek, ServRead, ServReadAck,
    ServReadEnds, ServClose
<1>4. ServerSteps => /\ conn'.cli = conn.cli
                     /\ conn.cli = "open" => conn'.rst = conn.rst
  <2>1. ServerSteps => \/ conn' = conn
                       \/ \E n : conn' = AfterRead(conn, n)
                       \/ \E n : conn' = AfterWrite(conn, sbuf, n)
                       \/ conn.cli = "fin" /\ conn' = AfterReset(conn)
                       \/ conn.rst = "pending" /\ conn' = Reported(conn)
    BY DEF ServerSteps, ServKilled, ServerRuns, ServFopen, ServFread, ServWrite,
      ServWriteLost, ServSigpipe, ServShutdown, ServPeek, ServRead, ServReadAck,
      ServReadEnds, ServClose, WriteDrawsReset, WriteFails, ReadFails
  <2> QED
    BY <2>1, ServerFields DEF Typed, Resetting
<1>5. UNCHANGED vars => example' = example
  BY DEF vars
<1> QED
  BY <1>1, <1>2, <1>3, <1>4, <1>5

(* The last process that closes ends the connection, and no other does.     *)
LEMMA LastCloses ==
  ASSUME Typed, Holding, NEW p \in holders, Closes(p)
  PROVE  /\ holders' = holders \ {p}
         /\ holders' = {} <=> conn'.cli # "open"
         /\ conn' = conn \/ conn' = Left(conn)
<1>1. CASE holders = {p}
  BY <1>1, ClientFields DEF Closes, Typed
<1>2. CASE holders # {p}
  BY <1>2 DEF Closes, Holding
<1> QED
  BY <1>1, <1>2

(* Once closed, the client's end stays closed.                              *)
LEMMA ClosedStays ==
  ASSUME Typed, [Next]_vars
  PROVE  conn'.cli = "open" => conn.cli = "open"
<1>1. \/ conn' = conn \/ conn' = Left(conn)
      \/ \E n \in Counts(conn.down, BufSize) :
           conn' \in {Taken(conn, n), Left(Taken(conn, n))}
      \/ conn' = Sent(conn, sent + 1)
      \/ \E n : conn' = AfterRead(conn, n)
      \/ \E n : conn' = AfterWrite(conn, sbuf, n)
      \/ conn' = AfterReset(conn) \/ conn' = Reported(conn)
  BY DEF Next, Fork, ForkFails, Quit, TypeLine, ClntKilled, WriterRuns, ClntWrite,
    ClntWriteLost, ClntWriteFails, ClntSigpipe, ClntWritten, ReaderRuns,
    ClntRead, ClntReadOnce, ClntEof, ClntReadFails, Closes, vars,
    ServKilled, ServerRuns, ServFopen, ServFread, ServWrite, ServWriteLost,
    ServSigpipe, ServShutdown, ServPeek, ServRead, ServReadAck, ServReadEnds, ServClose
<1>2. \A n \in Counts(conn.down, BufSize) : Taken(conn, n) \in Connection
  BY ClientOpsType DEF Typed
<1>3. \A k \in Connection : Left(k).cli # "open"
  BY ClientFields
<1> QED
  BY <1>1, <1>2, <1>3, ClientFields, ServerFields DEF Typed

(* The processes that hold the socket are those that run.                   *)
LEMMA StepHolding ==
  ASSUME Typed, Holding, Resetting, Programs, Splits, [Next]_vars
  PROVE  Holding'
<1> USE DEF ParentRuns, ReaderHolds
<1>1. CASE ServerSteps \/ UNCHANGED vars
  <2>1. UNCHANGED client /\ conn'.cli = conn.cli
    BY <1>1, StepSides DEF vars
  <2> QED
    BY <2>1 DEF client, Holding
<1>2. CASE Fork
  BY <1>2 DEF Fork, Holding
<1>3. CASE ForkFails \/ Quit
  <2>1. "writer" \in holders /\ Closes("writer") /\ wpc' = "done" /\ rpc' = rpc
    BY <1>3 DEF ForkFails, Quit, Holding
  <2> QED
    BY <2>1, LastCloses DEF Holding
<1>4. CASE TypeLine
  BY <1>4 DEF TypeLine, Holding
<1>5. CASE ClntWrite \/ ClntWriteLost \/ ClntWriteFails
  <2>1. UNCHANGED <<holders, wpc, rpc>> /\ conn'.cli = conn.cli
    BY <1>5, ClientFields DEF ClntWrite, ClntWriteLost, ClntWriteFails, Copies, Typed
  <2> QED
    BY <2>1 DEF Holding
<1>6. CASE ClntSigpipe \/ ClntWritten \/ ClntEof \/ ClntReadFails
  <2>1. \/ /\ wpc = "write" /\ wpc' = "killed" /\ rpc' = rpc /\ Closes("writer")
        \/ /\ wpc = "write" /\ wpc' = "type" /\ UNCHANGED <<conn, holders, rpc>>
        \/ /\ rpc \in {"read", "ack"} /\ rpc' \in {"done", "killed"} /\ wpc' = wpc
           /\ Closes("reader")
        \/ /\ rpc = "read" /\ rpc' = "ack" /\ UNCHANGED <<conn, holders, wpc>>
    BY <1>6 DEF ClntSigpipe, ClntWritten, ClntEof, ClntReadFails
  <2>2. CASE wpc = "write" /\ wpc' = "killed" /\ rpc' = rpc /\ Closes("writer")
    <3>1. "writer" \in holders
      BY <2>2 DEF Holding
    <3> QED
      BY <2>2, <3>1, LastCloses DEF Holding
  <2>3. CASE /\ rpc \in {"read", "ack"} /\ rpc' \in {"done", "killed"} /\ wpc' = wpc
             /\ Closes("reader")
    <3>1. "reader" \in holders
      BY <2>3 DEF Holding
    <3> QED
      BY <2>3, <3>1, LastCloses DEF Holding
  <2> QED
    BY <2>1, <2>2, <2>3 DEF Holding
<1>7. CASE ClntRead
  <2>1. UNCHANGED <<holders, wpc, rpc>> /\ conn'.cli = conn.cli
    BY <1>7, ClientFields DEF ClntRead, Typed
  <2> QED
    BY <2>1 DEF Holding
<1>8. CASE ClntReadOnce \/ ClntKilled
  <2>1. holders' = {} /\ ~ParentRuns' /\ ~ReaderHolds'
    BY <1>8 DEF ClntReadOnce, ClntKilled, Holding, Programs, split, Typed, StatesTyped
  <2>2. conn'.cli # "open"
    <3>1. \E k \in Connection : conn' = Left(k)
      BY <1>8, ClientOpsType DEF ClntReadOnce, ClntKilled, Typed
    <3> QED
      BY <3>1, ClientFields
  <2> QED
    BY <2>1, <2>2 DEF Holding
<1> QED
  BY <1>1, <1>2, <1>3, <1>4, <1>5, <1>6, <1>7, <1>8, StepSides DEF ClientSteps,
    WriterRuns, ReaderRuns

(* Resets answer what comes too late, and nothing else.                     *)
LEMMA StepResetting ==
  ASSUME Typed, Holding, Resetting, [Next]_vars
  PROVE  Resetting'
<1>1. CASE ClientSteps
  <2>1. serv' = serv /\ spc' = spc
    BY <1>1, StepSides DEF server
  <2>2. crst' # "none" => serv = "closed"
    BY <1>1 DEF ClientSteps, Fork, ForkFails, Quit, TypeLine, ClntKilled, WriterRuns,
      ClntWrite, ClntWriteLost, ClntWriteFails, ClntSigpipe, ClntWritten, ReaderRuns,
      ClntRead, ClntReadOnce, ClntEof, ClntReadFails, Resetting
  <2>3. conn'.cli = "open" => conn'.rst = "none"
    <3>1. \/ conn' = conn \/ conn' = Left(conn)
          \/ \E n \in Counts(conn.down, BufSize) :
               conn' \in {Taken(conn, n), Left(Taken(conn, n))}
          \/ conn' = Sent(conn, sent + 1)
      BY <1>1 DEF ClientSteps, Fork, ForkFails, Quit, TypeLine, ClntKilled, WriterRuns,
        ClntWrite, ClntWriteLost, ClntWriteFails, ClntSigpipe, ClntWritten, ReaderRuns,
        ClntRead, ClntReadOnce, ClntEof, ClntReadFails, Closes
    <3>2. \A k \in Connection : Left(k).cli # "open"
      BY ClientFields
    <3>3. \A n \in Counts(conn.down, BufSize) : Taken(conn, n) \in Connection
      BY ClientOpsType DEF Typed
    <3> QED
      BY <3>1, <3>2, <3>3, ClientFields DEF Resetting, Typed
  <2> QED
    BY <2>1, <2>2, <2>3 DEF Resetting
<1>2. CASE ServerSteps
  <2>1. conn'.cli = "open" => conn'.rst = "none"
    BY <1>2, StepSides DEF Resetting
  <2>2. CASE ServCloses /\ spc' \in {"done", "killed"}
    BY <2>1, <2>2 DEF ServCloses, Resetting
  <2>3. CASE /\ serv' \in {serv, "shut"} /\ crst' = crst
             /\ spc \notin {"done", "killed"} /\ spc' \notin {"done", "killed"}
    BY <2>1, <2>3 DEF Resetting
  <2> QED
    BY <1>2, <2>2, <2>3 DEF ServerSteps, ServKilled, ServerRuns, ServFopen, ServFread,
      ServWrite, ServWriteLost, ServSigpipe, ServShutdown, ServPeek, ServRead,
      ServReadAck, ServReadEnds, ServClose, EndsWrite
<1>3. CASE UNCHANGED vars
  BY <1>3 DEF vars, server, client, Resetting
<1> QED
  BY <1>1, <1>2, <1>3, StepSides

(* Few steps touch the bytes on their way to the server.                    *)
LEMMA UpMoves ==
  ASSUME Typed, [Next]_vars, ~ClntWrite, ~ServRead, ~ServReadAck
  PROVE  conn'.up = conn.up /\ ack' = ack /\ sent' = sent
<1>1. \/ conn' = conn \/ conn' = Left(conn)
      \/ \E n \in Counts(conn.down, BufSize) :
           conn' \in {Taken(conn, n), Left(Taken(conn, n))}
      \/ \E n : conn' = AfterWrite(conn, sbuf, n)
      \/ conn' = AfterReset(conn) \/ conn' = Reported(conn)
  BY DEF Next, Fork, ForkFails, Quit, TypeLine, ClntKilled, WriterRuns,
    ClntWriteLost, ClntWriteFails, ClntSigpipe, ClntWritten, ReaderRuns,
    ClntRead, ClntReadOnce, ClntEof, ClntReadFails, Closes, vars,
    ServKilled, ServerRuns, ServFopen, ServFread, ServWrite, ServWriteLost,
    ServSigpipe, ServShutdown, ServPeek, ServReadEnds, ServClose
<1>2. \A n \in Counts(conn.down, BufSize) : Taken(conn, n) \in Connection
  BY ClientOpsType DEF Typed
<1>3. conn'.up = conn.up
  BY <1>1, <1>2, ClientFields, ServerFields DEF Typed
<1>4. ack' = ack /\ sent' = sent
  BY DEF Next, Fork, ForkFails, Quit, TypeLine, ClntKilled, WriterRuns,
    ClntWriteLost, ClntWriteFails, ClntSigpipe, ClntWritten, ReaderRuns, Copies,
    ClntRead, ClntReadOnce, ClntEof, ClntReadFails, Closes, vars, server, client,
    ServKilled, ServerRuns, ServFopen, ServFread, ServWrite, ServWriteLost,
    ServSigpipe, ServShutdown, ServPeek, ServReadEnds, ServClose
<1> QED
  BY <1>3, <1>4

(* The server has not more than the client has sent.                        *)
LEMMA StepCount ==
  ASSUME Typed, Writing, Programs, [Next]_vars
  PROVE  (Len(ack) + Len(conn.up) <= sent)'
<1> DEFINE a == Len(ack)
           u == Len(conn.up)
           b == Len(ack')
           v == Len(conn'.up)
<1>0. /\ conn.up \in Seq(Nat) /\ ack \in Seq(Nat) /\ sent \in Nat
      /\ a \in Nat /\ u \in Nat /\ a + u <= sent
  BY LenProperties DEF Typed, Connection, BytesTyped, StatesTyped, Writing
<1>1. CASE ClntWrite
  <2>1. conn'.up = Append(conn.up, sent + 1) /\ sent' = sent + 1 /\ ack' = ack
    BY <1>1, ClientFields DEF ClntWrite, server, Typed
  <2>2. v = u + 1 /\ b = a
    BY <1>0, <2>1, LenProperties
  <2> HIDE DEF a, b, u, v
  <2>3. b + v <= sent'
    BY <1>0, <2>1, <2>2
  <2> QED
    BY <2>3 DEF b, v
<1>2. CASE ServRead \/ ServReadAck
  <2>1. PICK n \in Counts(conn.up, BufSize) :
          /\ conn'.up = Rest(conn.up, n) /\ sent' = sent
          /\ ack' \in {ack, ack \o Front(conn.up, n)}
    BY <1>2, ServerFields DEF ServRead, ServReadAck, Reads, client, Typed
  <2>2. /\ n \in Nat /\ Len(Front(conn.up, n)) = n /\ v = u - n
        /\ Front(conn.up, n) \in Seq(Nat)
    BY <1>0, <2>1, ReadTakes, SplitType
  <2>3. b = a \/ b = a + n
    BY <1>0, <2>1, <2>2, ConcatProperties
  <2> HIDE DEF a, b, u, v
  <2>4. b + v <= sent'
    BY <1>0, <2>1, <2>2, <2>3
  <2> QED
    BY <2>4 DEF b, v
<1>3. CASE ~ClntWrite /\ ~ServRead /\ ~ServReadAck
  BY <1>3, UpMoves DEF Writing
<1> QED
  BY <1>1, <1>2, <1>3

(* Nobody else has something to write.                                      *)
LEMMA StepWriting ==
  ASSUME Typed, Writing, Programs, [Next]_vars
  PROVE  Writing'
<1>1. left' > 0 => wpc' = "write" \/ rpc' = "ack"
  <2>1. left \in Nat /\ left - left = 0 /\ (left = 0 \/ left > 0)
    BY DEF Typed, StatesTyped
  <2>2. wpc \in {"fork", "type"} => left = 0
    BY <2>1 DEF Writing, Programs, split, Typed, StatesTyped
  <2>3. CASE Fork \/ ForkFails \/ Quit
    <3>1. left' = 0
      BY <2>2, <2>3 DEF Fork, ForkFails, Quit
    <3> QED
      BY <3>1
  <2>4. CASE TypeLine
    BY <2>4 DEF TypeLine
  <2>5. CASE ClntWrite
    BY <2>5 DEF ClntWrite, Copies, Writing
  <2>6. CASE ClntWriteLost \/ ClntWriteFails \/ ClntSigpipe \/ ClntWritten \/ ClntKilled
    <3>1. left' = 0
      BY <2>1, <2>6 DEF ClntWriteLost, ClntWriteFails, ClntSigpipe, ClntWritten,
        ClntKilled, Copies
    <3> QED
      BY <3>1
  <2>7. CASE ReaderRuns
    BY <2>7 DEF ReaderRuns, ClntRead, ClntReadOnce, ClntEof, ClntReadFails, Writing
  <2>8. CASE ServerSteps \/ UNCHANGED vars
    <3>1. UNCHANGED <<left, wpc, rpc>>
      BY <2>8 DEF ServerSteps, ServKilled, ServerRuns, ServFopen, ServFread, ServWrite,
        ServWriteLost, ServSigpipe, ServShutdown, ServPeek, ServRead, ServReadAck,
        ServReadEnds, ServClose, vars, client
    <3> QED
      BY <3>1 DEF Writing
  <2> QED
    BY <2>3, <2>4, <2>5, <2>6, <2>7, <2>8 DEF Next, WriterRuns, ServerSteps
<1> QED
  BY <1>1, StepCount DEF Writing

(* Each example keeps to its own calls.                                     *)
LEMMA StepPrograms ==
  ASSUME Typed, Holding, Resetting, Writing, Programs, [Next]_vars
  PROVE  Programs'
<1>0. example' = example
  BY StepSides
<1>1. CASE ClientSteps
  <2>1. UNCHANGED <<serv, spc, ack>>
    BY <1>1, StepSides DEF server
  <2>2. ~split => wpc' = wpc
    BY <1>1 DEF ClientSteps, Fork, ForkFails, Quit, TypeLine, ClntKilled, WriterRuns,
      ClntWrite, ClntWriteLost, ClntWriteFails, ClntSigpipe, ClntWritten, ReaderRuns,
      ClntRead, ClntReadOnce, ClntEof, ClntReadFails, Copies, Programs, Holding, ParentRuns
  <2>3. /\ rpc' \in {rpc, "read", "done", "killed", "ack"}
        /\ rpc' = "read" => rpc = "read" \/ wpc = "fork"
        /\ rpc' = "ack" => rpc = "ack" \/ (rpc = "read" /\ answers)
    BY <1>1 DEF ClientSteps, Fork, ForkFails, Quit, TypeLine, ClntKilled, WriterRuns,
      ClntWrite, ClntWriteLost, ClntWriteFails, ClntSigpipe, ClntWritten, ReaderRuns,
      ClntRead, ClntReadOnce, ClntEof, ClntReadFails, Copies
  <2>4. sent' = sent \/ (left > 0 /\ sent' = sent + 1)
    BY <1>1 DEF ClientSteps, Fork, ForkFails, Quit, TypeLine, ClntKilled, WriterRuns,
      ClntWrite, ClntWriteLost, ClntWriteFails, ClntSigpipe, ClntWritten, ReaderRuns,
      ClntRead, ClntReadOnce, ClntEof, ClntReadFails, Copies
  <2> QED
    BY <1>0, <2>1, <2>2, <2>3, <2>4 DEF Programs, Writing, split, answers
<1>2. CASE ServerSteps
  <2>1. UNCHANGED <<wpc, rpc, sent>>
    BY <1>2, StepSides DEF client
  <2>2. split => ack' = ack
    BY <1>2 DEF ServerSteps, ServKilled, ServerRuns, ServFopen, ServFread, ServWrite,
      ServWriteLost, ServSigpipe, ServShutdown, ServPeek, ServRead, ServReadAck,
      ServReadEnds, ServClose
  <2>3. /\ serv' \in {serv, "shut", "closed"}
        /\ serv' = "shut" => serv = "shut" \/ spc \in {"shut", "fread"}
    BY <1>2 DEF ServerSteps, ServKilled, ServerRuns, ServFopen, ServFread, ServWrite,
      ServWriteLost, ServSigpipe, ServShutdown, ServPeek, ServRead, ServReadAck,
      ServReadEnds, ServClose, ServCloses
  <2>4. \/ spc' \in {spc, "close", "done", "killed"}
        \/ spc = "fopen" /\ spc' = "fread"
        \/ spc = "fread" /\ spc' = "write"
        \/ spc = "write" /\ EndsWrite
        \/ spc \in {"shut", "fread"} /\ spc' = "read"
        \/ spc = "peek" /\ spc' = "read"
        \/ split /\ spc = "read" /\ spc' = "write"
    BY <1>2 DEF ServerSteps, ServKilled, ServerRuns, ServFopen, ServFread, ServWrite,
      ServWriteLost, ServSigpipe, ServShutdown, ServPeek, ServRead, ServReadAck,
      ServReadEnds, ServClose
  <2> QED
    BY <1>0, <2>1, <2>2, <2>3, <2>4 DEF Programs, EndsWrite, split, answers
<1>3. CASE UNCHANGED vars
  BY <1>3 DEF vars, server, client, Programs, split, answers
<1> QED
  BY <1>1, <1>2, <1>3, StepSides

(* A session ends when the client has hung up, or somebody was killed.      *)
LEMMA StepSplits ==
  ASSUME Typed, Holding, Resetting, Programs, Splits, [Next]_vars
  PROVE  Splits'
<1>0. split' = split
  BY StepSides DEF split
<1> SUFFICES ASSUME split PROVE
      /\ wpc' = "fork" => rpc' = "none"
      /\ spc' \in {"close", "done"} => conn'.cli # "open"
      /\ rpc' = "done" => spc' = "killed"
  BY <1>0 DEF Splits
<1>1. CASE ClientSteps
  <2>1. spc' = spc
    BY <1>1, StepSides DEF server
  <2>2. wpc' = "fork" => wpc = "fork" /\ rpc' = rpc
    BY <1>1 DEF ClientSteps, Fork, ForkFails, Quit, TypeLine, ClntKilled, WriterRuns,
      ClntWrite, ClntWriteLost, ClntWriteFails, ClntSigpipe, ClntWritten, ReaderRuns,
      ClntRead, ClntReadOnce, ClntEof, ClntReadFails, Copies, Splits, Holding,
      ParentRuns, ReaderHolds
  <2>3. conn'.cli = "open" => conn.cli = "open"
    BY <1>1, ClosedStays DEF Holding
  <2>4. rpc' = "done" => rpc = "done" \/ (rpc = "read" /\ serv = "closed")
    BY <1>1 DEF ClientSteps, Fork, ForkFails, Quit, TypeLine, ClntKilled, WriterRuns,
      ClntWrite, ClntWriteLost, ClntWriteFails, ClntSigpipe, ClntWritten, ReaderRuns,
      ClntRead, ClntReadOnce, ClntEof, ClntReadFails, Copies, Resetting, Programs, split,
      Typed, StatesTyped
  <2>5. rpc = "read" => conn.cli = "open"
    BY DEF Holding, ReaderHolds
  <2> QED
    BY <2>1, <2>2, <2>3, <2>4, <2>5 DEF Splits, Resetting
<1>2. CASE ServerSteps
  <2>1. UNCHANGED <<wpc, rpc>> /\ conn'.cli = conn.cli
    BY <1>2, StepSides DEF client
  <2>2. spc' = "killed" \/ (spc # "killed" /\ (spc' \in {"close", "done"} =>
           spc \in {"close", "done"} \/ ReadMeetsEof(conn) \/ ReadFails(conn)))
    BY <1>2 DEF ServerSteps, ServKilled, ServerRuns, ServFopen, ServFread, ServWrite,
      ServWriteLost, ServSigpipe, ServShutdown, ServPeek, ServRead, ServReadAck,
      ServReadEnds, ServClose, EndsWrite, split, Programs
  <2>3. ReadMeetsEof(conn) \/ ReadFails(conn) => conn.cli # "open"
    BY DEF ReadMeetsEof, ReadFails, Resetting
  <2> QED
    BY <2>1, <2>2, <2>3 DEF Splits
<1>3. CASE UNCHANGED vars
  BY <1>3 DEF vars, server, client, Splits, split
<1> QED
  BY <1>1, <1>2, <1>3, StepSides

(* The bytes of the file move on, and none is lost while the client is      *)
(* there to read it.                                                        *)
LEMMA StepFileKept ==
  ASSUME Typed, Resetting, Programs, FileKept, Transfers, [Next]_vars
  PROVE  FileKept'
<1>0. example' = example /\ answers' = answers
  BY StepSides DEF answers
<1>i. /\ conn.down \in Seq(Nat) /\ got \in Seq(Nat) /\ sbuf \in Seq(Nat)
      /\ rest \in Seq(Nat) /\ got \o conn.down \in Seq(Nat)
  BY ConcatProperties DEF Typed, BytesTyped, Connection
<1> SUFFICES ASSUME answers \/ example = "bytes", conn'.cli = "open"
             PROVE  ((got' \o conn'.down) \o sbuf') \o rest' = File
  BY <1>0 DEF FileKept
<1>j. conn.cli = "open" /\ ((got \o conn.down) \o sbuf) \o rest = File
  BY ClosedStays DEF FileKept
<1>k. ~split /\ example # "peek" /\ example # "hello"
  BY DEF answers, split
<1>1. CASE ClntRead
  <2>1. PICK n \in Counts(conn.down, BufSize) :
          /\ got' = got \o Front(conn.down, n) /\ conn'.down = Rest(conn.down, n)
          /\ sbuf' = sbuf /\ rest' = rest
    BY <1>1, ClientFields DEF ClntRead, server, Typed
  <2>2. (got \o Front(conn.down, n)) \o Rest(conn.down, n) = got \o conn.down
    BY <1>i, HandedOver
  <2>3. got' \o conn'.down = got \o conn.down
    BY <2>1, <2>2
  <2> QED
    BY <1>j, <2>1, <2>3
<1>2. CASE ServFread
  <2>1. PICK n \in Counts(rest, BufSize) :
          /\ sbuf' = Front(rest, n) /\ rest' = Rest(rest, n)
          /\ got' = got /\ conn' = conn
    BY <1>2 DEF ServFread, client
  <2>2. sbuf = <<>>
    BY <1>2, <1>k DEF ServFread, Transfers, Programs
  <2>3. (got \o conn.down) \o sbuf = got \o conn.down
    BY <1>i, <2>2, ConcatEmptySeq
  <2>4. ((got \o conn.down) \o Front(rest, n)) \o Rest(rest, n) = (got \o conn.down) \o rest
    BY <1>i, HandedOver
  <2> QED
    BY <1>j, <2>1, <2>3, <2>4
<1>3. CASE ServWrite
  <2>1. PICK n \in Counts(sbuf, Cap - Len(conn.down)) :
          /\ conn'.down = conn.down \o Front(sbuf, n) /\ sbuf' = Rest(sbuf, n)
          /\ got' = got /\ rest' = rest
    <3>1. /\ \E n \in Writes(conn, sbuf) :
               conn' = AfterWrite(conn, sbuf, n) /\ sbuf' = Rest(sbuf, n)
          /\ got' = got /\ rest' = rest
      BY <1>3 DEF ServWrite, client
    <3>2. PICK n \in Writes(conn, sbuf) :
            conn' = AfterWrite(conn, sbuf, n) /\ sbuf' = Rest(sbuf, n)
      BY <3>1
    <3>3. n \in Counts(sbuf, Cap - Len(conn.down))
      BY DEF Writes
    <3>4. conn'.down = conn.down \o Front(sbuf, n)
      BY <1>j, <3>2, ServerFields DEF Typed
    <3> QED
      BY <3>1, <3>2, <3>3, <3>4
  <2>2. (got \o (conn.down \o Front(sbuf, n))) \o Rest(sbuf, n) = (got \o conn.down) \o sbuf
    <3>1. got \in Seq(Nat) /\ conn.down \in Seq(Nat) /\ sbuf \in Seq(Nat)
      BY <1>i
    <3>2. \A r \in Seq(Nat) : \A a \in Seq(Nat) : \A b \in Seq(Nat) :
            \A room : \A m \in Counts(b, room) :
              (r \o (a \o Front(b, m))) \o Rest(b, m) = (r \o a) \o b
      BY HandedThrough
    <3>3. \A a \in Seq(Nat) : \A b \in Seq(Nat) :
            \A room : \A m \in Counts(b, room) :
              (got \o (a \o Front(b, m))) \o Rest(b, m) = (got \o a) \o b
      BY <3>1, <3>2
    <3>4. \A b \in Seq(Nat) :
            \A room : \A m \in Counts(b, room) :
              (got \o (conn.down \o Front(b, m))) \o Rest(b, m) = (got \o conn.down) \o b
      BY <3>1, <3>3
    <3> QED
      BY <3>1, <3>4
  <2> QED
    BY <1>j, <2>1, <2>2
<1>4. ~ServRead /\ ~ServPeek /\ ~ServWriteLost /\ ~ClntReadOnce
  BY <1>j, <1>k DEF ServRead, ServPeek, ServWriteLost, ClntReadOnce, Programs, split,
    WriteDrawsReset, WriteFails, Resetting
<1>5. CASE ~ClntRead /\ ~ServFread /\ ~ServWrite
  <2>1. UNCHANGED <<got, sbuf, rest>>
    BY <1>4, <1>5 DEF Next, Fork, ForkFails, Quit, TypeLine, ClntKilled, WriterRuns,
      ClntWrite, ClntWriteLost, ClntWriteFails, ClntSigpipe, ClntWritten, ReaderRuns,
      Copies, ClntEof, ClntReadFails, vars, server, client, ServKilled, ServerRuns,
      ServFopen, ServSigpipe, ServShutdown, ServReadAck, ServReadEnds, ServClose
  <2>2. \/ conn' = conn \/ conn' = Left(conn)
        \/ conn' = Sent(conn, sent + 1)
        \/ \E n : conn' = AfterRead(conn, n)
        \/ conn' = Reported(conn)
    BY <1>4, <1>5 DEF Next, Fork, ForkFails, Quit, TypeLine, ClntKilled, WriterRuns,
      ClntWrite, ClntWriteLost, ClntWriteFails, ClntSigpipe, ClntWritten, ReaderRuns,
      ClntEof, ClntReadFails, Closes, vars, ServKilled, ServerRuns,
      ServFopen, ServSigpipe, ServShutdown, ServReadAck, ServReadEnds, ServClose
  <2>3. conn'.down = conn.down
    BY <2>2, ClientFields, ServerFields DEF Typed
  <2> QED
    BY <1>j, <2>1, <2>3
<1> QED
  BY <1>1, <1>2, <1>3, <1>5

(* Where nothing is left to hand on the client has the whole file.          *)
LEMMA WholeFile ==
  ASSUME Typed, FileKept, answers \/ example = "bytes", conn.cli = "open",
         conn.down = <<>>, sbuf = <<>>, rest = <<>>
  PROVE  got = File
<1>1. ((got \o <<>>) \o <<>>) \o <<>> = File
  BY DEF FileKept
<1>2. got \in Seq(Nat)
  BY DEF Typed, BytesTyped
<1>3. got \o <<>> = got
  BY <1>2, ConcatEmptySeq
<1> QED
  BY <1>1, <1>3

(* The message comes after the file.                                        *)
LEMMA StepTransfers ==
  ASSUME Typed, Holding, Resetting, Writing, Programs, FileKept, Transfers, [Next]_vars
  PROVE  Transfers'
<1>0. example' = example /\ answers' = answers
  BY StepSides DEF answers
<1> SUFFICES ASSUME answers
             PROVE  /\ (serv = "open" => rpc \in {"read", "killed"} /\ sent = 0)'
                    /\ (serv = "shut" => spc \in {"read", "close"} /\ sbuf = <<>>
                                         /\ rest = <<>>)'
                    /\ (spc = "read" => serv = "shut")'
                    /\ (spc = "shut" => sbuf = <<>> /\ rest = <<>>)'
                    /\ (spc \in {"fopen", "fread"} => sbuf = <<>>)'
                    /\ (example = "stream" => rest = <<>>)'
                    /\ (rpc = "read" => sent = 0 /\ left = 0)'
                    /\ (rpc = "ack" \/ sent > 0 =>
                          got = File \/ (serv = "closed" /\ ack = <<>>))'
  BY <1>0 DEF Transfers
<1>k. /\ ~split /\ example \in {"transfer", "stream"}
      /\ wpc = "none" /\ "writer" \notin holders
  BY DEF answers, split, Programs, Holding, ParentRuns
<1>1. CASE ClientSteps
  <2>1. UNCHANGED <<serv, spc, rest, sbuf, ack>>
    BY <1>1, StepSides DEF server
  <2>2. CASE ClntWrite
    <3>1. rpc = "ack" /\ rpc' = rpc /\ got' = got
      BY <1>k, <2>2 DEF ClntWrite, Copies, Writing
    <3> QED
      BY <1>0, <2>1, <3>1 DEF Transfers
  <2>3. CASE ClntRead
    <3>1. rpc = "read" /\ UNCHANGED <<rpc, sent, left>>
      BY <2>3 DEF ClntRead
    <3>2. sent = 0
      BY <3>1 DEF Transfers
    <3> QED
      BY <1>0, <2>1, <3>1, <3>2 DEF Transfers
  <2>4. CASE ClntEof
    <3>1. rpc = "read" /\ rpc' = "ack" /\ conn.down = <<>> /\ UNCHANGED <<sent, got>>
          /\ serv # "open"
      BY <2>4 DEF ClntEof, Resetting
    <3>2. sent = 0 /\ conn.cli = "open"
      BY <3>1 DEF Transfers, Holding, ReaderHolds
    <3>3. CASE serv = "shut"
      <4>1. got = File
        BY <3>1, <3>2, <3>3, WholeFile DEF Transfers
      <4> QED
        BY <1>0, <2>1, <3>1, <3>3, <4>1 DEF Transfers
    <3>4. CASE serv = "closed"
      <4>1. Len(ack) \in Nat /\ Len(conn.up) \in Nat /\ Len(ack) + Len(conn.up) <= 0
        BY <3>2, LenProperties DEF Writing, Typed, BytesTyped, Connection
      <4>2. Len(ack) = 0
        BY <4>1
      <4>3. ack = <<>>
        BY <4>2, EmptySeq DEF Typed, BytesTyped
      <4> QED
        BY <1>0, <2>1, <3>1, <3>4, <4>3 DEF Transfers
    <3> QED
      BY <3>1, <3>3, <3>4 DEF Typed, StatesTyped
  <2>5. ~Fork /\ ~ForkFails /\ ~TypeLine /\ ~Quit /\ ~ClntReadOnce
    BY <1>k DEF Fork, ForkFails, TypeLine, Quit, ClntReadOnce
  <2>6. CASE ClntWriteLost \/ ClntWriteFails \/ ClntSigpipe \/ ClntWritten
             \/ ClntReadFails \/ ClntKilled
    <3>1. UNCHANGED <<got, sent>>
      BY <2>6 DEF ClntWriteLost, ClntWriteFails, ClntSigpipe, ClntWritten,
        ClntReadFails, ClntKilled, Copies
    <3>2. rpc' = rpc \/ rpc' = "killed" \/ (serv # "open" /\ rpc' = "done")
      BY <2>6 DEF ClntWriteLost, ClntWriteFails, ClntSigpipe, ClntWritten,
        ClntReadFails, ClntKilled, Copies, Transfers, Resetting
    <3>3. rpc' = "read" => rpc = "read" /\ left' = 0
      <4>1. left \in Nat /\ left - left = 0
        BY DEF Typed, StatesTyped
      <4> QED
        BY <2>6, <4>1 DEF ClntWriteLost, ClntWriteFails, ClntSigpipe, ClntWritten,
          ClntReadFails, ClntKilled, Copies, Holding, ReaderHolds, Transfers
    <3> QED
      BY <1>0, <2>1, <3>1, <3>2, <3>3 DEF Transfers
  <2> QED
    BY <1>1, <2>2, <2>3, <2>4, <2>5, <2>6 DEF ClientSteps, WriterRuns, ReaderRuns
<1>2. CASE ServerSteps
  <2>1. UNCHANGED <<rpc, sent, got, left>>
    BY <1>2, StepSides DEF client
  <2>2. CASE ServShutdown
    <3>1. serv = "open"
      BY <2>2 DEF ServShutdown, Transfers, Resetting, Typed, StatesTyped
    <3>2. rpc # "ack" /\ ~(sent > 0) /\ sbuf = <<>> /\ rest = <<>>
      BY <2>2, <3>1 DEF ServShutdown, Transfers
    <3> QED
      BY <1>0, <2>1, <2>2, <3>1, <3>2 DEF ServShutdown, Transfers
  <2>3. CASE ServReadAck
    <3>1. /\ spc = "read" /\ spc' \in {"read", "close"}
          /\ UNCHANGED <<serv, sbuf, rest>>
      BY <2>3 DEF ServReadAck
    <3>2. serv = "shut"
      BY <3>1 DEF Transfers
    <3> QED
      BY <1>0, <2>1, <3>1, <3>2 DEF Transfers
  <2>4. CASE ServFread \/ ServWrite \/ ServWriteLost
    <3>1. serv = "open"
      BY <2>4 DEF ServFread, ServWrite, ServWriteLost, Transfers, Resetting, Typed,
        StatesTyped
    <3>2. /\ UNCHANGED <<serv, ack>>
          /\ spc' \in {"write", "fread", "shut"}
          /\ spc' \in {"fread", "shut"} => sbuf' = <<>>
          /\ spc' = "shut" => example = "stream"
          /\ spc' # "read"
      BY <1>k, <2>4 DEF ServFread, ServWrite, ServWriteLost, EndsWrite
    <3>3. example = "stream" => rest' = <<>>
      BY <2>4 DEF ServFread, ServWrite, ServWriteLost, Transfers
    <3> QED
      BY <1>0, <2>1, <3>1, <3>2, <3>3 DEF Transfers
  <2>5. CASE ServFopen
    BY <1>0, <2>1, <2>5 DEF ServFopen, Transfers
  <2>6. CASE ServSigpipe \/ ServClose \/ ServKilled
    <3>1. /\ serv' = "closed" /\ spc' \in {"done", "killed"}
          /\ UNCHANGED <<rest, sbuf, ack>>
      BY <2>6 DEF ServSigpipe, ServClose, ServKilled, ServCloses
    <3> QED
      BY <1>0, <2>1, <3>1 DEF Transfers
  <2>7. CASE ServReadEnds
    <3>1. spc = "read" /\ spc' = "close" /\ UNCHANGED <<serv, rest, sbuf, ack>>
      BY <2>7 DEF ServReadEnds
    <3> QED
      BY <1>0, <2>1, <3>1 DEF Transfers
  <2>8. ~ServPeek /\ ~ServRead
    BY <1>k DEF ServPeek, ServRead, Programs
  <2> QED
    BY <1>2, <2>2, <2>3, <2>4, <2>5, <2>6, <2>7, <2>8 DEF ServerSteps, ServerRuns
<1>3. CASE UNCHANGED vars
  BY <1>3 DEF vars, server, client, Transfers
<1> QED
  BY <1>1, <1>2, <1>3, StepSides

(* 2-1's client reads to the end, which comes after the last byte.          *)
LEMMA StepWritesAll ==
  ASSUME Typed, Holding, Resetting, Programs, FileKept, WritesAll, [Next]_vars
  PROVE  WritesAll'
<1>0. example' = example
  BY StepSides
<1> SUFFICES ASSUME example = "bytes"
             PROVE  /\ rest' = <<>>
                    /\ spc' \in {"close", "done"} /\ conn'.cli = "open" => sbuf' = <<>>
                    /\ rpc' = "done" => got' = File \/ spc' = "killed"
  BY <1>0 DEF WritesAll
<1>1. CASE ClientSteps
  <2>1. UNCHANGED <<serv, spc, rest, sbuf>>
    BY <1>1, StepSides DEF server
  <2>2. \/ rpc' = rpc /\ (got' = got \/ rpc = "read")
        \/ got' = got /\ rpc' # "done"
        \/ /\ rpc = "read" /\ got' = got /\ conn.down = <<>>
           /\ serv # "open" \/ crst # "none"
    BY <1>1 DEF ClientSteps, Fork, ForkFails, TypeLine, Quit, WriterRuns, ClntWrite,
      ClntWriteLost, ClntWriteFails, ClntSigpipe, ClntWritten, Copies, ReaderRuns,
      ClntRead, ClntReadOnce, ClntEof, ClntReadFails, ClntKilled, Programs
  <2>3. CASE /\ rpc = "read" /\ got' = got /\ conn.down = <<>>
             /\ serv # "open" \/ crst # "none"
    <3>1. conn.cli = "open" /\ rest = <<>>
      BY <2>3 DEF Holding, ReaderHolds, WritesAll
    <3>2. spc \in {"done", "killed"}
      BY <2>3 DEF Resetting, Programs, Typed, StatesTyped
    <3>3. spc = "done" => got = File
      BY <2>3, <3>1, WholeFile DEF WritesAll
    <3> QED
      BY <2>1, <2>3, <3>1, <3>2, <3>3, ClosedStays DEF WritesAll
  <2> QED
    BY <2>1, <2>2, <2>3, ClosedStays DEF WritesAll
<1>2. CASE ServerSteps
  <2>1. UNCHANGED <<rpc, got>> /\ conn'.cli = conn.cli
    BY <1>2, StepSides DEF client
  <2>2. rest = <<>> /\ spc \in {"write", "close", "done", "killed"}
    BY DEF WritesAll, Programs
  <2>3. rest' = rest
    BY <1>2, <2>2 DEF ServerSteps, ServKilled, ServerRuns, ServFopen, ServFread,
      ServWrite, ServWriteLost, ServSigpipe, ServShutdown, ServPeek, ServRead,
      ServReadAck, ServReadEnds, ServClose
  <2>4. spc # "killed"
    BY <1>2, <2>2 DEF ServerSteps, ServKilled, ServerRuns, ServFopen, ServFread,
      ServWrite, ServWriteLost, ServSigpipe, ServShutdown, ServPeek, ServRead,
      ServReadAck, ServReadEnds, ServClose
  <2>5. spc' \in {"close", "done"} => sbuf' = <<>> \/ (spc = "close" /\ sbuf' = sbuf)
    BY <1>2, <2>2 DEF ServerSteps, ServKilled, ServerRuns, ServFopen, ServFread,
      ServWrite, ServWriteLost, ServSigpipe, ServShutdown, ServPeek, ServRead,
      ServReadAck, ServReadEnds, ServClose
  <2> QED
    BY <2>1, <2>2, <2>3, <2>4, <2>5 DEF WritesAll
<1>3. CASE UNCHANGED vars
  BY <1>3 DEF vars, server, client, WritesAll
<1> QED
  BY <1>1, <1>2, <1>3, StepSides

(* What s begins with, it begins with when there is more.                   *)
LEMMA BeginsAppended ==
  ASSUME NEW p, NEW s \in Seq(Nat), NEW x \in Nat, IsBegin(p, s)
  PROVE  IsBegin(p, Append(s, x))
<1>1. PICK n \in 1..Len(s) : p = Front(s, n)
  BY DEF IsBegin
<1>2. /\ Len(s) \in Nat /\ Len(Append(s, x)) = Len(s) + 1
      /\ n \in 1..Len(Append(s, x))
  BY LenProperties
<1>3. Front(Append(s, x), n) = Front(s, n)
  BY <1>2 DEF Front
<1> QED
  BY <1>1, <1>2, <1>3 DEF IsBegin

(* A read() that takes as much as was peeked at takes that.                 *)
LEMMA BeginsRead ==
  ASSUME NEW p, NEW s \in Seq(Nat), IsBegin(p, s),
         NEW room, NEW n \in Counts(s, room), n >= Len(p)
  PROVE  IsBegin(p, Front(s, n))
<1>1. PICK m \in 1..Len(s) : p = Front(s, m)
  BY DEF IsBegin
<1>2. /\ Len(s) \in Nat /\ n \in Nat /\ n <= Len(s) /\ Len(Front(s, n)) = n
  BY ReadTakes DEF Counts
<1>3. Len(p) = m
  BY <1>1, <1>2 DEF Front
<1>4. m \in 1..n
  BY <1>1, <1>2, <1>3
<1>5. Front(Front(s, n), m) = Front(s, m)
  BY <1>1, <1>2, <1>4 DEF Front
<1> QED
  BY <1>1, <1>2, <1>4, <1>5 DEF IsBegin

(* What 13-1's receiver has peeked at is still there when it reads.         *)
LEMMA StepPeeks ==
  ASSUME Typed, Resetting, Programs, Peeks, [Next]_vars
  PROVE  Peeks'
<1>0. example' = example
  BY StepSides
<1>i. conn.up \in Seq(Nat) /\ sent + 1 \in Nat
  BY DEF Typed, Connection, StatesTyped
<1> SUFFICES ASSUME example = "peek"
             PROVE  /\ spc' = "peek" => ack' = <<>>
                    /\ spc' = "read" => ack' = <<>> /\ IsBegin(sbuf', conn'.up)
                    /\ ack' # <<>> => IsBegin(sbuf', ack')
  BY <1>0 DEF Peeks
<1>1. CASE ClntWrite
  <2>1. conn'.up = Append(conn.up, sent + 1) /\ UNCHANGED <<spc, sbuf, ack>>
    BY <1>1, ClientFields DEF ClntWrite, server, Typed
  <2>2. spc = "read" => IsBegin(sbuf, conn'.up)
    BY <1>i, <2>1, BeginsAppended DEF Peeks
  <2> QED
    BY <2>1, <2>2 DEF Peeks
<1>2. CASE ServPeek
  <2>1. PICK n \in Counts(conn.up, BufSize) : sbuf' = Front(conn.up, n)
    BY <1>2 DEF ServPeek, Reads
  <2>2. n \in 1..Len(conn.up)
    BY DEF Counts
  <2>3. IsBegin(sbuf', conn.up)
    BY <2>1, <2>2 DEF IsBegin
  <2> QED
    BY <1>2, <2>3 DEF ServPeek, Peeks
<1>3. CASE ServReadAck
  <2>1. PICK n \in Counts(conn.up, BufSize) :
          /\ n >= Len(sbuf) /\ ack' = ack \o Front(conn.up, n)
          /\ spc = "read" /\ spc' = "close" /\ sbuf' = sbuf
    BY <1>3 DEF ServReadAck, Reads
  <2>2. ack = <<>> /\ IsBegin(sbuf, conn.up) /\ Front(conn.up, n) \in Seq(Nat)
    BY <1>i, <2>1, SplitType DEF Peeks
  <2>3. ack' = Front(conn.up, n)
    BY <2>1, <2>2, ConcatEmptySeq
  <2>4. IsBegin(sbuf, Front(conn.up, n))
    BY <1>i, <2>1, <2>2, BeginsRead
  <2> QED
    BY <2>1, <2>3, <2>4
<1>4. CASE ~ClntWrite /\ ~ServPeek /\ ~ServReadAck
  <2>1. ~ServRead /\ ~ServFread /\ ~ServWrite /\ ~ServWriteLost
    BY DEF ServRead, ServFread, ServWrite, ServWriteLost, Programs, split
  <2>2. conn'.up = conn.up /\ ack' = ack
    BY <1>4, <2>1, UpMoves
  <2>3. sbuf' = sbuf /\ spc' \in {spc, "close", "done", "killed"}
    <3>1. CASE ClientSteps \/ UNCHANGED vars
      BY <3>1, StepSides DEF server, vars
    <3>2. CASE ServerSteps
      BY <3>2, <1>4, <2>1 DEF ServerSteps, ServKilled, ServerRuns, ServFopen, ServSigpipe,
        ServShutdown, ServReadEnds, ServClose, Programs
    <3> QED
      BY <3>1, <3>2, StepSides
  <2> QED
    BY <2>2, <2>3 DEF Peeks
<1> QED
  BY <1>1, <1>2, <1>3, <1>4

(* The connection, when it has been accepted.                               *)
LEMMA CloseBegins == Init => CloseInv
<1> SUFFICES ASSUME Init PROVE CloseInv
  OBVIOUS
<1>0. /\ <<>> \in Seq(Nat) /\ File \in Seq(Nat) /\ AckLen \in Nat
      /\ Unconnected \in Connection
  BY CloseOrderAssumption, FlowBegins DEF File, Upto
<1>1. /\ conn \in Connection /\ conn.up = <<>> /\ conn.down = <<>>
      /\ conn.cli = "open" /\ conn.rst = "none"
  BY <1>0, ClientOpsType DEF Init, Connected, Unconnected
<1>2. Typed
  <2>1. BytesTyped
    BY <1>0 DEF Init, BytesTyped
  <2>2. left \in Nat /\ sent \in Nat
    BY <1>0 DEF Init
  <2>3. StatesTyped
    BY <2>2 DEF Init, StatesTyped
  <2> QED
    BY <1>1, <2>1, <2>3 DEF Typed
<1>3. Holding /\ Resetting
  BY <1>1 DEF Init, Holding, Resetting, ParentRuns, ReaderHolds
<1>4. Writing
  <2>1. Len(ack) = 0 /\ Len(conn.up) = 0 /\ sent = 0
    BY <1>1, EmptySeq DEF Init
  <2>2. Len(ack) + Len(conn.up) <= sent
    BY <2>1
  <2>3. left > 0 => rpc = "ack"
    BY DEF Init
  <2> QED
    BY <2>2, <2>3 DEF Writing
<1>5. Programs /\ Splits /\ Peeks
  BY DEF Init, Programs, Splits, Peeks, split, answers
<1>6. FileKept
  <2>1. /\ ((<<>> \o <<>>) \o File) \o <<>> = File
        /\ ((<<>> \o <<>>) \o <<>>) \o File = File
    BY <1>0, ConcatEmptySeq
  <2> QED
    BY <1>1, <2>1 DEF Init, FileKept, answers
<1>7. Transfers /\ WritesAll
  BY DEF Init, Transfers, WritesAll, answers
<1> QED
  BY <1>2, <1>3, <1>4, <1>5, <1>6, <1>7 DEF CloseInv

(* CloseInv is an invariant.                                                *)
LEMMA AlwaysCloseInv == Spec => []CloseInv
<1>1. CloseInv /\ [Next]_vars => CloseInv'
  BY StepConnection, StepBytes, StepStates, StepHolding, StepResetting, StepWriting,
    StepPrograms, StepSplits, StepFileKept, StepTransfers, StepWritesAll, StepPeeks
  DEF CloseInv, Typed
<1> QED
  BY CloseBegins, <1>1, PTL DEF Spec

(* The variables of CloseOrder keep their types, the server reads no more   *)
(* than was sent, and the client's end is open while a process holds it.    *)
THEOREM TypeCorrect == Spec => []TypeOK
<1>1. CloseInv => TypeOK
  <2> SUFFICES ASSUME CloseInv PROVE TypeOK
    OBVIOUS
  <2>1. Len(ack) <= sent
    <3>1. Len(ack) \in Nat /\ Len(conn.up) \in Nat /\ sent \in Nat
      BY LenProperties DEF CloseInv, Typed, BytesTyped, StatesTyped, Connection
    <3>2. Len(ack) + Len(conn.up) <= sent
      BY DEF CloseInv, Writing
    <3> QED
      BY <3>1, <3>2
  <2> QED
    BY <2>1 DEF CloseInv, Typed, BytesTyped, StatesTyped, Holding, TypeOK
<1> QED
  BY AlwaysCloseInv, <1>1, PTL

(* 10-5's "q" hangs up nobody: the child holds the socket, the server goes  *)
(* on serving it, and it waits for ever unless somebody is killed.          *)
THEOREM QuitLeavesSession == Spec => []QuitHangsUpNobody
<1>1. CloseInv => QuitHangsUpNobody
  <2> SUFFICES ASSUME CloseInv, split, wpc = "done", rpc # "none", ~Killed
               PROVE  conn.cli = "open" /\ rpc = "read" /\ spc \in {"read", "write"}
    BY DEF QuitHangsUpNobody
  <2>1. rpc = "read"
    BY DEF CloseInv, Typed, StatesTyped, Programs, Splits, Killed
  <2>2. conn.cli = "open"
    BY <2>1 DEF CloseInv, Holding, ReaderHolds
  <2> QED
    BY <2>1, <2>2 DEF CloseInv, Programs, Splits, Killed
<1> QED
  BY AlwaysCloseInv, <1>1, PTL

(* No client that reads to the end misses a byte of the file, and 13-1's    *)
(* receiver reads what it has peeked at.                                    *)
THEOREM ReadersMissNothing == Spec => []NothingMissed
<1>1. CloseInv => NothingMissed
  <2> SUFFICES ASSUME CloseInv PROVE NothingMissed
    OBVIOUS
  <2>1. answers /\ ack # <<>> => got = File
    <3> SUFFICES ASSUME answers, ack # <<>> PROVE got = File
      OBVIOUS
    <3>1. /\ Len(ack) \in Nat \ {0} /\ Len(conn.up) \in Nat /\ sent \in Nat
          /\ Len(ack) + Len(conn.up) <= sent
      BY LenProperties, EmptySeq DEF CloseInv, Typed, BytesTyped, StatesTyped,
        Connection, Writing
    <3>2. sent > 0
      BY <3>1
    <3> QED
      BY <3>2 DEF CloseInv, Transfers
  <2>2. example = "bytes" /\ rpc = "done" /\ ~Killed => got = File
    BY DEF CloseInv, WritesAll, Killed
  <2>3. example = "peek" /\ ack # <<>> => sbuf \in { Front(ack, n) : n \in 1..Len(ack) }
    BY DEF CloseInv, Peeks, IsBegin
  <2> QED
    BY <2>1, <2>2, <2>3 DEF NothingMissed
<1> QED
  BY AlwaysCloseInv, <1>1, PTL

-----------------------------------------------------------------------------
(* 5-1-2-calc's numbers. The four bytes of a word, least first.             *)
LEMMA BytesOfWord ==
  ASSUME NEW v \in Int
  PROVE  /\ Byte(v, 0) = v % 256
         /\ Byte(v, 1) = (v \div 256) % 256
         /\ Byte(v, 2) = (v \div 65536) % 256
         /\ Byte(v, 3) = (v \div 16777216) % 256
<1> DEFINE P == <<1, 256, 65536, 16777216>>
<1>1. P[1] = 1 /\ P[2] = 256 /\ P[3] = 65536 /\ P[4] = 16777216
  BY SMT
<1>2. \A k : Byte(v, k) = (v \div P[k + 1]) % 256
  BY SMT DEF Byte
<1> HIDE DEF P
<1>3. Byte(v, 0) = v % 256
  BY <1>1, <1>2, SMT
<1>4. Byte(v, 1) = (v \div 256) % 256
  BY <1>1, <1>2, SMT
<1>5. Byte(v, 2) = (v \div 65536) % 256
  BY <1>1, <1>2, SMT
<1>6. Byte(v, 3) = (v \div 16777216) % 256
  BY <1>1, <1>2, SMT
<1> QED
  BY <1>3, <1>4, <1>5, <1>6

(* A word of 32 bits is what its four bytes make (its sign is in the last). *)
LEMMA WordOfBytes ==
  ASSUME NEW v \in Int32
  PROVE  Word(Byte(v, 0), Byte(v, 1), Byte(v, 2), Byte(v, 3)) = v
<1> DEFINE b == v \div 256
           c == v \div 65536
           d == v \div 16777216
<1>1. v \in Int
  BY SMT DEF Int32
<1>2. -2147483647 - 1 <= v /\ v <= 2147483647
  BY SMT DEF Int32
<1>3. b \in Int /\ c \in Int /\ d \in Int
  BY <1>1, SMT
<1>4. v = 256 * b + (v % 256)
  BY <1>1, SMT
<1>5. c = b \div 256
  BY <1>1, SMT
<1>6. d = c \div 256
  BY <1>1, SMT
<1>7. -128 <= d /\ d <= 127
  BY <1>1, <1>2, SMT
<1>8. Word(v % 256, b % 256, c % 256, d % 256) = v
  <2> HIDE DEF b, c, d
  <2>1. b = 256 * c + (b % 256)
    BY <1>3, <1>5, SMT
  <2>2. c = 256 * d + (c % 256)
    BY <1>3, <1>6, SMT
  <2>3. d = IF d % 256 < 128 THEN d % 256 ELSE (d % 256) - 256
    BY <1>3, <1>7, SMT
  <2> DEFINE v0 == v % 256
             b0 == b % 256
             c0 == c % 256
             d0 == d % 256
  <2>4. v0 \in Int /\ b0 \in Int /\ c0 \in Int /\ d0 \in Int
    BY <1>1, <1>3, SMT
  <2>5. v = 256 * b + v0
    BY <1>4
  <2>6. b = 256 * c + b0
    BY <2>1
  <2>7. c = 256 * d + c0
    BY <2>2
  <2>8. d = IF d0 < 128 THEN d0 ELSE d0 - 256
    BY <2>3
  <2>9. Word(v0, b0, c0, d0) = v0 + 256 * b0 + 65536 * c0 + 16777216 * d
    BY <2>8, SMT DEF Word
  <2> HIDE DEF v0, b0, c0, d0
  <2>10. v0 + 256 * b0 + 65536 * c0 + 16777216 * d = v
    BY <2>4, <2>5, <2>6, <2>7, <1>1, <1>3, SMT
  <2>11. Word(v0, b0, c0, d0) = v
    BY <2>9, <2>10, SMT
  <2> QED
    BY <2>11, SMT DEF v0, b0, c0, d0
<1>9. /\ Byte(v, 0) = v % 256 /\ Byte(v, 1) = b % 256
      /\ Byte(v, 2) = c % 256 /\ Byte(v, 3) = d % 256
  BY <1>1, BytesOfWord, SMT DEF b, c, d
<1> HIDE DEF b, c, d
<1> QED
  BY <1>8, <1>9, Zenon

(* Whatever the number, a byte of it is one.                                *)
LEMMA ByteRange ==
  ASSUME NEW v \in Int, NEW k \in 0..3
  PROVE  Byte(v, k) \in 0..255
BY SMT DEF Byte

(* Of a number's first byte and three zeroes, its low byte is made.         *)
LEMMA WordOfLowByte ==
  ASSUME NEW v \in Int
  PROVE  Word(Byte(v, 0), 0, 0, 0) = LowByte(v)
BY SMT DEF Word, Byte, LowByte

(* What recv_msg() finds where an operand is expected is a number.          *)
LEMMA WordRange ==
  ASSUME NEW a \in Int, NEW b \in Int, NEW c \in Int, NEW d \in Int
  PROVE  Word(a, b, c, d) \in Int
BY SMT DEF Word

(* An int8_t is between -128 and 127.                                       *)
LEMMA Int8Range ==
  \A v \in Int : Int8(v) \in -128..127
BY DEF Int8

(* Every operation of eval_msg.c on two numbers gives a number.             *)
LEMMA OpFuncRange ==
  ASSUME NEW op, NEW a \in Int, NEW b \in Int
  PROVE  OpFunc(op, a, b) \in Int
<1>1. b # 0 => Quotient(a, b) \in Int
  BY DEF Quotient
<1> QED
  BY <1>1 DEF OpFunc, NoQuotient

(* f has the result of eval_msg()'s loop after each of the operands 0..n.   *)
Fills(op, opr, n, f) ==
  f = [i \in 0..n |-> IF i = 0 THEN opr[0] ELSE OpFunc(op, f[i - 1], opr[i])]

(* There is such an f for every n: a smallest n without one would have a    *)
(* predecessor with one, which a single further step extends.               *)
LEMMA FillsExists ==
  ASSUME NEW op, NEW opr, NEW n \in Nat
  PROVE  \E f : Fills(op, opr, n, f)
<1> DEFINE Bad == {m \in Nat : ~ \E f : Fills(op, opr, m, f)}
<1>1. CASE Bad = {}
  BY <1>1
<1>2. CASE Bad # {}
  <2>0. Bad \in SUBSET Nat
    OBVIOUS
  <2> HIDE DEF Bad
  <2>1. PICK m \in Bad : \A k \in Bad : m <= k
    BY <1>2, <2>0, SmallestOf
  <2> USE DEF Bad
  <2>2. CASE m = 0
    <3>1. Fills(op, opr, 0, [i \in 0..0 |-> opr[0]])
      BY DEF Fills
    <3> QED
      BY <2>1, <2>2, <3>1
  <2>3. CASE m # 0
    <3>1. m - 1 \in Nat /\ m \in Nat /\ ~(m <= m - 1)
      BY <2>3
    <3>2. PICK f : Fills(op, opr, m - 1, f)
      BY <2>1, <3>1
    <3> DEFINE g == [i \in 0..m |->
                       IF i = m THEN OpFunc(op, f[m - 1], opr[m]) ELSE f[i]]
    <3>3. ASSUME NEW i \in 0..m
          PROVE  g[i] = IF i = 0 THEN opr[0] ELSE OpFunc(op, g[i - 1], opr[i])
      <4>1. CASE i = m
        <5>1. g[m - 1] = f[m - 1]
          BY <3>1
        <5> QED
          BY <4>1, <5>1, <2>3
      <4>2. CASE i # m
        <5>1. i \in 0..(m - 1) /\ (i # 0 => i - 1 \in 0..m /\ i - 1 # m)
          BY <4>2, <3>1
        <5>2. f[i] = IF i = 0 THEN opr[0] ELSE OpFunc(op, f[i - 1], opr[i])
          BY <3>2, <5>1 DEF Fills
        <5> QED
          BY <4>2, <5>1, <5>2
      <4> QED
        BY <4>1, <4>2
    <3>4. g = [i \in 0..m |->
                 IF i = 0 THEN opr[0] ELSE OpFunc(op, g[i - 1], opr[i])]
      BY <3>3
    <3>5. Fills(op, opr, m, g)
      BY <3>4 DEF Fills
    <3> QED
      BY <3>5, <2>1
  <2> QED
    BY <2>2, <2>3
<1> QED
  BY <1>1, <1>2

(* So Results(op, opr), defined by recursion, does satisfy its equation.    *)
LEMMA ResultsStep ==
  ASSUME NEW op, NEW opr
  PROVE  \A i \in 0..127 :
           Results(op, opr)[i] =
             IF i = 0 THEN opr[0]
                      ELSE OpFunc(op, Results(op, opr)[i - 1], opr[i])
<1>1. \E f : Fills(op, opr, 127, f)
  BY FillsExists
<1>2. Fills(op, opr, 127, Results(op, opr))
  BY <1>1 DEF Fills, Results
<1> QED
  BY <1>2 DEF Fills

(* The loop of eval_msg() computes numbers (by smallest counterexample) ... *)
LEMMA ResultsInt ==
  ASSUME NEW op, NEW opr \in [0..126 -> Int], NEW n \in 0..126
  PROVE  Results(op, opr)[n] \in Int
<1> DEFINE Bad == {i \in Nat : i <= 126 /\ Results(op, opr)[i] \notin Int}
<1>1. CASE Bad = {}
  BY <1>1
<1>2. CASE Bad # {}
  <2>1. Bad \in SUBSET Nat
    OBVIOUS
  <2> HIDE DEF Bad
  <2>2. PICK m \in Bad : \A k \in Bad : m <= k
    BY <1>2, <2>1, SmallestOf
  <2> USE DEF Bad
  <2>3. m \in 0..126 /\ m \in 0..127 /\ opr[m] \in Int /\ opr[0] \in Int
    OBVIOUS
  <2>4. CASE m = 0
    BY <2>3, <2>4, ResultsStep
  <2>5. CASE m # 0
    <3>1. m - 1 \in Nat /\ m - 1 <= 126 /\ ~(m <= m - 1)
      BY <2>3, <2>5
    <3>2. Results(op, opr)[m - 1] \in Int
      BY <2>2, <3>1
    <3>3. Results(op, opr)[m] = OpFunc(op, Results(op, opr)[m - 1], opr[m])
      BY <2>3, <2>5, ResultsStep
    <3> QED
      BY <2>3, <3>2, <3>3, OpFuncRange
  <2> QED
    BY <2>4, <2>5
<1> QED
  BY <1>1, <1>2

(* The operands 0..n are the same in f and g.                               *)
Agree(f, g, n) == n \in 0..127 /\ \A i \in 0..n : f[i] = g[i]

(* ... and its result depends on the operands so far and no others.         *)
LEMMA ResultsAgree ==
  ASSUME NEW op, NEW f, NEW g, NEW n, Agree(f, g, n)
  PROVE  Results(op, f)[n] = Results(op, g)[n]
<1> USE DEF Agree
<1> DEFINE Bad == {i \in Nat : i <= n /\ Results(op, f)[i] # Results(op, g)[i]}
<1>1. CASE Bad = {}
  BY <1>1
<1>2. CASE Bad # {}
  <2>1. Bad \in SUBSET Nat
    OBVIOUS
  <2> HIDE DEF Bad
  <2>2. PICK m \in Bad : \A k \in Bad : m <= k
    BY <1>2, <2>1, SmallestOf
  <2> USE DEF Bad
  <2>3. m \in 0..127 /\ m \in 0..n /\ 0 \in 0..n
    OBVIOUS
  <2>4. CASE m = 0
    BY <2>3, <2>4, ResultsStep
  <2>5. CASE m # 0
    <3>1. m - 1 \in Nat /\ m - 1 <= n /\ ~(m <= m - 1)
      BY <2>3, <2>5
    <3>2. Results(op, f)[m - 1] = Results(op, g)[m - 1]
      BY <2>2, <3>1
    <3>3. /\ Results(op, f)[m] = OpFunc(op, Results(op, f)[m - 1], f[m])
          /\ Results(op, g)[m] = OpFunc(op, Results(op, g)[m - 1], g[m])
      BY <2>3, <2>5, ResultsStep
    <3> QED
      BY <2>3, <3>2, <3>3
  <2> QED
    BY <2>4, <2>5
<1> QED
  BY <1>1, <1>2

(* What eval_msg() returns is a number ...                                  *)
LEMMA EvalMsgInt ==
  ASSUME NEW op, NEW opr \in [0..126 -> Int], NEW cnt \in -128..127
  PROVE  EvalMsg(op, cnt, opr) \in Int
<1>1. (IF cnt < 1 THEN 0 ELSE cnt - 1) \in 0..126
  OBVIOUS
<1> QED
  BY <1>1, ResultsInt DEF EvalMsg

(* ... which the first cnt operands determine.                              *)
LEMMA EvalMsgAgrees ==
  ASSUME NEW op, NEW f, NEW g, NEW cnt \in 1..127,
         \A i \in 0..(cnt - 1) : f[i] = g[i]
  PROVE  EvalMsg(op, cnt, f) = EvalMsg(op, cnt, g)
<1>1. PICK last \in 0..127 : last = cnt - 1
  OBVIOUS
<1>2. Agree(f, g, last)
  BY <1>1 DEF Agree
<1>3. /\ EvalMsg(op, cnt, f) = Results(op, f)[last]
      /\ EvalMsg(op, cnt, g) = Results(op, g)[last]
  BY <1>1 DEF EvalMsg
<1>4. Results(op, f)[last] = Results(op, g)[last]
  BY <1>2, ResultsAgree
<1> QED
  BY <1>3, <1>4, Zenon

(* Bytes are numbers.                                                       *)
LEMMA BytesAreNumbers ==
  \A v \in 0..255 : v \in Nat /\ v \in Int
OBVIOUS

(* So are those of the zeroed buffer that recv_msg() reads into.            *)
LEMMA ByteAtRange ==
  ASSUME NEW b \in Seq(0..255)
  PROVE  \A i \in Nat : ByteAt(b, i) \in 0..255 /\ ByteAt(b, i) \in Int
<1> SUFFICES ASSUME NEW i \in Nat
             PROVE  ByteAt(b, i) \in 0..255 /\ ByteAt(b, i) \in Int
  OBVIOUS
<1>1. CASE i < Len(b)
  <2>1. i + 1 \in 1..Len(b)
    BY <1>1, LenProperties
  <2>2. b[i + 1] \in 0..255
    BY <2>1, ElementOfSeq
  <2>3. ByteAt(b, i) = b[i + 1]
    BY <1>1, Zenon DEF ByteAt
  <2>4. ByteAt(b, i) \in 0..255
    BY <2>2, <2>3, Zenon
  <2> QED
    BY <2>4, BytesAreNumbers, Zenon
<1>2. CASE ~(i < Len(b))
  BY <1>2 DEF ByteAt
<1> QED
  BY <1>1, <1>2

(* A remainder of 256 is a byte.                                            *)
LEMMA ModRange ==
  \A v \in Int : v % 256 \in 0..255
OBVIOUS

(* The types of what recv_msg() returns, whatever has been received.        *)
LEMMA ReceivedType ==
  ASSUME NEW b \in Seq(0..255)
  PROVE  RcvCnt(b) \in -128..127 /\ RcvOprs(b) \in [0..126 -> Int]
<1>1. ByteAt(b, 1) \in Int
  BY ByteAtRange
<1>2. RcvCnt(b) \in -128..127
  BY <1>1, Int8Range DEF RcvCnt
<1>3. ASSUME NEW k \in 0..126
      PROVE  LET at == HeaderSize + 4 * k
             IN  Word(ByteAt(b, at), ByteAt(b, at + 1), ByteAt(b, at + 2),
                      ByteAt(b, at + 3)) \in Int
  <2> DEFINE at == HeaderSize + 4 * k
  <2>1. at \in Nat /\ at + 1 \in Nat /\ at + 2 \in Nat /\ at + 3 \in Nat
    BY DEF HeaderSize
  <2> HIDE DEF at
  <2>2. /\ ByteAt(b, at) \in Int /\ ByteAt(b, at + 1) \in Int
        /\ ByteAt(b, at + 2) \in Int /\ ByteAt(b, at + 3) \in Int
    BY <2>1, ByteAtRange
  <2>3. Word(ByteAt(b, at), ByteAt(b, at + 1), ByteAt(b, at + 2),
             ByteAt(b, at + 3)) \in Int
    BY <2>2, WordRange
  <2> QED
    BY <2>3 DEF at
<1> QED
  BY <1>2, <1>3 DEF RcvOprs

(* Every byte make_msg_header() leaves in the buffer is one ...             *)
LEMMA BufferByteRange ==
  ASSUME NEW cnt \in -128..127, NEW op \in 0..255, NEW oprs \in Seq(Int),
         NEW i \in Nat
  PROVE  BufferByte(cnt, op, oprs, i) \in 0..255
<1>1. MsgSize(cnt) \in Int
  BY DEF MsgSize, Int8
<1>2. MsgSize(cnt) % 256 \in 0..255 /\ cnt % 256 \in 0..255
  <2>1. cnt \in Int
    OBVIOUS
  <2> QED
    BY <1>1, <2>1, ModRange, Zenon
<1> DEFINE k == (i - HeaderSize) \div 4 + 1
           j == (i - HeaderSize) % 4
<1>3. ASSUME i # 0, i # 1, i # 2, k <= Len(oprs)
      PROVE  Byte(oprs[k], j) \in 0..255
  <2>1. k \in Nat /\ k >= 1 /\ j \in 0..3
    BY <1>3, SMT DEF HeaderSize
  <2>2. oprs[k] \in Int
    BY <2>1, <1>3, ElementOfSeq
  <2> HIDE DEF k, j
  <2> QED
    BY <2>1, <2>2, ByteRange
<1> QED
  BY <1>2, <1>3 DEF BufferByte

(* ... and so is every byte main() writes, those past the struct included.  *)
LEMMA WrittenType ==
  ASSUME NEW cnt \in -128..127, NEW op \in 0..255, NEW oprs \in Seq(Int),
         NEW junk \in Garbage
  PROVE  Written(cnt, op, oprs, junk) \in Seq(0..255)
<1> DEFINE n == IF MsgSize(cnt) < 0 THEN 0 ELSE MsgSize(cnt)
<1>1. MsgSize(cnt) \in Int
  BY DEF MsgSize, Int8
<1>2. n \in Nat /\ 1..MsgSize(cnt) = 1..n
  BY <1>1
<1>3. junk \in 0..255
  BY CalcAssumption
<1>4. \A i \in 1..n : i - 1 \in Nat
      /\ BufferByte(cnt, op, oprs, i - 1) \in 0..255
  <2> SUFFICES ASSUME NEW i \in 1..n
               PROVE  /\ i - 1 \in Nat
                      /\ BufferByte(cnt, op, oprs, i - 1) \in 0..255
    OBVIOUS
  <2>1. i - 1 \in Nat
    BY <1>2
  <2> QED
    BY <2>1, BufferByteRange
<1> HIDE DEF n
<1>5. \A i \in 1..n : (IF i <= StructSize THEN BufferByte(cnt, op, oprs, i - 1)
                                          ELSE junk) \in 0..255
  BY <1>3, <1>4
<1>6. Written(cnt, op, oprs, junk) =
        [i \in 1..n |-> IF i <= StructSize THEN BufferByte(cnt, op, oprs, i - 1)
                                           ELSE junk]
  BY <1>2 DEF Written
<1> QED
  BY <1>2, <1>5, <1>6, IsASeq

(* The first 4 * cnt bytes of the buffer: of a message that fits its        *)
(* struct, what main() writes.                                              *)
Sends(cnt, op, oprs) ==
  [i \in 1..(4 * cnt) |-> BufferByte(cnt, op, oprs, i - 1)]

(* They are so many bytes, and zeroes follow them in the receiver's buffer. *)
LEMMA SendsSeq ==
  ASSUME NEW cnt \in 1..4, NEW op \in 0..255, NEW oprs \in Seq(Int)
  PROVE  /\ Sends(cnt, op, oprs) \in Seq(0..255)
         /\ Len(Sends(cnt, op, oprs)) = 4 * cnt
         /\ \A i \in 0..(4 * cnt - 1) :
              ByteAt(Sends(cnt, op, oprs), i) = BufferByte(cnt, op, oprs, i)
         /\ \A i \in Nat : i >= 4 * cnt => ByteAt(Sends(cnt, op, oprs), i) = 0
<1>1. PICK n \in Nat : n = 4 * cnt
  OBVIOUS
<1>2. cnt \in -128..127
  OBVIOUS
<1>3. ASSUME NEW i \in 1..n
      PROVE  BufferByte(cnt, op, oprs, i - 1) \in 0..255
  <2>1. i - 1 \in Nat
    OBVIOUS
  <2> QED
    BY <1>2, <2>1, BufferByteRange
<1>4. Sends(cnt, op, oprs) = [i \in 1..n |-> BufferByte(cnt, op, oprs, i - 1)]
  BY <1>1 DEF Sends
<1>5. Sends(cnt, op, oprs) \in Seq(0..255)
  BY <1>3, <1>4, IsASeq
<1>6. Len(Sends(cnt, op, oprs)) = n
  BY <1>4
<1>7. ASSUME NEW i \in 0..(n - 1)
      PROVE  ByteAt(Sends(cnt, op, oprs), i) = BufferByte(cnt, op, oprs, i)
  <2>1. i + 1 \in 1..n /\ i < n /\ (i + 1) - 1 = i
    OBVIOUS
  <2>2. Sends(cnt, op, oprs)[i + 1] = BufferByte(cnt, op, oprs, i)
    BY <1>4, <2>1
  <2> QED
    BY <1>6, <2>1, <2>2 DEF ByteAt
<1>8. \A i \in Nat : i >= n => ByteAt(Sends(cnt, op, oprs), i) = 0
  BY <1>6 DEF ByteAt
<1> QED
  BY <1>1, <1>5, <1>6, <1>7, <1>8

(* The size in the header of a message that fits does not wrap ...          *)
LEMMA SizeOfSent ==
  ASSUME NEW cnt \in 1..4
  PROVE  MsgSize(cnt) = 4 * cnt
BY DEF MsgSize, Int8

(* ... and the bytes written are these, none of the stack's.                *)
LEMMA WrittenIsSent ==
  ASSUME NEW cnt \in 1..4, NEW op, NEW oprs, NEW junk
  PROVE  Written(cnt, op, oprs, junk) = Sends(cnt, op, oprs)
<1>1. MsgSize(cnt) = 4 * cnt
  BY SizeOfSent
<1>2. \A i \in 1..(4 * cnt) : i <= StructSize
  BY DEF StructSize
<1>3. Written(cnt, op, oprs, junk) =
        [i \in 1..(4 * cnt) |->
           IF i <= StructSize THEN BufferByte(cnt, op, oprs, i - 1) ELSE junk]
  BY <1>1, Zenon DEF Written
<1> QED
  BY <1>2, <1>3, Zenon DEF Sends

(* The receiver finds the size, the count and the operation as they were.   *)
LEMMA HeaderReceived ==
  ASSUME NEW cnt \in 1..4, NEW op \in 0..255, NEW oprs \in Seq(Int)
  PROVE  LET m == Sends(cnt, op, oprs)
         IN  /\ m # <<>> /\ Int8(m[1]) = 4 * cnt
             /\ RcvCnt(m) = cnt /\ RcvOp(m) = op
<1> DEFINE m == Sends(cnt, op, oprs)
<1>1. \A i \in 0..(4 * cnt - 1) : ByteAt(m, i) = BufferByte(cnt, op, oprs, i)
  BY SendsSeq
<1>2. m \in Seq(0..255) /\ Len(m) = 4 * cnt
  BY SendsSeq
<1> HIDE DEF m
<1>3. 0 \in 0..(4 * cnt - 1) /\ 1 \in 0..(4 * cnt - 1) /\ 2 \in 0..(4 * cnt - 1)
  OBVIOUS
<1>4. /\ ByteAt(m, 0) = MsgSize(cnt) % 256 /\ ByteAt(m, 1) = cnt % 256
      /\ ByteAt(m, 2) = op
  BY <1>1, <1>3 DEF BufferByte
<1>5. m # <<>> /\ m[1] = ByteAt(m, 0)
  BY <1>2 DEF ByteAt
<1>6. Int8(MsgSize(cnt) % 256) = 4 * cnt /\ Int8(cnt % 256) = cnt
  <2>1. MsgSize(cnt) = 4 * cnt
    BY SizeOfSent
  <2>2. Int8((4 * cnt) % 256) = 4 * cnt
    BY DEF Int8
  <2>3. Int8(cnt % 256) = cnt
    BY DEF Int8
  <2> QED
    BY <2>1, <2>2, <2>3, Zenon
<1> QED
  BY <1>4, <1>5, <1>6, Zenon DEF m, RcvCnt, RcvOp

(* When recv_msg()'s loop ends, all that was written has been read: its     *)
(* condition takes the size from the first byte, however little came with   *)
(* it.                                                                      *)
LEMMA WholeReceived ==
  ASSUME NEW cnt \in 1..4, NEW op \in 0..255, NEW oprs \in Seq(Int),
         NEW b \in Seq(0..255), NEW more \in Seq(0..255),
         b \o more = Sends(cnt, op, oprs), ~Expects(b)
  PROVE  b = Sends(cnt, op, oprs)
<1>1. Len(b) \in Nat /\ Len(more) \in Nat /\ Len(b) + Len(more) = 4 * cnt
  <2>1. Len(Sends(cnt, op, oprs)) = 4 * cnt
    BY SendsSeq
  <2>2. Len(b) \in Nat /\ Len(more) \in Nat
        /\ Len(b \o more) = Len(b) + Len(more)
    BY ConcatProperties, LenProperties
  <2> QED
    BY <2>1, <2>2
<1>2. b # <<>>
  BY DEF Expects
<1>3. Len(b) >= 1
  BY <1>1, <1>2, EmptySeq
<1>4. b[1] = (b \o more)[1]
  BY <1>3, ConcatProperties
<1>5. Int8(b[1]) = 4 * cnt
  <2>1. Int8(Sends(cnt, op, oprs)[1]) = 4 * cnt
    BY HeaderReceived
  <2> QED
    BY <1>4, <2>1, Zenon
<1>6. ~(Len(b) < 4 * cnt)
  BY <1>2, <1>5 DEF Expects
<1>7. Len(more) = 0
  BY <1>1, <1>6
<1>8. more = <<>>
  BY <1>7, EmptySeq
<1> QED
  BY <1>8, ConcatEmptySeq

(* Where the j-th byte of operand k lies in the buffer.                     *)
LEMMA OperandSent ==
  ASSUME NEW cnt \in 1..4, NEW op \in 0..255, NEW oprs \in Seq(Int),
         Len(oprs) = cnt, NEW k \in 0..(cnt - 1), NEW j \in 0..3
  PROVE  BufferByte(cnt, op, oprs, HeaderSize + 4 * k + j) =
           Byte(oprs[k + 1], j)
<1>1. PICK i \in Nat : i = 3 + 4 * k + j
  OBVIOUS
<1>2. /\ (i - 3) \div 4 = k /\ (i - 3) % 4 = j /\ k + 1 <= Len(oprs)
      /\ i # 0 /\ i # 1 /\ i # 2
  BY <1>1
<1>3. BufferByte(cnt, op, oprs, i) = Byte(oprs[k + 1], j)
  BY <1>2, Zenon DEF BufferByte, HeaderSize
<1> QED
  BY <1>1, <1>3 DEF HeaderSize

(* The receiver finds all bytes of each operand but the last, of which it   *)
(* finds the lowest, and zeroes.                                            *)
LEMMA OperandsReceived ==
  ASSUME NEW cnt \in 1..4, NEW op \in 0..255, NEW oprs \in Seq(Int),
         Len(oprs) = cnt
  PROVE  LET m == Sends(cnt, op, oprs)
         IN  /\ \A k \in 0..(cnt - 2) :
                  RcvOprs(m)[k] =
                    Word(Byte(oprs[k + 1], 0), Byte(oprs[k + 1], 1),
                         Byte(oprs[k + 1], 2), Byte(oprs[k + 1], 3))
             /\ RcvOprs(m)[cnt - 1] = LowByte(oprs[cnt])
<1> DEFINE m == Sends(cnt, op, oprs)
<1>1. /\ \A i \in 0..(4 * cnt - 1) : ByteAt(m, i) = BufferByte(cnt, op, oprs, i)
      /\ \A i \in Nat : i >= 4 * cnt => ByteAt(m, i) = 0
  BY SendsSeq
<1> HIDE DEF m
<1>2. ASSUME NEW k \in 0..(cnt - 1)
      PROVE  RcvOprs(m)[k] =
               Word(ByteAt(m, HeaderSize + 4 * k + 0),
                    ByteAt(m, HeaderSize + 4 * k + 1),
                    ByteAt(m, HeaderSize + 4 * k + 2),
                    ByteAt(m, HeaderSize + 4 * k + 3))
  <2>1. k \in 0..126 /\ HeaderSize + 4 * k + 0 = HeaderSize + 4 * k
    BY DEF HeaderSize
  <2> QED
    BY <2>1, Zenon DEF RcvOprs
<1>3. ASSUME NEW k \in 0..(cnt - 1), NEW j \in 0..3,
             HeaderSize + 4 * k + j < 4 * cnt
      PROVE  ByteAt(m, HeaderSize + 4 * k + j) = Byte(oprs[k + 1], j)
  <2>1. HeaderSize + 4 * k + j \in 0..(4 * cnt - 1)
    BY <1>3 DEF HeaderSize
  <2> QED
    BY <1>1, <2>1, OperandSent
<1>4. ASSUME NEW k \in 0..(cnt - 2)
      PROVE  RcvOprs(m)[k] = Word(Byte(oprs[k + 1], 0), Byte(oprs[k + 1], 1),
                                  Byte(oprs[k + 1], 2), Byte(oprs[k + 1], 3))
  <2>1. k \in 0..(cnt - 1) /\ \A j \in 0..3 : HeaderSize + 4 * k + j < 4 * cnt
    BY DEF HeaderSize
  <2>2. 0 \in 0..3 /\ 1 \in 0..3 /\ 2 \in 0..3 /\ 3 \in 0..3
    OBVIOUS
  <2> QED
    BY <1>2, <1>3, <2>1, <2>2, Zenon
<1>5. RcvOprs(m)[cnt - 1] = LowByte(oprs[cnt])
  <2>1. PICK k \in 0..(cnt - 1) : k = cnt - 1
    OBVIOUS
  <2>2. ByteAt(m, HeaderSize + 4 * k + 0) = Byte(oprs[k + 1], 0)
    BY <1>3, <2>1 DEF HeaderSize
  <2>3. \A j \in 1..3 : HeaderSize + 4 * k + j \in Nat
        /\ HeaderSize + 4 * k + j >= 4 * cnt
    BY <2>1 DEF HeaderSize
  <2>4. 1 \in 1..3 /\ 2 \in 1..3 /\ 3 \in 1..3
    OBVIOUS
  <2>5. /\ ByteAt(m, HeaderSize + 4 * k + 1) = 0
        /\ ByteAt(m, HeaderSize + 4 * k + 2) = 0
        /\ ByteAt(m, HeaderSize + 4 * k + 3) = 0
    BY <1>1, <2>3, <2>4, Zenon
  <2>6. RcvOprs(m)[k] = Word(Byte(oprs[k + 1], 0), 0, 0, 0)
    BY <1>2, <2>2, <2>5, Zenon
  <2>7. oprs[k + 1] \in Int
    BY <2>1, ElementOfSeq
  <2>8. RcvOprs(m)[k] = LowByte(oprs[k + 1])
    BY <2>6, <2>7, WordOfLowByte, Zenon
  <2>9. k + 1 = cnt
    BY <2>1
  <2> QED
    BY <2>1, <2>8, <2>9, Zenon
<1> QED
  BY <1>4, <1>5, Zenon DEF m

(* A sequence over a set is one over any larger set.                        *)
LEMMA SeqOfMore ==
  ASSUME NEW S, NEW T, S \subseteq T, NEW s \in Seq(S)
  PROVE  s \in Seq(T)
OBVIOUS

(* What an int32_t holds is a number.                                       *)
LEMMA WordsAreNumbers == Int32 \subseteq Int
BY DEF Int32

(* What is assumed of a request, in the terms of the lemmas.                *)
LEMMA RequestType ==
  ASSUME NEW r \in Requests
  PROVE  /\ r.cnt \in -128..127 /\ r.op \in 0..255
         /\ r.oprs \in Seq(Int32) /\ r.oprs \in Seq(Int)
         /\ r.cnt \in 1..4 => Len(r.oprs) = r.cnt
<1>1. /\ r.cnt \in -128..127 /\ r.op \in 0..127 /\ r.oprs \in Seq(Int32)
      /\ Len(r.oprs) = IF r.cnt < 0 THEN 0 ELSE r.cnt
  BY CalcAssumption
<1>3. r.oprs \in Seq(Int)
  BY <1>1, WordsAreNumbers, SeqOfMore, Zenon
<1>4. r.op \in 0..255
  BY <1>1
<1>5. r.cnt \in 1..4 => Len(r.oprs) = r.cnt
  BY <1>1
<1> QED
  BY <1>1, <1>3, <1>4, <1>5, Zenon

(* The server's result for a whole request that fits.                       *)
LEMMA RequestEvaluated ==
  ASSUME NEW cnt \in 1..4, NEW op \in 0..255, NEW oprs \in Seq(Int32),
         Len(oprs) = cnt
  PROVE  LET m == Sends(cnt, op, oprs)
         IN  EvalMsg(RcvOp(m), RcvCnt(m), RcvOprs(m)) =
               Value(op, WithLowByteLast(oprs))
<1> DEFINE m == Sends(cnt, op, oprs)
           w == WithLowByteLast(oprs)
           typed == [k \in 0..(Len(w) - 1) |-> w[k + 1]]
<1>1. oprs \in Seq(Int)
  BY WordsAreNumbers, SeqOfMore, Zenon
<1>2. RcvOp(m) = op /\ RcvCnt(m) = cnt
  BY <1>1, HeaderReceived
<1>3. /\ \A k \in 0..(cnt - 2) :
           RcvOprs(m)[k] = Word(Byte(oprs[k + 1], 0), Byte(oprs[k + 1], 1),
                                Byte(oprs[k + 1], 2), Byte(oprs[k + 1], 3))
      /\ RcvOprs(m)[cnt - 1] = LowByte(oprs[cnt])
  BY <1>1, OperandsReceived, Zenon
<1>4. /\ Len(w) = cnt /\ w[cnt] = LowByte(oprs[cnt])
      /\ \A k \in 1..(cnt - 1) : w[k] = oprs[k]
  BY <1>1 DEF WithLowByteLast
<1> HIDE DEF m, w
<1>5. ASSUME NEW k \in 0..(cnt - 1)
      PROVE  RcvOprs(m)[k] = typed[k]
  <2>1. typed[k] = w[k + 1]
    BY <1>4
  <2> HIDE DEF typed
  <2>2. CASE k = cnt - 1
    <3>1. k + 1 = cnt
      BY <2>2
    <3> QED
      BY <1>3, <1>4, <2>1, <2>2, <3>1, Zenon
  <2>3. CASE k # cnt - 1
    <3>1. k \in 0..(cnt - 2) /\ k + 1 \in 1..(cnt - 1) /\ k + 1 \in 1..Len(oprs)
      BY <1>1, <2>3
    <3>2. oprs[k + 1] \in Int32
      BY <1>1, <3>1, ElementOfSeq, Zenon
    <3>3. RcvOprs(m)[k] = oprs[k + 1]
      BY <1>3, <3>1, <3>2, WordOfBytes, Zenon
    <3> QED
      BY <1>4, <2>1, <3>1, <3>3, Zenon
  <2> QED
    BY <2>2, <2>3
<1>6. cnt \in 1..127
  OBVIOUS
<1>7. Value(op, w) = EvalMsg(op, cnt, typed)
  BY <1>4, Zenon DEF Value
<1> HIDE DEF typed
<1>8. EvalMsg(op, cnt, RcvOprs(m)) = EvalMsg(op, cnt, typed)
  BY <1>5, <1>6, EvalMsgAgrees
<1> QED
  BY <1>2, <1>7, <1>8, Zenon DEF m, w

(* The client's evaluation of a whole answer: its low byte.                 *)
LEMMA AnswerEvaluated ==
  ASSUME NEW v \in Int
  PROVE  LET m == Sends(1, Equals, <<v>>)
         IN  EvalMsg(RcvOp(m), RcvCnt(m), RcvOprs(m)) = LowByte(v)
<1> DEFINE m == Sends(1, Equals, <<v>>)
<1>1. /\ 1 \in 1..4 /\ Equals \in 0..255 /\ <<v>> \in Seq(Int) /\ Len(<<v>>) = 1
      /\ <<v>>[1] = v
  BY DEF Equals
<1>2. RcvCnt(m) = 1
  BY <1>1, HeaderReceived
<1>3. RcvOprs(m)[1 - 1] = LowByte(<<v>>[1])
  BY <1>1, OperandsReceived
<1> HIDE DEF m
<1>4. RcvOprs(m)[0] = LowByte(v)
  BY <1>1, <1>3
<1>5. EvalMsg(RcvOp(m), 1, RcvOprs(m)) = Results(RcvOp(m), RcvOprs(m))[0]
  BY DEF EvalMsg
<1>6. Results(RcvOp(m), RcvOprs(m))[0] = RcvOprs(m)[0]
  BY ResultsStep
<1>7. EvalMsg(RcvOp(m), RcvCnt(m), RcvOprs(m)) = LowByte(v)
  BY <1>2, <1>4, <1>5, <1>6, Zenon
<1> QED
  BY <1>7 DEF m

-----------------------------------------------------------------------------
(* Before a request is made nothing is on its way to the server; afterwards *)
(* what the server has read and what is on its way are the bytes of the     *)
(* request, in order.                                                       *)
Requested ==
  /\ cliPc = "prompt" => up = <<>> /\ servBuf = <<>>
  /\ Fits /\ cliPc # "prompt" =>
       servBuf \o up = Sends(request.cnt, request.op, request.oprs)

(* Likewise of the answer; and the client is done after the server.         *)
Answered ==
  /\ servPc # "done" => down = <<>> /\ cliBuf = <<>>
  /\ servPc = "done" => cliBuf \o down = Sends(1, Equals, <<result>>)
  /\ cliPc = "done" => servPc = "done"

(* The inductive invariant of CalcProtocol. Without the two streams nothing *)
(* would say what recv_msg() has when its loop ends.                        *)
CalcInv == CalcTypeOK /\ Requested /\ Answered /\ LastNumberCut

(* read() takes n bytes of b to the end of a: they remain the same stream.  *)
LEMMA MovedOn ==
  ASSUME NEW S, S \subseteq Nat, NEW a \in Seq(S), NEW b \in Seq(S),
         NEW n \in 1..Len(b)
  PROVE  /\ a \o SubSeq(b, 1, n) \in Seq(S)
         /\ SubSeq(b, n + 1, Len(b)) \in Seq(S)
         /\ (a \o SubSeq(b, 1, n)) \o SubSeq(b, n + 1, Len(b)) = a \o b
<1>1. a \in Seq(Nat) /\ b \in Seq(Nat)
  BY SeqOfMore, Zenon
<1>2. n \in Counts(b, Len(b))
  BY LenProperties DEF Counts
<1>3. Front(b, n) \in Seq(S) /\ Rest(b, n) \in Seq(S)
  BY <1>2, SplitType
<1>4. (a \o Front(b, n)) \o Rest(b, n) = a \o b
  BY <1>1, <1>2, HandedOver
<1>5. a \o Front(b, n) \in Seq(S)
  BY <1>3, ConcatProperties
<1> QED
  BY <1>3, <1>4, <1>5, Zenon DEF Front, Rest

(* It holds when the two are connected ...                                  *)
LEMMA CalcBegins == CalcInit => CalcInv
<1> SUFFICES ASSUME CalcInit PROVE CalcInv
  OBVIOUS
<1>1. <<>> \in Seq(0..255)
  OBVIOUS
<1>2. CalcTypeOK
  BY <1>1 DEF CalcInit, CalcTypeOK
<1>3. Requested /\ Answered
  BY DEF CalcInit, Requested, Answered
<1>4. LastNumberCut
  BY DEF CalcInit, LastNumberCut, ServerEvaluatesRequest, ClientPrintsLowByte
<1> QED
  BY <1>2, <1>3, <1>4 DEF CalcInv

(* ... and every step of client and server keeps it.                        *)
LEMMA CalcContinues == CalcInv /\ [CalcNext]_calcVars => CalcInv'
<1> SUFFICES ASSUME CalcInv, [CalcNext]_calcVars PROVE CalcInv'
  OBVIOUS
<1> USE DEF CalcInv
<1>0. request \in Requests /\ {up, down, servBuf, cliBuf} \subseteq Seq(0..255)
      /\ result \in Int /\ printed \in Int
  BY DEF CalcTypeOK
<1>b. /\ up \in Seq(0..255) /\ down \in Seq(0..255)
      /\ servBuf \in Seq(0..255) /\ cliBuf \in Seq(0..255)
  BY <1>0
<1>r. /\ request.cnt \in -128..127 /\ request.op \in 0..255
      /\ request.oprs \in Seq(Int)
  BY <1>0, RequestType
<1>a. 1 \in 1..4 /\ 1 \in -128..127 /\ Equals \in 0..255
  BY DEF Equals
<1>1. CASE CliRequest
  <2>1. PICK junk \in Garbage :
          up' = Written(request.cnt, request.op, request.oprs, junk)
    BY <1>1 DEF CliRequest
  <2>2. up' \in Seq(0..255)
    BY <1>r, <2>1, WrittenType
  <2>3. servBuf = <<>> /\ servBuf' = <<>> /\ cliPc = "prompt" /\ cliPc' = "recv"
        /\ servBuf' = servBuf
    BY <1>1 DEF CliRequest, Requested
  <2>4. CalcTypeOK'
    BY <1>1, <2>2 DEF CliRequest, CalcTypeOK
  <2>5. Fits => servBuf' \o up' = Sends(request.cnt, request.op, request.oprs)
    <3> SUFFICES ASSUME Fits
                 PROVE  servBuf' \o up' =
                          Sends(request.cnt, request.op, request.oprs)
      OBVIOUS
    <3>1. up' = Sends(request.cnt, request.op, request.oprs)
      BY <2>1, WrittenIsSent DEF Fits
    <3> QED
      BY <2>2, <2>3, <3>1, ConcatEmptySeq
  <2>6. Requested'
    BY <1>1, <2>3, <2>5 DEF CliRequest, Requested, Fits
  <2>7. Answered'
    BY <1>1 DEF CliRequest, Answered
  <2>8. LastNumberCut'
    BY <1>1 DEF CliRequest, LastNumberCut, ServerEvaluatesRequest,
      ClientPrintsLowByte, Fits
  <2> QED
    BY <2>4, <2>6, <2>7, <2>8
<1>2. CASE CliRecv
  <2>1. PICK n \in 1..Len(down) :
          /\ cliBuf' = cliBuf \o SubSeq(down, 1, n)
          /\ down' = SubSeq(down, n + 1, Len(down))
    BY <1>2 DEF CliRecv
  <2>2. /\ cliBuf' \in Seq(0..255) /\ down' \in Seq(0..255)
        /\ cliBuf' \o down' = cliBuf \o down
    <3> DEFINE Bytes == 0..255
    <3>1. Bytes \subseteq Nat /\ cliBuf \in Seq(Bytes) /\ down \in Seq(Bytes)
      BY <1>b
    <3> HIDE DEF Bytes
    <3>2. /\ cliBuf \o SubSeq(down, 1, n) \in Seq(Bytes)
          /\ SubSeq(down, n + 1, Len(down)) \in Seq(Bytes)
          /\ (cliBuf \o SubSeq(down, 1, n)) \o SubSeq(down, n + 1, Len(down)) =
               cliBuf \o down
      BY <2>1, <3>1, MovedOn
    <3>3. cliBuf' \in Seq(Bytes) /\ down' \in Seq(Bytes)
          /\ cliBuf' \o down' = cliBuf \o down
      BY <2>1, <3>2, Zenon
    <3> QED
      BY <3>3 DEF Bytes
  <2>3. down # <<>>
    BY <2>1
  <2>4. CalcTypeOK'
    BY <1>2, <2>2 DEF CliRecv, CalcTypeOK
  <2>5. Requested'
    BY <1>2 DEF CliRecv, Requested, Fits
  <2>6. Answered'
    BY <1>2, <2>2, <2>3 DEF CliRecv, Answered
  <2>7. LastNumberCut'
    BY <1>2 DEF CliRecv, LastNumberCut, ServerEvaluatesRequest,
      ClientPrintsLowByte, Fits
  <2> QED
    BY <2>4, <2>5, <2>6, <2>7
<1>3. CASE CliPrint
  <2>1. cliBuf # <<>>
    BY <1>3 DEF CliPrint, Expects
  <2>2. servPc = "done" /\ cliBuf \o down = Sends(1, Equals, <<result>>)
    BY <2>1 DEF Answered
  <2>3. <<result>> \in Seq(Int)
    BY <1>0
  <2>4. cliBuf = Sends(1, Equals, <<result>>)
    BY <1>0, <1>3, <1>a, <2>2, <2>3, WholeReceived DEF CliPrint
  <2>5. printed' = LowByte(result)
    BY <1>0, <1>3, <2>4, AnswerEvaluated DEF CliPrint
  <2>6. printed' \in Int
    BY <1>0, <2>5 DEF LowByte
  <2>7. CalcTypeOK'
    BY <1>3, <2>6 DEF CliPrint, CalcTypeOK
  <2>8. Requested'
    BY <1>3 DEF CliPrint, Requested, Fits
  <2>9. Answered'
    BY <1>3, <2>2 DEF CliPrint, Answered
  <2>10. LastNumberCut'
    BY <1>3, <2>5 DEF CliPrint, LastNumberCut, ServerEvaluatesRequest,
      ClientPrintsLowByte, Fits
  <2> QED
    BY <2>7, <2>8, <2>9, <2>10
<1>4. CASE ServRecv
  <2>1. PICK n \in 1..Len(up) :
          /\ servBuf' = servBuf \o SubSeq(up, 1, n)
          /\ up' = SubSeq(up, n + 1, Len(up))
    BY <1>4 DEF ServRecv
  <2>2. /\ servBuf' \in Seq(0..255) /\ up' \in Seq(0..255)
        /\ servBuf' \o up' = servBuf \o up
    <3> DEFINE Bytes == 0..255
    <3>1. Bytes \subseteq Nat /\ servBuf \in Seq(Bytes) /\ up \in Seq(Bytes)
      BY <1>b
    <3> HIDE DEF Bytes
    <3>2. /\ servBuf \o SubSeq(up, 1, n) \in Seq(Bytes)
          /\ SubSeq(up, n + 1, Len(up)) \in Seq(Bytes)
          /\ (servBuf \o SubSeq(up, 1, n)) \o SubSeq(up, n + 1, Len(up)) =
               servBuf \o up
      BY <2>1, <3>1, MovedOn
    <3>3. servBuf' \in Seq(Bytes) /\ up' \in Seq(Bytes)
          /\ servBuf' \o up' = servBuf \o up
      BY <2>1, <3>2, Zenon
    <3> QED
      BY <3>3 DEF Bytes
  <2>3. up # <<>>
    BY <2>1
  <2>4. CalcTypeOK'
    BY <1>4, <2>2 DEF ServRecv, CalcTypeOK
  <2>5. Requested'
    BY <1>4, <2>2, <2>3 DEF ServRecv, Requested, Fits
  <2>6. Answered'
    BY <1>4 DEF ServRecv, Answered
  <2>7. LastNumberCut'
    BY <1>4 DEF ServRecv, LastNumberCut, ServerEvaluatesRequest,
      ClientPrintsLowByte, Fits
  <2> QED
    BY <2>4, <2>5, <2>6, <2>7
<1>5. CASE ServAnswer
  <2>1. RcvCnt(servBuf) \in -128..127 /\ RcvOprs(servBuf) \in [0..126 -> Int]
    BY <1>0, ReceivedType
  <2>2. result' \in Int
    BY <1>5, <2>1, EvalMsgInt DEF ServAnswer
  <2>3. <<result'>> \in Seq(Int)
    BY <2>2
  <2>4. PICK junk \in Garbage : down' = Written(1, Equals, <<result'>>, junk)
    BY <1>5 DEF ServAnswer
  <2>5. down' \in Seq(0..255)
    BY <1>a, <2>3, <2>4, WrittenType
  <2>6. CalcTypeOK'
    BY <1>5, <2>2, <2>5 DEF ServAnswer, CalcTypeOK
  <2>7. Requested'
    BY <1>5 DEF ServAnswer, Requested, Fits
  <2>8. down' = Sends(1, Equals, <<result'>>) /\ cliBuf' = <<>>
    BY <1>5, <1>a, <2>4, WrittenIsSent DEF ServAnswer, Answered
  <2>9. cliBuf' \o down' = Sends(1, Equals, <<result'>>)
    BY <2>5, <2>8, ConcatEmptySeq
  <2>10. Answered'
    BY <1>5, <2>9 DEF ServAnswer, Answered
  <2>11. Fits => result' = Value(request.op, WithLowByteLast(request.oprs))
    <3> SUFFICES ASSUME Fits
                 PROVE  result' =
                          Value(request.op, WithLowByteLast(request.oprs))
      OBVIOUS
    <3>1. servBuf # <<>>
      BY <1>5 DEF ServAnswer, Expects
    <3>2. servBuf \o up = Sends(request.cnt, request.op, request.oprs)
      BY <3>1 DEF Requested
    <3>3. servBuf = Sends(request.cnt, request.op, request.oprs)
      BY <1>0, <1>r, <1>5, <3>2, WholeReceived DEF ServAnswer, Fits
    <3> QED
      <4>1. /\ request.cnt \in 1..4 /\ request.oprs \in Seq(Int32)
            /\ Len(request.oprs) = request.cnt
        BY <1>0, RequestType DEF Fits
      <4>2. EvalMsg(RcvOp(servBuf), RcvCnt(servBuf), RcvOprs(servBuf)) =
              Value(request.op, WithLowByteLast(request.oprs))
        BY <1>r, <3>3, <4>1, RequestEvaluated, Zenon
      <4> QED
        BY <1>5, <4>2, Zenon DEF ServAnswer
  <2>12. cliPc # "done"
    BY <1>5 DEF ServAnswer, Answered
  <2>13. LastNumberCut'
    BY <1>5, <2>11, <2>12 DEF ServAnswer, LastNumberCut, ServerEvaluatesRequest,
      ClientPrintsLowByte, Fits
  <2> QED
    BY <2>6, <2>7, <2>10, <2>13
<1>6. CASE ServCrash
  <2>1. CalcTypeOK'
    BY <1>6 DEF ServCrash, CalcTypeOK
  <2>2. Requested' /\ Answered'
    BY <1>6 DEF ServCrash, Requested, Answered, Fits
  <2>3. LastNumberCut'
    BY <1>6 DEF ServCrash, LastNumberCut, ServerEvaluatesRequest,
      ClientPrintsLowByte, Fits
  <2> QED
    BY <2>1, <2>2, <2>3
<1>7. CASE UNCHANGED calcVars
  BY <1>7 DEF calcVars, CalcTypeOK, Requested, Answered, LastNumberCut,
    ServerEvaluatesRequest, ClientPrintsLowByte, Fits
<1> QED
  BY <1>1, <1>2, <1>3, <1>4, <1>5, <1>6, <1>7 DEF CalcNext

(* So it holds always.                                                      *)
LEMMA AlwaysCalcInv == CalcSpec => []CalcInv
<1> QED
  BY CalcBegins, CalcContinues, PTL DEF CalcSpec

(* CalcProtocol's type invariant, for every set of requests that can be     *)
(* typed (any count an int8_t holds, any operator, operands of 32 bits) and *)
(* whatever the stack holds behind a msg_t.                                 *)
THEOREM CalcTypeCorrect == CalcSpec => []CalcTypeOK
<1>1. CalcInv => CalcTypeOK
  BY DEF CalcInv
<1> QED
  BY <1>1, AlwaysCalcInv, PTL

(* 5-1-2-calc: for every request of one to four operands of 32 bits,        *)
(* however TCP cuts it up, the server evaluates the operands typed, all     *)
(* whole but the last, of which it has the low byte; and the client prints  *)
(* the low byte of the server's result.                                     *)
THEOREM OnlyLastNumberCut == CalcSpec => []LastNumberCut
<1>1. CalcInv => LastNumberCut
  BY DEF CalcInv
<1> QED
  BY <1>1, AlwaysCalcInv, PTL

-----------------------------------------------------------------------------
(* Requests of no positive size, of which write() sends nothing: there are  *)
(* no bytes anywhere, so that both sides stay in recv_msg().                *)
NothingMoves ==
  ~Sendable =>
    /\ up = <<>> /\ servBuf = <<>> /\ servPc = "recv"
    /\ down = <<>> /\ cliBuf = <<>> /\ cliPc # "done"

(* With nothing read the loop of recv_msg() goes on.                        *)
LEMMA ExpectsSomething == Expects(<<>>)
BY DEF Expects

LEMMA NothingBegins == CalcInit => NothingMoves
BY DEF CalcInit, NothingMoves

LEMMA NothingContinues ==
  CalcTypeOK /\ NothingMoves /\ [CalcNext]_calcVars => NothingMoves'
<1> SUFFICES ASSUME CalcTypeOK, NothingMoves, [CalcNext]_calcVars
             PROVE  NothingMoves'
  OBVIOUS
<1>1. request' = request
  BY DEF CalcNext, CliRequest, CliRecv, CliPrint, ServRecv, ServAnswer,
    ServCrash, calcVars
<1>0. CASE Sendable
  <2>1. Sendable'
    BY <1>0, <1>1 DEF Sendable
  <2> QED
    BY <2>1 DEF NothingMoves
<1>2. CASE ~Sendable
  <2>1. /\ up = <<>> /\ servBuf = <<>> /\ servPc = "recv"
        /\ down = <<>> /\ cliBuf = <<>> /\ cliPc # "done"
    BY <1>2 DEF NothingMoves
  <2>2. CASE CliRequest
    <3>1. PICK junk \in Garbage :
            up' = Written(request.cnt, request.op, request.oprs, junk)
      BY <2>2 DEF CliRequest
    <3>2. request.cnt \in -128..127
      BY RequestType DEF CalcTypeOK
    <3>3. 4 * request.cnt \in Int
      BY <3>2
    <3>4. MsgSize(request.cnt) \in -128..127
      BY <3>3, Int8Range DEF MsgSize
    <3>5. ~(MsgSize(request.cnt) > 0)
      BY <1>2, <3>2, Zenon DEF Sendable
    <3>6. 1..MsgSize(request.cnt) = {}
      BY <3>4, <3>5
    <3>7. up' = <<>>
      BY <3>1, <3>6 DEF Written
    <3> QED
      BY <2>1, <2>2, <3>7 DEF CliRequest, NothingMoves
  <2>3. CASE CliRecv \/ ServRecv
    BY <2>1, <2>3 DEF CliRecv, ServRecv
  <2>4. CASE CliPrint \/ ServAnswer \/ ServCrash
    BY <2>1, <2>4, ExpectsSomething DEF CliPrint, ServAnswer, ServCrash
  <2>5. CASE UNCHANGED calcVars
    BY <2>1, <2>5 DEF calcVars, NothingMoves
  <2> QED
    BY <2>2, <2>3, <2>4, <2>5 DEF CalcNext
<1> QED
  BY <1>0, <1>2

(* 5-1-2-calc: a request without operands, or with so many that its size is *)
(* no positive int8_t, is never sent: client and server wait for each other *)
(* for ever. The safety half of ExchangeEnds.                               *)
THEOREM UnsentRequestsStall ==
  CalcSpec => [](~Sendable => cliPc # "done" /\ servPc = "recv" /\ up = <<>>)
<1>1. NothingMoves => (~Sendable => cliPc # "done" /\ servPc = "recv" /\ up = <<>>)
  BY DEF NothingMoves
<1> QED
  BY <1>1, CalcTypeCorrect, NothingBegins, NothingContinues, PTL DEF CalcSpec

-----------------------------------------------------------------------------
\* Until the server has answered there is nothing for the client to read.
NoAnswerYet == servPc # "done" => down = <<>> /\ cliBuf = <<>> /\ cliPc # "done"

(* 5-1-2-calc: a client whose server a division has killed never gets out   *)
(* of recv_msg(): it has not a byte of the answer and there is none to come,*)
(* and at end of file its loop goes round.  The other safety half of        *)
(* ExchangeEnds.                                                            *)
THEOREM DeadServerIsAwaited ==
  CalcSpec => [](servPc = "crashed" => cliPc # "done")
<1>1. CalcInit => NoAnswerYet
  BY DEF CalcInit, NoAnswerYet
<1>2. NoAnswerYet /\ [CalcNext]_calcVars => NoAnswerYet'
  <2> SUFFICES ASSUME NoAnswerYet, [CalcNext]_calcVars, servPc' # "done"
               PROVE  down' = <<>> /\ cliBuf' = <<>> /\ cliPc' # "done"
    BY DEF NoAnswerYet
  <2>1. CASE servPc = "done"
    BY <2>1 DEF CalcNext, CliRequest, CliRecv, CliPrint, ServRecv, ServAnswer,
      ServCrash, calcVars
  <2>2. CASE down = <<>> /\ cliBuf = <<>> /\ cliPc # "done"
    <3>1. ~CliPrint
      BY <2>2, ExpectsSomething DEF CliPrint
    <3>2. ~CliRecv
      BY <2>2 DEF CliRecv
    <3>3. ~ServAnswer
      BY DEF ServAnswer
    <3> QED
      BY <2>2, <3>1, <3>2, <3>3
      DEF CalcNext, CliRequest, ServRecv, ServCrash, calcVars
  <2> QED
    BY <2>1, <2>2 DEF NoAnswerYet
<1>3. NoAnswerYet => (servPc = "crashed" => cliPc # "done")
  BY DEF NoAnswerYet
<1> QED
  BY <1>1, <1>2, <1>3, PTL DEF CalcSpec
=============================================================================
