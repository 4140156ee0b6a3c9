------------------------- MODULE EchoClients_proofs --------------------------
(****************************************************************************)
(* The iterative servers with their clients, for any number of clients, any *)
(* buffer sizes, any limit on the connections served and any line length:   *)
(*   TypeCorrect      every variable keeps its type; the server is in       *)
(*                    read() or write() only with a connection in clnt_sock *)
(*   ClientsKeepPace  what a client has read when it prompts for a line     *)
(*   QuotaIsServed    what alone ends a server before its quota             *)
(* The last two rest on SessionInv: a connection's bytes flow in order      *)
(* (Flow of Tcp_proofs), each client stands where its connection says, and  *)
(* its counters tell how much it still waits for.                           *)
(****************************************************************************)
EXTENDS EchoClients, Tcp_proofs

(* What the four examples have in common.                                   *)
LEMMA ExampleFields ==
  ASSUME example \in Examples
  PROVE  /\ example.limit \in Nat
         /\ example.minLine \in {0, 1}
BY EchoClientsAssumption DEF Examples, Example

\* The inductive invariant: types, and what read() and write() are called on.
Serving ==
  /\ TypeOK
  /\ pc \in {"read", "write"} => clnt \in Conns

(* The empty sequence, as a list of connections and as a list of bytes.     *)
LEMMA EmptyType == <<>> \in Seq(Conns) /\ <<>> \in Seq(Nat)
<1>1. <<>> \in Seq(Conns)
  OBVIOUS
<1>2. <<>> \in Seq(Nat)
  OBVIOUS
<1> QED
  BY <1>1, <1>2

(* A client opens its connection.                                           *)
LEMMA ConnectServing ==
  ASSUME Serving, NEW c \in Conns, Connect(c)
  PROVE  Serving'
<1>1. Append(queue, c) \in Seq(Conns)
  BY AppendProperties DEF Serving, TypeOK
<1>2. Connected(net[c]) \in Connection
  BY ClientOpsType DEF Serving, TypeOK
<1> QED
  BY <1>1, <1>2 DEF Serving, TypeOK, Connect, server

(* A client's user types a line or quits.                                   *)
LEMMA UserServing ==
  ASSUME Serving, NEW c \in Conns, TypeLine(c) \/ Quit(c)
  PROVE  Serving'
<1>0. TypeOK
  BY DEF Serving
<1>1. CASE TypeLine(c)
  <2>1. PICK n \in example.minLine..MaxLine :
          /\ need' = [need EXCEPT ![c] = n]
          /\ left' = [left EXCEPT ![c] = n]
    BY <1>1 DEF TypeLine
  <2>2. n \in 0..MaxLine
    BY <1>0, ExampleFields, EchoClientsAssumption DEF TypeOK
  <2>3. TotalAtLine(c) \in Nat
    BY <1>0 DEF TypeOK, TotalAtLine
  <2>4. cpc' = [cpc EXCEPT ![c] = "write"]
        /\ total' = [total EXCEPT ![c] = TotalAtLine(c)]
        /\ UNCHANGED <<example, server, queue, net, sent, got>>
    BY <1>1 DEF TypeLine
  <2> QED
    BY <1>0, <2>1, <2>2, <2>3, <2>4 DEF Serving, TypeOK, server
<1>2. CASE Quit(c)
  <2>1. Left(net[c]) \in Connection
    BY <1>0, ClientOpsType DEF TypeOK
  <2> QED
    BY <1>0, <1>2, <2>1 DEF Serving, TypeOK, Quit, server
<1> QED
  BY <1>1, <1>2

(* A client writes its line.                                                *)
LEMMA CliWriteServing ==
  ASSUME Serving, NEW c \in Conns,
         CliWrite(c) \/ CliWriteLost(c) \/ CliWritten(c)
  PROVE  Serving'
<1>0. TypeOK
  BY DEF Serving
<1>1. CASE CliWrite(c)
  <2>1. sent[c] + 1 \in Nat /\ net[c] \in Connection
    BY <1>0 DEF TypeOK
  <2>2. Sent(net[c], sent[c] + 1) \in Connection
    BY <2>1, ClientOpsType
  <2>3. left[c] - 1 \in 0..MaxLine
    BY <1>0, <1>1, EchoClientsAssumption DEF TypeOK, CliWrite
  <2> QED
    BY <1>0, <1>1, <2>1, <2>2, <2>3 DEF Serving, TypeOK, CliWrite, server
<1>2. CASE CliWriteLost(c)
  <2>1. 0 \in 0..MaxLine
    BY EchoClientsAssumption
  <2> QED
    BY <1>0, <1>2, <2>1 DEF Serving, TypeOK, CliWriteLost, server
<1>3. CASE CliWritten(c)
  BY <1>0, <1>3 DEF Serving, TypeOK, CliWritten, server
<1> QED
  BY <1>1, <1>2, <1>3

(* A client reads what came back, or learns that no more will.              *)
LEMMA CliReadServing ==
  ASSUME Serving, NEW c \in Conns,
         CliRead(c) \/ CliReadEof(c) \/ CliDies(c)
  PROVE  Serving'
<1>0. TypeOK /\ net[c] \in Connection
  BY DEF Serving, TypeOK
<1>1. CASE CliRead(c)
  <2>1. PICK n \in Counts(net[c].down, BufSize) :
          /\ got' = [got EXCEPT ![c] = @ \o Front(net[c].down, n)]
          /\ net' = [net EXCEPT ![c] = Taken(@, n)]
          /\ total' = [total EXCEPT ![c] =
                         IF example.reads = "once" THEN 0 ELSE @ + n]
          /\ cpc' = [cpc EXCEPT ![c] =
                       IF MoreToRead(need[c], total'[c]) THEN "read"
                                                         ELSE "prompt"]
    BY <1>1 DEF CliRead
  <2>2. Taken(net[c], n) \in Connection
    BY <1>0, <2>1, ClientOpsType
  <2>3. Front(net[c].down, n) \in Seq(Nat)
    BY <1>0, <2>1, SplitType DEF Connection
  <2>4. got[c] \in Seq(Nat)
    BY <1>0 DEF TypeOK
  <2>5. got[c] \o Front(net[c].down, n) \in Seq(Nat)
    BY <2>3, <2>4
  <2>6. got' \in [Conns -> Seq(Nat)]
    BY <1>0, <2>1, <2>5 DEF TypeOK
  <2>7. n \in Nat
    BY <2>1, TcpAssumption DEF Counts
  <2>8. total' \in [Conns -> Nat]
    BY <1>0, <2>1, <2>7 DEF TypeOK
  <2>9. UNCHANGED <<example, server, queue, left, need, sent>>
    BY <1>1 DEF CliRead
  <2>10. net' \in [Conns -> Connection]
    BY <1>0, <2>1, <2>2 DEF TypeOK
  <2>11. cpc' \in [Conns -> {"start", "prompt", "write", "read", "done"}]
    BY <1>0, <2>1 DEF TypeOK
  <2> QED
    BY <1>0, <2>6, <2>8, <2>9, <2>10, <2>11 DEF Serving, TypeOK, server
<1>2. CASE CliReadEof(c)
  BY <1>0, <1>2 DEF Serving, TypeOK, CliReadEof, server
<1>3. CASE CliDies(c)
  <2>1. Left(net[c]) \in Connection
    BY <1>0, ClientOpsType
  <2> QED
    BY <1>0, <1>3, <2>1 DEF Serving, TypeOK, CliDies, server
<1> QED
  BY <1>1, <1>2, <1>3

(* main()'s end: every socket is closed.                                    *)
LEMMA ExitsServing ==
  ASSUME Serving, Exits, net' \in [Conns -> Connection]
  PROVE  Serving'
BY EmptyType DEF Serving, TypeOK, Exits, client

(* accept(), or the end after the last connection.                          *)
LEMMA AcceptServing ==
  ASSUME Serving, Accept \/ Returns
  PROVE  Serving'
<1>0. TypeOK
  BY DEF Serving
<1>1. CASE Accept
  <2>1. Head(queue) \in Conns /\ Tail(queue) \in Seq(Conns)
    BY <1>0, <1>1, HeadTailProperties DEF TypeOK, Accept
  <2>2. served + 1 \in 0..example.limit
    <3>1. /\ example.limit \in Nat /\ served \in 0..example.limit
          /\ served < example.limit
      BY <1>0, <1>1, ExampleFields DEF TypeOK, Accept
    <3> QED
      BY <3>1
  <2> QED
    BY <1>0, <1>1, <2>1, <2>2 DEF Serving, TypeOK, Accept, client
<1>2. CASE Returns
  BY <1>0, <1>2, ExitsServing DEF Returns, TypeOK
<1> QED
  BY <1>1, <1>2

(* The server's read().                                                     *)
LEMMA ReadServing ==
  ASSUME Serving, ServRead \/ ServEof \/ ServReadFails
  PROVE  Serving'
<1>0. TypeOK /\ clnt \in Conns /\ net[clnt] \in Connection
  BY DEF Serving, TypeOK, ServRead, ServEof, ServReadFails
<1>1. CASE ServRead
  <2>1. PICK n \in Reads(net[clnt]) :
          /\ buf' = Front(net[clnt].up, n)
          /\ net' = [net EXCEPT ![clnt] = AfterRead(@, n)]
    BY <1>1 DEF ServRead
  <2>2. AfterRead(net[clnt], n) \in Connection
    BY <1>0, <2>1, EmptyType, ServerOpsType
  <2>3. Front(net[clnt].up, n) \in Seq(Nat)
    BY <1>0, <2>1, SplitType DEF Connection, Reads
  <2> QED
    BY <1>0, <1>1, <2>1, <2>2, <2>3 DEF Serving, TypeOK, ServRead, client
<1>2. CASE ServEof
  BY <1>0, <1>2 DEF Serving, TypeOK, ServEof, CloseClnt, client
<1>3. CASE ServReadFails
  <2>1. Reported(net[clnt]) \in Connection
    BY <1>0, EmptyType, ServerOpsType
  <2>2. net' \in [Conns -> Connection]
    BY <1>0, <1>3, <2>1 DEF ServReadFails, TypeOK
  <2>3. CASE Exits
    BY <2>2, <2>3, ExitsServing
  <2>4. CASE CloseClnt
    BY <1>0, <2>2, <2>4 DEF Serving, TypeOK, CloseClnt, client
  <2> QED
    BY <1>3, <2>3, <2>4 DEF ServReadFails
<1> QED
  BY <1>1, <1>2, <1>3

(* The server's write().                                                    *)
LEMMA WriteServing ==
  ASSUME Serving, ServWrite \/ ServWriteLost \/ ServKilled
  PROVE  Serving'
<1>0. TypeOK /\ clnt \in Conns /\ net[clnt] \in Connection /\ buf \in Seq(Nat)
  BY DEF Serving, TypeOK, ServWrite, ServWriteLost, ServKilled
<1>1. Reported(net[clnt]) \in Connection /\ AfterReset(net[clnt]) \in Connection
  BY <1>0, ServerOpsType
<1>2. CASE ServWrite
  <2>1. PICK n \in Writes(net[clnt], buf) :
          /\ net' = [net EXCEPT ![clnt] = AfterWrite(@, buf, n)]
          /\ buf' = Rest(buf, n)
          /\ pc' = IF n = Len(buf) THEN "read" ELSE "write"
    BY <1>2 DEF ServWrite
  <2>2. AfterWrite(net[clnt], buf, n) \in Connection
    BY <1>0, <2>1, ServerOpsType
  <2>3. Rest(buf, n) \in Seq(Nat)
    BY <1>0, <2>1, SplitType DEF Writes
  <2>4. UNCHANGED <<example, clnt, served, queue, client>>
    BY <1>2 DEF ServWrite
  <2> QED
    BY <1>0, <2>1, <2>2, <2>3, <2>4 DEF Serving, TypeOK, client
<1>3. CASE ServWriteLost
  <2>1. net' \in [Conns -> Connection]
    BY <1>0, <1>1, <1>3 DEF ServWriteLost, TypeOK
  <2> QED
    BY <1>0, <1>3, <2>1, EmptyType DEF Serving, TypeOK, ServWriteLost, client
<1>4. CASE ServKilled
  <2>1. net' \in [Conns -> Connection]
    BY <1>0, <1>1, <1>4 DEF ServKilled, TypeOK
  <2> QED
    BY <1>4, <2>1, ExitsServing DEF ServKilled
<1> QED
  BY <1>2, <1>3, <1>4

(* The invariant holds at first and is kept by every step.                  *)
LEMMA AlwaysServing == Spec => []Serving
<1>1. Init => Serving
  <2> SUFFICES ASSUME Init PROVE Serving
    OBVIOUS
  <2>1. Unconnected \in Connection
    BY EmptyType DEF Unconnected, Connection
  <2>2. example.limit \in Nat
    BY ExampleFields DEF Init
  <2>3. queue \in Seq(Conns) /\ buf \in Seq(Nat)
    BY EmptyType DEF Init
  <2>4. net \in [Conns -> Connection] /\ got \in [Conns -> Seq(Nat)]
    BY <2>1, EmptyType DEF Init
  <2>5. 0 \in 0..MaxLine /\ served \in 0..example.limit
    BY <2>2, EchoClientsAssumption DEF Init
  <2> QED
    BY <2>3, <2>4, <2>5 DEF Init, Serving, TypeOK
<1>2. Serving /\ [Next]_vars => Serving'
  <2> SUFFICES ASSUME Serving, [Next]_vars PROVE Serving'
    OBVIOUS
  <2>1. CASE ServerNext
    BY <2>1, AcceptServing, ReadServing, WriteServing DEF ServerNext
  <2>2. ASSUME NEW c \in Conns, ClientNext(c) PROVE Serving'
    BY <2>2, ConnectServing, UserServing, CliWriteServing, CliReadServing
       DEF ClientNext, ClientRuns
  <2>3. CASE UNCHANGED vars
    BY <2>3 DEF vars, Serving, TypeOK
  <2> QED
    BY <2>1, <2>2, <2>3 DEF Next
<1> QED
  BY <1>1, <1>2, PTL DEF Spec

(* Every variable of the servers and their clients keeps its type.          *)
THEOREM TypeCorrect == Spec => []TypeOK
<1>1. Serving => TypeOK
  BY DEF Serving
<1> QED
  BY <1>1, AlwaysServing, PTL
-----------------------------------------------------------------------------
\* What buffer holds of a connection's bytes.
Held(c) == IF clnt = c THEN buf ELSE <<>>

\* Where a client stands and what has become of its connection: only one that
\* has left with echo unread makes the server see a reset.
Stands(c) ==
  /\ cpc[c] = "start" => net[c].cli = "none" /\ sent[c] = 0 /\ need[c] = 0
  /\ cpc[c] \in {"prompt", "write", "read"} => net[c].cli = "open"
  /\ cpc[c] = "done" => ClientLeft(net[c])
  /\ cpc[c] = "read" => left[c] = 0
  /\ net[c].rst # "none" => LeftBehind(c)

\* How far a client has read, at the prompt and on its way there.  What
\* 10-4's still waits for is at least what it has yet to write or to read.
Pace(c) ==
  /\ example.reads = "fresh" =>
       /\ cpc[c] = "prompt" => Len(got[c]) = sent[c]
       /\ cpc[c] \in {"write", "read"} =>
            sent[c] + left[c] + total[c] <= Len(got[c]) + need[c]
       /\ LeftBehind(c) => ~ServerHolds(c)
  /\ example.reads = "total" =>
       /\ total[c] = Len(got[c])
       /\ cpc[c] = "prompt" => total[c] >= need[c]
  /\ example.reads = "once" /\ cpc[c] = "prompt" /\ ServerHolds(c) /\ sent[c] > 0
       => got[c] # <<>>

Whole(c) ==
  /\ Flow(got[c], net[c], Held(c), sent[c])
  /\ Stands(c)
  /\ Pace(c)

\* The inductive invariant.
SessionInv ==
  /\ pc = "write" <=> buf # <<>>
  /\ \A c \in Conns : Whole(c)

(* What a session consists of, seen through the invariant.                  *)
LEMMA SessionTypes ==
  ASSUME Serving, SessionInv, NEW c \in Conns
  PROVE  /\ net[c] \in Connection /\ got[c] \in Seq(Nat) /\ Held(c) \in Seq(Nat)
         /\ sent[c] \in Nat /\ left[c] \in Nat /\ need[c] \in Nat
         /\ total[c] \in Nat /\ Len(got[c]) \in Nat /\ Len(got[c]) <= sent[c]
         /\ cpc[c] \in {"start", "prompt", "write", "read", "done"}
         /\ Flow(got[c], net[c], Held(c), sent[c])
         /\ Stands(c) /\ Pace(c) /\ Quiet(net[c])
         /\ example.reads \in {"once", "total", "fresh"}
<1>1. /\ net[c] \in Connection /\ got[c] \in Seq(Nat) /\ Held(c) \in Seq(Nat)
      /\ sent[c] \in Nat
  BY EmptyType DEF Serving, TypeOK, Held
<1>2. Flow(got[c], net[c], Held(c), sent[c]) /\ Stands(c) /\ Pace(c)
  BY DEF SessionInv, Whole
<1>3. Len(got[c]) \in Nat /\ Len(got[c]) <= sent[c]
  BY <1>1, <1>2, FlowIsStream
<1>4. left[c] \in Nat /\ need[c] \in Nat
  BY EchoClientsAssumption DEF Serving, TypeOK
<1>5. total[c] \in Nat /\ cpc[c] \in {"start", "prompt", "write", "read", "done"}
  BY DEF Serving, TypeOK
<1>6. example.reads \in {"once", "total", "fresh"}
  BY DEF Serving, TypeOK, Examples, Example
<1>7. Quiet(net[c])
  BY <1>2 DEF Stands, LeftBehind, Quiet, ClientLeft
<1> QED
  BY <1>1, <1>2, <1>3, <1>4, <1>5, <1>6, <1>7

(* A step of a client leaves the others' sessions alone.                    *)
LEMMA OthersWhole ==
  ASSUME Serving, SessionInv, NEW c \in Conns, ClientNext(c)
  PROVE  /\ UNCHANGED <<example, pc, clnt, buf>>
         /\ \A d \in Conns : Held(d)' = Held(d)
         /\ \A d \in Conns : d # c \/ cpc[c] # "start"
              => (ServerHolds(d)' <=> ServerHolds(d))
         /\ \A d \in Conns \ {c} : Whole(d)'
<1> USE DEF ClientNext, ClientRuns
<1>0. TypeOK
  BY DEF Serving
<1>1. UNCHANGED <<example, pc, clnt, buf>>
  BY DEF Connect, TypeLine, Quit, CliWrite, CliWriteLost, CliWritten, CliRead,
    CliReadEof, CliDies, server
<1>2. \A d \in Conns : Held(d)' = Held(d)
  BY <1>1 DEF Held
<1>3. queue' = queue \/ (queue' = Append(queue, c) /\ cpc[c] = "start")
  BY DEF Connect, TypeLine, Quit, CliWrite, CliWriteLost, CliWritten, CliRead,
    CliReadEof, CliDies
<1>4. \A d \in Conns : d # c \/ cpc[c] # "start"
        => (ServerHolds(d)' <=> ServerHolds(d))
  <2>1. queue \in Seq(Conns)
    BY <1>0 DEF TypeOK
  <2>2. Range(Append(queue, c)) = Range(queue) \union {c}
    BY <2>1, RangeAppend
  <2> QED
    BY <1>1, <1>3, <2>2 DEF ServerHolds
<1>5. \A d \in Conns \ {c} :
        /\ net'[d] = net[d] /\ cpc'[d] = cpc[d] /\ left'[d] = left[d]
        /\ need'[d] = need[d] /\ total'[d] = total[d] /\ sent'[d] = sent[d]
        /\ got'[d] = got[d]
  BY <1>0 DEF Connect, TypeLine, Quit, CliWrite, CliWriteLost, CliWritten,
    CliRead, CliReadEof, CliDies, TypeOK
<1>6. ASSUME NEW d \in Conns \ {c} PROVE Whole(d)'
  <2>1. Whole(d)
    BY DEF SessionInv
  <2>2. Stands(d)' /\ Pace(d)'
    BY <1>1, <1>4, <1>5, <2>1 DEF Whole, Stands, Pace, LeftBehind
  <2> QED
    BY <1>2, <1>5, <2>1, <2>2 DEF Whole
<1> QED
  BY <1>1, <1>2, <1>4, <1>6

(* A client connects, its user types or quits.                              *)
LEMMA UserWhole ==
  ASSUME Serving, SessionInv, NEW c \in Conns, Connect(c) \/ TypeLine(c) \/ Quit(c)
  PROVE  Whole(c)'
<1>0. TypeOK /\ Whole(c) /\ ClientNext(c)
  BY DEF Serving, SessionInv, ClientNext
<1>1. /\ net[c] \in Connection /\ got[c] \in Seq(Nat) /\ Held(c) \in Seq(Nat)
      /\ sent[c] \in Nat /\ left[c] \in Nat /\ need[c] \in Nat
      /\ total[c] \in Nat /\ Len(got[c]) \in Nat /\ Len(got[c]) <= sent[c]
      /\ Flow(got[c], net[c], Held(c), sent[c])
      /\ Stands(c) /\ Pace(c)
  BY SessionTypes
<1>2. Held(c)' = Held(c) /\ example' = example
      /\ (cpc[c] # "start" => (ServerHolds(c)' <=> ServerHolds(c)))
  BY <1>0, OthersWhole
<1>3. CASE Connect(c)
  <2>1. /\ net'[c] = Connected(net[c]) /\ cpc[c] = "start" /\ cpc'[c] = "prompt"
        /\ UNCHANGED <<left, need, total, sent, got>>
    BY <1>0, <1>3 DEF Connect, TypeOK
  <2>2. net[c].cli = "none" /\ sent[c] = 0 /\ need[c] = 0 /\ net[c].rst = "none"
    BY <1>1, <2>1 DEF Stands, LeftBehind
  <2>3. Flow(got[c], Connected(net[c]), Held(c), sent[c])
    BY <1>1, <2>2, FlowClient DEF Present
  <2>4. Connected(net[c]).cli = "open" /\ Connected(net[c]).rst = "none"
    BY <1>1, <2>2 DEF Connected, Connection
  <2>5. Stands(c)'
    BY <2>1, <2>4 DEF Stands
  <2>6. Pace(c)'
    BY <1>1, <1>2, <2>1, <2>2 DEF Pace, LeftBehind
  <2> QED
    BY <1>2, <2>1, <2>3, <2>5, <2>6 DEF Whole
<1>4. CASE TypeLine(c)
  <2>1. PICK n \in example.minLine..MaxLine :
          /\ need'[c] = n /\ left'[c] = n
    BY <1>0, <1>4 DEF TypeLine, TypeOK
  <2>2. /\ cpc[c] = "prompt" /\ cpc'[c] = "write"
        /\ total'[c] = TotalAtLine(c) /\ UNCHANGED <<net, sent, got>>
    BY <1>0, <1>4 DEF TypeLine, TypeOK
  <2>3. n \in Nat
    BY <1>0, ExampleFields, EchoClientsAssumption DEF TypeOK
  <2>4. Stands(c)'
    BY <1>1, <2>2 DEF Stands, LeftBehind
  <2>5. Pace(c)'
    <3>1. example.reads = "fresh" =>
            sent[c] + n + total'[c] <= Len(got[c]) + n
      BY <1>1, <2>2, <2>3 DEF Pace, TotalAtLine
    <3>2. example.reads = "total" => total'[c] = total[c]
      BY <2>2 DEF TotalAtLine
    <3> QED
      BY <1>1, <1>2, <2>1, <2>2, <3>1, <3>2 DEF Pace, LeftBehind
  <2> QED
    BY <1>1, <1>2, <2>2, <2>4, <2>5 DEF Whole
<1>5. CASE Quit(c)
  <2>1. /\ net'[c] = Left(net[c]) /\ cpc[c] = "prompt" /\ cpc'[c] = "done"
        /\ UNCHANGED <<left, need, total, sent, got>>
    BY <1>0, <1>5 DEF Quit, TypeOK
  <2>2. net[c].cli = "open" /\ net[c].rst = "none"
    BY <1>1, <2>1 DEF Stands, LeftBehind
  <2>3. Flow(got[c], Left(net[c]), Held(c), sent[c])
    BY <1>1, <2>2, FlowClient
  <2>4. /\ ClientLeft(Left(net[c]))
        /\ Left(net[c]).rst # "none" => net[c].down # <<>>
    BY <1>1, <2>2 DEF Left, ClientLeft, Connection
  <2>5. net[c].down # <<>> => Len(got[c]) < sent[c]
    BY <1>1, <2>2, FlowIsStream DEF Present
  <2>6. Stands(c)'
    BY <2>1, <2>4, <2>5 DEF Stands, LeftBehind
  <2>7. Pace(c)'
    BY <1>1, <1>2, <2>1 DEF Pace, LeftBehind
  <2> QED
    BY <1>2, <2>1, <2>3, <2>6, <2>7 DEF Whole
<1> QED
  BY <1>3, <1>4, <1>5

(* A client writes its line.                                                *)
LEMMA CliWriteWhole ==
  ASSUME Serving, SessionInv, NEW c \in Conns,
         CliWrite(c) \/ CliWriteLost(c) \/ CliWritten(c)
  PROVE  Whole(c)'
<1>0. TypeOK /\ Whole(c) /\ ClientNext(c) /\ cpc[c] = "write"
  BY DEF Serving, SessionInv, ClientNext, ClientRuns, CliWrite, CliWriteLost,
    CliWritten
<1>1. /\ net[c] \in Connection /\ got[c] \in Seq(Nat) /\ Held(c) \in Seq(Nat)
      /\ sent[c] \in Nat /\ left[c] \in Nat /\ need[c] \in Nat
      /\ total[c] \in Nat /\ Len(got[c]) \in Nat /\ Len(got[c]) <= sent[c]
      /\ Flow(got[c], net[c], Held(c), sent[c])
      /\ Stands(c) /\ Pace(c)
      /\ example.reads \in {"once", "total", "fresh"}
  BY SessionTypes
<1>2. /\ Held(c)' = Held(c) /\ example' = example
      /\ ServerHolds(c)' <=> ServerHolds(c)
  BY <1>0, OthersWhole
<1>3. net[c].cli = "open" /\ net[c].rst = "none"
  BY <1>0, <1>1 DEF Stands, LeftBehind
<1>4. CASE CliWrite(c)
  <2>1. /\ net'[c] = Sent(net[c], sent[c] + 1) /\ sent'[c] = sent[c] + 1
        /\ left'[c] = left[c] - 1 /\ left[c] > 0
        /\ UNCHANGED <<cpc, need, total, got>>
    BY <1>0, <1>4 DEF CliWrite, TypeOK
  <2>2. Flow(got[c], Sent(net[c], sent[c] + 1), Held(c), sent[c] + 1)
    BY <1>1, <1>3, FlowClient
  <2>3. /\ Sent(net[c], sent[c] + 1).cli = "open"
        /\ Sent(net[c], sent[c] + 1).rst = "none"
    BY <1>1, <1>3 DEF Sent, Connection
  <2>4. Stands(c)'
    BY <1>0, <2>1, <2>3 DEF Stands
  <2>5. Pace(c)'
    BY <1>0, <1>1, <1>2, <2>1 DEF Pace, LeftBehind
  <2> QED
    BY <1>2, <2>1, <2>2, <2>4, <2>5 DEF Whole
<1>5. CASE CliWriteLost(c)
  <2>1. left'[c] = 0 /\ UNCHANGED <<net, cpc, need, total, sent, got>>
    BY <1>0, <1>5 DEF CliWriteLost, TypeOK
  <2>2. Stands(c)'
    BY <1>0, <1>1, <2>1 DEF Stands, LeftBehind
  <2>3. cpc[c] = "write" /\ (LeftBehind(c)' <=> LeftBehind(c))
    BY <1>0, <1>5, <2>1 DEF CliWriteLost, LeftBehind
  <2>4. example.reads = "fresh" =>
          sent'[c] + left'[c] + total'[c] <= Len(got'[c]) + need'[c]
    <3>1. example.reads = "fresh" =>
            sent[c] + left[c] + total[c] <= Len(got[c]) + need[c]
      BY <1>1, <2>3 DEF Pace
    <3>2. \A s, l, t \in Nat : \A m \in Nat : s + l + t <= m => s + 0 + t <= m
      OBVIOUS
    <3>3. Len(got[c]) + need[c] \in Nat
      BY <1>1
    <3>4. example.reads = "fresh" =>
            sent[c] + 0 + total[c] <= Len(got[c]) + need[c]
      BY <1>1, <3>1, <3>2, <3>3
    <3> QED
      BY <2>1, <3>4
  <2>5. Pace(c)'
    BY <1>1, <1>2, <2>1, <2>3, <2>4 DEF Pace
  <2> QED
    BY <1>1, <1>2, <2>1, <2>2, <2>5 DEF Whole
<1>6. CASE CliWritten(c)
  <2>1. /\ left[c] = 0 /\ UNCHANGED <<net, left, need, total, sent, got>>
        /\ cpc'[c] = IF example.reads = "once" \/ MoreToRead(need[c], total[c])
                       THEN "read" ELSE "prompt"
    BY <1>0, <1>6 DEF CliWritten, TypeOK
  <2>2. Stands(c)'
    BY <1>0, <1>1, <1>3, <2>1 DEF Stands
  <2>3. Pace(c)'
    <3>1. CASE example.reads = "once"
      BY <1>2, <2>1, <3>1 DEF Pace
    <3>2. CASE example.reads = "total"
      BY <1>0, <1>1, <1>2, <2>1, <3>2 DEF Pace, MoreToRead
    <3>3. CASE example.reads = "fresh"
      <4>1. cpc'[c] = "prompt" => need[c] <= total[c]
        BY <1>1, <2>1, <3>3 DEF MoreToRead
      <4>2. sent[c] + total[c] <= Len(got[c]) + need[c]
        BY <1>0, <1>1, <2>1, <3>3 DEF Pace
      <4>3. cpc'[c] = "prompt" => Len(got[c]) = sent[c]
        BY <1>1, <4>1, <4>2
      <4>4. cpc'[c] \in {"prompt", "read"}
        BY <2>1
      <4> QED
        BY <1>1, <1>2, <2>1, <3>3, <4>2, <4>3, <4>4 DEF Pace, LeftBehind
    <3> QED
      BY <1>1, <3>1, <3>2, <3>3
  <2> QED
    BY <1>1, <1>2, <2>1, <2>2, <2>3 DEF Whole
<1> QED
  BY <1>4, <1>5, <1>6

(* A client reads what came back, or learns that no more will.              *)
LEMMA CliReadWhole ==
  ASSUME Serving, SessionInv, NEW c \in Conns,
         CliRead(c) \/ CliReadEof(c) \/ CliDies(c)
  PROVE  Whole(c)'
<1>0. TypeOK /\ Whole(c) /\ ClientNext(c) /\ cpc[c] \in {"write", "read"}
  BY DEF Serving, SessionInv, ClientNext, ClientRuns, CliRead, CliReadEof, CliDies
<1>1. /\ net[c] \in Connection /\ got[c] \in Seq(Nat) /\ Held(c) \in Seq(Nat)
      /\ sent[c] \in Nat /\ left[c] \in Nat /\ need[c] \in Nat
      /\ total[c] \in Nat /\ Len(got[c]) \in Nat /\ Len(got[c]) <= sent[c]
      /\ Flow(got[c], net[c], Held(c), sent[c])
      /\ Stands(c) /\ Pace(c)
      /\ example.reads \in {"once", "total", "fresh"}
  BY SessionTypes
<1>2. /\ Held(c)' = Held(c) /\ example' = example
      /\ ServerHolds(c)' <=> ServerHolds(c)
  BY <1>0, OthersWhole
<1>3. net[c].cli = "open" /\ net[c].rst = "none"
  BY <1>0, <1>1 DEF Stands, LeftBehind
<1>4. CASE CliRead(c)
  <2>1. PICK n \in Counts(net[c].down, BufSize) :
          /\ got' = [got EXCEPT ![c] = @ \o Front(net[c].down, n)]
          /\ net' = [net EXCEPT ![c] = Taken(@, n)]
          /\ total' = [total EXCEPT ![c] =
                         IF example.reads = "once" THEN 0 ELSE @ + n]
          /\ cpc' = [cpc EXCEPT ![c] =
                       IF MoreToRead(need[c], total'[c]) THEN "read"
                                                         ELSE "prompt"]
    BY <1>4 DEF CliRead
  <2>2. /\ got'[c] = got[c] \o Front(net[c].down, n)
        /\ net'[c] = Taken(net[c], n)
        /\ total'[c] = IF example.reads = "once" THEN 0 ELSE total[c] + n
        /\ cpc'[c] = IF MoreToRead(need[c], total'[c]) THEN "read" ELSE "prompt"
        /\ cpc[c] = "read" /\ UNCHANGED <<left, need, sent>>
    BY <1>0, <1>4, <2>1 DEF CliRead, TypeOK
  <2>3. Flow(got[c] \o Front(net[c].down, n), Taken(net[c], n), Held(c), sent[c])
    BY <1>1, <1>3, FlowClient
  <2>4. Taken(net[c], n).cli = "open" /\ Taken(net[c], n).rst = "none"
        /\ Taken(net[c], n) \in Connection
    BY <1>1, <1>3, ClientOpsType DEF Taken, Connection
  <2>5. /\ n \in Nat /\ Len(got'[c]) = Len(got[c]) + n
        /\ Len(got'[c]) \in Nat /\ Len(got[c]) < Len(got'[c])
    <3>1. got[c] \in Seq(Nat) /\ net[c].down \in Seq(Nat)
      BY <1>1 DEF Connection
    <3>2. /\ Len(got[c] \o Front(net[c].down, n)) \in Nat /\ n \in Nat
          /\ Len(got[c] \o Front(net[c].down, n)) = Len(got[c]) + n
          /\ Len(got[c]) < Len(got[c] \o Front(net[c].down, n))
      BY <3>1, TakenLonger
    <3> QED
      BY <2>2, <3>2
  <2>6. Len(got'[c]) <= sent[c]
    <3>1. got'[c] \in Seq(Nat)
      BY <1>1, <2>2, SplitType DEF Connection
    <3>2. Flow(got'[c], Taken(net[c], n), Held(c), sent[c])
      BY <2>2, <2>3
    <3> QED
      BY <1>1, <2>4, <3>1, <3>2, FlowIsStream
  <2>7. Stands(c)'
    BY <1>1, <2>2, <2>4 DEF Stands
  <2>8. Pace(c)'
    <3>1. CASE example.reads = "once"
      <4>1. got'[c] # <<>>
        BY <1>1, <2>5
      <4> QED
        BY <1>2, <3>1, <4>1 DEF Pace
    <3>2. CASE example.reads = "total"
      BY <1>1, <1>2, <2>2, <2>5, <3>2 DEF Pace, MoreToRead
    <3>3. CASE example.reads = "fresh"
      <4>1. cpc'[c] = "prompt" => need[c] <= total'[c]
        BY <1>1, <2>2, <2>5, <3>3 DEF MoreToRead
      <4>2. total'[c] = total[c] + n /\ left[c] = 0
        BY <1>1, <2>2, <3>3 DEF Stands
      <4>3. sent[c] + total'[c] <= Len(got'[c]) + need[c]
        <5>1. sent[c] + 0 + total[c] <= Len(got[c]) + need[c]
          BY <1>1, <2>2, <3>3, <4>2 DEF Pace
        <5>2. \A s, t, g, k, m \in Nat :
                s + 0 + t <= g + k => s + (t + m) <= (g + m) + k
          OBVIOUS
        <5>3. sent[c] + (total[c] + n) <= (Len(got[c]) + n) + need[c]
          BY <1>1, <2>5, <5>1, <5>2
        <5> QED
          BY <2>5, <4>2, <5>3
      <4>4. cpc'[c] = "prompt" => Len(got'[c]) = sent[c]
        <5>1. \A s, t, g, k \in Nat :
                s + t <= g + k /\ k <= t /\ g <= s => g = s
          OBVIOUS
        <5>2. total'[c] \in Nat
          BY <1>1, <2>5, <4>2
        <5> QED
          BY <1>1, <2>5, <2>6, <4>1, <4>3, <5>1, <5>2
      <4>5. cpc'[c] \in {"prompt", "read"}
        BY <2>2
      <4>6. sent'[c] = sent[c] /\ left'[c] = left[c] /\ need'[c] = need[c]
        BY <2>2
      <4>7. sent'[c] + left'[c] + total'[c] <= Len(got'[c]) + need'[c]
        <5>1. sent[c] \in Nat /\ total[c] + n \in Nat
          BY <1>1, <2>5
        <5>2. \A x, y \in Nat : x + 0 + y = x + y
          OBVIOUS
        <5>3. sent[c] + 0 + total'[c] = sent[c] + total'[c]
          BY <4>2, <5>1, <5>2
        <5> QED
          BY <4>2, <4>3, <4>6, <5>3
      <4>8. ~LeftBehind(c)'
        BY <4>5 DEF LeftBehind
      <4>9. /\ example'.reads = "fresh"
            /\ cpc'[c] = "prompt" => Len(got'[c]) = sent'[c]
        BY <1>2, <3>3, <4>4, <4>6
      <4> QED
        BY <4>7, <4>8, <4>9 DEF Pace
    <3> QED
      BY <1>1, <3>1, <3>2, <3>3
  <2> QED
    BY <1>2, <2>2, <2>3, <2>7, <2>8 DEF Whole
<1>5. CASE CliReadEof(c)
  <2>1. /\ example.reads = "once" /\ ~ServerHolds(c) /\ cpc'[c] = "prompt"
        /\ UNCHANGED <<net, left, need, total, sent, got>>
    BY <1>0, <1>5 DEF CliReadEof, TypeOK
  <2>2. Stands(c)'
    BY <1>3, <2>1 DEF Stands
  <2>3. Pace(c)'
    BY <1>2, <2>1 DEF Pace
  <2> QED
    BY <1>1, <1>2, <2>1, <2>2, <2>3 DEF Whole
<1>6. CASE CliDies(c)
  <2>1. /\ net'[c] = Left(net[c]) /\ cpc'[c] = "done" /\ ~ServerHolds(c)
        /\ net[c].down = <<>> /\ UNCHANGED <<left, need, total, sent, got>>
    BY <1>0, <1>6 DEF CliDies, TypeOK
  <2>2. Flow(got[c], Left(net[c]), Held(c), sent[c])
    BY <1>1, <1>3, FlowClient
  <2>3. ClientLeft(Left(net[c])) /\ Left(net[c]).rst = "none"
    BY <1>1, <1>3, <2>1 DEF Left, ClientLeft, Connection
  <2>4. Stands(c)'
    BY <2>1, <2>3 DEF Stands
  <2>5. Pace(c)'
    BY <1>1, <1>2, <2>1 DEF Pace
  <2> QED
    BY <1>2, <2>1, <2>2, <2>4, <2>5 DEF Whole
<1> QED
  BY <1>4, <1>5, <1>6

(* No step of the server touches a client, nor the client's end of a        *)
(* connection, and the server takes up no connection it did not have.       *)
LEMMA ServerKeepsSession ==
  ASSUME Serving, ServerNext
  PROVE  /\ UNCHANGED <<example, client>>
         /\ \A c \in Conns : net'[c].cli = net[c].cli
         /\ \A c \in Conns : ServerHolds(c)' => ServerHolds(c)
<1> USE DEF ServerNext
<1>0. TypeOK
  BY DEF Serving
<1>1. UNCHANGED <<example, client>>
  BY DEF Accept, Returns, ServRead, ServEof, ServReadFails, ServWrite,
    ServWriteLost, ServKilled, Exits, CloseClnt
<1>2. ASSUME NEW c \in Conns PROVE net'[c].cli = net[c].cli
  <2>1. net[c] \in Connection
    BY <1>0 DEF TypeOK
  <2>2. /\ \A n : AfterRead(net[c], n).cli = net[c].cli
        /\ \A b, n : AfterWrite(net[c], b, n).cli = net[c].cli
        /\ Reported(net[c]).cli = net[c].cli
        /\ AfterReset(net[c]).cli = net[c].cli
    BY <2>1 DEF Connection, AfterRead, AfterWrite, Reported, AfterReset
  <2>3. CASE c # clnt \/ Accept \/ Returns \/ ServEof
    BY <1>0, <2>3 DEF TypeOK, Accept, Returns, ServRead, ServEof, ServReadFails,
      ServWrite, ServWriteLost, ServKilled
  <2>4. CASE c = clnt
    <3>1. net'[c] \in {net[c], Reported(net[c]), AfterReset(net[c])}
            \/ (\E n : net'[c] = AfterRead(net[c], n))
            \/ (\E b, n : net'[c] = AfterWrite(net[c], b, n))
      BY <1>0, <2>4 DEF TypeOK, Accept, Returns, ServRead, ServEof, ServReadFails,
        ServWrite, ServWriteLost, ServKilled
    <3> QED
      BY <2>2, <3>1
  <2> QED
    BY <2>3, <2>4
<1>3. ASSUME NEW c \in Conns, ServerHolds(c)' PROVE ServerHolds(c)
  <2>0. queue \in Seq(Conns) /\ c # NoConn
    BY <1>0, EchoClientsAssumption DEF TypeOK
  <2>1. CASE Accept
    <3>1. /\ Range(queue) = {Head(queue)} \union Range(Tail(queue))
          /\ queue' = Tail(queue) /\ clnt' = Head(queue)
      BY <2>0, <2>1, RangeHeadTail DEF Accept
    <3> QED
      BY <1>3, <3>1 DEF ServerHolds
  <2>2. CASE queue' = <<>> /\ clnt' = NoConn
    <3>1. Range(queue') = {}
      BY <2>2 DEF Range
    <3> QED
      BY <1>3, <2>0, <2>2, <3>1 DEF ServerHolds
  <2>3. CASE queue' = queue /\ clnt' \in {clnt, NoConn}
    BY <1>3, <2>0, <2>3 DEF ServerHolds
  <2> QED
    BY <2>1, <2>2, <2>3 DEF Returns, ServRead, ServEof, ServReadFails, ServWrite,
      ServWriteLost, ServKilled, Exits, CloseClnt
<1> QED
  BY <1>1, <1>2, <1>3

(* The connection that is served.                                           *)
LEMMA ClntServed ==
  ASSUME Serving, SessionInv, pc \in {"read", "write"}
  PROVE  /\ clnt \in Conns /\ clnt # NoConn
         /\ net[clnt] \in Connection /\ got[clnt] \in Seq(Nat)
         /\ buf \in Seq(Nat) /\ sent[clnt] \in Nat
         /\ Flow(got[clnt], net[clnt], buf, sent[clnt])
         /\ Stands(clnt) /\ Quiet(net[clnt])
<1>1. clnt \in Conns /\ clnt # NoConn /\ buf \in Seq(Nat)
  BY EchoClientsAssumption DEF Serving, TypeOK
<1>2. Held(clnt) = buf
  BY DEF Held
<1> QED
  BY <1>1, <1>2, SessionTypes

(* The others, and everybody while the buffer is empty: nothing is held.    *)
LEMMA NotServed ==
  ASSUME Serving, SessionInv, NEW c \in Conns, c # clnt \/ buf = <<>>
  PROVE  /\ Held(c) = <<>>
         /\ Flow(got[c], net[c], <<>>, sent[c])
<1>1. Held(c) = <<>>
  BY DEF Held
<1> QED
  BY <1>1, SessionTypes

(* accept(), and every call after which buffer is empty and no connection   *)
(* has changed.                                                             *)
LEMMA IdleFlow ==
  ASSUME Serving, SessionInv, Accept \/ Returns \/ ServEof
  PROVE  /\ (pc' = "write" <=> buf' # <<>>)
         /\ \A c \in Conns :
              /\ Flow(got[c], net'[c], Held(c)', sent[c])
              /\ net'[c].rst = net[c].rst
<1>1. pc \in {"accept", "read"} /\ buf = <<>> /\ net' = net
  BY DEF SessionInv, Accept, Returns, ServEof
<1>2. buf' = <<>> /\ pc' # "write"
  BY <1>1 DEF Accept, Returns, ServEof, Exits, CloseClnt
<1>3. \A c \in Conns : Held(c)' = <<>>
  BY <1>2 DEF Held
<1> QED
  BY <1>1, <1>2, <1>3, NotServed

(* read().                                                                  *)
LEMMA ReadFlow ==
  ASSUME Serving, SessionInv, ServRead \/ ServReadFails
  PROVE  /\ (pc' = "write" <=> buf' # <<>>)
         /\ \A c \in Conns :
              /\ Flow(got[c], net'[c], Held(c)', sent[c])
              /\ net'[c].rst # "none" => net[c].rst # "none"
<1>0. TypeOK /\ pc = "read" /\ buf = <<>>
  BY DEF Serving, SessionInv, ServRead, ServReadFails
<1>1. /\ clnt \in Conns /\ clnt # NoConn
      /\ net[clnt] \in Connection /\ got[clnt] \in Seq(Nat)
      /\ buf \in Seq(Nat) /\ sent[clnt] \in Nat
      /\ Flow(got[clnt], net[clnt], <<>>, sent[clnt])
  BY <1>0, ClntServed
<1>2. CASE ServRead
  <2>1. PICK n \in Reads(net[clnt]) :
          /\ buf' = Front(net[clnt].up, n)
          /\ net' = [net EXCEPT ![clnt] = AfterRead(@, n)]
    BY <1>2 DEF ServRead
  <2>2. pc' = "write" /\ clnt' = clnt
    BY <1>2 DEF ServRead
  <2>3. buf' # <<>>
    <3>1. net[clnt].up \in Seq(Nat)
      BY <1>1 DEF Connection
    <3> QED
      BY <2>1, <3>1, FrontNotEmpty DEF Reads
  <2>4. Flow(got[clnt], AfterRead(net[clnt], n), Front(net[clnt].up, n), sent[clnt])
    BY <1>0, <1>1, FlowServer
  <2>5. AfterRead(net[clnt], n).rst = net[clnt].rst
    BY <1>1 DEF AfterRead, Connection
  <2>6. ASSUME NEW c \in Conns
        PROVE  /\ Flow(got[c], net'[c], Held(c)', sent[c])
               /\ net'[c].rst = net[c].rst
    <3>1. CASE c = clnt
      <4>1. Held(c)' = Front(net[clnt].up, n)
        BY <2>1, <2>2, <3>1 DEF Held
      <4>2. net'[c] = AfterRead(net[clnt], n)
        BY <1>0, <2>1, <3>1 DEF TypeOK
      <4> QED
        BY <2>4, <2>5, <3>1, <4>1, <4>2
    <3>2. CASE c # clnt
      <4>1. Held(c)' = <<>> /\ net'[c] = net[c]
        BY <1>0, <2>1, <2>2, <3>2 DEF Held, TypeOK
      <4> QED
        BY <3>2, <4>1, NotServed
    <3> QED
      BY <3>1, <3>2
  <2> QED
    BY <2>2, <2>3, <2>6
<1>3. CASE ServReadFails
  <2>1. /\ net' = [net EXCEPT ![clnt] = Reported(@)] /\ net[clnt].rst = "pending"
        /\ pc' # "write" /\ buf' = <<>>
    BY <1>0, <1>3 DEF ServReadFails, ReadFails, Exits, CloseClnt
  <2>2. Flow(got[clnt], Reported(net[clnt]), <<>>, sent[clnt])
    BY <1>0, <1>1, FlowServer
  <2>3. ASSUME NEW c \in Conns
        PROVE  /\ Flow(got[c], net'[c], Held(c)', sent[c])
               /\ net'[c].rst # "none" => net[c].rst # "none"
    <3>0. Held(c)' = <<>>
      BY <2>1 DEF Held
    <3>1. CASE c = clnt
      <4>1. net'[c] = Reported(net[clnt])
        BY <1>0, <2>1, <3>1 DEF TypeOK
      <4> QED
        BY <2>1, <2>2, <3>0, <3>1, <4>1
    <3>2. CASE c # clnt
      <4>1. net'[c] = net[c]
        BY <1>0, <2>1, <3>2 DEF TypeOK
      <4> QED
        BY <3>0, <3>2, <4>1, NotServed
    <3> QED
      BY <3>1, <3>2
  <2> QED
    BY <2>1, <2>3
<1> QED
  BY <1>2, <1>3

(* write() copies what there is room for, or what buffer holds is lost with *)
(* the client that has left: the reset that draws finds it with echo unread.*)
LEMMA WriteFlow ==
  ASSUME Serving, SessionInv, ServWrite \/ ServWriteLost \/ ServKilled
  PROVE  /\ (pc' = "write" <=> buf' # <<>>)
         /\ \A c \in Conns :
              /\ Flow(got[c], net'[c], Held(c)', sent[c])
              /\ net'[c].rst # "none" => net[c].rst # "none" \/ LeftBehind(c)
<1>0. TypeOK /\ pc = "write" /\ buf # <<>>
  BY DEF Serving, SessionInv, ServWrite, ServWriteLost, ServKilled
<1>1. /\ clnt \in Conns /\ clnt # NoConn
      /\ net[clnt] \in Connection /\ got[clnt] \in Seq(Nat)
      /\ buf \in Seq(Nat) /\ sent[clnt] \in Nat
      /\ Flow(got[clnt], net[clnt], buf, sent[clnt])
      /\ Stands(clnt) /\ Quiet(net[clnt])
  BY <1>0, ClntServed
<1>2. CASE ServWrite
  <2>1. PICK n \in Writes(net[clnt], buf) :
          /\ net' = [net EXCEPT ![clnt] = AfterWrite(@, buf, n)]
          /\ buf' = Rest(buf, n)
          /\ pc' = IF n = Len(buf) THEN "read" ELSE "write"
    BY <1>2 DEF ServWrite
  <2>2. clnt' = clnt
    BY <1>2 DEF ServWrite
  <2>3. pc' = "write" <=> buf' # <<>>
    BY <1>1, <2>1, RestEmpty DEF Writes
  <2>4. Flow(got[clnt], AfterWrite(net[clnt], buf, n), Rest(buf, n), sent[clnt])
    BY <1>1, FlowServer
  <2>5. AfterWrite(net[clnt], buf, n).rst = net[clnt].rst
    BY <1>1 DEF AfterWrite, Connection
  <2>6. ASSUME NEW c \in Conns
        PROVE  /\ Flow(got[c], net'[c], Held(c)', sent[c])
               /\ net'[c].rst = net[c].rst
    <3>1. CASE c = clnt
      <4>1. Held(c)' = Rest(buf, n)
        BY <2>1, <2>2, <3>1 DEF Held
      <4>2. net'[c] = AfterWrite(net[clnt], buf, n)
        BY <1>0, <2>1, <3>1 DEF TypeOK
      <4> QED
        BY <2>4, <2>5, <3>1, <4>1, <4>2
    <3>2. CASE c # clnt
      <4>1. Held(c)' = <<>> /\ net'[c] = net[c]
        BY <1>0, <2>1, <2>2, <3>2 DEF Held, TypeOK
      <4> QED
        BY <3>2, <4>1, NotServed
    <3> QED
      BY <3>1, <3>2
  <2> QED
    BY <2>3, <2>6
<1>3. CASE ServWriteLost \/ ServKilled
  <2>1. /\ \/ /\ net' = [net EXCEPT ![clnt] = Reported(@)]
              /\ net[clnt].rst # "none"
           \/ /\ net' = [net EXCEPT ![clnt] = AfterReset(@)]
              /\ net[clnt].cli = "fin"
        /\ ~Present(net[clnt])
        /\ pc' # "write" /\ buf' = <<>>
    BY <1>1, <1>3, ErrorsOfAbsent DEF ServWriteLost, ServKilled, Exits,
      WriteFails, WriteKills, WriteDrawsReset
  <2>2. /\ Flow(got[clnt], Reported(net[clnt]), <<>>, sent[clnt])
        /\ Flow(got[clnt], AfterReset(net[clnt]), <<>>, sent[clnt])
    BY <1>1, <2>1, AbsentFlow
  <2>3. LeftBehind(clnt)
    <3>1. cpc[clnt] = "done"
      BY <1>0, <1>1, <2>1 DEF TypeOK, Stands, Present
    <3>2. Len(got[clnt]) < sent[clnt]
      BY <1>0, <1>1, FlowIsStream
    <3> QED
      BY <3>1, <3>2 DEF LeftBehind
  <2>4. ASSUME NEW c \in Conns
        PROVE  /\ Flow(got[c], net'[c], Held(c)', sent[c])
               /\ net'[c].rst # "none" => net[c].rst # "none" \/ LeftBehind(c)
    <3>0. Held(c)' = <<>>
      BY <2>1 DEF Held
    <3>1. CASE c = clnt
      <4>1. net'[c] \in {Reported(net[clnt]), AfterReset(net[clnt])}
        BY <1>0, <2>1, <3>1 DEF TypeOK
      <4> QED
        BY <2>2, <2>3, <3>0, <3>1, <4>1
    <3>2. CASE c # clnt
      <4>1. net'[c] = net[c]
        BY <1>0, <2>1, <3>2 DEF TypeOK
      <4> QED
        BY <3>0, <3>2, <4>1, NotServed
    <3> QED
      BY <3>1, <3>2
  <2> QED
    BY <2>1, <2>4
<1> QED
  BY <1>2, <1>3

(* So every step of the server keeps every session as it should be.         *)
LEMMA ServerWhole ==
  ASSUME Serving, SessionInv, ServerNext
  PROVE  SessionInv'
<1>1. /\ (pc' = "write" <=> buf' # <<>>)
      /\ \A c \in Conns :
           /\ Flow(got[c], net'[c], Held(c)', sent[c])
           /\ net'[c].rst # "none" => net[c].rst # "none" \/ LeftBehind(c)
  BY IdleFlow, ReadFlow, WriteFlow DEF ServerNext
<1>2. /\ UNCHANGED <<example, cpc, left, need, total, sent, got>>
      /\ \A c \in Conns : net'[c].cli = net[c].cli
      /\ \A c \in Conns : ServerHolds(c)' => ServerHolds(c)
  BY ServerKeepsSession DEF client
<1>3. ASSUME NEW c \in Conns PROVE Whole(c)'
  <2>1. Stands(c) /\ Pace(c)
    BY SessionTypes
  <2>2. Stands(c)'
    BY <1>1, <1>2, <2>1 DEF Stands, LeftBehind, ClientLeft
  <2>3. Pace(c)'
    BY <1>2, <2>1 DEF Pace, LeftBehind
  <2>4. Flow(got[c], net[c], Held(c), sent[c])'
    BY <1>1, <1>2
  <2> QED
    BY <2>2, <2>3, <2>4 DEF Whole
<1> QED
  BY <1>1, <1>3 DEF SessionInv

(* The sessions are as they should be at first, and stay so.                *)
LEMMA AlwaysSession == Spec => []SessionInv
<1>1. Init => SessionInv
  <2> SUFFICES ASSUME Init PROVE SessionInv
    OBVIOUS
  <2>1. ASSUME NEW c \in Conns PROVE Whole(c)
    <3>1. /\ net[c] = Unconnected /\ got[c] = <<>> /\ sent[c] = 0
          /\ cpc[c] = "start" /\ need[c] = 0 /\ total[c] = 0
          /\ Held(c) = <<>>
      BY DEF Init, Held
    <3>2. Flow(got[c], net[c], Held(c), sent[c])
      BY <3>1, FlowBegins
    <3>3. Stands(c)
      BY <3>1 DEF Stands, Unconnected
    <3>4. Len(got[c]) = 0
      BY <3>1
    <3>5. Pace(c)
      BY <3>1, <3>4 DEF Pace, LeftBehind
    <3> QED
      BY <3>2, <3>3, <3>5 DEF Whole
  <2> QED
    BY <2>1 DEF SessionInv, Init
<1>2. Serving /\ SessionInv /\ [Next]_vars => SessionInv'
  <2> SUFFICES ASSUME Serving, SessionInv, [Next]_vars PROVE SessionInv'
    OBVIOUS
  <2>1. ASSUME NEW c \in Conns, ClientNext(c) PROVE SessionInv'
    <3>1. Whole(c)'
      BY <2>1, UserWhole, CliWriteWhole, CliReadWhole DEF ClientNext, ClientRuns
    <3>2. UNCHANGED <<pc, buf>> /\ \A d \in Conns \ {c} : Whole(d)'
      BY <2>1, OthersWhole
    <3> QED
      BY <3>1, <3>2 DEF SessionInv
  <2>2. CASE UNCHANGED vars
    BY <2>2 DEF vars, SessionInv, Whole, Held, Stands, Pace, LeftBehind,
      ServerHolds
  <2> QED
    BY <2>1, <2>2, ServerWhole DEF Next
<1> QED
  BY <1>1, <1>2, AlwaysServing, PTL DEF Spec

(* However the writes and reads of the clients and the server mix, a client *)
(* has read its own text in order and, when it prompts for the next line,   *)
(* as much of it as its way of reading promises.                            *)
THEOREM ClientsKeepPace == Spec => []KeepsPace
<1>1. Serving /\ SessionInv => KeepsPace
  <2> SUFFICES ASSUME Serving, SessionInv, NEW c \in Conns
               PROVE  /\ got[c] = [i \in 1..Len(got[c]) |-> i]
                      /\ cpc[c] = "prompt" =>
                           CASE example.reads = "fresh" -> Len(got[c]) = sent[c]
                             [] example.reads = "total" -> Len(got[c]) >= need[c]
                             [] example.reads = "once" ->
                                  ServerHolds(c) /\ sent[c] > 0 => got[c] # <<>>
    BY DEF KeepsPace
  <2>1. /\ net[c] \in Connection /\ got[c] \in Seq(Nat) /\ Held(c) \in Seq(Nat)
        /\ sent[c] \in Nat /\ need[c] \in Nat /\ Len(got[c]) \in Nat
        /\ Flow(got[c], net[c], Held(c), sent[c]) /\ Pace(c)
        /\ example.reads \in {"once", "total", "fresh"}
    BY SessionTypes
  <2>2. got[c] = Numbered(Len(got[c]))
    BY <2>1, FlowIsStream
  <2>3. got[c] = [i \in 1..Len(got[c]) |-> i]
    BY <2>2, Zenon DEF Numbered
  <2>4. CASE example.reads = "fresh"
    BY <2>1, <2>3, <2>4 DEF Pace
  <2>5. CASE example.reads = "total"
    BY <2>1, <2>3, <2>5 DEF Pace
  <2>6. CASE example.reads = "once"
    BY <2>1, <2>3, <2>6 DEF Pace
  <2> QED
    BY <2>1, <2>4, <2>5, <2>6
<1> QED
  BY <1>1, AlwaysServing, AlwaysSession, PTL

\* A server that stopped short met the reset of a client's early close().
StoppedByReset ==
  pc = "exited" /\ served < example.limit => \E c \in Conns : LeftBehind(c)

(* A server ends at its quota, or at the error of a reset.                  *)
LEMMA StepStops ==
  ASSUME Serving, SessionInv, StoppedByReset, [Next]_vars
  PROVE  StoppedByReset'
<1>0. TypeOK
  BY DEF Serving
<1>1. ASSUME NEW c \in Conns, ClientNext(c) PROVE StoppedByReset'
  <2>1. UNCHANGED <<example, pc, served>> /\ cpc[c] # "done"
    BY <1>1 DEF ClientNext, ClientRuns, Connect, TypeLine, Quit, CliWrite,
      CliWriteLost, CliWritten, CliRead, CliReadEof, CliDies, server
  <2>2. \A d \in Conns \ {c} :
          cpc'[d] = cpc[d] /\ got'[d] = got[d] /\ sent'[d] = sent[d]
    BY <1>0, <1>1 DEF ClientNext, ClientRuns, Connect, TypeLine, Quit, CliWrite,
      CliWriteLost, CliWritten, CliRead, CliReadEof, CliDies, TypeOK
  <2>3. \A d \in Conns : LeftBehind(d) => LeftBehind(d)'
    BY <2>1, <2>2 DEF LeftBehind
  <2> QED
    BY <2>1, <2>3 DEF StoppedByReset
<1>2. CASE ServerNext
  <2>1. UNCHANGED <<example, cpc, got, sent>>
    BY <1>2, ServerKeepsSession DEF client
  <2>2. CASE Returns
    <3>1. served' = example'.limit /\ served' \in Nat
      BY <1>0, <2>2, ExampleFields DEF TypeOK, Returns, Exits
    <3> QED
      BY <3>1 DEF StoppedByReset
  <2>3. CASE ServReadFails \/ ServKilled
    <3>1. pc \in {"read", "write"} /\ net[clnt].rst # "none"
      BY <2>3 DEF ServReadFails, ServKilled, ReadFails, WriteKills
    <3>2. clnt \in Conns /\ LeftBehind(clnt)
      BY <3>1, ClntServed DEF Stands
    <3>3. LeftBehind(clnt) => \E c \in Conns : LeftBehind(c)'
      BY <2>1, <3>2 DEF LeftBehind
    <3> QED
      BY <3>2, <3>3 DEF StoppedByReset
  <2>4. CASE Accept \/ ServRead \/ ServEof \/ ServWrite \/ ServWriteLost
    <3>1. pc' # "exited"
      BY <2>4 DEF Accept, ServRead, ServEof, CloseClnt, ServWrite, ServWriteLost
    <3> QED
      BY <3>1 DEF StoppedByReset
  <2> QED
    BY <1>2, <2>2, <2>3, <2>4 DEF ServerNext
<1>3. CASE UNCHANGED vars
  BY <1>3 DEF vars, StoppedByReset, LeftBehind
<1> QED
  BY <1>1, <1>2, <1>3 DEF Next

(* Nothing the clients do keeps a server from serving as many connections   *)
(* as it is made for, but a close() with echo unread; and 10-4's client     *)
(* never does that to a server that serves it or has it in its queue.       *)
THEOREM QuotaIsServed == Spec => []FullQuota
<1>1. Init => StoppedByReset
  BY DEF Init, StoppedByReset
<1>2. Serving /\ SessionInv /\ StoppedByReset /\ [Next]_vars => StoppedByReset'
  BY StepStops
<1>3. Serving /\ SessionInv /\ StoppedByReset => FullQuota
  BY SessionTypes DEF FullQuota, StoppedByReset, Pace
<1> QED
  BY <1>1, <1>2, <1>3, AlwaysServing, AlwaysSession, PTL DEF Spec

=============================================================================
