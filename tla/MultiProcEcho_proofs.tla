------------------------ MODULE MultiProcEcho_proofs ------------------------
(****************************************************************************)
(* The fork-per-connection server, for any number of connections, backlog,  *)
(* buffer sizes and bytes sent: its types, its descriptor discipline, that  *)
(* no byte is lost or reordered (BytesInv: the bytes of a connection flow,  *)
(* in the sense of Tcp_proofs), that it implements EchoService, and that it *)
(* collects its children by the protocol of SigChld.                        *)
(*                                                                          *)
(* And, from StreamInv on, the echo over FILE* of StreamEcho, for any sizes *)
(* of buffers and any bytes typed. The two share TCP and no variable, and   *)
(* the results about one use nothing that is assumed of the other.          *)
(****************************************************************************)
EXTENDS MultiProcEcho, StreamEcho, Tcp_proofs

-----------------------------------------------------------------------------
(* What is left of the listen queue when the holders of serv_sock change.   *)
LEMMA QueueKeptType ==
  ASSUME TypeOK, NEW holders
  PROVE  QueueKept(holders) \in Seq(Conns)
<1>1. <<>> \in Seq(Conns)
  OBVIOUS
<1> QED
  BY <1>1 DEF QueueKept, TypeOK

(* A client's calls keep every variable in its type.                        *)
LEMMA ClientType ==
  ASSUME TypeOK, NEW c \in Conns, ClientNext(c)
  PROVE  TypeOK'
<1> USE DEF TypeOK, main, signal, clients
<1>0. net[c] \in Connection
  OBVIOUS
<1>1. CASE Connect(c)
  <2>1. Append(queue, c) \in Seq(Conns)
    BY AppendProperties
  <2>2. Connected(net[c]) \in Connection
    BY <1>0, ClientOpsType
  <2> QED
    BY <1>1, <2>1, <2>2 DEF Connect
<1>2. CASE CliSend(c)
  <2>1. sent[c] + 1 \in Nat
    OBVIOUS
  <2>2. Sent(net[c], sent[c] + 1) \in Connection
    BY <1>0, <2>1, ClientOpsType
  <2> QED
    BY <1>2, <2>1, <2>2 DEF CliSend
<1>3. CASE CliRead(c)
  <2>1. PICK n \in Counts(net[c].down, Cap) :
          /\ got' = [got EXCEPT ![c] = @ \o Front(net[c].down, n)]
          /\ net' = [net EXCEPT ![c] = Taken(@, n)]
    BY <1>3 DEF CliRead
  <2>2. Taken(net[c], n) \in Connection
    BY <1>0, <2>1, ClientOpsType
  <2>3. Front(net[c].down, n) \in Seq(Nat)
    BY <1>0, SplitType DEF Connection
  <2>4. got[c] \o Front(net[c].down, n) \in Seq(Nat)
    BY <2>3
  <2> QED
    BY <1>3, <2>1, <2>2, <2>4 DEF CliRead
<1>4. CASE CliClose(c)
  <2>1. Left(net[c]) \in Connection
    BY <1>0, ClientOpsType
  <2> QED
    BY <1>4, <2>1 DEF CliClose
<1> QED
  BY <1>1, <1>2, <1>3, <1>4 DEF ClientNext

(* main() keeps every variable in its type.                                 *)
LEMMA MainType ==
  ASSUME TypeOK, MainNext
  PROVE  TypeOK'
<1> USE DEF TypeOK, main, signal, clients, Procs
<1>1. CASE Accept
  <2>1. Head(queue) \in Conns /\ Tail(queue) \in Seq(Conns)
    BY <1>1, HeadTailProperties DEF Accept
  <2> QED
    BY <1>1, <2>1 DEF Accept
<1>2. CASE AcceptInterrupted
  BY <1>2 DEF AcceptInterrupted
<1>3. CASE Fork
  BY <1>3 DEF Fork, Alive
<1>4. CASE CloseClnt
  BY <1>4 DEF CloseClnt
<1>5. CASE ForkFails
  BY <1>5, QueueKeptType DEF ForkFails, Ended
<1> QED
  BY <1>1, <1>2, <1>3, <1>4, <1>5 DEF MainNext

(* So does an echo process.                                                 *)
LEMMA ChildType ==
  ASSUME TypeOK, NEW c \in Conns, ChildNext(c)
  PROVE  TypeOK'
<1> USE DEF TypeOK, main, signal, clients, Procs
<1>0. /\ net[c] \in Connection
      /\ buf[c] \in Seq(Nat)
      /\ Reported(net[c]) \in Connection
      /\ AfterReset(net[c]) \in Connection
      /\ <<>> \in Seq(Nat)
  BY ServerOpsType
<1>1. CASE ChildCloseServ(c)
  BY <1>1, QueueKeptType DEF ChildCloseServ, Alive
<1>2. CASE ChildRead(c)
  <2>1. PICK n \in Reads(net[c]) :
          /\ buf' = [buf EXCEPT ![c] = Front(net[c].up, n)]
          /\ net' = [net EXCEPT ![c] = AfterRead(@, n)]
    BY <1>2 DEF ChildRead
  <2>2. AfterRead(net[c], n) \in Connection
    BY <1>0, ServerOpsType
  <2>3. Front(net[c].up, n) \in Seq(Nat)
    BY <1>0, SplitType DEF Connection, Reads
  <2> QED
    BY <1>2, <2>1, <2>2, <2>3 DEF ChildRead, Alive
<1>3. CASE ChildEof(c)
  BY <1>3 DEF ChildEof, Alive
<1>4. CASE ChildWrite(c)
  <2>1. PICK n \in Writes(net[c], buf[c]) :
          /\ net' = [net EXCEPT ![c] = AfterWrite(@, buf[c], n)]
          /\ buf' = [buf EXCEPT ![c] = Rest(@, n)]
          /\ proc' = [proc EXCEPT ![c] =
                        IF n = Len(buf[c]) THEN "read" ELSE "write"]
    BY <1>4 DEF ChildWrite
  <2>2. AfterWrite(net[c], buf[c], n) \in Connection
    BY <1>0, ServerOpsType
  <2>3. Rest(buf[c], n) \in Seq(Nat)
    BY <1>0, SplitType DEF Writes
  <2> QED
    BY <1>4, <2>1, <2>2, <2>3 DEF ChildWrite, Alive
<1>5. CASE ChildWriteLost(c)
  BY <1>0, <1>5 DEF ChildWriteLost, Alive
<1>6. CASE ChildClose(c)
  BY <1>6 DEF ChildClose, Alive
<1>7. CASE ChildExit(c)
  BY <1>0, <1>7, QueueKeptType DEF ChildExit, Ends, Ended
<1>8. CASE ChildReadFails(c)
  BY <1>0, <1>8, QueueKeptType DEF ChildReadFails, Ends, Ended
<1>9. CASE ChildKilled(c)
  BY <1>0, <1>9, QueueKeptType DEF ChildKilled, Ends, Ended
<1> QED
  BY <1>1, <1>2, <1>3, <1>4, <1>5, <1>6, <1>7, <1>8, <1>9 DEF ChildNext

(* Every variable of the server keeps its type.                             *)
THEOREM TypeCorrect == Safety => []TypeOK
<1>1. Init => TypeOK
  <2> SUFFICES ASSUME Init PROVE TypeOK
    OBVIOUS
  <2>1. <<>> \in Seq(Conns) /\ <<>> \in Seq(Nat)
    OBVIOUS
  <2>2. Unconnected \in Connection
    BY <2>1 DEF Unconnected, Connection
  <2>3. queue \in Seq(Conns) /\ net \in [Conns -> Connection]
    BY <2>1, <2>2 DEF Init
  <2>4. buf \in [Conns -> Seq(Nat)] /\ got \in [Conns -> Seq(Nat)]
    BY <2>1 DEF Init
  <2> QED
    BY <2>3, <2>4 DEF Init, TypeOK, Procs
<1>2. TypeOK /\ [Next]_vars => TypeOK'
  <2> SUFFICES ASSUME TypeOK, [Next]_vars PROVE TypeOK'
    OBVIOUS
  <2>1. CASE MainNext
    BY <2>1, MainType
  <2>2. ASSUME NEW c \in Conns, ClientNext(c) PROVE TypeOK'
    BY <2>2, ClientType
  <2>3. ASSUME NEW c \in Conns, ChildNext(c) PROVE TypeOK'
    BY <2>3, ChildType
  <2>4. CASE Deliver
    BY <2>4 DEF TypeOK, Deliver, main, clients
  <2>5. CASE Reap
    BY <2>5 DEF TypeOK, Reap, clients, Ended
  <2>6. ASSUME NEW c \in Conns, StopOrContinue(c) PROVE TypeOK'
    BY <2>6 DEF TypeOK, StopOrContinue, main, clients
  <2>7. CASE UNCHANGED vars
    BY <2>7 DEF TypeOK, vars
  <2> QED
    BY <2>1, <2>2, <2>3, <2>4, <2>5, <2>6, <2>7 DEF Next
<1> QED
  BY <1>1, <1>2, PTL DEF Safety


-----------------------------------------------------------------------------
(* OneProcessPerConnection is inductive by itself: a client's call ...      *)
LEMMA ClientOne ==
  ASSUME TypeOK, OneProcessPerConnection, NEW c \in Conns, ClientNext(c)
  PROVE  OneProcessPerConnection'
<1> USE DEF OneProcessPerConnection, MainHolds, main
<1>1. CASE Connect(c)
  <2>1. /\ Len(queue') = Len(queue) + 1
        /\ \A i \in 1..Len(queue) : queue'[i] = queue[i]
        /\ queue'[Len(queue) + 1] = c
        /\ DOMAIN queue = 1..Len(queue)
        /\ DOMAIN queue' = 1..(Len(queue) + 1)
        /\ Len(queue) \in Nat
    BY <1>1 DEF Connect, TypeOK
  <2>2. net[c].cli = "none" /\ net'[c].cli # "none"
    BY <1>1 DEF Connect, Connected, TypeOK, Connection
  <2>3. \A d \in Conns : d # c => net'[d] = net[d]
    BY <1>1 DEF Connect, TypeOK
  <2>4. \A i \in DOMAIN queue : queue[i] \in Conns /\ queue[i] # c
    BY <2>1, <2>2 DEF TypeOK
  <2>5. UNCHANGED <<mainPc, clnt, proc>>
    BY <1>1 DEF Connect
  <2>6. proc[c] = "none" /\ ~MainHolds(c)
    BY <2>2
  <2>7. \A i \in DOMAIN queue' :
          /\ net'[queue'[i]].cli # "none"
          /\ proc'[queue'[i]] = "none"
          /\ ~MainHolds(queue[i])'
    BY <2>1, <2>2, <2>3, <2>4, <2>5, <2>6
  <2>8. \A i, j \in DOMAIN queue' : queue'[i] = queue'[j] => i = j
    BY <2>1, <2>4
  <2>9. \A d \in Conns :
          net'[d].cli = "none" => proc'[d] = "none" /\ ~MainHolds(d)'
    BY <2>2, <2>3, <2>5
  <2> QED
    BY <2>5, <2>7, <2>8, <2>9
<1>2. ASSUME UNCHANGED <<mainPc, clnt, proc, queue>>,
             \A d \in Conns : net'[d].cli = "none" <=> net[d].cli = "none"
      PROVE  OneProcessPerConnection'
  <2>1. \A i \in DOMAIN queue : queue[i] \in Conns
    BY DEF TypeOK
  <2> QED
    BY <1>2, <2>1
<1>3. CASE CliSend(c)
  <2>1. \A d \in Conns : net'[d].cli = net[d].cli
    BY <1>3 DEF CliSend, Sent, TypeOK, Connection
  <2> QED
    BY <1>2, <1>3, <2>1 DEF CliSend
<1>4. CASE CliRead(c)
  <2>1. \A d \in Conns : net'[d].cli = net[d].cli
    BY <1>4 DEF CliRead, Taken, TypeOK, Connection
  <2> QED
    BY <1>2, <1>4, <2>1 DEF CliRead
<1>5. CASE CliClose(c)
  <2>1. Left(net[c]).cli \in {"fin", "aborted"}
    BY DEF Left, TypeOK, Connection
  <2>2. net[c].cli = "open" /\ net'[c] = Left(net[c])
    BY <1>5 DEF CliClose, TypeOK
  <2>3. \A d \in Conns : d # c => net'[d] = net[d]
    BY <1>5 DEF CliClose, TypeOK
  <2> QED
    BY <1>2, <1>5, <2>1, <2>2, <2>3 DEF CliClose
<1> QED
  BY <1>1, <1>3, <1>4, <1>5 DEF ClientNext

(* ... a step of main() ...                                                 *)
LEMMA MainOne ==
  ASSUME TypeOK, OneProcessPerConnection, MainNext
  PROVE  OneProcessPerConnection'
<1> USE DEF OneProcessPerConnection, MainHolds
<1>0. \A i \in DOMAIN queue : queue[i] \in Conns
  BY DEF TypeOK
<1>1. CASE Accept
  <2>1. /\ Len(queue) \in Nat \ {0}
        /\ DOMAIN queue = 1..Len(queue)
        /\ DOMAIN queue' = 1..(Len(queue) - 1)
        /\ \A i \in DOMAIN queue' : queue'[i] = queue[i + 1]
        /\ clnt' = queue[1]
    BY <1>1, HeadTailProperties, EmptySeq DEF Accept, TypeOK
  <2>2. UNCHANGED <<net, proc>> /\ mainPc = "accept" /\ mainPc' = "fork"
    BY <1>1 DEF Accept
  <2>3. clnt' \in Conns /\ proc[clnt'] = "none" /\ net[clnt'].cli # "none"
    BY <1>0, <2>1
  <2>4. \A i \in DOMAIN queue' :
          /\ i + 1 \in DOMAIN queue
          /\ queue'[i] # clnt'
    BY <2>1
  <2>5. \A i \in DOMAIN queue' :
          /\ net'[queue'[i]].cli # "none"
          /\ proc'[queue'[i]] = "none"
          /\ ~MainHolds(queue[i])'
    BY <2>1, <2>2, <2>4
  <2>6. \A i, j \in DOMAIN queue' : queue'[i] = queue'[j] => i = j
    BY <2>1, <2>4
  <2>7. \A c \in Conns :
          net'[c].cli = "none" => proc'[c] = "none" /\ ~MainHolds(c)'
    BY <2>2, <2>3
  <2> QED
    BY <2>2, <2>3, <2>5, <2>6, <2>7
<1>2. CASE AcceptInterrupted
  BY <1>2 DEF AcceptInterrupted
<1>3. CASE Fork
  <2>1. clnt \in Conns /\ MainHolds(clnt) /\ MainHolds(clnt)'
    BY <1>3 DEF Fork
  <2>2. proc'[clnt] # "none" /\ \A c \in Conns : c # clnt => proc'[c] = proc[c]
    BY <1>3, <2>1 DEF Fork, TypeOK
  <2>3. UNCHANGED <<clnt, queue, net>> /\ mainPc = "fork" /\ mainPc' = "close"
    BY <1>3 DEF Fork
  <2> QED
    BY <1>0, <2>1, <2>2, <2>3
<1>4. CASE CloseClnt
  BY <1>4 DEF CloseClnt
<1>5. CASE ForkFails
  <2>1. UNCHANGED <<net, clnt>> /\ mainPc' = "exited"
    BY <1>5 DEF ForkFails
  <2>2. \A c \in Conns : proc[c] = "none" => proc'[c] = "none"
    BY <1>5 DEF ForkFails
  <2>3. queue' = queue \/ DOMAIN queue' = {}
    BY <1>5 DEF ForkFails, QueueKept
  <2> QED
    BY <1>0, <2>1, <2>2, <2>3
<1> QED
  BY <1>1, <1>2, <1>3, <1>4, <1>5 DEF MainNext

(* ... and of any process that only moves live children on.                 *)
LEMMA OthersOne ==
  ASSUME TypeOK, OneProcessPerConnection,
         mainPc' = mainPc \/ mainPc' = "eintr", clnt' = clnt,
         queue' = queue \/ queue' = <<>>,
         \A c \in Conns : net'[c].cli = net[c].cli,
         \A c \in Conns : proc'[c] = "none" <=> proc[c] = "none"
  PROVE  OneProcessPerConnection'
<1>1. \A i \in DOMAIN queue : queue[i] \in Conns
  BY DEF TypeOK
<1>2. queue' = queue \/ DOMAIN queue' = {}
  OBVIOUS
<1> QED
  BY <1>1, <1>2 DEF OneProcessPerConnection, MainHolds

(* What the steps of an echo process have in common.                        *)
LEMMA ChildFrame ==
  ASSUME TypeOK, NEW c \in Conns, ChildNext(c)
  PROVE  /\ UNCHANGED main
         /\ queue' = queue \/ queue' = <<>>
         /\ \A d \in Conns : net'[d].cli = net[d].cli
         /\ proc[c] \in Alive
         /\ proc'[c] \in Alive \union Ended
         /\ \A d \in Conns : d # c => proc'[d] = proc[d]
<1> USE DEF TypeOK
<1>1. \A k \in Connection :
        /\ Reported(k).cli = k.cli
        /\ AfterReset(k).cli = k.cli
        /\ \A n : AfterRead(k, n).cli = k.cli
        /\ \A b, n : AfterWrite(k, b, n).cli = k.cli
  BY DEF Connection, Reported, AfterReset, AfterRead, AfterWrite
<1>2. CASE ChildCloseServ(c)
  BY <1>2 DEF ChildCloseServ, QueueKept, Alive
<1>3. CASE ChildRead(c)
  BY <1>1, <1>3 DEF ChildRead, Alive
<1>4. CASE ChildEof(c)
  BY <1>4 DEF ChildEof, Alive
<1>5. CASE ChildWrite(c)
  BY <1>1, <1>5 DEF ChildWrite, Alive
<1>6. CASE ChildWriteLost(c)
  BY <1>1, <1>6 DEF ChildWriteLost, Alive
<1>7. CASE ChildClose(c)
  BY <1>7 DEF ChildClose, Alive
<1>8. CASE ChildExit(c)
  BY <1>8 DEF ChildExit, Ends, QueueKept, Alive, Ended
<1>9. CASE ChildReadFails(c)
  BY <1>1, <1>9 DEF ChildReadFails, Ends, QueueKept, Alive, Ended
<1>10. CASE ChildKilled(c)
  BY <1>1, <1>10 DEF ChildKilled, Ends, QueueKept, Alive, Ended
<1> QED
  BY <1>2, <1>3, <1>4, <1>5, <1>6, <1>7, <1>8, <1>9, <1>10 DEF ChildNext

(* A connection is never queued, handed over or served twice.               *)
THEOREM OneProcess == Safety => []OneProcessPerConnection
<1>1. Init => OneProcessPerConnection
  BY DEF Init, OneProcessPerConnection, MainHolds
<1>2. TypeOK /\ OneProcessPerConnection /\ [Next]_vars
        => OneProcessPerConnection'
  <2> SUFFICES ASSUME TypeOK, OneProcessPerConnection, [Next]_vars
               PROVE  OneProcessPerConnection'
    OBVIOUS
  <2>1. CASE MainNext
    BY <2>1, MainOne
  <2>2. ASSUME NEW c \in Conns, ClientNext(c) PROVE OneProcessPerConnection'
    BY <2>2, ClientOne
  <2>3. ASSUME NEW c \in Conns, ChildNext(c) PROVE OneProcessPerConnection'
    <3>1. \A d \in Conns : proc'[d] = "none" <=> proc[d] = "none"
      BY <2>3, ChildFrame DEF Alive, Ended
    <3> QED
      BY <2>3, <3>1, ChildFrame, OthersOne DEF main
  <2>4. CASE Deliver
    BY <2>4, OthersOne DEF Deliver, main
  <2>5. CASE Reap
    <3>1. \A d \in Conns : proc'[d] = "none" <=> proc[d] = "none"
      BY <2>5 DEF Reap, TypeOK
    <3> QED
      BY <2>5, <3>1, OthersOne DEF Reap
  <2>6. ASSUME NEW c \in Conns, StopOrContinue(c)
        PROVE  OneProcessPerConnection'
    BY <2>6, OthersOne DEF StopOrContinue, main
  <2>7. CASE UNCHANGED vars
    BY <2>7, OthersOne DEF vars
  <2> QED
    BY <2>1, <2>2, <2>3, <2>4, <2>5, <2>6, <2>7 DEF Next
<1> QED
  BY <1>1, <1>2, TypeCorrect, PTL DEF Safety

-----------------------------------------------------------------------------
(* How a step of an echo process changes the holders of the sockets.        *)
LEMMA ChildRefs ==
  ASSUME TypeOK, NEW c \in Conns, ChildNext(c)
  PROVE  /\ \A d \in Conns \ {c} : refs'[d] \in { refs[d], refs[d] \ {c} }
         /\ refs'[c] = IF proc'[c] \in {"read", "write", "close"}
                         THEN refs[c] ELSE refs[c] \ {c}
         /\ servRefs' \in { servRefs, servRefs \ {c} }
         /\ proc[c] = "start" => servRefs' = servRefs \ {c}
         /\ proc'[c] # "start"
         /\ proc[c] = "exit" => proc'[c] \in Ended
<1> USE DEF TypeOK
<1>2. CASE ChildCloseServ(c)
  BY <1>2 DEF ChildCloseServ
<1>3. CASE ChildRead(c)
  BY <1>3 DEF ChildRead, Alive
<1>4. CASE ChildEof(c)
  BY <1>4 DEF ChildEof, Alive
<1>5. CASE ChildWrite(c)
  BY <1>5 DEF ChildWrite, Alive
<1>6. CASE ChildWriteLost(c)
  BY <1>6 DEF ChildWriteLost, Alive
<1>7. CASE ChildClose(c)
  BY <1>7 DEF ChildClose
<1>8. CASE ChildExit(c)
  BY <1>8 DEF ChildExit, Ends, Ended
<1>9. CASE ChildReadFails(c)
  BY <1>9 DEF ChildReadFails, Ends, Ended
<1>10. CASE ChildKilled(c)
  BY <1>10 DEF ChildKilled, Ends, Ended
<1> QED
  BY <1>2, <1>3, <1>4, <1>5, <1>6, <1>7, <1>8, <1>9, <1>10 DEF ChildNext

(* The holders of a connection's socket, said by membership.                *)
SocketHolder(c, p) ==
  \/ p = Main /\ MainHolds(c)
  \/ p = c /\ proc[c] \in Alive \ {"exit"}

(* NoSocketLeak says of each process whether it holds a connection.         *)
LEMMA SocketLeakByMember ==
  ASSUME TypeOK
  PROVE  NoSocketLeak <=>
           \A c \in Conns, p \in Procs : p \in refs[c] <=> SocketHolder(c, p)
BY DEF TypeOK, NoSocketLeak, SocketHolder, Procs

ListenerHolder(p) == IF p = Main THEN mainPc # "exited" ELSE proc[p] = "start"

(* NoListenerLeak says the same of serv_sock.                               *)
LEMMA ListenerLeakByMember ==
  ASSUME TypeOK
  PROVE  NoListenerLeak <=> \A p \in Procs : p \in servRefs <=> ListenerHolder(p)
BY DEF TypeOK, NoListenerLeak, ListenerHolder

(* Both at once, as the steps are proved to preserve them.                  *)
LEMMA NoLeakByMember ==
  ASSUME TypeOK',
         \A c \in Conns, p \in Procs : p \in refs'[c] <=> SocketHolder(c, p)',
         \A p \in Procs : p \in servRefs' <=> ListenerHolder(p)'
  PROVE  NoSocketLeak' /\ NoListenerLeak'
BY DEF TypeOK, NoSocketLeak, NoListenerLeak, SocketHolder, ListenerHolder, Procs

(* main() hands each descriptor over and forgets it.                        *)
LEMMA MainRefs ==
  ASSUME TypeOK, TypeOK', OneProcessPerConnection,
         NoSocketLeak, NoListenerLeak, MainNext
  PROVE  NoSocketLeak' /\ NoListenerLeak'
<1> USE DEF SocketHolder, ListenerHolder, MainHolds
<1>1. \A c \in Conns, p \in Procs : p \in refs[c] <=> SocketHolder(c, p)
  BY SocketLeakByMember
<1>2. \A p \in Procs : p \in servRefs <=> ListenerHolder(p)
  BY ListenerLeakByMember
<1>3. Main \notin Conns /\ Procs = Conns \union {Main}
  BY ConnsAssumption DEF Procs
<1>4. SUFFICES
        /\ \A c \in Conns, p \in Procs : p \in refs'[c] <=> SocketHolder(c, p)'
        /\ \A p \in Procs : p \in servRefs' <=> ListenerHolder(p)'
  BY NoLeakByMember
<1>5. CASE Accept
  <2>1. Head(queue) = queue[1] /\ 1 \in DOMAIN queue /\ Head(queue) \in Conns
    BY <1>5, HeadTailProperties, EmptySeq DEF Accept, TypeOK
  <2>2. proc[Head(queue)] = "none"
    BY <2>1 DEF OneProcessPerConnection
  <2>3. /\ \A c \in Conns : refs'[c] =
              IF c = Head(queue) THEN {Main} ELSE refs[c]
        /\ clnt' = Head(queue) /\ mainPc = "accept" /\ mainPc' = "fork"
        /\ UNCHANGED <<proc, servRefs>>
    BY <1>5 DEF Accept, TypeOK
  <2> QED
    BY <1>1, <1>2, <1>3, <2>1, <2>2, <2>3 DEF Alive
<1>6. CASE AcceptInterrupted
  BY <1>1, <1>2, <1>6 DEF AcceptInterrupted
<1>7. CASE Fork
  <2>1. clnt \in Conns /\ proc[clnt] = "none"
    BY <1>7 DEF Fork, OneProcessPerConnection
  <2>2. /\ mainPc = "fork" /\ mainPc' = "close" /\ clnt' = clnt
        /\ proc'[clnt] = "start"
        /\ \A c \in Conns : c # clnt => proc'[c] = proc[c]
        /\ \A c \in Conns : refs'[c] =
             IF Main \in refs[c] THEN refs[c] \union {clnt} ELSE refs[c]
        /\ servRefs' = servRefs \union {clnt}
    BY <1>7, <2>1 DEF Fork, TypeOK
  <2>3. \A c \in Conns : Main \in refs[c] <=> c = clnt
    BY <1>1, <1>3, <2>2
  <2>4. ASSUME NEW c \in Conns, NEW p \in Procs
        PROVE  p \in refs'[c] <=> SocketHolder(c, p)'
    <3>1. CASE c = clnt
      <4>1. refs'[c] = refs[c] \union {c}
        BY <2>2, <2>3, <3>1
      <4>2. p \in refs[c] <=> p = Main
        BY <1>1, <1>3, <2>1, <2>2, <3>1 DEF Alive
      <4>3. SocketHolder(c, p)' <=> p = Main \/ p = c
        BY <2>2, <3>1 DEF Alive
      <4> QED
        BY <4>1, <4>2, <4>3
    <3>2. CASE c # clnt
      BY <1>1, <1>3, <2>1, <2>2, <2>3, <3>2
    <3> QED
      BY <3>1, <3>2
  <2>5. ASSUME NEW p \in Procs
        PROVE  p \in servRefs' <=> ListenerHolder(p)'
    BY <1>2, <1>3, <2>1, <2>2
  <2> QED
    BY <2>4, <2>5
<1>8. CASE CloseClnt
  <2>1. /\ mainPc = "close" /\ mainPc' = "accept" /\ clnt' = clnt
        /\ \A c \in Conns : refs'[c] =
              IF c = clnt THEN refs[c] \ {Main} ELSE refs[c]
        /\ UNCHANGED <<proc, servRefs>>
    BY <1>8 DEF CloseClnt, TypeOK
  <2>2. ASSUME NEW c \in Conns, NEW p \in Procs
        PROVE  p \in refs'[c] <=> SocketHolder(c, p)'
    <3>1. SocketHolder(c, p)' <=> p = c /\ SocketHolder(c, p)
      BY <1>3, <2>1 DEF Alive
    <3>2. CASE c = clnt
      <4>1. refs'[c] = refs[c] \ {Main} /\ (p \in refs[c] <=> SocketHolder(c, p))
        BY <1>1, <2>1, <3>2
      <4> HIDE DEF SocketHolder
      <4>2. SocketHolder(c, p) => p = Main \/ p = c
        BY DEF SocketHolder
      <4> QED
        BY <1>3, <3>1, <4>1, <4>2
    <3>3. CASE c # clnt
      BY <1>1, <1>3, <2>1, <3>1, <3>3 DEF Alive
    <3> QED
      BY <3>2, <3>3
  <2>3. ASSUME NEW p \in Procs
        PROVE  p \in servRefs' <=> ListenerHolder(p)'
    BY <1>2, <1>3, <2>1
  <2> QED
    BY <2>2, <2>3
<1>9. CASE ForkFails
  <2>1. /\ mainPc' = "exited"
        /\ \A c \in Conns : refs'[c] = refs[c] \ {Main}
        /\ servRefs' = servRefs \ {Main}
        /\ \A c \in Conns :
             proc'[c] = IF proc[c] = "zombie" THEN "reaped" ELSE proc[c]
    BY <1>9 DEF ForkFails
  <2> QED
    BY <1>1, <1>2, <1>3, <2>1 DEF Alive
<1> QED
  BY <1>5, <1>6, <1>7, <1>8, <1>9 DEF MainNext

(* No descriptor outlives its use: connections and listening socket.        *)
DescriptorInv ==
  TypeOK /\ OneProcessPerConnection /\ NoSocketLeak /\ NoListenerLeak

(* Every step of the server keeps the descriptors accounted for.            *)
LEMMA DescriptorStep ==
  ASSUME DescriptorInv, TypeOK', [Next]_vars
  PROVE  NoSocketLeak' /\ NoListenerLeak'
<1> USE DEF DescriptorInv
<1>1. CASE MainNext
  BY <1>1, MainRefs
<1>2. ASSUME UNCHANGED <<refs, servRefs, clnt>>,
             mainPc' = mainPc \/ (mainPc = "accept" /\ mainPc' = "eintr"),
             \A c \in Conns : \/ proc'[c] = proc[c]
                              \/ proc[c] \in Ended /\ proc'[c] \in Ended
      PROVE  NoSocketLeak' /\ NoListenerLeak'
  BY <1>2 DEF NoSocketLeak, NoListenerLeak, MainHolds, Alive, Ended, Procs
<1>3. ASSUME NEW c \in Conns, ClientNext(c)
      PROVE  NoSocketLeak' /\ NoListenerLeak'
  <2>1. UNCHANGED <<refs, servRefs, main, proc>>
    BY <1>3 DEF ClientNext, Connect, CliSend, CliRead, CliClose
  <2> QED
    BY <1>2, <2>1 DEF main
<1>4. ASSUME NEW c \in Conns, ChildNext(c)
      PROVE  NoSocketLeak' /\ NoListenerLeak'
  <2> USE DEF SocketHolder, ListenerHolder, MainHolds
  <2>1. /\ \A d \in Conns, p \in Procs : p \in refs[d] <=> SocketHolder(d, p)
        /\ \A p \in Procs : p \in servRefs <=> ListenerHolder(p)
    BY SocketLeakByMember, ListenerLeakByMember
  <2>2. Main \notin Conns /\ Procs = Conns \union {Main}
    BY ConnsAssumption DEF Procs
  <2>3. /\ UNCHANGED <<mainPc, clnt>>
        /\ proc[c] \in Alive
        /\ \A d \in Conns : d # c => proc'[d] = proc[d]
    BY <1>4, ChildFrame DEF main
  <2>4. ASSUME NEW d \in Conns, NEW p \in Procs
        PROVE  p \in refs'[d] <=> SocketHolder(d, p)'
    <3>1. p \in refs[d] <=> SocketHolder(d, p)
      BY <2>1
    <3>2. CASE d = c
      BY <1>4, <2>2, <2>3, <3>1, <3>2, ChildRefs DEF Alive, Ended
    <3>3. CASE d # c
      <4>1. c \notin refs[d]
        BY <2>1, <2>2, <3>3
      <4>2. refs[d] \ {c} = refs[d]
        BY <4>1
      <4>3. refs'[d] = refs[d]
        BY <1>4, <3>3, <4>2, ChildRefs
      <4> QED
        BY <2>2, <2>3, <3>1, <3>3, <4>3 DEF Alive
    <3> QED
      BY <3>2, <3>3
  <2>5. ASSUME NEW p \in Procs
        PROVE  p \in servRefs' <=> ListenerHolder(p)'
    <3>1. p \in servRefs <=> ListenerHolder(p)
      BY <2>1
    <3>2. CASE p = c
      BY <1>4, <2>2, <3>1, <3>2, ChildRefs
    <3>3. CASE p # c
      BY <1>4, <2>2, <2>3, <3>1, <3>3, ChildRefs
    <3> QED
      BY <3>2, <3>3
  <2> QED
    BY <2>4, <2>5, NoLeakByMember
<1>5. CASE Deliver
  BY <1>2, <1>5 DEF Deliver, main
<1>6. CASE Reap
  <2>1. \A c \in Conns : \/ proc'[c] = proc[c]
                         \/ proc[c] \in Ended /\ proc'[c] \in Ended
    BY <1>6 DEF Reap, Ended, TypeOK
  <2> QED
    BY <1>2, <1>6, <2>1 DEF Reap
<1>7. CASE \E c \in Conns : StopOrContinue(c)
  BY <1>2, <1>7 DEF StopOrContinue, main
<1>8. CASE UNCHANGED vars
  BY <1>2, <1>8 DEF vars
<1> QED
  BY <1>1, <1>3, <1>4, <1>5, <1>6, <1>7, <1>8 DEF Next

(* No descriptor outlives its use, neither a connection's nor the           *)
(* listening socket's, for any number of clients.                           *)
THEOREM DescriptorsDoNotLeak == Safety => []NoDescriptorLeak
<1>1. Init => NoDescriptorLeak
  BY DEF Init, NoDescriptorLeak, NoSocketLeak, NoListenerLeak, MainHolds, Alive,
         Procs
<1>2. DescriptorInv /\ TypeOK' /\ [Next]_vars => NoDescriptorLeak'
  BY DescriptorStep DEF NoDescriptorLeak
<1>3. TypeOK /\ OneProcessPerConnection /\ NoDescriptorLeak => DescriptorInv
  BY DEF DescriptorInv, NoDescriptorLeak
<1> QED
  BY <1>1, <1>2, <1>3, TypeCorrect, OneProcess, PTL DEF Safety

-----------------------------------------------------------------------------
\* read() has returned 0 or -1, or write() has killed the process.
Over(c) == proc[c] \in {"close", "exit"} \union Ended

\* One connection: its bytes flow, rcv_buffer is in use during write() only,
\* and a session is over only when its client has left.
Whole(c) ==
  /\ sent[c] <= MaxSend
  /\ Flow(got[c], net[c], buf[c], sent[c])
  /\ proc[c] # "write" => buf[c] = <<>>
  /\ Quiet(net[c])
  /\ Over(c) => ClientLeft(net[c])

BytesInv == \A c \in Conns : Whole(c)

(* What does not touch a connection or move its session keeps it whole.     *)
LEMMA WholeKept ==
  ASSUME NEW c \in Conns, Whole(c),
         net'[c] = net[c], buf'[c] = buf[c],
         sent'[c] = sent[c], got'[c] = got[c],
         proc'[c] = "write" <=> proc[c] = "write", Over(c)' => Over(c)
  PROVE  Whole(c)'
BY DEF Whole

(* A client's calls keep the bytes in order.                                *)
LEMMA ClientBytes ==
  ASSUME TypeOK, BytesInv, NEW c \in Conns, ClientNext(c)
  PROVE  BytesInv'
<1> USE DEF TypeOK
<1>0. /\ net[c] \in Connection /\ got[c] \in Seq(Nat) /\ buf[c] \in Seq(Nat)
      /\ sent[c] \in Nat /\ Whole(c)
  BY DEF BytesInv
<1>1. /\ UNCHANGED <<proc, buf>>
      /\ \A d \in Conns \ {c} : /\ net'[d] = net[d] /\ sent'[d] = sent[d]
                                /\ got'[d] = got[d]
  BY DEF ClientNext, Connect, CliSend, CliRead, CliClose, clients
<1>2. \A d \in Conns \ {c} : Whole(d)'
  BY <1>1 DEF Whole, BytesInv, Over
<1>3. ASSUME Flow(got'[c], net'[c], buf[c], sent'[c]), Quiet(net'[c]),
             ClientLeft(net[c]) => ClientLeft(net'[c]), sent'[c] <= MaxSend
      PROVE  Whole(c)'
  BY <1>0, <1>1, <1>3 DEF Whole, Over
<1>4. Whole(c)'
  <2>1. CASE Connect(c)
    <3>1. net'[c] = Connected(net[c]) /\ UNCHANGED <<sent, got>> /\ net[c].cli = "none"
      BY <2>1 DEF Connect, clients
    <3>2. Flow(got[c], Connected(net[c]), buf[c], sent[c])
      BY <1>0, <3>1, FlowClient DEF Whole, Present
    <3>3. Quiet(Connected(net[c])) /\ ~ClientLeft(net[c])
      BY <1>0, <3>1 DEF Whole, Quiet, Connected, Connection, ClientLeft
    <3> QED
      BY <1>0, <1>3, <3>1, <3>2, <3>3 DEF Whole
  <2>2. CASE CliSend(c)
    <3>1. /\ net'[c] = Sent(net[c], sent[c] + 1) /\ sent'[c] = sent[c] + 1
          /\ got'[c] = got[c] /\ net[c].cli = "open" /\ sent[c] < Quota[c]
      BY <2>2 DEF CliSend, CanSend
    <3>4. sent[c] + 1 <= MaxSend
      BY <1>0, <3>1, BoundsAssumption
    <3>2. Flow(got[c], Sent(net[c], sent[c] + 1), buf[c], sent[c] + 1)
      BY <1>0, <3>1, FlowClient DEF Whole
    <3>3. Quiet(Sent(net[c], sent[c] + 1)) /\ ~ClientLeft(net[c])
      BY <1>0, <3>1 DEF Whole, Quiet, Sent, Connection, ClientLeft
    <3> QED
      BY <1>3, <3>1, <3>2, <3>3, <3>4
  <2>3. CASE CliRead(c)
    <3>1. PICK n \in Counts(net[c].down, Cap) :
            /\ got' = [got EXCEPT ![c] = @ \o Front(net[c].down, n)]
            /\ net' = [net EXCEPT ![c] = Taken(@, n)]
      BY <2>3 DEF CliRead
    <3>2. /\ net'[c] = Taken(net[c], n) /\ got'[c] = got[c] \o Front(net[c].down, n)
          /\ sent'[c] = sent[c] /\ net[c].cli = "open"
      BY <2>3, <3>1 DEF CliRead
    <3>3. Flow(got[c] \o Front(net[c].down, n), Taken(net[c], n), buf[c], sent[c])
      BY <1>0, <3>2, FlowClient DEF Whole
    <3>4. Quiet(Taken(net[c], n)) /\ ~ClientLeft(net[c])
      BY <1>0, <3>2 DEF Whole, Quiet, Taken, Connection, ClientLeft
    <3> QED
      BY <1>0, <1>3, <3>2, <3>3, <3>4 DEF Whole
  <2>4. CASE CliClose(c)
    <3>1. net'[c] = Left(net[c]) /\ UNCHANGED <<sent, got>> /\ net[c].cli = "open"
      BY <2>4 DEF CliClose, clients
    <3>2. Flow(got[c], Left(net[c]), buf[c], sent[c])
      BY <1>0, <3>1, FlowClient DEF Whole
    <3>3. Quiet(Left(net[c])) /\ ~ClientLeft(net[c])
      BY <1>0, <3>1, OpsKeep DEF Whole, Keeps, ClientLeft
    <3> QED
      BY <1>0, <1>3, <3>1, <3>2, <3>3 DEF Whole
  <2> QED
    BY <2>1, <2>2, <2>3, <2>4 DEF ClientNext
<1> QED
  BY <1>2, <1>4 DEF BytesInv

(* So does an echo process, though it never looks at what write() returns:  *)
(* it lets go of what is in rcv_buffer only when its client has left.       *)
LEMMA ChildBytes ==
  ASSUME TypeOK, BytesInv, NEW c \in Conns, ChildNext(c)
  PROVE  BytesInv'
<1> USE DEF TypeOK
<1>0. /\ net[c] \in Connection /\ got[c] \in Seq(Nat) /\ buf[c] \in Seq(Nat)
      /\ sent[c] \in Nat /\ Whole(c)
  BY DEF BytesInv
<1>1. /\ UNCHANGED <<sent, got>>
      /\ \A d \in Conns \ {c} : /\ net'[d] = net[d] /\ buf'[d] = buf[d]
                                /\ proc'[d] = proc[d]
  <2>1. CASE Ends(c)
    BY <2>1 DEF ChildNext, ChildCloseServ, ChildRead, ChildEof, ChildWrite,
      ChildWriteLost, ChildClose, ChildExit, ChildReadFails, ChildKilled, Ends,
      clients
  <2>2. CASE ~Ends(c)
    BY <2>2 DEF ChildNext, ChildCloseServ, ChildRead, ChildEof, ChildWrite,
      ChildWriteLost, ChildClose, ChildExit, ChildReadFails, ChildKilled,
      clients
  <2> QED
    BY <2>1, <2>2
<1>2. \A d \in Conns \ {c} : Whole(d)'
  BY <1>1 DEF Whole, BytesInv, Over
<1>3. ASSUME ~Present(net[c])
      PROVE  /\ ClientLeft(net[c])
             /\ Flow(got[c], net[c], <<>>, sent[c])
             /\ Flow(got[c], Reported(net[c]), <<>>, sent[c])
             /\ Flow(got[c], AfterReset(net[c]), <<>>, sent[c])
             /\ ClientLeft(Reported(net[c])) /\ Quiet(Reported(net[c]))
             /\ ClientLeft(AfterReset(net[c])) /\ Quiet(AfterReset(net[c]))
  <2>1. Flow(got[c], net[c], <<>>, sent[c])
    BY <1>0, <1>3, FlowServer DEF Whole
  <2>2. /\ Flow(got[c], Reported(net[c]), <<>>, sent[c])
        /\ Flow(got[c], AfterReset(net[c]), <<>>, sent[c])
    BY <1>0, <2>1, FlowBegins, FlowServer
  <2> QED
    BY <1>0, <1>3, <2>1, <2>2
    DEF Present, Quiet, ClientLeft, Connection, Reported, AfterReset
<1>4. /\ ReadMeetsEof(net[c]) => ~Present(net[c])
      /\ ReadFails(net[c]) => ~Present(net[c])
      /\ WriteDrawsReset(net[c]) => ~Present(net[c])
      /\ WriteFails(net[c]) => ~Present(net[c])
      /\ WriteKills(net[c]) => ~Present(net[c])
  BY <1>0 DEF Whole, Quiet, Present, ReadMeetsEof, ReadFails, WriteDrawsReset,
    WriteFails, WriteKills
<1>5. Whole(c)'
  <2>1. CASE ChildCloseServ(c)
    <3>1. UNCHANGED <<net, buf>> /\ proc[c] = "start" /\ proc'[c] = "read"
      BY <2>1 DEF ChildCloseServ
    <3> QED
      BY <1>0, <1>1, <3>1 DEF Whole, Over, Ended
  <2>2. CASE ChildRead(c)
    <3>1. PICK n \in Reads(net[c]) :
            /\ buf' = [buf EXCEPT ![c] = Front(net[c].up, n)]
            /\ net' = [net EXCEPT ![c] = AfterRead(@, n)]
      BY <2>2 DEF ChildRead
    <3>2. /\ net'[c] = AfterRead(net[c], n) /\ buf'[c] = Front(net[c].up, n)
          /\ proc[c] = "read" /\ proc'[c] = "write"
      BY <2>2, <3>1 DEF ChildRead
    <3>3. Flow(got[c], AfterRead(net[c], n), Front(net[c].up, n), sent[c])
      BY <1>0, <3>2, FlowServer DEF Whole
    <3>4. Quiet(AfterRead(net[c], n))
      BY <1>0, OpsKeep DEF Whole, Keeps
    <3> QED
      BY <1>0, <1>1, <3>2, <3>3, <3>4 DEF Whole, Over, Ended
  <2>3. CASE ChildEof(c)
    <3>1. UNCHANGED <<net, buf>> /\ proc[c] = "read" /\ ClientLeft(net[c])
          /\ proc'[c] = "close"
      BY <1>3, <1>4, <2>3 DEF ChildEof
    <3> QED
      BY <1>0, <1>1, <3>1 DEF Whole
  <2>4. CASE ChildWrite(c)
    <3>1. PICK n \in Writes(net[c], buf[c]) :
            /\ net' = [net EXCEPT ![c] = AfterWrite(@, buf[c], n)]
            /\ buf' = [buf EXCEPT ![c] = Rest(@, n)]
            /\ proc' = [proc EXCEPT ![c] =
                          IF n = Len(buf[c]) THEN "read" ELSE "write"]
      BY <2>4 DEF ChildWrite
    <3>2. /\ net'[c] = AfterWrite(net[c], buf[c], n) /\ buf'[c] = Rest(buf[c], n)
          /\ proc'[c] = IF n = Len(buf[c]) THEN "read" ELSE "write"
      BY <3>1
    <3>3. Flow(got[c], AfterWrite(net[c], buf[c], n), Rest(buf[c], n), sent[c])
      BY <1>0, FlowServer DEF Whole
    <3>4. Quiet(AfterWrite(net[c], buf[c], n))
      BY <1>0, OpsKeep DEF Whole, Keeps
    <3>5. n = Len(buf[c]) => Rest(buf[c], n) = <<>>
      BY <1>0 DEF Rest
    <3> QED
      BY <1>0, <1>1, <3>2, <3>3, <3>4, <3>5 DEF Whole, Over, Ended
  <2>5. CASE ChildWriteLost(c)
    <3>1. /\ ~Present(net[c]) /\ buf'[c] = <<>> /\ proc'[c] = "read"
          /\ net'[c] \in {AfterReset(net[c]), Reported(net[c])}
      BY <1>4, <2>5 DEF ChildWriteLost
    <3> QED
      BY <1>0, <1>1, <1>3, <3>1 DEF Whole, Over, Ended
  <2>6. CASE ChildClose(c)
    <3>1. UNCHANGED <<net, buf>> /\ proc[c] = "close" /\ proc'[c] = "exit"
      BY <2>6 DEF ChildClose
    <3> QED
      BY <1>0, <1>1, <3>1 DEF Whole, Over
  <2>7. CASE ChildExit(c)
    <3>1. /\ proc[c] = "exit" /\ net' = net /\ buf'[c] = <<>>
          /\ proc'[c] \in {"zombie", "reaped"}
      BY <2>7 DEF ChildExit, Ends
    <3> QED
      BY <1>0, <1>1, <3>1 DEF Whole, Over
  <2>8. CASE ChildReadFails(c) \/ ChildKilled(c)
    <3>1. /\ ~Present(net[c]) /\ net'[c] = Reported(net[c]) /\ buf'[c] = <<>>
          /\ proc'[c] \in {"zombie", "reaped"}
      BY <1>4, <2>8 DEF ChildReadFails, ChildKilled, Ends
    <3> QED
      BY <1>0, <1>1, <1>3, <3>1 DEF Whole
  <2> QED
    BY <2>1, <2>2, <2>3, <2>4, <2>5, <2>6, <2>7, <2>8 DEF ChildNext
<1> QED
  BY <1>2, <1>5 DEF BytesInv

(* main() and the handler move no bytes.                                    *)
LEMMA OthersBytes ==
  ASSUME TypeOK, OneProcessPerConnection, BytesInv, MainNext \/ Deliver \/ Reap
  PROVE  BytesInv'
<1> USE DEF TypeOK
<1>1. UNCHANGED <<net, buf, sent, got>>
  BY DEF MainNext, Accept, AcceptInterrupted, Fork, CloseClnt, ForkFails,
    Deliver, Reap, clients
<1>2. ASSUME NEW c \in Conns
      PROVE  (proc'[c] = "write" <=> proc[c] = "write") /\ (Over(c)' => Over(c))
  <2>1. CASE Accept \/ AcceptInterrupted \/ CloseClnt \/ Deliver
    BY <2>1 DEF Accept, AcceptInterrupted, CloseClnt, Deliver, Over
  <2>2. CASE Fork
    BY <2>2 DEF Fork, OneProcessPerConnection, Over, Ended
  <2>3. CASE ForkFails
    BY <2>3 DEF ForkFails, Over, Ended
  <2>4. CASE Reap
    BY <2>4 DEF Reap, Over, Ended
  <2> QED
    BY <2>1, <2>2, <2>3, <2>4 DEF MainNext
<1> QED
  BY <1>1, <1>2, WholeKept DEF BytesInv

(* BytesInv is inductive, given which processes there are.                  *)
LEMMA AlwaysBytes == Safety => []BytesInv
<1>1. Init => BytesInv
  <2> SUFFICES ASSUME Init, NEW c \in Conns PROVE Whole(c)
    BY DEF BytesInv
  <2>1. /\ net[c] = Unconnected /\ got[c] = <<>> /\ buf[c] = <<>>
        /\ sent[c] = 0 /\ proc[c] = "none"
    BY DEF Init
  <2>2. Quiet(Unconnected)
    BY DEF Quiet, Unconnected
  <2> QED
    BY <2>1, <2>2, FlowBegins, BoundsAssumption DEF Whole, Over, Ended
<1>2. TypeOK /\ OneProcessPerConnection /\ BytesInv /\ [Next]_vars => BytesInv'
  <2> SUFFICES ASSUME TypeOK, OneProcessPerConnection, BytesInv, [Next]_vars
               PROVE  BytesInv'
    OBVIOUS
  <2>1. CASE MainNext \/ Deliver \/ Reap
    BY <2>1, OthersBytes
  <2>2. ASSUME NEW c \in Conns, ClientNext(c) PROVE BytesInv'
    BY <2>2, ClientBytes
  <2>3. ASSUME NEW c \in Conns, ChildNext(c) PROVE BytesInv'
    BY <2>3, ChildBytes
  <2>4. ASSUME NEW c \in Conns, StopOrContinue(c) PROVE BytesInv'
    BY <2>4 DEF StopOrContinue, clients, BytesInv, Whole, Over
  <2>5. CASE UNCHANGED vars
    BY <2>5 DEF vars, BytesInv, Whole, Over
  <2> QED
    BY <2>1, <2>2, <2>3, <2>4, <2>5 DEF Next
<1> QED
  BY <1>1, <1>2, TypeCorrect, OneProcess, PTL DEF Safety

(* While both ends are there no byte is lost, duplicated or reordered, for  *)
(* any number of clients, any buffer sizes, partial reads and writes: the   *)
(* loop of lines 97-101 echoes exactly what was sent.                       *)
THEOREM NothingIsLost == Safety => []NothingLost
<1>1. TypeOK /\ BytesInv => NothingLost
  <2> SUFFICES ASSUME TypeOK, BytesInv, NEW c \in Conns, net[c].cli = "open"
               PROVE  got[c] \o net[c].down \o buf[c] \o net[c].up
                        = [i \in 1..sent[c] |-> i]
    BY DEF NothingLost
  <2>1. Flow(got[c], net[c], buf[c], sent[c])
    BY DEF BytesInv, Whole
  <2>2. /\ got[c] \in Seq(Nat) /\ net[c] \in Connection
        /\ buf[c] \in Seq(Nat) /\ sent[c] \in Nat
    BY DEF TypeOK
  <2>3. AllBytes(got[c], net[c], buf[c]) = Numbered(sent[c])
    BY <2>1, <2>2, FlowIsStream
  <2> QED
    BY <2>3, Zenon DEF AllBytes, Numbered
<1> QED
  BY <1>1, TypeCorrect, AlwaysBytes, PTL

-----------------------------------------------------------------------------
\* The server has stopped because fork() failed, and for no other reason.
StopsByFork == mainPc = "exited" => ForkFailed

(* Once fork() has failed it stays so.                                      *)
LEMMA AlwaysStopsByFork == Safety => [](StopsByFork)
<1>1. Init => StopsByFork
  BY DEF Init, StopsByFork
<1>2. TypeOK /\ OneProcessPerConnection /\ StopsByFork /\ [Next]_vars
        => StopsByFork'
  <2> SUFFICES ASSUME TypeOK, OneProcessPerConnection, StopsByFork, [Next]_vars
               PROVE  StopsByFork'
    OBVIOUS
  <2> USE DEF StopsByFork, ForkFailed, TypeOK
  <2>1. CASE ForkFails
    BY <2>1, ConnsAssumption DEF ForkFails, OneProcessPerConnection
  <2>2. CASE Accept \/ AcceptInterrupted \/ Fork \/ CloseClnt \/ Deliver
    BY <2>2 DEF Accept, AcceptInterrupted, Fork, CloseClnt, Deliver, main
  <2>3. CASE Reap
    BY <2>3 DEF Reap, Procs
  <2>4. ASSUME NEW c \in Conns, ClientNext(c) PROVE StopsByFork'
    BY <2>4 DEF ClientNext, Connect, CliSend, CliRead, CliClose, main
  <2>5. ASSUME NEW c \in Conns, ChildNext(c) PROVE StopsByFork'
    BY <2>5, ChildFrame DEF main, Alive, Procs
  <2>6. ASSUME NEW c \in Conns, StopOrContinue(c) PROVE StopsByFork'
    BY <2>6 DEF StopOrContinue, main
  <2>7. CASE UNCHANGED vars
    BY <2>7 DEF vars
  <2> QED
    BY <2>1, <2>2, <2>3, <2>4, <2>5, <2>6, <2>7 DEF Next, MainNext
<1> QED
  BY <1>1, <1>2, TypeCorrect, OneProcess, PTL DEF Safety

ServeInv == DescriptorInv /\ BytesInv /\ StopsByFork

\* EchoService's view of the server.
AbsClient == [c \in Conns |->
                IF ClientLeft(net[c]) THEN "closed" ELSE net[c].cli]
AbsService == [c \in Conns |->
                 CASE net[c].cli = "none" -> "none"
                   [] net[c].cli # "none" /\ ServerHolds(c) -> "open"
                   [] OTHER -> "closed"]

(* A step of the server, seen by its clients, lets go of connections whose  *)
(* clients have left, or of any when fork() has failed.                     *)
LEMMA IsRelease ==
  ASSUME TypeOK, UNCHANGED <<sent, got>>,
         \A c \in Conns : net'[c].cli = net[c].cli,
         \A c \in Conns : ServerHolds(c)' => ServerHolds(c),
         \A c \in Conns : ServerHolds(c) /\ ~ServerHolds(c)'
                            => ClientLeft(net[c]) \/ ForkFailed',
         ForkFailed => ForkFailed'
  PROVE  Service!Release
<1> DEFINE S == { c \in Conns : AbsService[c] = "open" /\ ~ServerHolds(c)' }
<1>1. AbsClient' = AbsClient
  BY DEF AbsClient, ClientLeft
<1>2. AbsService' = [c \in Conns |-> IF c \in S THEN "closed" ELSE AbsService[c]]
  <2>1. ASSUME NEW c \in Conns
        PROVE  AbsService'[c] = IF c \in S THEN "closed" ELSE AbsService[c]
    BY DEF AbsService
  <2> QED
    BY <2>1 DEF AbsService
<1>3. \A c \in S : AbsService[c] = "open" /\ (AbsClient[c] = "closed" \/ ForkFailed')
  BY DEF AbsService, AbsClient
<1>4. S \in SUBSET Conns
  OBVIOUS
<1>5. (~ForkFailed)' \in { ~ForkFailed, FALSE }
  BY DEF ForkFailed
<1> HIDE DEF S
<1> QED
  BY <1>1, <1>2, <1>3, <1>4, <1>5 DEF Service!Release, AbsClient, AbsService

(* main() and the handler: only a failing fork() lets go of a connection    *)
(* whose client may still be there.                                         *)
LEMMA MainServes ==
  ASSUME ServeInv, MainNext \/ Deliver \/ Reap
  PROVE  Service!Release
<1> USE DEF ServeInv, DescriptorInv, TypeOK
<1>1. UNCHANGED <<net, sent, got>>
  BY DEF MainNext, Accept, AcceptInterrupted, Fork, CloseClnt, ForkFails,
    Deliver, Reap, clients
<1>2. ASSUME \A c \in Conns : ServerHolds(c)' <=> ServerHolds(c),
             mainPc # "exited" \/ UNCHANGED <<mainPc, clnt>>,
             \A c \in Conns : proc[c] = "none" /\ mainPc = "exited"
                                => proc'[c] = "none"
      PROVE  Service!Release
  BY <1>1, <1>2, IsRelease DEF ForkFailed, Procs
<1>3. CASE Accept
  <2>1. queue # <<>> /\ Head(queue) \in Conns /\ Tail(queue) \in Seq(Conns)
    BY <1>3, HeadTailProperties DEF Accept
  <2>2. Range(queue) = {Head(queue)} \union Range(Tail(queue))
    BY <2>1, RangeHeadTail
  <2>3. \A c \in Conns : refs'[c] = IF c = Head(queue) THEN {Main} ELSE refs[c]
    BY <1>3 DEF Accept
  <2>4. queue' = Tail(queue) /\ mainPc = "accept"
    BY <1>3 DEF Accept
  <2>5. \A c \in Conns : ServerHolds(c)' <=> ServerHolds(c)
    BY <2>2, <2>3, <2>4 DEF ServerHolds
  <2> QED
    BY <1>2, <2>4, <2>5
<1>4. CASE AcceptInterrupted \/ Deliver
  BY <1>2, <1>4 DEF AcceptInterrupted, Deliver, ServerHolds, main
<1>5. CASE Reap
  <2>1. UNCHANGED <<queue, refs, clnt>> /\ (mainPc = "exited" => mainPc' = mainPc)
    BY <1>5 DEF Reap
  <2>2. \A c \in Conns : proc[c] = "none" => proc'[c] = "none"
    BY <1>5 DEF Reap
  <2> QED
    BY <1>2, <2>1, <2>2 DEF ServerHolds
<1>6. CASE Fork
  <2>1. \A c \in Conns : refs'[c] = IF Main \in refs[c] THEN refs[c] \union {clnt}
                                                      ELSE refs[c]
    BY <1>6 DEF Fork
  <2>2. queue' = queue /\ mainPc = "fork"
    BY <1>6 DEF Fork
  <2> QED
    BY <1>2, <2>1, <2>2 DEF ServerHolds
<1>7. CASE CloseClnt
  <2>1. /\ mainPc = "close" /\ mainPc' = "accept" /\ UNCHANGED <<queue, proc, clnt>>
        /\ refs' = [refs EXCEPT ![clnt] = @ \ {Main}]
    BY <1>7 DEF CloseClnt
  <2>2. clnt \in Conns /\ proc[clnt] # "none"
    BY <2>1 DEF OneProcessPerConnection
  <2>3. clnt \in refs[clnt] \/ Over(clnt)
    BY <2>2 DEF NoSocketLeak, Alive, Over, Ended
  <2>4. clnt # Main
    BY <2>2, ConnsAssumption
  <2>5. \A c \in Conns : /\ ServerHolds(c)' => ServerHolds(c)
                         /\ ServerHolds(c) /\ ~ServerHolds(c)' => c = clnt /\ Over(clnt)
    BY <2>1, <2>2, <2>3, <2>4 DEF ServerHolds
  <2>6. Over(clnt) => ClientLeft(net[clnt])
    BY <2>2 DEF BytesInv, Whole
  <2> QED
    BY <1>1, <2>1, <2>5, <2>6, IsRelease DEF ForkFailed
<1>8. CASE ForkFails
  <2>1. /\ mainPc = "fork" /\ mainPc' = "exited" /\ clnt' = clnt
        /\ refs' = [c \in Conns |-> refs[c] \ {Main}]
        /\ queue' = queue \/ queue' = <<>>
    BY <1>8 DEF ForkFails, QueueKept
  <2>2. ForkFailed'
    BY <1>8, ConnsAssumption DEF ForkFails, OneProcessPerConnection, ForkFailed
  <2>3. \A c : c \notin Range(<<>>)
    BY DEF Range
  <2>4. \A c \in Conns : ServerHolds(c)' => ServerHolds(c)
    BY <2>1, <2>3 DEF ServerHolds
  <2> QED
    BY <1>1, <2>2, <2>4, IsRelease
<1> QED
  BY <1>3, <1>4, <1>5, <1>6, <1>7, <1>8 DEF MainNext

(* An echo process lets go of its own connection only, when its client has  *)
(* left, and of the listen queue only when it was the last to hold it.      *)
LEMMA ChildServes ==
  ASSUME ServeInv, BytesInv', NEW c \in Conns, ChildNext(c)
  PROVE  Service!Release
<1> USE DEF ServeInv, DescriptorInv, TypeOK
<1>1. UNCHANGED <<sent, got>>
  BY DEF ChildNext, ChildCloseServ, ChildRead, ChildEof, ChildWrite,
    ChildWriteLost, ChildClose, ChildExit, ChildReadFails, ChildKilled, Ends,
    clients
<1>2. /\ UNCHANGED <<mainPc, clnt>> /\ proc[c] # "none"
      /\ \A d \in Conns : net'[d].cli = net[d].cli
      /\ \A d \in Conns : d # c => proc'[d] = proc[d]
      /\ proc'[c] \in Alive \union Ended
  BY ChildFrame DEF main, Alive
<1>3. \A d \in Conns : proc[d] = "none" => proc'[d] = "none"
  BY <1>2
<1>4. ForkFailed => ForkFailed'
  BY <1>2, <1>3 DEF ForkFailed, Procs
<1>5. queue' = queue \/ (queue' = <<>> /\ ForkFailed)
  <2>1. queue' = queue \/ (queue' = <<>> /\ servRefs' = {})
    BY DEF ChildNext, ChildCloseServ, ChildRead, ChildEof, ChildWrite,
      ChildWriteLost, ChildClose, ChildExit, ChildReadFails, ChildKilled, Ends,
      QueueKept
  <2>2. servRefs' \in { servRefs, servRefs \ {c} } /\ c # Main
    BY ChildRefs, ConnsAssumption
  <2>3. servRefs' = {} => Main \notin servRefs
    BY <2>2
  <2>4. Main \notin servRefs => mainPc = "exited"
    BY DEF NoListenerLeak, Procs
  <2> QED
    BY <2>1, <2>3, <2>4 DEF StopsByFork
<1>6. ASSUME NEW d \in Conns \ {c} PROVE refs'[d] = refs[d]
  <2>1. c \notin refs[d]
    BY ConnsAssumption DEF NoSocketLeak
  <2>2. refs'[d] = refs[d] \/ refs'[d] = refs[d] \ {c}
    BY ChildRefs
  <2>3. refs[d] \ {c} = refs[d]
    BY <2>1
  <2> QED
    BY <2>2, <2>3
<1>7. refs'[c] = refs[c] \/ (refs'[c] \subseteq refs[c] /\ ClientLeft(net[c]))
  <2>1. CASE proc'[c] \in {"read", "write", "close"}
    BY <2>1, ChildRefs
  <2>2. CASE proc'[c] \notin {"read", "write", "close"}
    <3>1. proc'[c] # "start" /\ refs'[c] \subseteq refs[c]
      BY <2>2, ChildRefs
    <3>2. Over(c)'
      BY <1>2, <2>2, <3>1 DEF Over, Alive
    <3>3. ClientLeft(net'[c])
      BY <3>2 DEF BytesInv, Whole
    <3> QED
      BY <1>2, <3>1, <3>3 DEF ClientLeft
  <2> QED
    BY <2>1, <2>2
<1>8. \A d : d \notin Range(<<>>)
  BY DEF Range
<1>9. \A d \in Conns : /\ ServerHolds(d)' => ServerHolds(d)
                       /\ ServerHolds(d) /\ ~ServerHolds(d)'
                            => ClientLeft(net[d]) \/ ForkFailed'
  BY <1>4, <1>5, <1>6, <1>7, <1>8 DEF ServerHolds
<1> QED
  BY <1>1, <1>2, <1>4, <1>9, IsRelease

(* A client's calls are those of EchoService's clients: what it reads is    *)
(* the stream it sent.                                                      *)
LEMMA ClientServes ==
  ASSUME ServeInv, BytesInv', TypeOK', NEW c \in Conns, ClientNext(c)
  PROVE  Service!Connect(c) \/ Service!Send(c) \/ Service!Echo(c) \/ Service!Leave(c)
<1> USE DEF ServeInv, DescriptorInv, TypeOK
<1>0. /\ UNCHANGED <<mainPc, clnt, proc, refs>>
      /\ \A d \in Conns \ {c} : net'[d] = net[d]
      /\ net[c] \in Connection
  BY DEF ClientNext, Connect, CliSend, CliRead, CliClose, main
<1>1. ForkFailed' = ForkFailed
  BY <1>0 DEF ForkFailed
<1>2. CASE Connect(c)
  <2>1. /\ net[c].cli = "none" /\ net'[c].cli = "open" /\ UNCHANGED <<sent, got>>
        /\ queue' = Append(queue, c)
    BY <1>2 DEF Connect, Connected, Connection, clients
  <2>2. Range(queue') = Range(queue) \union {c}
    BY <2>1, RangeAppend
  <2>3. ServerHolds(c)' /\ \A d \in Conns \ {c} : ServerHolds(d)' <=> ServerHolds(d)
    BY <1>0, <2>2 DEF ServerHolds
  <2>4. AbsClient' = [AbsClient EXCEPT ![c] = "open"] /\ AbsClient[c] = "none"
    BY <1>0, <2>1 DEF AbsClient, ClientLeft
  <2>5. AbsService' = [AbsService EXCEPT ![c] = "open"]
    BY <1>0, <2>1, <2>3 DEF AbsService
  <2> QED
    BY <1>1, <2>1, <2>4, <2>5 DEF Service!Connect, AbsClient, AbsService
<1>3. ASSUME queue' = queue, net[c].cli = "open", net'[c].cli # "none"
      PROVE  AbsService' = AbsService
  BY <1>0, <1>3 DEF AbsService, ServerHolds
<1>4. CASE CliSend(c)
  <2>1. /\ net[c].cli = "open" /\ net'[c].cli = "open" /\ queue' = queue
        /\ sent[c] < MaxSend /\ sent' = [sent EXCEPT ![c] = @ + 1] /\ got' = got
    <3>1. sent[c] < Quota[c] /\ Quota[c] \in 0..MaxSend /\ MaxSend \in Nat /\ sent[c] \in Nat
      BY <1>4, BoundsAssumption DEF CliSend
    <3>2. sent[c] < MaxSend
      BY <3>1
    <3> QED
      BY <1>0, <1>4, <3>2 DEF CliSend, CanSend, Sent, Connection
  <2>2. AbsClient' = AbsClient /\ AbsClient[c] = "open"
    BY <1>0, <2>1 DEF AbsClient, ClientLeft
  <2> QED
    BY <1>1, <1>3, <2>1, <2>2 DEF Service!Send, AbsClient, AbsService
<1>5. CASE CliRead(c)
  <2>1. PICK n \in Counts(net[c].down, Cap) :
          /\ got' = [got EXCEPT ![c] = @ \o Front(net[c].down, n)]
          /\ net' = [net EXCEPT ![c] = Taken(@, n)]
    BY <1>5 DEF CliRead
  <2>2. /\ net[c].cli = "open" /\ net'[c].cli = "open" /\ queue' = queue
        /\ sent' = sent
    BY <1>0, <1>5, <2>1 DEF CliRead, Taken, Connection
  <2>3. AbsClient' = AbsClient /\ AbsClient[c] = "open"
    BY <1>0, <2>2 DEF AbsClient, ClientLeft
  <2>4. /\ got'[c] \in Seq(Nat) /\ net'[c] \in Connection /\ buf'[c] \in Seq(Nat)
        /\ sent[c] \in Nat /\ Flow(got'[c], net'[c], buf'[c], sent[c])
        /\ sent[c] <= MaxSend
    BY <2>2 DEF BytesInv, Whole
  <2>5. got'[c] = Numbered(Len(got'[c])) /\ Len(got'[c]) <= sent[c]
    BY <2>4, FlowIsStream
  <2>6. Len(got[c]) < Len(got'[c]) /\ Len(got'[c]) \in Nat /\ Len(got[c]) \in Nat
    <3>1. got[c] \in Seq(Nat) /\ net[c].down \in Seq(Nat)
      BY <1>0 DEF Connection
    <3>2. got'[c] = got[c] \o Front(net[c].down, n)
      BY <2>1
    <3> QED
      BY <3>1, <3>2, TakenLonger
  <2>7. Len(got'[c]) \in 1..MaxSend
    BY <2>4, <2>5, <2>6, BoundsAssumption
  <2>8. got' = [got EXCEPT ![c] = Service!Stream(Len(got'[c]))]
    <3>1. got'[c] = Service!Stream(Len(got'[c]))
      BY <2>5, Zenon DEF Numbered, Service!Stream
    <3>2. got' = [got EXCEPT ![c] = got'[c]]
      BY <2>1
    <3> QED
      BY <3>1, <3>2, Zenon
  <2>9. Service!Echo(c)
    BY <1>1, <1>3, <2>2, <2>3, <2>5, <2>6, <2>7, <2>8
    DEF Service!Echo, AbsClient, AbsService
  <2> QED
    BY <2>9
<1>6. CASE CliClose(c)
  <2>1. /\ net[c].cli = "open" /\ net'[c] = Left(net[c]) /\ queue' = queue
        /\ UNCHANGED <<sent, got>>
    BY <1>6 DEF CliClose, clients
  <2>2. ClientLeft(net'[c]) /\ net'[c].cli # "none"
    BY <1>0, <2>1 DEF Left, Connection, ClientLeft
  <2>3. AbsClient' = [AbsClient EXCEPT ![c] = "closed"] /\ AbsClient[c] = "open"
    BY <1>0, <2>1, <2>2 DEF AbsClient, ClientLeft
  <2> QED
    BY <1>1, <1>3, <2>1, <2>2, <2>3 DEF Service!Leave, AbsClient, AbsService
<1> QED
  BY <1>2, <1>4, <1>5, <1>6 DEF ClientNext

(* The forking server implements EchoService, for any number of clients and *)
(* any buffers: clients get their own bytes, in order, and are never hung   *)
(* up on while fork() succeeds.                                             *)
THEOREM ImplementsEchoService == Safety => ServesEcho
<1>1. Init => Service!Init
  <2> SUFFICES ASSUME Init PROVE Service!Init
    OBVIOUS
  <2>1. \A c \in Conns : net[c].cli = "none"
    BY DEF Init, Unconnected
  <2>2. AbsClient = [c \in Conns |-> "none"] /\ AbsService = [c \in Conns |-> "none"]
    BY <2>1 DEF AbsClient, AbsService, ClientLeft
  <2>3. (~ForkFailed) = TRUE
    BY DEF Init, ForkFailed
  <2> QED
    BY <2>2, <2>3 DEF Init, Service!Init, AbsClient, AbsService
<1>2. ServeInv /\ ServeInv' /\ [Next]_vars => [Service!Next]_(Service!vars)
  <2> SUFFICES ASSUME ServeInv, ServeInv', [Next]_vars
               PROVE  Service!Next \/ UNCHANGED Service!vars
    OBVIOUS
  <2>1. CASE MainNext \/ Deliver \/ Reap
    BY <2>1, MainServes DEF Service!Next
  <2>2. ASSUME NEW c \in Conns, ClientNext(c) PROVE Service!Next
    BY <2>2, ClientServes DEF Service!Next, ServeInv, DescriptorInv
  <2>3. ASSUME NEW c \in Conns, ChildNext(c) PROVE Service!Next
    BY <2>3, ChildServes DEF Service!Next, ServeInv
  <2>4. ASSUME NEW c \in Conns, StopOrContinue(c) PROVE UNCHANGED Service!vars
    BY <2>4 DEF StopOrContinue, main, clients, Service!vars, ServerHolds, ForkFailed
  <2>5. CASE UNCHANGED vars
    BY <2>5 DEF vars, Service!vars, ServerHolds, ForkFailed
  <2> QED
    BY <2>1, <2>2, <2>3, <2>4, <2>5 DEF Next
<1>3. Safety => []ServeInv
  BY TypeCorrect, OneProcess, DescriptorsDoNotLeak, AlwaysBytes,
    AlwaysStopsByFork, PTL DEF ServeInv, DescriptorInv, NoDescriptorLeak
<1> QED
  BY <1>1, <1>2, <1>3, PTL DEF Safety, ServesEcho, Service!Spec

-----------------------------------------------------------------------------
(* The server's process table, as SigChld sees it.                          *)
AbsProc(t) ==
  [c \in Conns |-> IF t[c] \in Alive THEN "running" ELSE t[c]]

AbsParent(pc) == IF pc = "exited" THEN "exited" ELSE "running"

(* What SigChld sees of the server's variables.                             *)
LEMMA AbsVars ==
  ASSUME AbsProc(proc') = AbsProc(proc), AbsParent(mainPc') = AbsParent(mainPc),
         UNCHANGED signal
  PROVE  UNCHANGED Reaping!vars
BY DEF Reaping!vars, AbsProc, AbsParent, signal

(* An echo process that ends is a child of SigChld that exits.              *)
LEMMA EndsIsExit ==
  ASSUME TypeOK, NEW c \in Conns, proc[c] \in Alive, Ends(c)
  PROVE  Reaping!Exit(c)
<1> USE DEF TypeOK
<1>1. AbsProc(proc)[c] = "running"
  BY DEF AbsProc
<1>2. UNCHANGED <<mainPc, handling>>
  BY DEF Ends, main
<1>3. CASE mainPc = "exited"
  <2>1. proc' = [proc EXCEPT ![c] = "reaped"] /\ pending' = pending
    BY <1>3 DEF Ends
  <2>2. AbsProc(proc') = [AbsProc(proc) EXCEPT ![c] = "reaped"]
    BY <2>1 DEF AbsProc, Alive
  <2> QED
    BY <1>1, <1>2, <1>3, <2>1, <2>2 DEF Reaping!Exit, AbsProc
<1>4. CASE mainPc # "exited"
  <2>1. proc' = [proc EXCEPT ![c] = "zombie"] /\ pending' = TRUE
    BY <1>4 DEF Ends
  <2>2. AbsProc(proc') = [AbsProc(proc) EXCEPT ![c] = "zombie"]
    BY <2>1 DEF AbsProc, Alive
  <2> QED
    BY <1>1, <1>2, <1>4, <2>1, <2>2 DEF Reaping!Exit, AbsProc
<1> QED
  BY <1>3, <1>4

(* Its other steps are invisible there.                                     *)
LEMMA ChildReaping ==
  ASSUME TypeOK, NEW c \in Conns, ChildNext(c)
  PROVE  Reaping!Exit(c) \/ UNCHANGED Reaping!vars
<1> USE DEF TypeOK
<1>1. CASE Ends(c)
  BY <1>1, EndsIsExit, ChildFrame
<1>2. CASE ~Ends(c)
  <2>1. UNCHANGED signal /\ proc'[c] \in Alive /\ proc' = [proc EXCEPT ![c] = proc'[c]]
    <3>1. CASE ChildCloseServ(c)
      BY <3>1 DEF ChildCloseServ, Alive
    <3>2. CASE ChildRead(c)
      BY <3>2 DEF ChildRead, Alive
    <3>3. CASE ChildEof(c)
      BY <3>3 DEF ChildEof, Alive
    <3>4. CASE ChildWrite(c)
      BY <3>4 DEF ChildWrite, Alive
    <3>5. CASE ChildWriteLost(c)
      BY <3>5 DEF ChildWriteLost, Alive
    <3>6. CASE ChildClose(c)
      BY <3>6 DEF ChildClose, Alive
    <3> QED
      BY <1>2, <3>1, <3>2, <3>3, <3>4, <3>5, <3>6
      DEF ChildNext, ChildExit, ChildReadFails, ChildKilled
  <2>2. proc[c] \in Alive /\ UNCHANGED main
    BY ChildFrame
  <2>3. AbsProc(proc') = AbsProc(proc)
    BY <2>1, <2>2 DEF AbsProc
  <2> QED
    BY <2>1, <2>2, <2>3, AbsVars DEF main
<1> QED
  BY <1>1, <1>2

(* main()'s fork() is a spawn, its failing the parent's end.                *)
LEMMA MainReaping ==
  ASSUME TypeOK, OneProcessPerConnection, MainNext
  PROVE  \/ \E c \in Conns : Reaping!Spawn(c)
         \/ Reaping!ParentExit
         \/ UNCHANGED Reaping!vars
<1> USE DEF TypeOK
<1>1. CASE Accept \/ AcceptInterrupted \/ CloseClnt
  <2>1. proc' = proc /\ mainPc # "exited" /\ mainPc' # "exited" /\ UNCHANGED signal
    BY <1>1 DEF Accept, AcceptInterrupted, CloseClnt
  <2> QED
    BY <2>1, AbsVars DEF AbsParent
<1>2. CASE Fork
  <2>1. /\ clnt \in Conns /\ proc[clnt] = "none" /\ mainPc = "fork"
        /\ mainPc' = "close" /\ ~handling /\ UNCHANGED signal
        /\ proc' = [proc EXCEPT ![clnt] = "start"]
    BY <1>2 DEF Fork, OneProcessPerConnection
  <2>2. AbsProc(proc') = [AbsProc(proc) EXCEPT ![clnt] = "running"]
    BY <2>1 DEF AbsProc, Alive
  <2>3. AbsProc(proc)[clnt] = "none"
    BY <2>1 DEF AbsProc, Alive
  <2>4. AbsParent(mainPc) = "running" /\ AbsParent(mainPc') = "running"
    BY <2>1 DEF AbsParent
  <2>5. pending' = pending /\ handling' = handling
    BY <2>1 DEF signal
  <2>6. Reaping!Spawn(clnt)
    BY <2>1, <2>2, <2>3, <2>4, <2>5 DEF Reaping!Spawn, AbsProc, AbsParent
  <2>7. clnt \in Conns
    BY <2>1
  <2>8. \E c \in Conns : Reaping!Spawn(c)
    BY <2>6, <2>7 DEF Reaping!Spawn
  <2> QED
    BY <2>8
<1>3. CASE ForkFails
  <2>1. /\ mainPc = "fork" /\ mainPc' = "exited" /\ ~handling
        /\ pending' = FALSE /\ handling' = handling
        /\ proc' = [c \in Conns |->
                      IF proc[c] = "zombie" THEN "reaped" ELSE proc[c]]
    BY <1>3 DEF ForkFails
  <2>2. \A c \in Conns : AbsProc(proc)[c] = "zombie" <=> proc[c] = "zombie"
    BY DEF AbsProc, Alive
  <2>3. AbsProc(proc') =
          [c \in Conns |-> IF c \in { d \in Conns : AbsProc(proc)[d] = "zombie" }
                             THEN "reaped" ELSE AbsProc(proc)[c]]
    BY <2>1, <2>2 DEF AbsProc, Alive
  <2> QED
    BY <2>1, <2>3 DEF Reaping!ParentExit, Reaping!Zombies, AbsProc
<1> QED
  BY <1>1, <1>2, <1>3 DEF MainNext

(* read_chlidproc() is SigChld's handler.                                   *)
LEMMA HandlerReaping ==
  ASSUME TypeOK
  PROVE  /\ Deliver => Reaping!Deliver
         /\ Reap => Reaping!Reap
<1> USE DEF TypeOK
<1>1. ASSUME Deliver PROVE Reaping!Deliver
  BY <1>1 DEF Deliver, Reaping!Deliver, main
<1>2. ASSUME Reap PROVE Reaping!Reap
  <2>1. handling /\ handling' = FALSE /\ pending' = pending
    BY <1>2 DEF Reap
  <2>2. AbsParent(mainPc') = AbsParent(mainPc)
    BY <1>2 DEF Reap, AbsParent
  <2>3. Reaping!Zombies = { c \in Conns : proc[c] = "zombie" }
    BY DEF Reaping!Zombies, Alive
  <2>4. CASE \E c \in Conns : proc[c] = "zombie"
    <3>1. PICK c \in Conns :
            proc[c] = "zombie" /\ proc' = [proc EXCEPT ![c] = "reaped"]
      BY <1>2, <2>4 DEF Reap
    <3>2. AbsProc(proc') = [AbsProc(proc) EXCEPT ![c] = "reaped"]
      BY <3>1 DEF AbsProc, Alive
    <3> QED
      BY <2>1, <2>2, <2>3, <3>1, <3>2 DEF Reaping!Reap, AbsProc, AbsParent
  <2>5. CASE ~\E c \in Conns : proc[c] = "zombie"
    BY <1>2, <2>1, <2>2, <2>3, <2>5 DEF Reap, Reaping!Reap, AbsParent
  <2> QED
    BY <2>4, <2>5
<1> QED
  BY <1>1, <1>2

(* A stopped or continued process is one of SigChld's.                      *)
LEMMA StopReaping ==
  ASSUME TypeOK, NEW c \in Conns, StopOrContinue(c)
  PROVE  Reaping!StopOrContinue(c)
<1>1. /\ mainPc # "exited" /\ proc[c] \in Alive /\ pending' = TRUE
      /\ UNCHANGED <<mainPc, proc, handling>>
  BY DEF StopOrContinue, main
<1> QED
  BY <1>1 DEF Reaping!StopOrContinue

(* The server collects its children by the protocol of SigChld (its safety  *)
(* part: the fairness is checked by TLC only).                              *)
THEOREM ServerReaps == Safety => Reaping!Safety
<1>1. Init => Reaping!Init
  BY DEF Init, Reaping!Init, Alive
<1>2. TypeOK /\ OneProcessPerConnection /\ [Next]_vars
        => [Reaping!Next]_(Reaping!vars)
  <2> SUFFICES ASSUME TypeOK, OneProcessPerConnection, [Next]_vars
               PROVE  Reaping!Next \/ UNCHANGED Reaping!vars
    OBVIOUS
  <2>1. CASE MainNext
    BY <2>1, MainReaping DEF Reaping!Next
  <2>2. ASSUME NEW c \in Conns, ClientNext(c) PROVE UNCHANGED Reaping!vars
    <3>1. UNCHANGED <<proc, mainPc, signal>>
      BY <2>2 DEF ClientNext, Connect, CliSend, CliRead, CliClose, main
    <3> QED
      BY <3>1, AbsVars
  <2>3. ASSUME NEW c \in Conns, ChildNext(c)
        PROVE  Reaping!Next \/ UNCHANGED Reaping!vars
    BY <2>3, ChildReaping DEF Reaping!Next
  <2>4. CASE Deliver \/ Reap
    BY <2>4, HandlerReaping DEF Reaping!Next
  <2>5. ASSUME NEW c \in Conns, StopOrContinue(c) PROVE Reaping!StopOrContinue(c)
    BY <2>5, StopReaping
  <2>6. CASE UNCHANGED vars
    BY <2>6, AbsVars DEF vars, signal
  <2> QED
    BY <2>1, <2>2, <2>3, <2>4, <2>5, <2>6 DEF Next, Reaping!Next
<1> QED
  BY <1>1, <1>2, TypeCorrect, OneProcess, PTL DEF Safety, Reaping!Safety

\* SigChld's theorems, for the server's children.  Those used here do not
\* mention the history variable.
Collecting == INSTANCE SigChld_proofs WITH
  Children <- Conns,
  proc <- [c \in Conns |-> IF proc[c] \in Alive THEN "running" ELSE proc[c]],
  parent <- IF mainPc = "exited" THEN "exited" ELSE "running",
  strays <- 0

(* The two instances are of one module.                                     *)
LEMMA CollectingIsReaping == Reaping!Safety => Collecting!Safety
<1>1. Reaping!Init => Collecting!Init
  BY DEF Reaping!Init, Collecting!Init
<1>2. [Reaping!Next]_(Reaping!vars) => [Collecting!Next]_(Collecting!vars)
  BY DEF Reaping!Next, Collecting!Next, Reaping!vars, Collecting!vars,
    Reaping!Spawn, Collecting!Spawn, Reaping!Exit, Collecting!Exit,
    Reaping!StopOrContinue, Collecting!StopOrContinue,
    Reaping!Deliver, Collecting!Deliver, Reaping!Reap, Collecting!Reap,
    Reaping!ParentExit, Collecting!ParentExit, Reaping!Zombies,
    Collecting!Zombies
<1> QED
  BY <1>1, <1>2, PTL DEF Reaping!Safety, Collecting!Safety

(* What looks like a stop or a continuation in SigChld is one.              *)
LEMMA OnlyStopsAreStops ==
  ASSUME TypeOK, [Next]_vars, [\A c \in Conns : ~StopOrContinue(c)]_vars
  PROVE  [\A c \in Conns : ~Collecting!StopOrContinue(c)]_(Collecting!vars)
<1> SUFFICES ASSUME NEW c \in Conns, Collecting!StopOrContinue(c)
             PROVE  UNCHANGED Collecting!vars
  OBVIOUS
<1>1. /\ pending' = TRUE /\ AbsProc(proc') = AbsProc(proc)
      /\ AbsParent(mainPc') = AbsParent(mainPc) /\ handling' = handling
  BY DEF Collecting!StopOrContinue, AbsProc, AbsParent
<1>2. SUFFICES pending
  BY <1>1 DEF TypeOK, Collecting!vars, AbsProc, AbsParent
<1>3. CASE MainNext \/ Deliver \/ Reap
  BY <1>1, <1>3 DEF MainNext, Accept, AcceptInterrupted, Fork, CloseClnt,
    ForkFails, Deliver, Reap, signal, TypeOK
<1>4. ASSUME NEW d \in Conns, ClientNext(d) PROVE pending
  BY <1>1, <1>4 DEF ClientNext, Connect, CliSend, CliRead, CliClose, signal
<1>5. ASSUME NEW d \in Conns, ChildNext(d) PROVE pending
  <2>1. CASE Reaping!Exit(d)
    BY <1>1, <2>1 DEF Reaping!Exit, AbsProc, TypeOK
  <2>2. CASE UNCHANGED Reaping!vars
    BY <1>1, <2>2 DEF Reaping!vars
  <2> QED
    BY <1>5, <2>1, <2>2, ChildReaping
<1>6. CASE UNCHANGED vars
  BY <1>1, <1>6 DEF vars
<1> QED
  BY <1>3, <1>4, <1>5, <1>6 DEF Next

(* In the server, too, a child that ends is left behind only if its signal  *)
(* merges with a pending one, or a handler run has found no zombie; and one *)
(* left behind is won back only by the signal of a process that is stopped  *)
(* or continued.                                                            *)
THEOREM ServerLosesByMerging == Safety => Collecting!LossesAreMerges
<1>1. Collecting!ChildrenAssumption
  BY ConnsAssumption DEF IsFiniteSet, Collecting!IsFiniteSet
<1>2. Collecting!Safety => Collecting!LossesAreMerges
  BY <1>1, Collecting!OnlyMergesLose, PTL
<1> QED
  BY <1>2, CollectingIsReaping, ServerReaps, PTL

(* While no process of the server is stopped or continued, its handler      *)
(* always has a child to collect: line 124 prints the number of one.        *)
THEOREM ServerHandlerFindsZombie ==
  Safety /\ [][\A c \in Conns : ~StopOrContinue(c)]_vars
    => [](handling => \E c \in Conns : proc[c] = "zombie")
<1>1. Collecting!ChildrenAssumption
  BY ConnsAssumption DEF IsFiniteSet, Collecting!IsFiniteSet
<1>2. Collecting!Safety
        /\ [][\A c \in Conns : ~Collecting!StopOrContinue(c)]_(Collecting!vars)
        => [](handling => Collecting!Zombies # {})
  BY <1>1, Collecting!ExitsAloneBringZombies, PTL
<1>3. TypeOK /\ [Next]_vars /\ [\A c \in Conns : ~StopOrContinue(c)]_vars
        => [\A c \in Conns : ~Collecting!StopOrContinue(c)]_(Collecting!vars)
  BY OnlyStopsAreStops
<1>4. Collecting!Zombies # {} => \E c \in Conns : proc[c] = "zombie"
  BY DEF Collecting!Zombies, Alive
<1> QED
  BY <1>2, <1>3, <1>4, CollectingIsReaping, ServerReaps, TypeCorrect, PTL
  DEF Safety

-----------------------------------------------------------------------------
\* Every buffer and both directions of the connection hold bytes typed so far.
Typed == Seq(1..count)
StreamTypes == StreamTypeOK /\ conn.up \in Typed /\ conn.down \in Typed

\* The client holds its end as long as it runs, and hears of no reset before
\* the server is gone.
ClientHere == conn.cli = "open"
OpenWhileRuns ==
  /\ cpc \in {"input", "write", "read"} <=> ClientHere
  /\ ClientHere /\ ServerThere => conn.rst = "none"

\* One fgets() of the server returns all the client's buffer or, no newline
\* having been typed, nothing.
AtMostAll == Lines(input) \subseteq {Len(input)}

\* The server's buffer still has what it echoed last.
Repeats ==
  IF asked = <<>> THEN line = <<>> ELSE line = Final(asked) /\ InOneCall(line)

\* Where the one buffer that is on its way can be: nowhere ...
Idle ==
  /\ spc = "read" /\ ~feof
  /\ conn.up = <<>> /\ conn.down = <<>>
  /\ stdout = asked /\ Repeats
  /\ conn.rst = "pending" => line # <<>>
  /\ cpc = "input" => answer = input
  /\ cpc = "read" => input = <<>>

\* ... with the server's kernel, ...
SentWhole ==
  /\ spc = "read" /\ ~feof
  /\ conn.up = input /\ input # <<>> /\ conn.down = <<>>
  /\ asked = Append(stdout, input)
  /\ ClientHere => cpc = "read"

\* ... in the server's hands, ...
Echoing ==
  /\ spc = "write" /\ ~feof
  /\ conn.up = <<>> /\ conn.down = <<>>
  /\ line = input /\ input # <<>> /\ InOneCall(input)
  /\ asked = Append(stdout, line)
  /\ ClientHere => cpc = "read"

\* ... or with the client's kernel.
Echoed ==
  /\ spc = "read" /\ ~feof
  /\ conn.up = <<>> /\ conn.down = input /\ input # <<>>
  /\ line = input
  /\ stdout = asked /\ Repeats
  /\ cpc = "read"

\* The client has gone.  A reset was read: the next write() kills the server.
Failed ==
  /\ spc = "write" /\ ~feof /\ ~ClientHere
  /\ line # <<>> /\ conn.rst = "reported"

\* The end of the file was read in the place of a line ...
LastAgain ==
  /\ spc = "write" /\ feof /\ ~ClientHere
  /\ stdout = asked /\ Repeats

\* ... or after the part of one.
LastOnce ==
  /\ spc = "write" /\ feof /\ ~ClientHere
  /\ asked = Append(stdout, line) /\ line # <<>> /\ ~InOneCall(line)

InStep ==
  ServerThere =>
    Idle \/ SentWhole \/ Echoing \/ Echoed \/ Failed \/ LastAgain \/ LastOnce
AfterEnd == spc = "done" => ~ClientHere /\ LastLineTwice

\* The inductive invariant.
StreamInv == StreamTypes /\ OpenWhileRuns /\ AtMostAll /\ InStep /\ AfterEnd

\* Lines, the newlines made a parameter.
Cuts(s, E) ==
  { n \in 1..(BufSize - 1) :
      /\ n <= Len(s)
      /\ n = BufSize - 1 \/ s[n] \in E
      /\ \A m \in 1..(n - 1) : s[m] \notin E }

(* What fgets() returns depends on the newlines typed so far.               *)
LEMMA LinesCuts ==
  /\ \A s : Lines(s) = Cuts(s, ends)
  /\ \A s : InOneCall(s) <=> Cuts(s, ends) # {}
BY DEF Lines, Cuts, InOneCall

(* Of nothing it returns nothing.                                           *)
LEMMA CutsEmpty == \A E : Cuts(<<>>, E) = {}
BY StreamAssumption, TcpAssumption DEF Cuts

(* ... and only on those among the bytes it looks at.                       *)
LEMMA CutsKeep ==
  ASSUME NEW c \in Nat, NEW s \in Seq(1..c), NEW E, NEW F,
         \A i \in 1..c : i \in E <=> i \in F
  PROVE  Cuts(s, E) = Cuts(s, F)
<1>1. ASSUME NEW n \in 1..(BufSize - 1), n <= Len(s)
      PROVE  /\ s[n] \in 1..c /\ \A m \in 1..(n - 1) : s[m] \in 1..c
  BY <1>1, TcpAssumption, StreamAssumption
<1>2. ASSUME NEW n \in 1..(BufSize - 1)
      PROVE  n \in Cuts(s, E) <=> n \in Cuts(s, F)
  BY <1>1, Zenon DEF Cuts
<1>3. Cuts(s, E) \subseteq 1..(BufSize - 1)
      /\ Cuts(s, F) \subseteq 1..(BufSize - 1)
  BY DEF Cuts
<1> QED
  BY <1>2, <1>3

(* Bytes typed so far will have been typed later on.                        *)
LEMMA SeqGrows ==
  ASSUME NEW c \in Nat, NEW d \in Nat, c <= d
  PROVE  /\ Seq(1..c) \subseteq Seq(1..d)
         /\ Seq(Seq(1..c)) \subseteq Seq(Seq(1..d))
<1>1. 1..c \subseteq 1..d
  OBVIOUS
<1>2. \A S, T : S \subseteq T => Seq(S) \subseteq Seq(T)
  OBVIOUS
<1> QED
  BY <1>1, <1>2, Zenon

(* The fields of a connection.                                              *)
LEMMA ConnectionFields ==
  ASSUME NEW k \in Connection
  PROVE  /\ k.up \in Seq(Nat) /\ k.down \in Seq(Nat)
         /\ k.cli \in {"none", "open", "fin", "aborted"}
         /\ k.rst \in {"none", "pending", "reported"}
BY DEF Connection

(* What the client's close() does to them.                                  *)
LEMMA LeftFields ==
  ASSUME NEW k \in Connection
  PROVE  /\ Left(k).up = k.up /\ Left(k).down = <<>> /\ Left(k).cli # "open"
         /\ Left(k).cli = "fin" => k.down = <<>>
         /\ Left(k).rst = IF k.down = <<>> THEN k.rst ELSE "pending"
BY DEF Connection, Left

(* fgets() returns at least a byte, and no more than there are or the       *)
(* buffer holds.                                                            *)
LEMMA LinesRange ==
  \A s : \A n \in Lines(s) :
    n \in Nat /\ 1 <= n /\ n <= Len(s) /\ n <= BufSize - 1
BY StreamAssumption, TcpAssumption DEF Lines

(* What the user types is a buffer of its own.                              *)
LEMMA NewInput ==
  ASSUME NEW c \in Nat, NEW n \in 1..(BufSize - 1)
  PROVE  /\ [i \in 1..n |-> c + i] \in Seq(1..(c + n))
         /\ Len([i \in 1..n |-> c + i]) = n
         /\ [i \in 1..n |-> c + i] # <<>>
<1>1. n \in Nat /\ 1 <= n
  BY TcpAssumption
<1>2. [i \in 1..n |-> c + i] \in Seq(1..(c + n))
  <2>1. \A i \in 1..n : c + i \in 1..(c + n)
    BY <1>1
  <2> QED
    BY <1>1, <2>1
<1>3. Len([i \in 1..n |-> c + i]) = n
  BY <1>1
<1> QED
  BY <1>1, <1>2, <1>3

(* What fgets() takes out of a buffer, and what it leaves there.            *)
LEMMA PartOfBuffer ==
  ASSUME NEW c \in Nat, NEW s \in Seq(1..c), NEW n \in Lines(s)
  PROVE  /\ Front(s, n) \in Seq(1..c) /\ Len(Front(s, n)) = n
         /\ Rest(s, n) \in Seq(1..c) /\ Len(Rest(s, n)) = Len(s) - n
<1>1. n \in Nat /\ 1 <= n /\ n <= Len(s) /\ Len(s) \in Nat
  BY LinesRange
<1> QED
  BY <1>1 DEF Front, Rest

(* All of a sequence, and what is left of it.                               *)
LEMMA AllOfBuffer ==
  ASSUME NEW S, NEW s \in Seq(S)
  PROVE  Front(s, Len(s)) = s /\ Rest(s, Len(s)) = <<>>
<1>1. Len(s) \in Nat
  OBVIOUS
<1>2. Front(s, Len(s)) = s
  BY <1>1 DEF Front
<1>3. Rest(s, Len(s)) \in Seq(S) /\ Len(Rest(s, Len(s))) = 0
  BY <1>1 DEF Rest
<1> QED
  BY <1>2, <1>3, EmptySeq

(* What the types say, conjunct by conjunct.                                *)
LEMMA TypesApart ==
  StreamTypes <=>
    /\ conn \in Connection
    /\ crst \in {"none", "pending", "reported"}
    /\ cpc \in {"input", "write", "read", "done", "killed"}
    /\ spc \in {"read", "write", "done", "killed"}
    /\ stdinEof \in BOOLEAN /\ feof \in BOOLEAN
    /\ count \in 0..MaxTyped
    /\ ends \subseteq 1..count
    /\ input \in Typed /\ answer \in Typed /\ line \in Typed
    /\ Len(input) <= BufSize - 1 /\ Len(answer) <= BufSize - 1
    /\ Len(line) <= BufSize - 1
    /\ conn.up \in Typed /\ conn.down \in Typed
    /\ Len(conn.up) < BufSize /\ Len(conn.down) < BufSize
    /\ asked \in Seq(Typed) /\ stdout \in Seq(Typed)
BY DEF StreamTypes, StreamTypeOK, Typed

(* Bytes are numbers.                                                       *)
LEMMA TypedInNat == StreamTypes => count \in Nat /\ Typed \subseteq Seq(Nat)
<1> SUFFICES ASSUME StreamTypes PROVE count \in Nat /\ Typed \subseteq Seq(Nat)
  OBVIOUS
<1>1. count \in Nat
  BY TypesApart, StreamAssumption
<1>2. 1..count \subseteq Nat
  BY <1>1
<1>3. \A S, T : S \subseteq T => Seq(S) \subseteq Seq(T)
  OBVIOUS
<1> QED
  BY <1>1, <1>2, <1>3, Zenon DEF Typed

(* Typing keeps the types.                                                  *)
LEMMA TypingTypes ==
  ASSUME StreamTypes, NEW n \in 1..(BufSize - 1), NEW isLine, Types(n, isLine),
         stdinEof' \in BOOLEAN
  PROVE  StreamTypes'
<1>1. /\ conn' = conn /\ crst' = crst /\ answer' = answer /\ spc' = spc
      /\ feof' = feof
      /\ line' = line /\ stdout' = stdout /\ asked' = asked
      /\ input' = [i \in 1..n |-> count + i] /\ count' = count + n
      /\ count + n <= MaxTyped /\ cpc' = "write"
      /\ ends' = IF isLine THEN ends \union {count + n} ELSE ends
  BY DEF Types, server
<1>2. count \in Nat /\ n \in Nat /\ 1 <= n /\ count \in 0..MaxTyped
      /\ ends \subseteq 1..count
  BY TypesApart, TypedInNat, TcpAssumption
<1>3. count' \in 0..MaxTyped /\ count' \in Nat /\ count <= count'
      /\ ends' \subseteq 1..count'
  BY <1>1, <1>2, StreamAssumption
<1>4. Typed \subseteq Typed' /\ Seq(Typed) \subseteq Seq(Typed')
  BY <1>2, <1>3, SeqGrows DEF Typed
<1>5. input' \in Typed' /\ Len(input') <= BufSize - 1
  <2>1. input' \in Seq(1..(count + n)) /\ Len(input') = n
    BY <1>1, <1>2, NewInput, Zenon
  <2> QED
    BY <1>1, <2>1, <1>2, StreamAssumption, TcpAssumption DEF Typed
<1>6. /\ conn.up \in Typed' /\ conn.down \in Typed' /\ answer \in Typed'
      /\ line \in Typed'
      /\ asked \in Seq(Typed') /\ stdout \in Seq(Typed')
  BY <1>4, TypesApart
<1> QED
  BY <1>1, <1>3, <1>5, <1>6, TypesApart DEF StreamTypes, StreamTypeOK, Typed

(* The client's other steps keep them; its write finds the connection       *)
(* empty.                                                                   *)
LEMMA ClientTypes ==
  ASSUME StreamTypes, OpenWhileRuns, InStep,
         TypeEof \/ Quit \/ ClientRuns \/ CliKilled
  PROVE  StreamTypes'
<1>1. count' = count /\ ends' = ends /\ input' = input /\ feof' = feof
      /\ line' = line
      /\ stdout' = stdout /\ spc' = spc /\ Typed' = Typed
  BY DEF TypeEof, Quit, ClientRuns, CliKilled, CliWrite, CliWriteLost,
    CliSigpipe, CliGets, CliGetsEof, server, Typed
<1>2. conn \in Connection /\ count \in Nat /\ Typed \subseteq Seq(Nat)
      /\ conn.up \in Typed /\ conn.down \in Typed /\ input \in Typed
      /\ asked \in Seq(Typed)
  BY TypesApart, TypedInNat
<1>3. <<>> \in Typed /\ Len(<<>>) = 0 /\ BufSize \in Nat /\ BufSize > 1
  BY StreamAssumption, TcpAssumption DEF Typed
<1>4. CASE TypeEof
  BY <1>4, <1>1, TypesApart DEF TypeEof, StreamTypes, StreamTypeOK, Typed,
    server
<1>5. CASE Quit \/ CliSigpipe \/ CliKilled
  <2>1. /\ conn' = Left(conn) /\ cpc' \in {"done", "killed"} /\ crst' = crst
        /\ stdinEof' = stdinEof /\ answer' = answer /\ asked' = asked
    BY <1>5 DEF Quit, CliSigpipe, CliKilled
  <2>2. conn' \in Connection
    BY <2>1, <1>2, ClientOpsType, Zenon
  <2>3. conn'.up = conn.up /\ conn'.down = <<>>
    BY <2>1, <1>2, LeftFields
  <2> QED
    BY <2>1, <2>2, <2>3, <1>1, <1>3, TypesApart DEF StreamTypes, StreamTypeOK,
      Typed
<1>6. CASE CliWrite
  <2>1. /\ conn' = [conn EXCEPT !.up = @ \o input] /\ crst' = crst
        /\ cpc' = "read"
        /\ asked' = IF input = <<>> THEN asked ELSE Append(asked, input)
        /\ stdinEof' = stdinEof /\ answer' = answer
    BY <1>6 DEF CliWrite
  <2>2. conn.up = <<>>
    BY <1>6 DEF CliWrite, InStep, ServerThere, OpenWhileRuns, Idle, SentWhole,
      Echoing, Echoed, Failed, LastAgain, LastOnce, ClientHere
  <2>3. conn.up \o input = input /\ input \in Seq(Nat)
    BY <2>2, <1>2
  <2>4. conn' \in Connection /\ conn'.up = input /\ conn'.down = conn.down
    BY <2>1, <2>3, <1>2 DEF Connection
  <2>5. asked' \in Seq(Typed)
    BY <2>1, <1>2
  <2>6. Len(input) < BufSize
    BY TypesApart, TcpAssumption, <1>2 DEF Typed
  <2> QED
    BY <2>1, <2>4, <2>5, <2>6, <1>1, TypesApart DEF StreamTypes, StreamTypeOK,
      Typed
<1>7. CASE CliWriteLost
  BY <1>7, <1>1, TypesApart DEF CliWriteLost, StreamTypes, StreamTypeOK, Typed,
    server
<1>8. CASE CliGets
  <2>1. PICK n \in Lines(conn.down) : answer' = Front(conn.down, n)
        /\ conn' = Taken(conn, n)
    BY <1>8 DEF CliGets
  <2>2. /\ cpc' = "input" /\ crst' = crst /\ stdinEof' = stdinEof
        /\ asked' = asked
    BY <1>8 DEF CliGets
  <2>3. n \in Nat /\ 1 <= n /\ n <= Len(conn.down) /\ n <= BufSize - 1
    BY LinesRange
  <2>4. answer' \in Typed /\ Len(answer') = n /\ Rest(conn.down, n) \in Typed
        /\ Len(Rest(conn.down, n)) = Len(conn.down) - n
    BY <2>1, <1>2, PartOfBuffer DEF Typed
  <2>5. conn' \in Connection /\ conn'.up = conn.up
        /\ conn'.down = Rest(conn.down, n)
    BY <2>1, <2>4, <1>2 DEF Connection, Taken
  <2>6. Len(conn'.down) < BufSize
    <3>1. Len(conn.down) < BufSize /\ Len(conn.down) \in Nat
      BY TypesApart, <1>2 DEF Typed
    <3>2. Len(Rest(conn.down, n)) < BufSize
      BY <3>1, <2>3, <2>4, <1>3
    <3> QED
      BY <3>2, <2>5
  <2> QED
    BY <2>1, <2>2, <2>3, <2>4, <2>5, <2>6, <1>1, TypesApart DEF StreamTypes,
      StreamTypeOK, Typed
<1>9. CASE CliGetsEof
  <2>1. /\ answer' = IF conn.down = <<>> THEN answer ELSE conn.down
        /\ conn' = Taken(conn, Len(conn.down))
        /\ crst' = IF crst = "pending" THEN "reported" ELSE crst
        /\ cpc' = "input" /\ stdinEof' = stdinEof /\ asked' = asked
    BY <1>9 DEF CliGetsEof
  <2>2. Rest(conn.down, Len(conn.down)) = <<>>
    BY <1>2, AllOfBuffer DEF Typed
  <2>3. conn' \in Connection /\ conn'.up = conn.up /\ conn'.down = <<>>
    <3>1. Taken(conn, Len(conn.down)) = [conn EXCEPT !.down = <<>>]
      BY <2>2 DEF Taken
    <3>2. <<>> \in Seq(Nat)
      OBVIOUS
    <3> QED
      BY <2>1, <3>1, <3>2, <1>2 DEF Connection
  <2>4. answer' \in Typed /\ Len(answer') <= BufSize - 1
    <3>1. Len(conn.down) < BufSize /\ Len(conn.down) \in Nat
      BY TypesApart, <1>2 DEF Typed
    <3> QED
      BY <3>1, <2>1, TypesApart, <1>3
  <2>5. crst' \in {"none", "pending", "reported"}
    BY <2>1, TypesApart
  <2> QED
    BY <2>1, <2>3, <2>4, <2>5, <1>1, <1>3, TypesApart DEF StreamTypes,
      StreamTypeOK, Typed
<1> QED
  BY <1>4, <1>5, <1>6, <1>7, <1>8, <1>9 DEF ClientRuns

(* So do the server's; its write finds the other direction empty.           *)
LEMMA ServerTypes ==
  ASSUME StreamTypes, OpenWhileRuns, InStep, ServerRuns \/ ServKilled
  PROVE  StreamTypes'
<1>1. count' = count /\ ends' = ends /\ input' = input /\ answer' = answer
      /\ cpc' = cpc
      /\ stdinEof' = stdinEof /\ asked' = asked /\ Typed' = Typed
  BY DEF ServerRuns, ServKilled, ServGets, ServGetsEof, ServGetsFails,
    ServWrite, ServWriteLost, ServSigpipe, ServGone, ServPrints, client, Typed
<1>2. conn \in Connection /\ count \in Nat /\ Typed \subseteq Seq(Nat)
      /\ conn.up \in Typed /\ conn.down \in Typed /\ line \in Typed
      /\ stdout \in Seq(Typed)
  BY TypesApart, TypedInNat
<1>3. <<>> \in Typed /\ Len(<<>>) = 0 /\ BufSize \in Nat /\ BufSize > 1
      /\ <<>> \in Seq(Nat)
  BY StreamAssumption, TcpAssumption DEF Typed
<1>4. CASE ServGets
  <2>1. PICK n \in Lines(conn.up) : line' = Front(conn.up, n)
        /\ conn' = AfterRead(conn, n)
    BY <1>4 DEF ServGets
  <2>2. /\ spc' = "write" /\ crst' = crst /\ feof' = feof /\ stdout' = stdout
    BY <1>4 DEF ServGets
  <2>3. n \in Nat /\ 1 <= n /\ n <= Len(conn.up) /\ n <= BufSize - 1
    BY LinesRange
  <2>4. line' \in Typed /\ Len(line') = n /\ Rest(conn.up, n) \in Typed
        /\ Len(Rest(conn.up, n)) = Len(conn.up) - n
    BY <2>1, <1>2, PartOfBuffer DEF Typed
  <2>5. conn' \in Connection /\ conn'.down = conn.down
        /\ conn'.up = Rest(conn.up, n)
    BY <2>1, <2>4, <1>2 DEF Connection, AfterRead
  <2>6. Len(conn'.up) < BufSize
    <3>1. Len(conn.up) < BufSize /\ Len(conn.up) \in Nat
      BY TypesApart, <1>2 DEF Typed
    <3>2. Len(Rest(conn.up, n)) < BufSize
      BY <3>1, <2>3, <2>4, <1>3
    <3> QED
      BY <3>2, <2>5
  <2> QED
    BY <2>2, <2>3, <2>4, <2>5, <2>6, <1>1, TypesApart DEF StreamTypes,
      StreamTypeOK, Typed
<1>5. CASE ServGetsEof
  <2>1. /\ line' = IF conn.up = <<>> THEN line ELSE conn.up
        /\ conn' = AfterRead(conn, Len(conn.up))
        /\ feof' = TRUE /\ spc' = "write" /\ crst' = crst /\ stdout' = stdout
    BY <1>5 DEF ServGetsEof
  <2>2. Rest(conn.up, Len(conn.up)) = <<>>
    BY <1>2, AllOfBuffer DEF Typed
  <2>3. conn' \in Connection /\ conn'.down = conn.down /\ conn'.up = <<>>
    <3>1. AfterRead(conn, Len(conn.up)) = [conn EXCEPT !.up = <<>>]
      BY <2>2 DEF AfterRead
    <3> QED
      BY <2>1, <3>1, <1>3, <1>2 DEF Connection
  <2>4. line' \in Typed /\ Len(line') <= BufSize - 1
    <3>1. Len(conn.up) < BufSize /\ Len(conn.up) \in Nat
      BY TypesApart, <1>2 DEF Typed
    <3> QED
      BY <3>1, <2>1, TypesApart, <1>3
  <2> QED
    BY <2>1, <2>3, <2>4, <1>1, <1>3, TypesApart DEF StreamTypes, StreamTypeOK,
      Typed
<1>6. CASE ServGetsFails
  <2>1. /\ conn' = Reported(conn) /\ spc' = "write" /\ crst' = crst
        /\ feof' = feof
        /\ line' = line /\ stdout' = stdout
    BY <1>6 DEF ServGetsFails
  <2>2. conn' \in Connection /\ conn'.up = conn.up /\ conn'.down = conn.down
    BY <2>1, <1>2 DEF Connection, Reported
  <2> QED
    BY <2>1, <2>2, <1>1, TypesApart DEF StreamTypes, StreamTypeOK, Typed
<1>7. ASSUME ServPrints
      PROVE  /\ stdout' \in Seq(Typed) /\ spc' \in {"read", "done"}
             /\ crst' = crst /\ feof' = feof /\ line' = line
  BY <1>7, <1>2 DEF ServPrints
<1>8. CASE ServWrite
  <2>1. conn' = AfterWrite(conn, line, Len(line)) /\ ServPrints
    BY <1>8 DEF ServWrite
  <2>2. conn.down = <<>>
    BY <1>8 DEF ServWrite, InStep, ServerThere, OpenWhileRuns, Idle, SentWhole,
      Echoing, Echoed, Failed, LastAgain, LastOnce, ClientHere
  <2>3. conn.down \o Front(line, Len(line)) = line /\ line \in Seq(Nat)
    BY <2>2, <1>2, AllOfBuffer DEF Typed
  <2>4. conn' \in Connection /\ conn'.down = line /\ conn'.up = conn.up
    <3>1. AfterWrite(conn, line, Len(line)) = [conn EXCEPT !.down = line]
      BY <2>3 DEF AfterWrite
    <3> QED
      BY <2>1, <3>1, <2>3, <1>2 DEF Connection
  <2>5. Len(line) < BufSize
    BY TypesApart, <1>3, <1>2 DEF Typed
  <2> QED
    BY <2>1, <2>4, <2>5, <1>1, <1>7, TypesApart DEF StreamTypes, StreamTypeOK,
      Typed
<1>9. CASE ServWriteLost
  <2>1. ServPrints
    BY <1>9 DEF ServWriteLost
  <2>2. conn' = conn \/ conn' = AfterReset(conn) \/ conn' = Reported(conn)
    BY <1>9 DEF ServWriteLost
  <2>3. conn' \in Connection /\ conn'.up = conn.up /\ conn'.down = conn.down
    BY <2>2, <1>2 DEF Connection, Reported, AfterReset
  <2> QED
    BY <2>1, <2>3, <1>1, <1>7, TypesApart DEF StreamTypes, StreamTypeOK, Typed
<1>10. CASE ServSigpipe \/ ServKilled
  <2>1. ServGone
    BY <1>10 DEF ServSigpipe, ServKilled
  <2> QED
    BY <2>1, <1>1, TypesApart DEF ServGone, StreamTypes, StreamTypeOK, Typed
<1> QED
  BY <1>4, <1>5, <1>6, <1>8, <1>9, <1>10 DEF ServerRuns

\* Newlines typed before stay what they are.
Agree == \A i \in 1..count : i \in ends' <=> i \in ends

(* What the user types later does not change how bytes typed before are cut *)
(* into lines ...                                                           *)
LEMMA OneCallStays ==
  ASSUME StreamTypes, Agree
  PROVE  \A s \in Typed : Cuts(s, ends') = Cuts(s, ends)
<1> SUFFICES ASSUME NEW s \in Typed PROVE Cuts(s, ends') = Cuts(s, ends)
  OBVIOUS
<1>1. count \in Nat /\ s \in Seq(1..count)
  BY TypedInNat DEF Typed
<1> QED
  BY <1>1, CutsKeep, Zenon DEF Agree

(* ... nor which buffer the server will send again.                         *)
LEMMA RepeatsStays ==
  ASSUME StreamTypes, Agree, asked' = asked, line' = line
  PROVE  Repeats' <=> Repeats
<1>1. Cuts(line, ends') = Cuts(line, ends)
  BY OneCallStays, TypesApart
<1> QED
  BY <1>1 DEF Repeats, InOneCall, Lines, Cuts, Final

(* Every step leaves the newlines typed before as they are.                 *)
LEMMA StepsAgree ==
  ASSUME StreamTypes, StreamNext
  PROVE  Agree
<1>1. CASE ends' = ends
  BY <1>1 DEF Agree
<1>2. ASSUME NEW n \in 1..BufSize, NEW isLine, Types(n, isLine) PROVE Agree
  <2>1. count \in Nat /\ n \in Nat /\ 1 <= n
    BY TypedInNat, TcpAssumption
  <2> QED
    BY <1>2, <2>1 DEF Types, Agree
<1>3. CASE TypeLine \/ TypePart \/ TypeRest
  <2>1. 1..(BufSize - 1) \subseteq 1..BufSize
        /\ 1..(BufSize - 2) \subseteq 1..BufSize
        /\ BufSize - 1 \in 1..BufSize
    BY StreamAssumption, TcpAssumption
  <2> QED
    BY <1>2, <1>3, <2>1, Zenon DEF TypeLine, TypePart, TypeRest
<1>4. CASE TypeEof \/ Quit \/ ClientRuns \/ CliKilled
           \/ ServerRuns \/ ServKilled
  BY <1>1, <1>4 DEF TypeEof, Quit, ClientRuns, CliKilled, CliWrite,
    CliWriteLost, CliSigpipe, CliGets, CliGetsEof, ServerRuns, ServKilled,
    ServGets, ServGetsEof, ServGetsFails, ServWrite, ServWriteLost, ServSigpipe,
    ServGone, ServPrints, client
<1> QED
  BY <1>3, <1>4 DEF StreamNext

(* The client's end stays open as long as the client runs.                  *)
LEMMA OpenStep ==
  ASSUME StreamTypes, OpenWhileRuns, StreamNext
  PROVE  OpenWhileRuns'
<1>1. conn \in Connection
  BY TypesApart
<1>2. CASE TypeLine \/ TypePart \/ TypeRest \/ TypeEof
  BY <1>2 DEF OpenWhileRuns, TypeLine, TypePart, TypeRest, TypeEof, Types,
    ClientHere, ServerThere, server
<1>3. CASE Quit \/ CliSigpipe \/ CliKilled
  <2>1. conn' = Left(conn) /\ cpc' \in {"done", "killed"}
    BY <1>3 DEF Quit, CliSigpipe, CliKilled
  <2>2. Left(conn).cli # "open"
    BY <1>1, LeftFields
  <2> QED
    BY <2>1, <2>2 DEF OpenWhileRuns, ClientHere
<1>4. CASE CliWrite \/ CliWriteLost
  BY <1>4, <1>1 DEF OpenWhileRuns, CliWrite, CliWriteLost, ClientHere,
    ServerThere, server, Connection
<1>5. CASE CliGets \/ CliGetsEof
  <2>1. \E n : conn' = Taken(conn, n)
    BY <1>5, Zenon DEF CliGets, CliGetsEof
  <2>2. conn'.cli = conn.cli /\ conn'.rst = conn.rst
    BY <2>1, <1>1 DEF Taken, Connection
  <2>3. cpc = "read" /\ cpc' = "input" /\ spc' = spc
    BY <1>5 DEF CliGets, CliGetsEof, server
  <2> QED
    BY <2>2, <2>3 DEF OpenWhileRuns, ClientHere, ServerThere
<1>6. CASE ServGets \/ ServGetsEof \/ ServWrite
  <2>1. \/ \E n : conn' = AfterRead(conn, n)
        \/ conn' = AfterWrite(conn, line, Len(line))
    BY <1>6, Zenon DEF ServGets, ServGetsEof, ServWrite
  <2>2. conn'.cli = conn.cli /\ conn'.rst = conn.rst
    BY <2>1, <1>1 DEF AfterRead, AfterWrite, Connection
  <2>3. cpc' = cpc /\ ServerThere
    BY <1>6 DEF ServGets, ServGetsEof, ServWrite, ServPrints, client,
      ServerThere
  <2> QED
    BY <2>2, <2>3 DEF OpenWhileRuns, ClientHere
<1>7. CASE ServGetsFails \/ ServWriteLost
  <2>1. \/ conn' = Reported(conn) /\ conn.rst = "pending"
        \/ conn' = AfterReset(conn) /\ conn.cli = "fin"
        \/ conn' = conn
    BY <1>7 DEF ServGetsFails, ServWriteLost, ReadFails, WriteDrawsReset,
      WriteFails
  <2>2. conn'.cli = conn.cli
    BY <2>1, <1>1 DEF Reported, AfterReset, Connection
  <2>3. cpc' = cpc /\ ServerThere
    BY <1>7 DEF ServGetsFails, ServWriteLost, ServPrints, client, ServerThere
  <2>4. conn' = conn \/ ~ClientHere
    BY <2>1, <2>3 DEF OpenWhileRuns, ClientHere
  <2> QED
    BY <2>2, <2>3, <2>4 DEF OpenWhileRuns, ClientHere
<1>8. CASE ServSigpipe \/ ServKilled
  BY <1>8 DEF OpenWhileRuns, ServSigpipe, ServKilled, ServGone, ClientHere,
    ServerThere, client
<1> QED
  BY <1>2, <1>3, <1>4, <1>5, <1>6, <1>7, <1>8 DEF StreamNext, ClientRuns,
    ServerRuns

(* A new buffer has no newline before its last byte ...                     *)
LEMMA NewInputCut ==
  ASSUME NEW c \in Nat, NEW n \in 1..(BufSize - 1), NEW E,
         NEW F \in {E, E \union {c + n}},
         E \subseteq 1..c
  PROVE  Cuts([i \in 1..n |-> c + i], F) \subseteq {n}
<1>1. n \in Nat /\ 1 <= n /\ n <= BufSize - 1 /\ BufSize \in Nat
  BY TcpAssumption
<1>2. Len([i \in 1..n |-> c + i]) = n
  BY <1>1
<1> SUFFICES ASSUME NEW m \in Cuts([i \in 1..n |-> c + i], F) PROVE m = n
  OBVIOUS
<1>3. /\ m \in 1..(BufSize - 1) /\ m <= n
      /\ m = BufSize - 1 \/ [i \in 1..n |-> c + i][m] \in F
  BY <1>2 DEF Cuts
<1>4. [i \in 1..n |-> c + i][m] = c + m
  BY <1>1, <1>3
<1>5. c + m \in F => m = n
  BY <1>1, <1>3
<1> QED
  BY <1>1, <1>3, <1>4, <1>5

(* ... so fgets() never returns a part of it.                               *)
LEMMA AtMostAllStep ==
  ASSUME StreamTypes, AtMostAll, StreamNext
  PROVE  AtMostAll'
<1>1. CASE input' = input
  <2>1. Cuts(input, ends') = Cuts(input, ends)
    BY StepsAgree, OneCallStays, TypesApart
  <2> QED
    BY <1>1, <2>1 DEF AtMostAll, Lines, Cuts
<1>2. ASSUME NEW n \in 1..(BufSize - 1), NEW isLine \in BOOLEAN,
             Types(n, isLine)
      PROVE  AtMostAll'
  <2>1. input' = [i \in 1..n |-> count + i]
        /\ ends' \in {ends, ends \union {count + n}}
    BY <1>2 DEF Types
  <2>2. count \in Nat /\ ends \subseteq 1..count
    BY TypedInNat, TypesApart
  <2>3. Cuts(input', ends') \subseteq {n}
    BY <2>1, <2>2, NewInputCut
  <2>4. Len(input') = n
    BY <2>1, <2>2, NewInput
  <2>5. Lines(input)' = Cuts(input', ends')
    BY DEF Lines, Cuts
  <2> QED
    BY <2>3, <2>4, <2>5 DEF AtMostAll
<1>3. CASE TypeLine \/ TypePart \/ TypeRest
  <2>1. 1..(BufSize - 2) \subseteq 1..(BufSize - 1)
        /\ BufSize - 1 \in 1..(BufSize - 1)
    BY StreamAssumption, TcpAssumption
  <2> QED
    BY <1>2, <1>3, <2>1, Zenon DEF TypeLine, TypePart, TypeRest
<1>4. CASE TypeEof \/ Quit \/ ClientRuns \/ CliKilled
           \/ ServerRuns \/ ServKilled
  BY <1>1, <1>4 DEF TypeEof, Quit, ClientRuns, CliKilled, CliWrite,
    CliWriteLost, CliSigpipe, CliGets, CliGetsEof, ServerRuns, ServKilled,
    ServGets, ServGetsEof, ServGetsFails, ServWrite, ServWriteLost, ServSigpipe,
    ServGone, ServPrints, client
<1> QED
  BY <1>3, <1>4 DEF StreamNext

(* The user types only when nothing is on its way.                          *)
LEMMA InStepTyping ==
  ASSUME StreamInv, StreamTypes', Agree,
         TypeLine \/ TypePart \/ TypeRest \/ TypeEof
  PROVE  InStep' /\ AfterEnd'
<1>1. /\ conn' = conn /\ spc' = spc /\ feof' = feof /\ line' = line
      /\ stdout' = stdout
      /\ asked' = asked /\ cpc = "input" /\ cpc' = "write"
  BY DEF TypeLine, TypePart, TypeRest, TypeEof, Types, server
<1>2. ClientHere /\ ClientHere'
  BY <1>1 DEF StreamInv, OpenWhileRuns, ClientHere
<1>3. ServerThere => Idle
  BY <1>1, <1>2 DEF StreamInv, InStep, Idle, SentWhole, Echoing, Echoed, Failed,
    LastAgain, LastOnce
<1>4. Repeats' <=> Repeats
  BY <1>1, RepeatsStays DEF StreamInv
<1>5. Idle => Idle'
  BY <1>1, <1>4 DEF Idle
<1>6. ServerThere' <=> ServerThere
  BY <1>1 DEF ServerThere
<1>7. spc' # "done"
  BY <1>1, <1>2 DEF StreamInv, AfterEnd
<1> QED
  BY <1>3, <1>5, <1>6, <1>7 DEF InStep, AfterEnd

(* Without the user typing, lines are what they were.                       *)
LEMMA SameLines ==
  ASSUME ends' = ends
  PROVE  /\ \A s : Cuts(s, ends') = Cuts(s, ends)
         /\ asked' = asked /\ line' = line => (Repeats' <=> Repeats)
         /\ asked' = asked /\ stdout' = stdout /\ spc' = spc =>
              (LastLineTwice' <=> LastLineTwice)
BY DEF Repeats, InOneCall, Lines, LastLineTwice

(* The client may leave whatever is on its way.                             *)
LEMMA InStepLeaving ==
  ASSUME StreamInv, Quit \/ CliSigpipe \/ CliKilled
  PROVE  InStep' /\ AfterEnd'
<1>1. /\ conn' = Left(conn) /\ spc' = spc /\ feof' = feof /\ line' = line
      /\ stdout' = stdout
      /\ asked' = asked /\ input' = input /\ ends' = ends
      /\ cpc' \in {"done", "killed"}
      /\ cpc \in {"input", "write", "read"}
  BY DEF Quit, CliSigpipe, CliKilled, server
<1>2. conn \in Connection
  BY TypesApart DEF StreamInv
<1>3. /\ conn'.up = conn.up /\ conn'.down = <<>> /\ ~ClientHere'
      /\ conn'.rst = IF conn.down = <<>> THEN conn.rst ELSE "pending"
  BY <1>1, <1>2, LeftFields DEF ClientHere
<1>4. ClientHere
  BY <1>1 DEF StreamInv, OpenWhileRuns, ClientHere
<1>5. Repeats' <=> Repeats
  BY <1>1, SameLines
<1>6. ServerThere' <=> ServerThere
  BY <1>1 DEF ServerThere
<1>7. spc' # "done"
  BY <1>1, <1>4 DEF StreamInv, AfterEnd
<1>8. ASSUME ServerThere PROVE Idle' \/ SentWhole' \/ Echoing'
  <2>1. CASE Idle
    BY <2>1, <1>1, <1>3, <1>5 DEF Idle
  <2>2. CASE SentWhole
    BY <2>2, <1>1, <1>3 DEF SentWhole
  <2>3. CASE Echoing
    BY <2>3, <1>1, <1>3 DEF Echoing, InOneCall, Lines
  <2>4. CASE Echoed
    BY <2>4, <1>1, <1>3, <1>5 DEF Echoed, Idle
  <2> QED
    BY <1>8, <1>4, <2>1, <2>2, <2>3, <2>4 DEF StreamInv, InStep, Failed,
      LastAgain, LastOnce
<1> QED
  BY <1>6, <1>7, <1>8 DEF InStep, AfterEnd

(* fputs() and fflush() of the client: its buffer is on its way.            *)
LEMMA InStepCliWrite ==
  ASSUME StreamInv, CliWrite
  PROVE  InStep' /\ AfterEnd'
<1>1. /\ conn' = [conn EXCEPT !.up = @ \o input]
      /\ asked' = IF input = <<>> THEN asked ELSE Append(asked, input)
      /\ spc' = spc /\ feof' = feof /\ line' = line /\ stdout' = stdout
      /\ input' = input /\ ends' = ends /\ cpc = "write" /\ cpc' = "read"
      /\ ServerThere
  BY DEF CliWrite, server
<1>2. conn \in Connection /\ input \in Seq(Nat)
  BY TypesApart, TypedInNat DEF StreamInv
<1>3. ClientHere
  BY <1>1 DEF StreamInv, OpenWhileRuns, ClientHere
<1>4. Idle
  BY <1>1, <1>3 DEF StreamInv, InStep, Idle, SentWhole, Echoing, Echoed, Failed,
    LastAgain, LastOnce
<1>5. conn'.up = input /\ conn'.down = <<>> /\ conn'.rst = conn.rst
  <2>1. conn.up \o input = input
    BY <1>2, <1>4 DEF Idle
  <2> QED
    BY <1>1, <1>2, <1>4, <2>1 DEF Idle, Connection
<1>6. CASE input = <<>>
  <2>1. asked' = asked /\ (Repeats' <=> Repeats)
    BY <1>1, <1>6, SameLines
  <2>2. Idle'
    BY <2>1, <1>1, <1>4, <1>5, <1>6 DEF Idle
  <2> QED
    BY <2>2 DEF InStep, Idle, AfterEnd
<1>7. CASE input # <<>>
  <2>1. SentWhole'
    BY <1>1, <1>4, <1>5, <1>7 DEF Idle, SentWhole
  <2> QED
    BY <2>1 DEF InStep, SentWhole, AfterEnd
<1> QED
  BY <1>6, <1>7

(* The client's steps after the server's end.                               *)
LEMMA InStepGone ==
  ASSUME StreamInv, CliWriteLost \/ CliGetsEof
  PROVE  InStep' /\ AfterEnd'
<1>1. spc' = spc /\ ~ServerThere /\ cpc \in {"read", "write"}
  BY DEF CliWriteLost, CliGetsEof, server
<1>2. ClientHere
  BY <1>1 DEF StreamInv, OpenWhileRuns
<1> QED
  BY <1>1, <1>2 DEF StreamInv, InStep, AfterEnd, ServerThere

(* fgets() of the client takes its echo and nothing else.                   *)
LEMMA InStepCliGets ==
  ASSUME StreamInv, CliGets
  PROVE  InStep' /\ AfterEnd'
<1>1. PICK n \in Lines(conn.down) : answer' = Front(conn.down, n)
      /\ conn' = Taken(conn, n)
  BY DEF CliGets
<1>2. /\ spc' = spc /\ feof' = feof /\ line' = line /\ stdout' = stdout
      /\ asked' = asked
      /\ input' = input /\ ends' = ends /\ cpc = "read" /\ cpc' = "input"
  BY DEF CliGets, server
<1>3. conn \in Connection /\ input \in Seq(Nat)
  BY TypesApart, TypedInNat DEF StreamInv
<1>4. ClientHere
  BY <1>2 DEF StreamInv, OpenWhileRuns
<1>5. spc' # "done"
  BY <1>2, <1>4 DEF StreamInv, AfterEnd
<1>6. ASSUME ServerThere PROVE Idle'
  <2>1. conn.down # <<>>
    BY LinesCuts, CutsEmpty
  <2>2. Echoed
    BY <1>6, <1>4, <2>1 DEF StreamInv, InStep, Idle, SentWhole, Echoing, Failed,
      LastAgain, LastOnce
  <2>3. n = Len(input)
    BY <2>2 DEF StreamInv, AtMostAll, Echoed
  <2>4. answer' = input /\ Rest(conn.down, n) = <<>>
    BY <2>2, <2>3, <1>1, <1>3, AllOfBuffer DEF Echoed
  <2>5. conn'.up = <<>> /\ conn'.down = <<>> /\ conn'.rst = conn.rst
    BY <1>1, <1>3, <2>2, <2>4 DEF Taken, Connection, Echoed
  <2>6. Repeats' <=> Repeats
    BY <1>2, SameLines
  <2>7. conn.rst = "none"
    BY <1>6, <1>4 DEF StreamInv, OpenWhileRuns
  <2> QED
    BY <2>2, <2>4, <2>5, <2>6, <2>7, <1>2 DEF Echoed, Idle
<1> QED
  BY <1>2, <1>5, <1>6 DEF InStep, AfterEnd, ServerThere

(* fgets() of the server takes the client's buffer.                         *)
LEMMA InStepServGets ==
  ASSUME StreamInv, ServGets
  PROVE  InStep' /\ AfterEnd'
<1>1. PICK n \in Lines(conn.up) : line' = Front(conn.up, n)
      /\ conn' = AfterRead(conn, n)
  BY DEF ServGets
<1>2. /\ spc = "read" /\ spc' = "write" /\ feof' = feof /\ stdout' = stdout
      /\ asked' = asked
      /\ input' = input /\ ends' = ends /\ cpc' = cpc
  BY DEF ServGets, client
<1>3. conn \in Connection /\ input \in Seq(Nat)
  BY TypesApart, TypedInNat DEF StreamInv
<1>4. conn.up # <<>>
  BY LinesCuts, CutsEmpty
<1>5. SentWhole
  BY <1>2, <1>4 DEF StreamInv, InStep, ServerThere, Idle, Echoing, Echoed,
    Failed, LastAgain, LastOnce
<1>6. n = Len(input)
  BY <1>5 DEF StreamInv, AtMostAll, SentWhole
<1>7. line' = input /\ Rest(conn.up, n) = <<>>
  BY <1>1, <1>3, <1>5, <1>6, AllOfBuffer DEF SentWhole
<1>8. conn'.up = <<>> /\ conn'.down = <<>> /\ conn'.cli = conn.cli
  BY <1>1, <1>3, <1>5, <1>7 DEF AfterRead, Connection, SentWhole
<1>9. InOneCall(input)'
  <2>1. Lines(input) # {}
    BY <1>5 DEF SentWhole
  <2> QED
    BY <2>1, <1>2 DEF InOneCall, Lines
<1>10. Echoing'
  BY <1>2, <1>5, <1>7, <1>8, <1>9 DEF Echoing, SentWhole, ClientHere
<1> QED
  BY <1>10, <1>2 DEF InStep, AfterEnd

(* At the end of the file it takes what is there, or leaves the buffer as   *)
(* it was.                                                                  *)
LEMMA InStepServGetsEof ==
  ASSUME StreamInv, ServGetsEof
  PROVE  InStep' /\ AfterEnd'
<1>1. /\ spc = "read" /\ spc' = "write" /\ feof' = TRUE /\ stdout' = stdout
      /\ asked' = asked
      /\ ends' = ends /\ Lines(conn.up) = {} /\ conn.cli = "fin"
      /\ line' = IF conn.up = <<>> THEN line ELSE conn.up
      /\ conn' = AfterRead(conn, Len(conn.up))
  BY DEF ServGetsEof, client
<1>2. conn \in Connection
  BY TypesApart DEF StreamInv
<1>3. ~ClientHere /\ ~ClientHere'
  BY <1>1, <1>2 DEF ClientHere, Connection, AfterRead
<1>4. ServerThere /\ cpc # "read"
  BY <1>1, <1>3 DEF ServerThere, StreamInv, OpenWhileRuns
<1>5. Idle \/ SentWhole
  BY <1>1, <1>4 DEF StreamInv, InStep, Echoing, Echoed, Failed, LastAgain,
    LastOnce
<1>6. CASE Idle
  <2>1. line' = line /\ (Repeats' <=> Repeats)
    BY <1>1, <1>6, SameLines DEF Idle
  <2>2. LastAgain'
    BY <2>1, <1>1, <1>3, <1>6 DEF LastAgain, Idle
  <2> QED
    BY <2>2, <1>1 DEF InStep, AfterEnd
<1>7. CASE SentWhole
  <2>1. line' = conn.up /\ line' # <<>> /\ asked' = Append(stdout', line')
    BY <1>1, <1>7 DEF SentWhole
  <2>2. ~InOneCall(line)'
    BY <1>1, <2>1 DEF InOneCall, Lines
  <2>3. LastOnce'
    BY <2>1, <2>2, <1>1, <1>3 DEF LastOnce
  <2> QED
    BY <2>3, <1>1 DEF InStep, AfterEnd
<1> QED
  BY <1>5, <1>6, <1>7

(* Only a client that left its echo unread resets the connection.           *)
LEMMA InStepServGetsFails ==
  ASSUME StreamInv, ServGetsFails
  PROVE  InStep' /\ AfterEnd'
<1>1. /\ spc = "read" /\ spc' = "write" /\ feof' = feof /\ line' = line
      /\ conn.up = <<>> /\ conn.rst = "pending" /\ conn' = Reported(conn)
  BY DEF ServGetsFails, ReadFails
<1>2. conn'.rst = "reported" /\ conn'.cli = conn.cli
  <2>1. conn \in Connection
    BY TypesApart DEF StreamInv
  <2> QED
    BY <1>1, <2>1 DEF Connection, Reported
<1>3. ~ClientHere /\ ~ClientHere'
  BY <1>1, <1>2 DEF StreamInv, OpenWhileRuns, ServerThere, ClientHere
<1>4. cpc # "read" /\ ServerThere
  BY <1>1, <1>3 DEF StreamInv, OpenWhileRuns, ServerThere
<1>5. Idle
  BY <1>1, <1>4 DEF StreamInv, InStep, SentWhole, Echoing, Echoed, Failed,
    LastAgain, LastOnce
<1>6. Failed'
  BY <1>1, <1>2, <1>3, <1>5 DEF Failed, Idle
<1> QED
  BY <1>6, <1>1 DEF InStep, AfterEnd

(* The echo is on its way back.                                             *)
LEMMA InStepServWrite ==
  ASSUME StreamInv, ServWrite
  PROVE  InStep' /\ AfterEnd'
<1>1. /\ spc = "write" /\ conn.cli = "open"
      /\ conn' = AfterWrite(conn, line, Len(line))
      /\ stdout' = (IF line = <<>> THEN stdout ELSE Append(stdout, line))
      /\ spc' = (IF feof THEN "done" ELSE "read") /\ feof' = feof
      /\ line' = line
      /\ asked' = asked /\ input' = input /\ ends' = ends /\ cpc' = cpc
  BY DEF ServWrite, ServPrints, client
<1>2. Echoing
  BY <1>1 DEF StreamInv, InStep, ServerThere, Idle, SentWhole, Echoed, Failed,
    LastAgain, LastOnce, ClientHere
<1>3. conn \in Connection /\ line \in Seq(Nat) /\ asked \in Seq(Typed)
      /\ stdout \in Seq(Typed)
      /\ line \in Typed
  BY TypesApart, TypedInNat DEF StreamInv
<1>4. conn'.up = <<>> /\ conn'.down = input
  <2>1. conn.down \o Front(line, Len(line)) = input
    BY <1>2, <1>3, AllOfBuffer DEF Echoing
  <2> QED
    BY <1>1, <1>2, <1>3, <2>1 DEF AfterWrite, Connection, Echoing
<1>5. stdout' = asked
  BY <1>1, <1>2 DEF Echoing
<1>6. Repeats'
  <2>1. asked # <<>> /\ Final(asked) = line
    BY <1>2, <1>3 DEF Echoing, Final
  <2>2. InOneCall(line)'
    BY <1>1, <1>2 DEF Echoing, InOneCall, Lines
  <2> QED
    BY <2>1, <2>2, <1>1 DEF Repeats, Final
<1>7. Echoed'
  BY <1>1, <1>2, <1>4, <1>5, <1>6 DEF Echoing, Echoed, ClientHere
<1> QED
  BY <1>7 DEF InStep, AfterEnd, Echoed

(* The client does not get it; the server prints it all the same.           *)
LEMMA InStepServWriteLost ==
  ASSUME StreamInv, ServWriteLost
  PROVE  InStep' /\ AfterEnd'
<1>1. /\ spc = "write"
      /\ stdout' = (IF line = <<>> THEN stdout ELSE Append(stdout, line))
      /\ spc' = (IF feof THEN "done" ELSE "read") /\ feof' = feof
      /\ line' = line
      /\ asked' = asked /\ input' = input /\ ends' = ends /\ cpc' = cpc
  BY DEF ServWriteLost, ServPrints, client
<1>2. conn \in Connection /\ line \in Typed /\ asked \in Seq(Typed)
      /\ stdout \in Seq(Typed)
  BY TypesApart DEF StreamInv
<1>3. /\ conn'.up = conn.up /\ conn'.down = conn.down /\ conn'.cli = conn.cli
      /\ line # <<>> => conn.rst # "reported"
  BY <1>2 DEF ServWriteLost, WriteDrawsReset, WriteFails, AfterReset, Reported,
    Connection
<1>4. ~ClientHere /\ ~ClientHere'
  <2>1. ServerThere
    BY <1>1 DEF ServerThere
  <2>2. ~ClientHere
    BY <2>1 DEF ServWriteLost, WriteDrawsReset, WriteFails, StreamInv,
      OpenWhileRuns, ClientHere
  <2> QED
    BY <2>2, <1>3 DEF ClientHere
<1>5. cpc' \notin {"input", "read"}
  BY <1>1, <1>4 DEF StreamInv, OpenWhileRuns
<1>6. Echoing \/ LastAgain \/ LastOnce
  BY <1>1, <1>3, <1>4 DEF StreamInv, InStep, ServerThere, Idle, SentWhole,
    Echoed, Failed
<1>7. CASE Echoing
  <2>1. stdout' = asked'
    BY <1>1, <1>7 DEF Echoing
  <2>2. Repeats'
    <3>1. asked # <<>> /\ Final(asked) = line
      BY <1>7, <1>2 DEF Echoing, Final
    <3>2. InOneCall(line)'
      BY <1>1, <1>7 DEF Echoing, InOneCall, Lines
    <3> QED
      BY <3>1, <3>2, <1>1 DEF Repeats, Final
  <2>3. Idle'
    BY <1>1, <1>3, <1>5, <1>7, <2>1, <2>2 DEF Idle, Echoing
  <2> QED
    BY <2>3 DEF InStep, AfterEnd, Idle
<1>8. ASSUME LastLineTwice', feof PROVE InStep' /\ AfterEnd'
  BY <1>8, <1>1, <1>4 DEF InStep, AfterEnd, ServerThere
<1>9. CASE LastAgain
  <2>1. feof /\ stdout = asked /\ Repeats
    BY <1>9 DEF LastAgain
  <2>2. CASE asked = <<>>
    BY <2>1, <2>2, <1>1, <1>8 DEF Repeats, LastLineTwice
  <2>3. CASE asked # <<>>
    <3>1. line = Final(asked) /\ InOneCall(line) /\ line # <<>>
      BY <2>1, <2>3, LinesCuts, CutsEmpty DEF Repeats
    <3>2. InOneCall(Final(asked))' /\ Final(asked') = Final(asked)
      BY <3>1, <1>1 DEF InOneCall, Lines, Final
    <3>3. LastLineTwice'
      BY <3>1, <3>2, <2>1, <2>3, <1>1 DEF LastLineTwice
    <3> QED
      BY <3>3, <2>1, <1>8
  <2> QED
    BY <2>2, <2>3
<1>10. CASE LastOnce
  <2>1. feof /\ asked = Append(stdout, line) /\ line # <<>> /\ ~InOneCall(line)
    BY <1>10 DEF LastOnce
  <2>2. Final(asked) = line
    BY <2>1, <1>2 DEF Final
  <2>3. ~InOneCall(Final(asked))'
    BY <2>1, <2>2, <1>1 DEF InOneCall, Lines, Final
  <2>4. LastLineTwice'
    BY <2>1, <2>3, <1>1 DEF LastLineTwice
  <2> QED
    BY <2>1, <2>4, <1>8
<1> QED
  BY <1>6, <1>7, <1>9, <1>10

(* Nothing is claimed of a server that was killed.                          *)
LEMMA InStepKilled ==
  ASSUME ServSigpipe \/ ServKilled
  PROVE  InStep' /\ AfterEnd'
BY DEF ServSigpipe, ServKilled, ServGone, InStep, AfterEnd, ServerThere

(* The invariant holds at first,                                            *)
LEMMA StreamInvInit == StreamInit => StreamInv
<1> SUFFICES ASSUME StreamInit PROVE StreamInv
  OBVIOUS
<1>1. conn = [up |-> <<>>, down |-> <<>>, cli |-> "open", rst |-> "none"]
  BY DEF StreamInit, Connected, Unconnected
<1>2. StreamTypes
  <2>1. <<>> \in Seq(Nat) /\ <<>> \in Seq(1..0) /\ <<>> \in Seq(Seq(1..0))
        /\ Len(<<>>) = 0
    OBVIOUS
  <2>2. count = 0 /\ 0 \in 0..MaxTyped /\ ends = {}
    BY StreamAssumption DEF StreamInit
  <2>3. conn \in Connection
    BY <1>1, <2>1 DEF Connection
  <2>4. Typed = Seq(1..0) /\ 0 <= BufSize - 1 /\ 0 < BufSize
        /\ {} \subseteq 1..count
    BY <2>2, StreamAssumption, TcpAssumption DEF Typed
  <2>5. conn.up = <<>> /\ conn.down = <<>>
    BY <1>1
  <2> QED
    BY <2>1, <2>2, <2>3, <2>4, <2>5, TypesApart DEF StreamInit
<1>3. OpenWhileRuns /\ Idle /\ AfterEnd
  BY <1>1 DEF StreamInit, OpenWhileRuns, Idle, AfterEnd, ClientHere,
    ServerThere, Repeats
<1>4. AtMostAll
  BY LinesCuts, CutsEmpty DEF StreamInit, AtMostAll
<1> QED
  BY <1>2, <1>3, <1>4 DEF StreamInv, InStep

(* every step keeps it,                                                     *)
LEMMA StreamInvStep == StreamInv /\ [StreamNext]_streamVars => StreamInv'
<1> SUFFICES ASSUME StreamInv, [StreamNext]_streamVars PROVE StreamInv'
  OBVIOUS
<1>1. CASE UNCHANGED streamVars
  BY <1>1 DEF StreamInv, StreamTypes, StreamTypeOK, Typed, OpenWhileRuns,
    AtMostAll, InStep, AfterEnd, Idle, SentWhole, Echoing, Echoed, Failed,
    LastAgain, LastOnce, ClientHere, ServerThere, Repeats, InOneCall, Lines,
    Final, LastLineTwice, streamVars
<1>2. CASE StreamNext
  <2>1. StreamTypes'
    <3>1. ASSUME NEW n \in 1..(BufSize - 1), NEW isLine,
                 Types(n, isLine), stdinEof' \in BOOLEAN
          PROVE  StreamTypes'
      BY <3>1, TypingTypes DEF StreamInv
    <3>2. CASE TypeLine \/ TypePart \/ TypeRest
      <4>1. 1..(BufSize - 2) \subseteq 1..(BufSize - 1)
            /\ BufSize - 1 \in 1..(BufSize - 1)
            /\ stdinEof \in BOOLEAN
        BY StreamAssumption, TcpAssumption, TypesApart DEF StreamInv
      <4> QED
        BY <3>1, <3>2, <4>1, Zenon DEF TypeLine, TypePart, TypeRest
    <3> QED
      BY <1>2, <3>2, ClientTypes, ServerTypes DEF StreamNext, StreamInv
  <2>2. Agree
    BY <1>2, StepsAgree DEF StreamInv
  <2>3. OpenWhileRuns' /\ AtMostAll'
    BY <1>2, OpenStep, AtMostAllStep DEF StreamInv
  <2>4. InStep' /\ AfterEnd'
    BY <1>2, <2>1, <2>2, InStepTyping, InStepLeaving, InStepCliWrite,
      InStepGone, InStepCliGets, InStepServGets, InStepServGetsEof,
      InStepServGetsFails, InStepServWrite, InStepServWriteLost, InStepKilled
      DEF StreamNext, ClientRuns, ServerRuns
  <2> QED
    BY <2>1, <2>3, <2>4 DEF StreamInv
<1> QED
  BY <1>1, <1>2

(* and so it holds always.                                                  *)
LEMMA StreamInvInvariant == StreamSpec => []StreamInv
  BY StreamInvInit, StreamInvStep, PTL DEF StreamSpec

(* Whatever is typed and whoever is killed, no buffer of either program     *)
(* overflows, and no socket buffer holds more than one of theirs            *)
(* (echoserver.c and echoclient.c of 15-3-streamecho).                      *)
THEOREM StreamTypeCorrect == StreamSpec => []StreamTypeOK
<1>1. StreamInv => StreamTypeOK
  BY DEF StreamInv, StreamTypes
<1> QED
  BY <1>1, StreamInvInvariant, PTL

(* When the client's loop comes back to fgets(stdin), it has the whole echo *)
(* of its last buffer and nothing more is on its way: client (lines 49-58)  *)
(* and server (67-70) cut the stream alike.                                 *)
THEOREM EchoesNeverLag == StreamSpec => []NoLag
<1>1. StreamInv => NoLag
  BY DEF StreamInv, NoLag, OpenWhileRuns, InStep, Idle, SentWhole, Echoing,
    Echoed, Failed, LastAgain, LastOnce
<1> QED
  BY <1>1, StreamInvInvariant, PTL

(* The server's feof() loop (lines 65-72) prints the last line twice,       *)
(* except a line that the end of the file cut off.                          *)
THEOREM LastLineComesTwice == StreamSpec => []LastLineTwice
<1>1. StreamInv => LastLineTwice
  BY DEF StreamInv, AfterEnd, LastLineTwice
<1> QED
  BY <1>1, StreamInvInvariant, PTL

(* A client that sent a line without its newline waits, and the server with *)
(* it, until one of them is killed: no other step ends it.                  *)
THEOREM StalledUntilKilled ==
  StreamSpec => [][Stalled => Stalled' \/ Killed']_streamVars
<1>1. StreamInv /\ [StreamNext]_streamVars
      => [Stalled => Stalled' \/ Killed']_streamVars
  <2> SUFFICES ASSUME StreamInv, StreamNext, Stalled PROVE Stalled' \/ Killed'
    BY DEF streamVars
  <2>1. /\ cpc = "read" /\ ServerThere /\ ClientHere /\ conn.rst = "none"
        /\ Lines(input) = {} /\ conn.cli = "open"
    BY DEF Stalled, StreamInv, OpenWhileRuns, InOneCall, ClientHere
  <2>2. /\ spc = "read" /\ conn.down = <<>>
        /\ conn.up = input
    BY <2>1 DEF StreamInv, InStep, Idle, SentWhole, Echoing, Echoed, Failed,
      LastAgain, LastOnce, Repeats, InOneCall
  <2>3. Lines(conn.up) = {} /\ Lines(conn.down) = {}
    BY <2>1, <2>2, LinesCuts, CutsEmpty
  <2>4. CliKilled \/ ServKilled
    BY <2>1, <2>2, <2>3 DEF StreamNext, TypeLine, TypePart, TypeRest, TypeEof,
      Types, Quit, ClientRuns, CliWrite, CliWriteLost, CliSigpipe, CliGets,
      CliGetsEof, ServerRuns, ServGets, ServGetsEof, ServGetsFails, ServWrite,
      ServWriteLost, ServSigpipe, ReadFails
  <2> QED
    BY <2>4 DEF CliKilled, ServKilled, ServGone, Killed
<1> QED
  BY <1>1, StreamInvInvariant, PTL DEF StreamSpec

=============================================================================
