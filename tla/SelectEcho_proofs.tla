-------------------------- MODULE SelectEcho_proofs --------------------------
(****************************************************************************)
(* The select() server, for any number of connections, descriptors, queue   *)
(* places, buffer sizes and bytes. The descriptor sets always agree with    *)
(* the kernel's table, and what select() has reported stays true until the  *)
(* scan gets there, so that no accept() or read() blocks. Bytes flow in     *)
(* order, the server implements EchoService, and only a client that leaves  *)
(* early or one connection too many ends it; with the clients of            *)
(* SelectSession only the latter does.                                      *)
(****************************************************************************)
EXTENDS SelectSession, Tcp_proofs

-----------------------------------------------------------------------------
(* The greater of two numbers.                                              *)
LEMMA MaxOfTwo ==
  ASSUME NEW a \in Nat, NEW b \in Nat
  PROVE  Max({a, b}) \in {a, b} /\ a <= Max({a, b}) /\ b <= Max({a, b})
<1>1. \E x \in {a, b} : \A y \in {a, b} : x >= y
  <2>1. CASE a >= b
    BY <2>1
  <2>2. CASE b >= a
    BY <2>2
  <2> QED
    BY <2>1, <2>2
<1>2. /\ Max({a, b}) \in {a, b}
      /\ \A y \in {a, b} : Max({a, b}) >= y
  BY <1>1 DEF Max
<1> QED
  BY <1>2

(* Descriptors are numbers above serv_sock's.                               *)
LEMMA FdsAreNumbers ==
  /\ Serv \in Nat /\ Serv \notin Fds
  /\ \A f \in Fds : f \in Nat /\ Serv < f
BY SelectAssumption DEF Fds

(* What the scan has got to is a set bit it has still to visit.             *)
LEMMA VisitedIsReady ==
  ASSUME TypeOK, NEW f, Visits(f)
  PROVE  f \in ready
<1>1. ready \in SUBSET Nat /\ ready # {}
  BY FdsAreNumbers DEF TypeOK, Visits
<1> QED
  BY <1>1, MinIsIn DEF Visits

(* accept() returns a free descriptor.                                      *)
LEMMA AcceptedIsFree ==
  ASSUME Free # {}
  PROVE  Min(Free) \in Free
<1>1. Free \in SUBSET Nat
  BY FdsAreNumbers DEF Free
<1> QED
  BY <1>1, MinIsIn

(* An open descriptor refers to a connection.                               *)
LEMMA OpenRefers ==
  ASSUME TypeOK, NEW f \in Open
  PROVE  f \in Fds /\ table[f] \in Conns /\ net[table[f]] \in Connection
BY DEF TypeOK, Open

-----------------------------------------------------------------------------
(* Types and descriptor sets, which need each other: the inductive          *)
(* invariant also says that clnt names no descriptor but during write().    *)
Watched ==
  /\ TypeOK
  /\ DescriptorsWatched
  /\ pc # "write" => clnt = Serv

(* The descriptor the scan serves is open.                                  *)
LEMMA ServedIsOpen ==
  ASSUME Watched, NEW f, VisitsClient(f)
  PROVE  f \in Open /\ f \in ready /\ pc = "scan"
<1>1. f \in ready /\ f # Serv /\ pc = "scan"
  BY VisitedIsReady DEF Watched, VisitsClient, Visits
<1> QED
  BY <1>1 DEF Watched, DescriptorsWatched

(* A client's calls keep the types and touch no descriptor.                 *)
LEMMA ClientWatched ==
  ASSUME Watched, NEW c \in Conns, ClientNext(c)
  PROVE  Watched'
<1> USE DEF TypeOK, sets, echo, clients
<1>0. TypeOK /\ net[c] \in Connection
  BY DEF Watched
<1>1. UNCHANGED <<pc, table, reads, ready, fdMax, clnt, buf>>
  BY DEF ClientNext, Connect, CliSend, CliRead, CliClose
<1>2. TypeOK'
  <2>1. CASE Connect(c)
    <3>1. Append(queue, c) \in Seq(Conns)
      BY <1>0, AppendProperties
    <3>2. Connected(net[c]) \in Connection
      BY <1>0, ClientOpsType
    <3> QED
      BY <1>0, <2>1, <3>1, <3>2 DEF Connect
  <2>2. CASE CliSend(c)
    <3>1. sent[c] + 1 \in Nat
      BY <1>0
    <3>2. Sent(net[c], sent[c] + 1) \in Connection
      BY <1>0, <3>1, ClientOpsType
    <3> QED
      BY <1>0, <2>2, <3>1, <3>2 DEF CliSend
  <2>3. CASE CliRead(c)
    <3>1. PICK n \in Counts(net[c].down, Cap) :
            /\ got' = [got EXCEPT ![c] = @ \o Front(net[c].down, n)]
            /\ net' = [net EXCEPT ![c] = Taken(@, n)]
      BY <2>3 DEF CliRead
    <3>2. Taken(net[c], n) \in Connection
      BY <1>0, <3>1, ClientOpsType
    <3>3. Front(net[c].down, n) \in Seq(Nat)
      BY <1>0, SplitType DEF Connection
    <3>4. got[c] \o Front(net[c].down, n) \in Seq(Nat)
      BY <1>0, <3>3
    <3> QED
      BY <1>0, <2>3, <3>1, <3>2, <3>4 DEF CliRead
  <2>4. CASE CliClose(c)
    <3>1. Left(net[c]) \in Connection
      BY <1>0, ClientOpsType
    <3> QED
      BY <1>0, <2>4, <3>1 DEF CliClose
  <2> QED
    BY <2>1, <2>2, <2>3, <2>4 DEF ClientNext
<1>3. DescriptorsWatched'
  BY <1>1 DEF Watched, DescriptorsWatched, Open
<1> QED
  BY <1>1, <1>2, <1>3 DEF Watched

(* Every bit select() sets was set in reads.                                *)
LEMMA SelectWatched ==
  ASSUME Watched, Select
  PROVE  Watched'
<1>1. ready' \subseteq reads
  BY DEF Select, Selected
<1>2. TypeOK'
  BY <1>1 DEF Watched, Select, TypeOK, echo, clients
<1>3. DescriptorsWatched'
  BY <1>1 DEF Watched, Select, DescriptorsWatched, Open, echo
<1> QED
  BY <1>2, <1>3 DEF Watched, Select, echo

(* accept() adds one descriptor to the table and to reads, and raises       *)
(* fd_max if it has to.                                                     *)
LEMMA AcceptWatched ==
  ASSUME Watched, Accept
  PROVE  Watched'
<1> DEFINE m == Min(Free)
<1>0. TypeOK
  BY DEF Watched
<1>1. m \in Free /\ m \in Fds /\ m \in Nat /\ m \notin Open
  BY AcceptedIsFree, FdsAreNumbers DEF Accept, Free
<1>2. fdMax \in Nat
  BY <1>0, FdsAreNumbers DEF TypeOK
<1>3. fdMax' \in {fdMax, m} /\ fdMax <= fdMax' /\ m <= fdMax'
  BY <1>1, <1>2, MaxOfTwo DEF Accept
<1>4. Head(queue) \in Conns /\ Tail(queue) \in Seq(Conns)
  BY <1>0, HeadTailProperties DEF Accept, TypeOK
<1>5. TypeOK'
  BY <1>0, <1>1, <1>3, <1>4 DEF Accept, TypeOK, echo, clients
<1>6. Open' = Open \union {m}
  <2>1. table'[m] # NoConn
    BY <1>0, <1>1, <1>4, SelectAssumption DEF Accept, TypeOK
  <2>2. \A f \in Fds : f # m => table'[f] = table[f]
    BY <1>0, <1>1 DEF Accept, TypeOK
  <2> QED
    BY <1>1, <2>1, <2>2 DEF Open
<1>7. /\ pc = "scan" /\ pc' = "scan"
      /\ clnt = Serv /\ clnt' = Serv
  BY DEF Watched, Accept, Visits, echo
<1>8. reads = {Serv} \union Open /\ reads' = reads \union {m}
  BY <1>7 DEF Watched, DescriptorsWatched, Accept
<1>9. ready \subseteq reads /\ \A f \in reads : f <= fdMax
  BY DEF Watched, DescriptorsWatched
<1>10. \A f \in reads : f \in Nat
  BY <1>8, FdsAreNumbers DEF Open
<1>11. DescriptorsWatched'
  <2>1. \A f \in reads' : f <= fdMax'
    <3>1. ASSUME NEW f \in reads' PROVE f <= fdMax'
      <4>1. CASE f = m
        BY <4>1, <1>3
      <4>2. CASE f \in reads
        BY <4>2, <1>1, <1>2, <1>3, <1>9, <1>10
      <4> QED
        BY <4>1, <4>2, <1>8
    <3> QED
      BY <3>1
  <2>2. ready' \subseteq reads'
    BY <1>8, <1>9 DEF Accept
  <2>3. clnt' \notin Open'
    BY <1>1, <1>6, <1>7, FdsAreNumbers DEF Open
  <2> QED
    BY <1>6, <1>7, <1>8, <2>1, <2>2, <2>3 DEF DescriptorsWatched
<1> QED
  BY <1>5, <1>7, <1>11 DEF Watched

(* What stops the process closes every descriptor.                          *)
LEMMA StopsWatched ==
  ASSUME Watched, Stops, net' \in [Conns -> Connection]
  PROVE  Watched'
<1>1. <<>> \in Seq(Conns) /\ <<>> \in Seq(Nat)
  OBVIOUS
<1>2. TypeOK'
  BY <1>1 DEF Watched, Stops, TypeOK, clients
<1>3. Open' = {} /\ reads' = {} /\ ready' = {} /\ pc' = "exited"
  BY DEF Stops, Open
<1> QED
  BY <1>2, <1>3 DEF Watched, DescriptorsWatched, Stops

(* A read(), whatever it returns, of the descriptor the scan is at.         *)
LEMMA ReadWatched ==
  ASSUME Watched, NEW f \in Fds,
         ServRead(f) \/ ServReadFails(f) \/ ServEof(f)
  PROVE  Watched'
<1>0. TypeOK /\ VisitsClient(f)
  BY DEF Watched, ServRead, ServReadFails, ServEof
<1>1. f \in Open /\ f \in ready /\ pc = "scan" /\ clnt = Serv
  BY <1>0, ServedIsOpen DEF Watched
<1>2. net[table[f]] \in Connection /\ table[f] \in Conns
  BY <1>0, <1>1, OpenRefers
<1>3. reads = {Serv} \union Open /\ ready \subseteq reads
  BY <1>1 DEF Watched, DescriptorsWatched
<1>4. CASE ServRead(f)
  <2>1. PICK n \in Reads(net[table[f]]) :
          /\ buf' = Front(net[table[f]].up, n)
          /\ net' = [net EXCEPT ![table[f]] = AfterRead(@, n)]
    BY <1>4 DEF ServRead
  <2>2. AfterRead(net[table[f]], n) \in Connection
    <3>1. <<>> \in Seq(Nat)
      OBVIOUS
    <3> QED
      BY <1>2, <2>1, <3>1, ServerOpsType
  <2>3. Front(net[table[f]].up, n) \in Seq(Nat)
    BY <1>2, <2>1, SplitType DEF Connection, Reads
  <2>4. TypeOK'
    BY <1>0, <1>4, <2>1, <2>2, <2>3 DEF ServRead, TypeOK, clients
  <2>5. DescriptorsWatched'
    BY <1>1, <1>3, <1>4 DEF ServRead, Watched, DescriptorsWatched, Open
  <2> QED
    BY <1>4, <2>4, <2>5 DEF Watched, ServRead
<1>5. CASE ServReadFails(f)
  <2>1. Reported(net[table[f]]) \in Connection
    <3>1. <<>> \in Seq(Nat)
      OBVIOUS
    <3> QED
      BY <1>2, <3>1, ServerOpsType
  <2>2. TypeOK'
    BY <1>0, <1>5, <2>1 DEF ServReadFails, TypeOK, echo, clients
  <2>3. DescriptorsWatched'
    BY <1>1, <1>3, <1>5
       DEF ServReadFails, Watched, DescriptorsWatched, Open, echo
  <2> QED
    BY <1>1, <1>5, <2>2, <2>3 DEF Watched, ServReadFails, echo
<1>6. CASE ServEof(f)
  <2>1. TypeOK'
    BY <1>0, <1>6 DEF ServEof, TypeOK, echo, clients
  <2>2. Open' = Open \ {f}
    BY <1>0, <1>6 DEF ServEof, Open, TypeOK
  <2>3. UNCHANGED <<pc, clnt, fdMax>> /\ reads' = reads \ {f}
        /\ ready' = ready \ {f}
    BY <1>6 DEF ServEof, echo
  <2>4. Serv # f /\ Serv \notin Open
    BY FdsAreNumbers DEF Open
  <2>5. DescriptorsWatched'
    BY <1>1, <1>3, <2>2, <2>3, <2>4 DEF Watched, DescriptorsWatched
  <2> QED
    BY <1>1, <2>1, <2>3, <2>5 DEF Watched
<1> QED
  BY <1>4, <1>5, <1>6

(* write() touches no descriptor unless SIGPIPE ends the process.           *)
LEMMA WriteWatched ==
  ASSUME Watched, ServWrite \/ ServWriteLost \/ ServKilled
  PROVE  Watched'
<1> DEFINE c == table[clnt]
<1>0. TypeOK /\ pc = "write" /\ clnt \in Open
  BY DEF Watched, DescriptorsWatched, ServWrite, ServWriteLost, ServKilled
<1>1. net[c] \in Connection /\ c \in Conns /\ buf \in Seq(Nat)
  BY <1>0, OpenRefers DEF TypeOK
<1>2. /\ Reported(net[c]) \in Connection
      /\ AfterReset(net[c]) \in Connection
      /\ <<>> \in Seq(Nat)
  BY <1>1, ServerOpsType
<1>3. CASE ServKilled
  <2>1. net' \in [Conns -> Connection]
    BY <1>0, <1>2, <1>3 DEF ServKilled, TypeOK
  <2> QED
    BY <1>3, <2>1, StopsWatched DEF ServKilled
<1>4. ASSUME UNCHANGED <<table, sets>>,
             \/ EndsWrite
             \/ UNCHANGED <<pc, clnt>>
      PROVE  DescriptorsWatched' /\ (pc' # "write" => clnt' = Serv)
  <2>1. Open' = Open /\ UNCHANGED <<reads, ready, fdMax>>
    BY <1>4 DEF Open, sets
  <2>2. Serv \notin Open
    BY FdsAreNumbers DEF Open
  <2>3. CASE EndsWrite
    BY <1>0, <2>1, <2>2, <2>3 DEF Watched, DescriptorsWatched, EndsWrite
  <2>4. CASE UNCHANGED <<pc, clnt>>
    BY <1>0, <2>1, <2>4 DEF Watched, DescriptorsWatched
  <2> QED
    BY <1>4, <2>3, <2>4
<1>5. CASE ServWrite
  <2>1. PICK n \in Writes(net[c], buf) :
          /\ net' = [net EXCEPT ![c] = AfterWrite(@, buf, n)]
          /\ IF n = Len(buf)
               THEN EndsWrite
               ELSE buf' = Rest(buf, n) /\ UNCHANGED <<pc, clnt>>
    BY <1>5 DEF ServWrite
  <2>2. AfterWrite(net[c], buf, n) \in Connection
    BY <1>1, <2>1, ServerOpsType
  <2>3. Rest(buf, n) \in Seq(Nat)
    BY <1>1, <2>1, SplitType DEF Writes
  <2>4. UNCHANGED <<table, sets, queue, clients>>
    BY <1>5 DEF ServWrite
  <2>5. TypeOK'
    BY <1>0, <1>2, <2>1, <2>2, <2>3, <2>4
       DEF TypeOK, EndsWrite, sets, clients
  <2>6. EndsWrite \/ UNCHANGED <<pc, clnt>>
    BY <2>1
  <2> QED
    BY <1>4, <2>4, <2>5, <2>6 DEF Watched
<1>6. CASE ServWriteLost
  <2>1. /\ net' = [net EXCEPT ![c] = AfterReset(@)]
           \/ net' = [net EXCEPT ![c] = Reported(@)]
        /\ EndsWrite
        /\ UNCHANGED <<table, sets, queue, clients>>
    BY <1>6 DEF ServWriteLost
  <2>2. TypeOK'
    BY <1>0, <1>2, <2>1 DEF TypeOK, EndsWrite, sets, clients
  <2> QED
    BY <1>4, <2>1, <2>2 DEF Watched
<1> QED
  BY <1>3, <1>5, <1>6

(* The invariant holds at first and is kept by every step.                  *)
LEMMA AlwaysWatched == Safety => []Watched
<1>1. Init => Watched
  <2> SUFFICES ASSUME Init PROVE Watched
    OBVIOUS
  <2>1. <<>> \in Seq(Conns) /\ <<>> \in Seq(Nat)
    OBVIOUS
  <2>2. Unconnected \in Connection
    BY <2>1 DEF Unconnected, Connection
  <2>3. TypeOK
    <3>1. queue \in Seq(Conns) /\ buf \in Seq(Nat)
      BY <2>1 DEF Init
    <3>2. net \in [Conns -> Connection] /\ got \in [Conns -> Seq(Nat)]
      BY <2>1, <2>2 DEF Init
    <3> QED
      BY <3>1, <3>2 DEF Init, TypeOK
  <2>4. Open = {}
    BY DEF Init, Open
  <2>5. DescriptorsWatched
    BY <2>4, FdsAreNumbers DEF Init, DescriptorsWatched
  <2> QED
    BY <2>3, <2>5 DEF Init, Watched
<1>2. Watched /\ [Next]_vars => Watched'
  <2> SUFFICES ASSUME Watched, [Next]_vars PROVE Watched'
    OBVIOUS
  <2>1. CASE Select
    BY <2>1, SelectWatched
  <2>2. CASE Accept
    BY <2>2, AcceptWatched
  <2>3. CASE AcceptFails
    BY <2>3, StopsWatched DEF AcceptFails, Watched, TypeOK
  <2>4. ASSUME NEW f \in Fds, ServRead(f) \/ ServReadFails(f) \/ ServEof(f)
        PROVE  Watched'
    BY <2>4, ReadWatched
  <2>5. CASE ServWrite \/ ServWriteLost \/ ServKilled
    BY <2>5, WriteWatched
  <2>6. ASSUME NEW c \in Conns, ClientNext(c) PROVE Watched'
    BY <2>6, ClientWatched
  <2>7. CASE UNCHANGED vars
    BY <2>7 DEF vars, Watched, TypeOK, DescriptorsWatched, Open
  <2> QED
    BY <2>1, <2>2, <2>3, <2>4, <2>5, <2>6, <2>7 DEF Next, ServerNext
<1> QED
  BY <1>1, <1>2, PTL DEF Safety

(* Every variable of the server keeps its type.                             *)
THEOREM TypeCorrect == Safety => []TypeOK
<1>1. Watched => TypeOK
  BY DEF Watched
<1> QED
  BY <1>1, AlwaysWatched, PTL

(* reads, cpy_reads, fd_max and the kernel's table agree after any sequence *)
(* of accept(), close() and reuse of a descriptor.                          *)
THEOREM DescriptorsAgree == Safety => []DescriptorsWatched
<1>1. Watched => DescriptorsWatched
  BY DEF Watched
<1> QED
  BY <1>1, AlwaysWatched, PTL

-----------------------------------------------------------------------------
(* A connection is in the queue or behind one descriptor, and only a client *)
(* that has left resets it.                                                 *)
Placed ==
  /\ \A f, g \in Open : table[f] = table[g] => f = g
  /\ \A i, j \in DOMAIN queue : queue[i] = queue[j] => i = j
  /\ \A i \in DOMAIN queue, f \in Fds : queue[i] # table[f]
  /\ \A c \in Conns : net[c].cli = "none" =>
       /\ \A i \in DOMAIN queue : queue[i] # c
       /\ \A f \in Fds : table[f] # c
  /\ \A c \in Conns : Quiet(net[c])

(* What is readable, descriptor by descriptor.                              *)
LEMMA ReadableFdsIs ==
  \A f : f \in ReadableFds <=>
           \/ f = Serv /\ queue # <<>>
           \/ f \in Open /\ Readable(net[table[f]])
BY FdsAreNumbers DEF ReadableFds, Open

(* A step that adds no connection to table or queue places none twice.      *)
LEMMA StillPlaced ==
  ASSUME Watched, Placed,
         \A f \in Fds : table'[f] = table[f] \/ table'[f] = NoConn,
         queue' = queue \/ queue' = <<>>,
         \A c \in Conns : Keeps(net[c], net'[c])
  PROVE  Placed'
<1>1. \A i \in DOMAIN queue : queue[i] \in Conns /\ queue[i] # NoConn
  BY SelectAssumption DEF Watched, TypeOK
<1>2. queue' = queue \/ DOMAIN queue' = {}
  OBVIOUS
<1>3. \A f \in Open' : f \in Open /\ table'[f] = table[f]
  BY DEF Open
<1>4. \A c \in Conns : c # NoConn
  BY SelectAssumption
<1> USE DEF Placed
<1>5. \A f, g \in Open' : table'[f] = table'[g] => f = g
  BY <1>3
<1>6. \A i, j \in DOMAIN queue' : queue'[i] = queue'[j] => i = j
  BY <1>2
<1>7. \A i \in DOMAIN queue', f \in Fds : queue'[i] # table'[f]
  BY <1>1, <1>2
<1>8. \A c \in Conns : net'[c].cli = "none" =>
        /\ \A i \in DOMAIN queue' : queue'[i] # c
        /\ \A f \in Fds : table'[f] # c
  BY <1>2, <1>4 DEF Keeps
<1>9. \A c \in Conns : Quiet(net[c])'
  BY DEF Keeps, Quiet
<1> QED
  BY <1>5, <1>6, <1>7, <1>8, <1>9

(* A step that closes no descriptor, empties no queue and takes no bytes    *)
(* leaves what is ready ready.                                              *)
LEMMA StillReady ==
  ASSUME Watched, Placed, ReadyStaysReady,
         table' = table, ready' \subseteq ready,
         queue # <<>> => queue' # <<>>,
         \A c \in Conns : StaysReadable(net[c], net'[c])
  PROVE  ReadyStaysReady'
<1>1. ASSUME NEW f \in ready' PROVE f \in ReadableFds'
  <2>1. f \in ReadableFds
    BY DEF ReadyStaysReady
  <2>2. CASE f = Serv /\ queue # <<>>
    BY <2>2 DEF ReadableFds
  <2>3. CASE f \in Open /\ Readable(net[table[f]])
    <3>1. table[f] \in Conns /\ f \in Fds
      BY <2>3, OpenRefers DEF Watched
    <3>2. Quiet(net[table[f]])
      BY <3>1 DEF Placed
    <3>3. Readable(net'[table[f]])
      BY <2>3, <3>1, <3>2 DEF StaysReadable
    <3>4. f # Serv
      BY <3>1, FdsAreNumbers
    <3>5. f \in Open'
      BY <2>3 DEF Open
    <3> QED
      BY <3>3, <3>4, <3>5 DEF ReadableFds, Readable, ReadMeetsEof, ReadFails
  <2> QED
    BY <2>1, <2>2, <2>3, ReadableFdsIs
<1> QED
  BY <1>1 DEF ReadyStaysReady

Scanned == Watched /\ Placed /\ ReadyStaysReady

(* A client's call.                                                         *)
LEMMA ClientScanned ==
  ASSUME Scanned, NEW c \in Conns, ClientNext(c)
  PROVE  (Placed /\ ReadyStaysReady)'
<1>0. /\ Watched /\ Placed /\ ReadyStaysReady /\ TypeOK
      /\ net[c] \in Connection
      /\ \A d \in Conns : net[d] \in Connection
  BY DEF Scanned, Watched, TypeOK
<1>1. table' = table /\ ready' = ready
  BY DEF ClientNext, Connect, CliSend, CliRead, CliClose, sets
<1>2. CASE Connect(c)
  <2>1. /\ Len(queue') = Len(queue) + 1
        /\ \A i \in 1..Len(queue) : queue'[i] = queue[i]
        /\ queue'[Len(queue) + 1] = c
        /\ DOMAIN queue = 1..Len(queue)
        /\ DOMAIN queue' = 1..(Len(queue) + 1)
        /\ Len(queue) \in Nat
    BY <1>0, <1>2 DEF Connect, TypeOK
  <2>2. net[c].cli = "none" /\ net'[c].cli = "open" /\ net'[c].rst = net[c].rst
    BY <1>0, <1>2 DEF Connect, Connected, TypeOK, Connection
  <2>3. \A d \in Conns : d # c => net'[d] = net[d]
    BY <1>0, <1>2 DEF Connect, TypeOK
  <2>4. /\ \A i \in DOMAIN queue : queue[i] # c
        /\ \A f \in Fds : table[f] # c
    BY <1>0, <2>2 DEF Placed
  <2>5. \A f, g \in Open' : table'[f] = table'[g] => f = g
    BY <1>0, <1>1 DEF Placed, Open
  <2>6. \A i, j \in DOMAIN queue' : queue'[i] = queue'[j] => i = j
    BY <1>0, <2>1, <2>4 DEF Placed
  <2>7. \A i \in DOMAIN queue', f \in Fds : queue'[i] # table'[f]
    BY <1>0, <1>1, <2>1, <2>4 DEF Placed
  <2>8. \A d \in Conns : net'[d].cli = "none" =>
          /\ \A i \in DOMAIN queue' : queue'[i] # d
          /\ \A f \in Fds : table'[f] # d
    BY <1>0, <1>1, <2>1, <2>2, <2>3 DEF Placed
  <2>9. \A d \in Conns : Quiet(net[d])'
    BY <1>0, <2>2, <2>3 DEF Placed, Quiet
  <2>10. \A d \in Conns : StaysReadable(net[d], net'[d])
    <3>1. StaysReadable(net[c], net'[c])
      BY <1>0, <1>2, <2>2 DEF Connect, Connected, TypeOK, Connection,
           StaysReadable, Readable, ReadMeetsEof, ReadFails, Quiet
    <3> QED
      BY <1>0, <2>3, <3>1, OpsKeep
  <2>11. queue' # <<>>
    BY <2>1
  <2> QED
    BY <1>0, <1>1, <2>5, <2>6, <2>7, <2>8, <2>9, <2>10, <2>11, StillReady
       DEF Placed
<1>3. ASSUME queue' = queue, \A d \in Conns : d # c => net'[d] = net[d],
             Keeps(net[c], net'[c]), StaysReadable(net[c], net'[c])
      PROVE  (Placed /\ ReadyStaysReady)'
  <2>1. \A d \in Conns :
          Keeps(net[d], net'[d]) /\ StaysReadable(net[d], net'[d])
    BY <1>0, <1>3, OpsKeep
  <2> QED
    BY <1>0, <1>1, <1>3, <2>1, StillPlaced, StillReady
<1>4. CASE CliSend(c)
  <2>1. /\ queue' = queue /\ \A d \in Conns : d # c => net'[d] = net[d]
        /\ net'[c] = Sent(net[c], sent[c] + 1) /\ sent[c] + 1 \in Nat
    BY <1>0, <1>4 DEF CliSend, TypeOK
  <2> QED
    BY <1>0, <1>3, <2>1, OpsKeep
<1>5. CASE CliRead(c)
  <2>1. PICK n \in Counts(net[c].down, Cap) :
          net' = [net EXCEPT ![c] = Taken(@, n)]
    BY <1>5 DEF CliRead
  <2>2. /\ queue' = queue /\ \A d \in Conns : d # c => net'[d] = net[d]
        /\ net'[c] = Taken(net[c], n)
    BY <1>0, <1>5, <2>1 DEF CliRead, TypeOK
  <2> QED
    BY <1>0, <1>3, <2>2, OpsKeep
<1>6. CASE CliClose(c)
  <2>1. /\ queue' = queue /\ \A d \in Conns : d # c => net'[d] = net[d]
        /\ net'[c] = Left(net[c]) /\ net[c].cli = "open"
    BY <1>0, <1>6 DEF CliClose, TypeOK
  <2> QED
    BY <1>0, <1>3, <2>1, OpsKeep
<1> QED
  BY <1>2, <1>4, <1>5, <1>6 DEF ClientNext

(* accept() moves a connection from the queue to a descriptor that was not  *)
(* ready, and is itself no longer to be visited.                            *)
LEMMA AcceptScanned ==
  ASSUME Scanned, Accept
  PROVE  (Placed /\ ReadyStaysReady)'
<1> DEFINE m == Min(Free)
<1>0. /\ Watched /\ Placed /\ ReadyStaysReady /\ TypeOK
  BY DEF Scanned, Watched
<1>1. m \in Fds /\ m \notin Open
  BY AcceptedIsFree DEF Accept, Free
<1>2. /\ Len(queue) \in Nat \ {0}
      /\ DOMAIN queue = 1..Len(queue)
      /\ DOMAIN queue' = 1..(Len(queue) - 1)
      /\ \A i \in DOMAIN queue' : queue'[i] = queue[i + 1] /\ i + 1 \in DOMAIN queue
      /\ 1 \in DOMAIN queue
      /\ Head(queue) = queue[1]
  BY <1>0, HeadTailProperties, EmptySeq DEF Accept, TypeOK
<1>3. table'[m] = queue[1] /\ \A f \in Fds : f # m => table'[f] = table[f]
  BY <1>0, <1>1, <1>2 DEF Accept, TypeOK
<1>4. net' = net /\ ready' = ready \ {Serv}
  BY DEF Accept
<1>5. \A f \in Open' : f \in Fds /\ (f = m \/ f \in Open)
  BY <1>3 DEF Open
<1>6. \A f \in Fds : queue[1] # table[f]
  BY <1>0, <1>2 DEF Placed
<1>7. Placed'
  <2>1. \A f, g \in Open' : table'[f] = table'[g] => f = g
    BY <1>0, <1>3, <1>5, <1>6 DEF Placed
  <2>2. \A i, j \in DOMAIN queue' : queue'[i] = queue'[j] => i = j
    BY <1>0, <1>2 DEF Placed
  <2>3. \A i \in DOMAIN queue', f \in Fds : queue'[i] # table'[f]
    BY <1>0, <1>2, <1>3 DEF Placed
  <2>4. \A c \in Conns : net'[c].cli = "none" =>
          /\ \A i \in DOMAIN queue' : queue'[i] # c
          /\ \A f \in Fds : table'[f] # c
    BY <1>0, <1>2, <1>3, <1>4 DEF Placed
  <2>5. \A c \in Conns : Quiet(net[c])'
    BY <1>0, <1>4 DEF Placed, Quiet
  <2> QED
    BY <2>1, <2>2, <2>3, <2>4, <2>5 DEF Placed
<1>8. ASSUME NEW f \in ready' PROVE f \in ReadableFds'
  <2>1. f \in Open /\ Readable(net[table[f]])
    BY <1>0, <1>4, ReadableFdsIs DEF ReadyStaysReady
  <2>2. f \in Fds /\ f # m /\ f # Serv /\ table'[f] = table[f]
    BY <1>1, <1>3, <2>1, FdsAreNumbers DEF Open
  <2>3. f \in Open'
    BY <2>1, <2>2 DEF Open
  <2> QED
    BY <1>4, <2>1, <2>2, <2>3 DEF ReadableFds, Readable, ReadMeetsEof, ReadFails
<1> QED
  BY <1>7, <1>8 DEF ReadyStaysReady

(* A read() or close() of one descriptor leaves the others ready, for they  *)
(* refer to other connections.                                              *)
LEMMA ReadScanned ==
  ASSUME Scanned, NEW f \in Fds,
         ServRead(f) \/ ServReadFails(f) \/ ServEof(f)
  PROVE  (Placed /\ ReadyStaysReady)'
<1> DEFINE c == table[f]
<1>0. /\ Watched /\ Placed /\ ReadyStaysReady /\ TypeOK /\ VisitsClient(f)
  BY DEF Scanned, Watched, ServRead, ServReadFails, ServEof
<1>1. f \in Open /\ c \in Conns /\ net[c] \in Connection
  BY <1>0, ServedIsOpen, OpenRefers
<1>2. \A d \in Conns : net[d] \in Connection
  BY <1>0 DEF TypeOK
<1>3. queue' = queue /\ ready' = ready \ {f}
  BY DEF ServRead, ServReadFails, ServEof
<1>4. \A g \in Fds : table'[g] = table[g] \/ table'[g] = NoConn
  BY <1>0 DEF ServRead, ServReadFails, ServEof, TypeOK
<1>5. \A g \in Fds : g # f => table'[g] = table[g]
  BY <1>0 DEF ServRead, ServReadFails, ServEof, TypeOK
<1>6. /\ \A d \in Conns : d # c => net'[d] = net[d]
      /\ Keeps(net[c], net'[c])
  <2>1. CASE ServRead(f)
    <3>1. PICK n \in Reads(net[c]) : net' = [net EXCEPT ![c] = AfterRead(@, n)]
      BY <2>1 DEF ServRead
    <3>2. net'[c] = AfterRead(net[c], n)
      BY <1>0, <1>1, <3>1 DEF TypeOK
    <3> QED
      BY <1>0, <1>1, <3>1, <3>2, OpsKeep DEF TypeOK
  <2>2. CASE ServReadFails(f)
    <3>1. net'[c] = Reported(net[c]) /\ net[c].rst # "none"
      BY <1>0, <1>1, <2>2 DEF ServReadFails, ReadFails, TypeOK
    <3> QED
      BY <1>0, <1>1, <2>2, <3>1, OpsKeep DEF ServReadFails, TypeOK
  <2>3. CASE ServEof(f)
    BY <1>1, <2>3, OpsKeep DEF ServEof
  <2> QED
    BY <2>1, <2>2, <2>3
<1>7. Placed'
  <2>1. \A d \in Conns : Keeps(net[d], net'[d])
    BY <1>2, <1>6, OpsKeep
  <2> QED
    BY <1>0, <1>3, <1>4, <2>1, StillPlaced
<1>8. ASSUME NEW g \in ready' PROVE g \in ReadableFds'
  <2>1. g # f /\ g \in ReadableFds
    BY <1>0, <1>3 DEF ReadyStaysReady
  <2>2. CASE g = Serv /\ queue # <<>>
    BY <1>3, <2>2 DEF ReadableFds
  <2>3. CASE g \in Open /\ Readable(net[table[g]])
    <3>1. g \in Fds /\ table[g] \in Conns
      BY <1>0, <2>3, OpenRefers
    <3>2. table[g] # c /\ table'[g] = table[g]
      BY <1>0, <1>1, <1>5, <2>1, <2>3, <3>1 DEF Placed
    <3>3. net'[table[g]] = net[table[g]]
      BY <1>6, <3>1, <3>2
    <3>4. g \in Open' /\ g # Serv
      BY <2>3, <3>1, <3>2, FdsAreNumbers DEF Open
    <3> QED
      BY <2>3, <3>2, <3>3, <3>4
         DEF ReadableFds, Readable, ReadMeetsEof, ReadFails
  <2> QED
    BY <2>1, <2>2, <2>3, ReadableFdsIs
<1> QED
  BY <1>7, <1>8 DEF ReadyStaysReady

(* A write() takes no bytes from anybody's socket.                          *)
LEMMA WriteScanned ==
  ASSUME Scanned, ServWrite \/ ServWriteLost
  PROVE  (Placed /\ ReadyStaysReady)'
<1> DEFINE c == table[clnt]
<1>0. /\ Watched /\ Placed /\ ReadyStaysReady /\ TypeOK
      /\ pc = "write" /\ clnt \in Open
  BY DEF Scanned, Watched, DescriptorsWatched, ServWrite, ServWriteLost
<1>1. c \in Conns /\ net[c] \in Connection
  BY <1>0, OpenRefers
<1>2. \A d \in Conns : net[d] \in Connection
  BY <1>0 DEF TypeOK
<1>3. UNCHANGED <<table, ready, queue>>
  BY DEF ServWrite, ServWriteLost, sets
<1>4. /\ \A d \in Conns : d # c => net'[d] = net[d]
      /\ Keeps(net[c], net'[c]) /\ StaysReadable(net[c], net'[c])
  <2>1. CASE ServWrite
    <3>1. PICK n \in Writes(net[c], buf) :
            net' = [net EXCEPT ![c] = AfterWrite(@, buf, n)]
      BY <2>1 DEF ServWrite
    <3>2. net'[c] = AfterWrite(net[c], buf, n)
      BY <1>0, <1>1, <3>1 DEF TypeOK
    <3> QED
      BY <1>0, <1>1, <3>1, <3>2, OpsKeep DEF TypeOK
  <2>2. CASE ServWriteLost
    <3>1. \/ /\ net' = [net EXCEPT ![c] = AfterReset(@)]
             /\ WriteDrawsReset(net[c])
          \/ /\ net' = [net EXCEPT ![c] = Reported(@)]
             /\ net[c].rst # "none"
      BY <2>2 DEF ServWriteLost, WriteFails
    <3>2. \/ net'[c] = AfterReset(net[c]) /\ WriteDrawsReset(net[c])
          \/ net'[c] = Reported(net[c]) /\ net[c].rst # "none"
      BY <1>0, <1>1, <3>1 DEF TypeOK
    <3> QED
      BY <1>0, <1>1, <3>1, <3>2, OpsKeep DEF TypeOK
  <2> QED
    BY <2>1, <2>2
<1>5. \A d \in Conns : Keeps(net[d], net'[d]) /\ StaysReadable(net[d], net'[d])
  BY <1>2, <1>4, OpsKeep
<1> QED
  BY <1>0, <1>3, <1>5, StillPlaced, StillReady

(* The end of the process closes everything.                                *)
LEMMA StopsScanned ==
  ASSUME Scanned, Stops, \A c \in Conns : Keeps(net[c], net'[c])
  PROVE  (Placed /\ ReadyStaysReady)'
<1>1. /\ \A f \in Fds : table'[f] = NoConn
      /\ queue' = <<>> /\ ready' = {}
  BY DEF Stops
<1> QED
  BY <1>1, StillPlaced DEF Scanned, ReadyStaysReady

(* All of this together is inductive.                                       *)
LEMMA AlwaysScanned == Safety => []Scanned
<1>1. Init => Placed /\ ReadyStaysReady
  <2> SUFFICES ASSUME Init PROVE Placed /\ ReadyStaysReady
    OBVIOUS
  <2>1. Open = {} /\ DOMAIN queue = {} /\ \A f \in Fds : table[f] = NoConn
    BY DEF Init, Open
  <2>2. \A c \in Conns : c # NoConn
    BY SelectAssumption
  <2>3. \A c \in Conns : Quiet(net[c])
    BY DEF Init, Unconnected, Quiet
  <2> QED
    BY <2>1, <2>2, <2>3 DEF Init, Placed, ReadyStaysReady
<1>2. Scanned /\ [Next]_vars => (Placed /\ ReadyStaysReady)'
  <2> SUFFICES ASSUME Scanned, [Next]_vars PROVE (Placed /\ ReadyStaysReady)'
    OBVIOUS
  <2>0. /\ TypeOK /\ \A c \in Conns : net[c] \in Connection
        /\ Placed /\ Watched /\ ReadyStaysReady
    BY DEF Scanned, Watched, TypeOK
  <2>1. CASE Select
    <3>1. /\ UNCHANGED <<table, queue, net>>
          /\ ready' \subseteq ReadableFds
      BY <2>1 DEF Select, Selected
    <3>2. Placed'
      BY <2>0, <3>1, StillPlaced, OpsKeep
    <3>3. ReadableFds' = ReadableFds
      BY <3>1 DEF ReadableFds, Open, Readable, ReadMeetsEof, ReadFails
    <3> QED
      BY <3>1, <3>2, <3>3 DEF ReadyStaysReady
  <2>2. CASE Accept
    BY <2>2, AcceptScanned
  <2>3. CASE AcceptFails
    BY <2>0, <2>3, StopsScanned, OpsKeep DEF AcceptFails
  <2>4. ASSUME NEW f \in Fds, ServRead(f) \/ ServReadFails(f) \/ ServEof(f)
        PROVE  (Placed /\ ReadyStaysReady)'
    BY <2>4, ReadScanned
  <2>5. CASE ServWrite \/ ServWriteLost
    BY <2>5, WriteScanned
  <2>6. CASE ServKilled
    <3> DEFINE c == table[clnt]
    <3>1. c \in Conns /\ net[c].rst # "none"
      BY <2>0, <2>6, OpenRefers
         DEF ServKilled, WriteKills, Watched, DescriptorsWatched
    <3>2. net' = [net EXCEPT ![c] = Reported(@)]
      BY <2>6 DEF ServKilled
    <3>3. \A d \in Conns : net'[d] = net[d] \/ (d = c /\ net'[d] = Reported(net[d]))
      BY <2>0, <3>1, <3>2 DEF TypeOK
    <3>4. \A d \in Conns : Keeps(net[d], net'[d])
      BY <2>0, <3>1, <3>3, OpsKeep
    <3> QED
      BY <2>6, <3>4, StopsScanned DEF ServKilled
  <2>7. ASSUME NEW c \in Conns, ClientNext(c)
        PROVE  (Placed /\ ReadyStaysReady)'
    BY <2>7, ClientScanned
  <2>8. CASE UNCHANGED vars
    BY <2>0, <2>8, StillPlaced, StillReady, OpsKeep DEF vars
  <2> QED
    BY <2>1, <2>2, <2>3, <2>4, <2>5, <2>6, <2>7, <2>8 DEF Next, ServerNext
<1> QED
  BY <1>1, <1>2, AlwaysWatched, PTL DEF Safety, Scanned

(* What select() reported is still true when the scan gets there: neither   *)
(* accept() nor read() ever blocks the server.                              *)
THEOREM NeverBlocks == Safety => []ReadyStaysReady
<1>1. Scanned => ReadyStaysReady
  BY DEF Scanned
<1> QED
  BY <1>1, AlwaysScanned, PTL

(* The one thread of the server sleeps in select() or in write(), never in  *)
(* accept() or read().                                                      *)
THEOREM LoopSleepsInSelectOnly == Safety => []LoopNeverBlocks
BY DescriptorsAgree, NeverBlocks, PTL DEF LoopNeverBlocks
-----------------------------------------------------------------------------
\* What rcv_buffer holds of a connection's bytes.
Held(c) == IF pc = "write" /\ table[clnt] = c THEN buf ELSE <<>>

\* One connection's bytes flow.
Whole(c) == sent[c] <= Quota[c] /\ Flow(got[c], net[c], Held(c), sent[c])

\* ... of every connection, and a write() has something to write.
BytesInv ==
  /\ pc = "write" => buf # <<>>
  /\ \A c \in Conns : Whole(c)

(* What a connection consists of, seen through the invariant.               *)
LEMMA BytesTypes ==
  ASSUME Scanned, BytesInv, NEW c \in Conns
  PROVE  /\ net[c] \in Connection /\ got[c] \in Seq(Nat) /\ Held(c) \in Seq(Nat)
         /\ sent[c] \in Nat /\ Quota[c] \in Nat
         /\ Whole(c) /\ Quiet(net[c])
<1>1. <<>> \in Seq(Nat)
  BY FlowBegins
<1> QED
  BY <1>1, SelectAssumption
  DEF Scanned, Watched, TypeOK, Placed, BytesInv, Held

(* What leaves a connection and its part of rcv_buffer alone.               *)
LEMMA WholeKept ==
  ASSUME NEW c \in Conns, Whole(c), net'[c] = net[c], Held(c)' = Held(c),
         sent'[c] = sent[c], got'[c] = got[c]
  PROVE  Whole(c)'
BY DEF Whole

(* A client's calls keep the bytes in order.                                *)
LEMMA ClientBytes ==
  ASSUME Scanned, BytesInv, NEW c \in Conns, ClientNext(c)
  PROVE  BytesInv'
<1>0. /\ net[c] \in Connection /\ got[c] \in Seq(Nat) /\ Held(c) \in Seq(Nat)
      /\ sent[c] \in Nat /\ Quota[c] \in Nat /\ Whole(c)
  BY BytesTypes
<1>1. TypeOK
  BY DEF Scanned, Watched
<1>2. UNCHANGED <<pc, table, clnt, buf>>
  BY DEF ClientNext, Connect, CliSend, CliRead, CliClose, echo
<1>3. \A d \in Conns : Held(d)' = Held(d)
  BY <1>2 DEF Held
<1>4. \A d \in Conns \ {c} : /\ net'[d] = net[d] /\ sent'[d] = sent[d]
                             /\ got'[d] = got[d]
  BY <1>1 DEF TypeOK, ClientNext, Connect, CliSend, CliRead, CliClose, clients
<1>5. \A d \in Conns \ {c} : Whole(d)'
  BY <1>3, <1>4, WholeKept DEF BytesInv
<1>6. Whole(c)'
  <2> SUFFICES /\ sent'[c] <= Quota[c]
               /\ Flow(got'[c], net'[c], Held(c), sent'[c])
    BY <1>3 DEF Whole
  <2>1. CASE Connect(c)
    <3>1. net'[c] = Connected(net[c]) /\ UNCHANGED <<sent, got>> /\ net[c].cli = "none"
      BY <1>1, <2>1 DEF Connect, clients, TypeOK
    <3>2. Flow(got[c], Connected(net[c]), Held(c), sent[c])
      BY <1>0, <3>1, FlowClient DEF Whole, Present
    <3> QED
      BY <1>0, <3>1, <3>2 DEF Whole
  <2>2. CASE CliSend(c)
    <3>1. /\ net'[c] = Sent(net[c], sent[c] + 1) /\ sent'[c] = sent[c] + 1
          /\ got'[c] = got[c] /\ net[c].cli = "open" /\ sent[c] < Quota[c]
      BY <1>1, <2>2 DEF CliSend, CanSend, TypeOK
    <3>2. sent[c] + 1 <= Quota[c]
      BY <1>0, <3>1
    <3>3. Flow(got[c], Sent(net[c], sent[c] + 1), Held(c), sent[c] + 1)
      BY <1>0, <3>1, FlowClient DEF Whole
    <3> QED
      BY <3>1, <3>2, <3>3
  <2>3. CASE CliRead(c)
    <3>1. PICK n \in Counts(net[c].down, Cap) :
            /\ got' = [got EXCEPT ![c] = @ \o Front(net[c].down, n)]
            /\ net' = [net EXCEPT ![c] = Taken(@, n)]
      BY <2>3 DEF CliRead
    <3>2. /\ net'[c] = Taken(net[c], n) /\ got'[c] = got[c] \o Front(net[c].down, n)
          /\ sent'[c] = sent[c] /\ net[c].cli = "open"
      BY <1>1, <2>3, <3>1 DEF CliRead, TypeOK
    <3>3. Flow(got[c] \o Front(net[c].down, n), Taken(net[c], n), Held(c), sent[c])
      BY <1>0, <3>2, FlowClient DEF Whole
    <3> QED
      BY <1>0, <3>2, <3>3 DEF Whole
  <2>4. CASE CliClose(c)
    <3>1. net'[c] = Left(net[c]) /\ UNCHANGED <<sent, got>> /\ net[c].cli = "open"
      BY <1>1, <2>4 DEF CliClose, clients, TypeOK
    <3>2. Flow(got[c], Left(net[c]), Held(c), sent[c])
      BY <1>0, <3>1, FlowClient DEF Whole
    <3> QED
      BY <1>0, <3>1, <3>2 DEF Whole
  <2> QED
    BY <2>1, <2>2, <2>3, <2>4 DEF ClientNext
<1> QED
  BY <1>2, <1>5, <1>6 DEF BytesInv

(* A server step that neither reads nor writes.                             *)
LEMMA IdleBytes ==
  ASSUME Scanned, BytesInv, pc # "write", pc' # "write",
         UNCHANGED <<net, sent, got>>
  PROVE  BytesInv'
<1>1. \A c \in Conns : Held(c)' = Held(c)
  BY DEF Held
<1> QED
  BY <1>1, WholeKept DEF BytesInv

(* A client that is not there any more has no claim to what the server      *)
(* still holds of its bytes.                                                *)
LEMMA AbsentBytes ==
  ASSUME Scanned, BytesInv, NEW c \in Conns, ~Present(net[c])
  PROVE  /\ Flow(got[c], Reported(net[c]), <<>>, sent[c])
         /\ Flow(got[c], AfterReset(net[c]), <<>>, sent[c])
<1>1. /\ net[c] \in Connection /\ got[c] \in Seq(Nat) /\ Held(c) \in Seq(Nat)
      /\ sent[c] \in Nat /\ Flow(got[c], net[c], Held(c), sent[c])
  BY BytesTypes DEF Whole
<1> QED
  BY <1>1, AbsentFlow

(* A read() takes the bytes of the descriptor served into the empty         *)
(* rcv_buffer.                                                              *)
LEMMA ReadBytes ==
  ASSUME Scanned, BytesInv, NEW f \in Fds, ServRead(f) \/ ServReadFails(f)
  PROVE  BytesInv'
<1>0. TypeOK /\ Watched /\ VisitsClient(f) /\ pc = "scan"
  BY DEF Scanned, Watched, ServRead, ServReadFails, VisitsClient, Visits
<1>1. PICK c \in Conns : c = table[f]
  BY <1>0, ServedIsOpen, OpenRefers
<1>2. /\ net[c] \in Connection /\ got[c] \in Seq(Nat) /\ sent[c] \in Nat
      /\ Whole(c) /\ Quiet(net[c]) /\ Held(c) = <<>>
  BY <1>0, <1>1, BytesTypes DEF Held
<1>3. UNCHANGED <<sent, got, table>>
  BY DEF ServRead, ServReadFails, clients
<1>4. CASE ServRead(f)
  <2>1. PICK n \in Reads(net[c]) :
          /\ buf' = Front(net[c].up, n)
          /\ net' = [net EXCEPT ![c] = AfterRead(@, n)]
    BY <1>1, <1>4 DEF ServRead
  <2>2. pc' = "write" /\ clnt' = f
    BY <1>1, <1>4 DEF ServRead
  <2>3. /\ net'[c] = AfterRead(net[c], n)
        /\ \A d \in Conns \ {c} : net'[d] = net[d]
    BY <1>0, <1>1, <2>1 DEF TypeOK
  <2>4. Flow(got[c], AfterRead(net[c], n), Front(net[c].up, n), sent[c])
    BY <1>2, FlowBegins, FlowServer DEF Whole
  <2>5. Held(c)' = buf' /\ \A d \in Conns \ {c} : Held(d)' = <<>> /\ Held(d) = <<>>
    BY <1>0, <1>1, <1>3, <2>2 DEF Held
  <2>6. Whole(c)'
    BY <1>2, <1>3, <2>1, <2>3, <2>4, <2>5 DEF Whole
  <2>7. \A d \in Conns \ {c} : Whole(d)'
    BY <1>3, <2>3, <2>5, WholeKept DEF BytesInv
  <2>8. buf' # <<>>
    <3>1. n \in Counts(net[c].up, BufSize) /\ net[c].up \in Seq(Nat)
      BY <1>2, <2>1 DEF Reads, Connection
    <3> QED
      BY <2>1, <3>1, FrontNotEmpty
  <2> QED
    BY <2>6, <2>7, <2>8 DEF BytesInv
<1>5. CASE ServReadFails(f)
  <2>1. ReadFails(net[c]) /\ net' = [net EXCEPT ![c] = Reported(@)]
        /\ pc' = pc
    BY <1>1, <1>5 DEF ServReadFails
  <2>2. /\ net'[c] = Reported(net[c])
        /\ \A d \in Conns \ {c} : net'[d] = net[d]
    BY <1>0, <1>1, <2>1 DEF TypeOK
  <2>3. ~Present(net[c])
    BY <1>2, <2>1, ErrorsOfAbsent
  <2>4. Flow(got[c], Reported(net[c]), <<>>, sent[c])
    BY <1>1, <2>3, AbsentBytes
  <2>5. \A d \in Conns : Held(d)' = <<>> /\ Held(d) = <<>>
    BY <1>0, <2>1 DEF Held
  <2>6. Whole(c)'
    BY <1>1, <1>2, <1>3, <2>2, <2>4, <2>5 DEF Whole
  <2>7. \A d \in Conns \ {c} : Whole(d)'
    BY <1>3, <2>2, <2>5, WholeKept DEF BytesInv
  <2> QED
    BY <1>0, <2>1, <2>6, <2>7 DEF BytesInv
<1> QED
  BY <1>4, <1>5

(* A write() takes what it transfers out of rcv_buffer; it gives the rest   *)
(* up only when the client has left.                                        *)
LEMMA WriteBytes ==
  ASSUME Scanned, BytesInv, ServWrite \/ ServWriteLost \/ ServKilled
  PROVE  BytesInv'
<1>0. /\ TypeOK /\ Watched /\ pc = "write" /\ clnt \in Open /\ buf \in Seq(Nat)
  BY DEF Scanned, Watched, DescriptorsWatched, ServWrite, ServWriteLost,
    ServKilled, TypeOK
<1>1. PICK c \in Conns : c = table[clnt]
  BY <1>0, OpenRefers
<1>2. /\ net[c] \in Connection /\ got[c] \in Seq(Nat) /\ sent[c] \in Nat
      /\ Whole(c) /\ Quiet(net[c]) /\ Held(c) = buf
  BY <1>0, <1>1, BytesTypes DEF Held
<1>3. UNCHANGED <<sent, got>>
  BY DEF ServWrite, ServWriteLost, ServKilled, clients, Stops
<1>4. \A d \in Conns \ {c} : Held(d) = <<>>
  BY <1>1 DEF Held
<1>5. ASSUME \A d \in Conns \ {c} : net'[d] = net[d] /\ Held(d)' = <<>>,
             Flow(got[c], net'[c], Held(c)', sent[c])
      PROVE  \A d \in Conns : Whole(d)'
  <2>1. \A d \in Conns \ {c} : Whole(d)'
    BY <1>3, <1>4, <1>5, WholeKept DEF BytesInv
  <2>2. Whole(c)'
    BY <1>1, <1>2, <1>3, <1>5 DEF Whole
  <2> QED
    BY <2>1, <2>2
<1>6. CASE ServWrite
  <2>1. PICK n \in Writes(net[c], buf) :
          /\ net' = [net EXCEPT ![c] = AfterWrite(@, buf, n)]
          /\ IF n = Len(buf)
               THEN EndsWrite
               ELSE buf' = Rest(buf, n) /\ UNCHANGED <<pc, clnt>>
    BY <1>1, <1>6 DEF ServWrite
  <2>2. /\ net'[c] = AfterWrite(net[c], buf, n)
        /\ \A d \in Conns \ {c} : net'[d] = net[d]
        /\ table' = table
    BY <1>0, <1>1, <1>6, <2>1 DEF TypeOK, ServWrite
  <2>3. Flow(got[c], AfterWrite(net[c], buf, n), Rest(buf, n), sent[c])
    BY <1>0, <1>2, FlowServer DEF Whole
  <2>4. n \in Counts(buf, Cap - Len(net[c].down))
    BY <2>1 DEF Writes
  <2>5. CASE n = Len(buf)
    <3>1. Rest(buf, n) = <<>> /\ pc' = "scan"
      BY <1>0, <2>1, <2>4, <2>5, RestEmpty DEF EndsWrite
    <3>2. \A d \in Conns : Held(d)' = <<>>
      BY <3>1 DEF Held
    <3> QED
      BY <1>1, <1>5, <2>2, <2>3, <3>1, <3>2 DEF BytesInv
  <2>6. CASE n # Len(buf)
    <3>1. buf' = Rest(buf, n) /\ UNCHANGED <<pc, clnt>>
      BY <2>1, <2>6
    <3>2. Held(c)' = buf' /\ \A d \in Conns \ {c} : Held(d)' = <<>>
      BY <1>0, <1>1, <2>2, <3>1 DEF Held
    <3>3. Rest(buf, n) # <<>>
      BY <1>0, <2>4, <2>6, RestEmpty
    <3> QED
      BY <1>5, <2>2, <2>3, <3>1, <3>2, <3>3 DEF BytesInv
  <2> QED
    BY <2>5, <2>6
<1>7. CASE ServWriteLost \/ ServKilled
  <2>1. /\ \/ WriteDrawsReset(net[c]) \/ WriteFails(net[c]) \/ WriteKills(net[c])
        /\ \/ net' = [net EXCEPT ![c] = AfterReset(@)]
           \/ net' = [net EXCEPT ![c] = Reported(@)]
        /\ pc' # "write"
    BY <1>1, <1>7 DEF ServWriteLost, ServKilled, EndsWrite, Stops
  <2>2. /\ net'[c] = AfterReset(net[c]) \/ net'[c] = Reported(net[c])
        /\ \A d \in Conns \ {c} : net'[d] = net[d]
    BY <1>0, <1>1, <2>1 DEF TypeOK
  <2>3. ~Present(net[c])
    BY <1>2, <2>1, ErrorsOfAbsent
  <2>4. Flow(got[c], net'[c], <<>>, sent[c])
    BY <1>1, <2>2, <2>3, AbsentBytes
  <2>5. \A d \in Conns : Held(d)' = <<>>
    BY <2>1 DEF Held
  <2> QED
    BY <1>1, <1>5, <2>1, <2>2, <2>4, <2>5 DEF BytesInv
<1> QED
  BY <1>6, <1>7

(* The bytes of every connection flow, always.                              *)
LEMMA AlwaysBytes == Safety => []BytesInv
<1>1. Init => BytesInv
  <2> SUFFICES ASSUME Init, NEW c \in Conns PROVE Whole(c)
    BY DEF BytesInv, Init
  <2>1. /\ net[c] = Unconnected /\ got[c] = <<>> /\ Held(c) = <<>>
        /\ sent[c] = 0
    BY DEF Init, Held
  <2> QED
    BY <2>1, FlowBegins, SelectAssumption DEF Whole
<1>2. Scanned /\ BytesInv /\ [Next]_vars => BytesInv'
  <2> SUFFICES ASSUME Scanned, BytesInv, [Next]_vars PROVE BytesInv'
    OBVIOUS
  <2>1. CASE Select \/ Accept \/ AcceptFails
    <3>1. pc = "scan" /\ pc' # "write" /\ UNCHANGED <<net, sent, got>>
      BY <2>1 DEF Select, Accept, AcceptFails, Visits, Stops, clients
    <3> QED
      BY <3>1, IdleBytes
  <2>2. ASSUME NEW f \in Fds, ServRead(f) \/ ServReadFails(f)
        PROVE  BytesInv'
    BY <2>2, ReadBytes
  <2>3. ASSUME NEW f \in Fds, ServEof(f) PROVE BytesInv'
    <3>1. pc = "scan" /\ pc' # "write" /\ UNCHANGED <<net, sent, got>>
      BY <2>3 DEF ServEof, VisitsClient, Visits, clients
    <3> QED
      BY <3>1, IdleBytes
  <2>4. CASE ServWrite \/ ServWriteLost \/ ServKilled
    BY <2>4, WriteBytes
  <2>5. ASSUME NEW c \in Conns, ClientNext(c) PROVE BytesInv'
    BY <2>5, ClientBytes
  <2>6. CASE UNCHANGED vars
    BY <2>6 DEF vars, BytesInv, Whole, Held
  <2> QED
    BY <2>1, <2>2, <2>3, <2>4, <2>5, <2>6 DEF Next, ServerNext
<1> QED
  BY <1>1, <1>2, AlwaysScanned, PTL DEF Safety
(* The server does nothing to the clients' ends.                            *)
LEMMA ServerKeepsClients ==
  ASSUME Watched, ServerNext \/ UNCHANGED vars
  PROVE  \A c \in Conns : net'[c].cli = net[c].cli
<1>0. TypeOK /\ \A c \in Conns : net[c] \in Connection
  BY DEF Watched, TypeOK
<1>1. ASSUME NEW d \in Conns, NEW k, net' = [net EXCEPT ![d] = k],
             k.cli = net[d].cli
      PROVE  \A c \in Conns : net'[c].cli = net[c].cli
  BY <1>0, <1>1 DEF TypeOK
<1>2. CASE UNCHANGED net
  BY <1>2
<1>3. ASSUME NEW f \in Fds, ServRead(f) \/ ServReadFails(f)
      PROVE  \A c \in Conns : net'[c].cli = net[c].cli
  <2>1. table[f] \in Conns /\ net[table[f]] \in Connection
    BY <1>0, <1>3, ServedIsOpen, OpenRefers DEF ServRead, ServReadFails
  <2>2. CASE ServRead(f)
    <3>1. PICK n : net' = [net EXCEPT ![table[f]] = AfterRead(@, n)]
      BY <2>2 DEF ServRead
    <3>2. AfterRead(net[table[f]], n).cli = net[table[f]].cli
      BY <2>1 DEF AfterRead, Connection
    <3> QED
      BY <1>1, <2>1, <3>1, <3>2
  <2>3. CASE ServReadFails(f)
    <3>1. net' = [net EXCEPT ![table[f]] = Reported(@)]
      BY <2>3 DEF ServReadFails
    <3>2. Reported(net[table[f]]).cli = net[table[f]].cli
      BY <2>1 DEF Reported, Connection
    <3> QED
      BY <1>1, <2>1, <3>1, <3>2
  <2> QED
    BY <1>3, <2>2, <2>3
<1>4. CASE ServWrite \/ ServWriteLost \/ ServKilled
  <2>1. table[clnt] \in Conns /\ net[table[clnt]] \in Connection
    BY <1>0, <1>4, OpenRefers
    DEF ServWrite, ServWriteLost, ServKilled, Watched, DescriptorsWatched
  <2>2. \/ \E n : net' = [net EXCEPT ![table[clnt]] = AfterWrite(@, buf, n)]
        \/ net' = [net EXCEPT ![table[clnt]] = AfterReset(@)]
        \/ net' = [net EXCEPT ![table[clnt]] = Reported(@)]
    BY <1>4 DEF ServWrite, ServWriteLost, ServKilled
  <2>3. /\ \A n : AfterWrite(net[table[clnt]], buf, n).cli = net[table[clnt]].cli
        /\ AfterReset(net[table[clnt]]).cli = net[table[clnt]].cli
        /\ Reported(net[table[clnt]]).cli = net[table[clnt]].cli
    BY <2>1 DEF AfterWrite, AfterReset, Reported, Connection
  <2> QED
    BY <1>1, <2>1, <2>2, <2>3
<1> QED
  BY <1>2, <1>3, <1>4
  DEF ServerNext, Select, Accept, AcceptFails, ServEof, vars

-----------------------------------------------------------------------------
\* The connections the server holds, in a descriptor or queued.
Holding == { c \in Conns : ServerHolds(c) }

(* A failing accept() has a connection for every descriptor and one more.   *)
LEMMA DescriptorsTaken ==
  ASSUME Scanned, AcceptFails
  PROVE  Cardinality(Holding) > Cardinality(Fds)
<1> DEFINE h == [f \in Fds \union {Serv} |->
                   IF f = Serv THEN Head(queue) ELSE table[f]]
<1>0. TypeOK /\ Placed /\ Serv \in ready
  BY VisitedIsReady DEF Scanned, Watched, AcceptFails
<1>1. queue # <<>>
  BY <1>0, ReadableFdsIs, FdsAreNumbers DEF Scanned, ReadyStaysReady, Open
<1>2. 1 \in DOMAIN queue /\ Head(queue) = queue[1] /\ queue[1] \in Conns
  BY <1>0, <1>1, EmptySeq, HeadTailProperties, LenProperties DEF TypeOK
<1>3. \A f \in Fds : f \in Open /\ table[f] \in Conns
  BY <1>0, OpenRefers DEF AcceptFails, Free
<1>4. \A f \in Fds : ServerHolds(table[f]) /\ table[f] # queue[1]
  BY <1>0, <1>2, <1>3 DEF Placed, ServerHolds, Range, TypeOK
<1>5. ServerHolds(queue[1])
  BY <1>2 DEF ServerHolds, Range
<1>6. \A f, g \in Fds : table[f] = table[g] => f = g
  BY <1>0, <1>3 DEF Placed
<1>7. h \in Injection(Fds \union {Serv}, Holding)
  <2>1. h \in [Fds \union {Serv} -> Holding]
    BY <1>2, <1>3, <1>4, <1>5, FdsAreNumbers DEF Holding
  <2>2. \A f, g \in Fds \union {Serv} : h[f] = h[g] => f = g
    BY <1>2, <1>4, <1>6, FdsAreNumbers
  <2> HIDE DEF h
  <2> QED
    BY <2>1, <2>2, Zenon DEF Injection, IsInjective
<1> HIDE DEF h
<1>8. IsFiniteSet(Holding) /\ Cardinality(Holding) \in Nat
  BY SelectAssumption, FS_Subset, FS_CardinalityType DEF Holding
<1>9. /\ IsFiniteSet(Fds \union {Serv})
      /\ Cardinality(Fds \union {Serv}) <= Cardinality(Holding)
  BY <1>7, <1>8, FS_Injection
<1>10. IsFiniteSet(Fds) /\ Cardinality(Fds) \in Nat
  BY <1>9, FS_Subset, FS_CardinalityType
<1>11. Cardinality(Fds \union {Serv}) = Cardinality(Fds) + 1
  BY <1>10, FS_AddElement, FdsAreNumbers
<1> QED
  BY <1>8, <1>9, <1>10, <1>11

(* SIGPIPE is raised in a session whose client left without what is in      *)
(* rcv_buffer.                                                              *)
LEMMA KilledByImpatient ==
  ASSUME Scanned, BytesInv, ServKilled
  PROVE  Abandoned
<1>0. /\ TypeOK /\ pc = "write" /\ clnt \in Open
  BY DEF Scanned, Watched, DescriptorsWatched, ServKilled
<1>1. PICK c \in Conns : c = table[clnt]
  BY <1>0, OpenRefers
<1>2. /\ net[c] \in Connection /\ got[c] \in Seq(Nat) /\ sent[c] \in Nat
      /\ Held(c) \in Seq(Nat)
      /\ Flow(got[c], net[c], Held(c), sent[c]) /\ Quiet(net[c])
      /\ Held(c) = buf /\ buf # <<>>
  BY <1>0, <1>1, BytesTypes DEF Held, BytesInv, Whole
<1>3. Len(got[c]) < sent[c]
  BY <1>2, FlowIsStream
<1>4. WriteKills(net[c])
  BY <1>1 DEF ServKilled
<1>5. ~Present(net[c])
  BY <1>2, <1>4, ErrorsOfAbsent
<1>6. ClientLeft(net[c])
  BY <1>2, <1>5 DEF Present, ClientLeft, Connection
<1>7. ServerHolds(c)
  BY <1>0, <1>1 DEF ServerHolds, Range, TypeOK, Open
<1> QED
  BY <1>3, <1>6, <1>7 DEF Abandoned

(* The two ways for the process to end.                                     *)
LEMMA StopsHow ==
  ASSUME [Next]_vars, ServerStops
  PROVE  AcceptFails \/ ServKilled
BY DEF ServerStops, Next, ServerNext, Select, Accept, ServRead, ServReadFails,
  ServEof, ServWrite, ServWriteLost, EndsWrite, ClientNext, Connect, CliSend,
  CliRead, CliClose, vars

(* No client that waits for the whole of its echo can stop the server: it   *)
(* ends by SIGPIPE, for which a client has to leave with bytes of its own   *)
(* in rcv_buffer, or by accept(), which has to have run out of descriptors  *)
(* while another connection is queued.                                      *)
THEOREM PatientClientsKeepServer == Safety => PatientClientsSafe
<1>1. Scanned /\ BytesInv /\ [Next]_vars
        => [ServerStops => Abandoned \/ Crowded]_vars
  BY StopsHow, DescriptorsTaken, KilledByImpatient DEF Crowded, Holding
<1> QED
  BY <1>1, AlwaysScanned, AlwaysBytes, PTL DEF Safety, PatientClientsSafe

-----------------------------------------------------------------------------
\* EchoService's view of the server.
AbsClient == [c \in Conns |->
                IF ClientLeft(net[c]) THEN "closed" ELSE net[c].cli]
AbsService == [c \in Conns |->
                 CASE net[c].cli = "none" -> "none"
                   [] net[c].cli # "none" /\ ServerHolds(c) -> "open"
                   [] OTHER -> "closed"]

(* No client sends more than the service's bound, the greatest quota.       *)
LEMMA QuotaInBound ==
  ASSUME NEW c \in Conns
  PROVE  /\ Max(Range(Quota)) \in Nat
         /\ Quota[c] \in Nat /\ Quota[c] <= Max(Range(Quota))
<1>1. Range(Quota) \in SUBSET Nat /\ Quota[c] \in Range(Quota)
  BY SelectAssumption DEF Range
<1>2. Quota \in Surjection(Conns, Range(Quota))
  BY SelectAssumption DEF Surjection, Range
<1>3. IsFiniteSet(Range(Quota))
  BY <1>2, SelectAssumption, FS_Surjection
<1>4. Max(Range(Quota)) \in Range(Quota) /\ Quota[c] <= Max(Range(Quota))
  BY <1>1, <1>3, MaxOfFinite
<1> QED
  BY <1>1, <1>4

(* A step of the server, seen by its clients, lets go of connections whose  *)
(* clients have left, or of any when the process ends.                      *)
LEMMA IsRelease ==
  ASSUME UNCHANGED <<sent, got>>,
         \A c \in Conns : net'[c].cli = net[c].cli,
         \A c \in Conns : ServerHolds(c)' => ServerHolds(c),
         \A c \in Conns : ServerHolds(c) /\ ~ServerHolds(c)'
                            => ClientLeft(net[c]) \/ pc' = "exited",
         pc = "exited" => pc' = "exited"
  PROVE  Service!Release
<1> DEFINE S == { c \in Conns : AbsService[c] = "open" /\ ~ServerHolds(c)' }
<1>1. AbsClient' = AbsClient
  BY DEF AbsClient, ClientLeft
<1>2. AbsService' = [c \in Conns |-> IF c \in S THEN "closed" ELSE AbsService[c]]
  <2>1. ASSUME NEW c \in Conns
        PROVE  AbsService'[c] = IF c \in S THEN "closed" ELSE AbsService[c]
    BY DEF AbsService
  <2> QED
    BY <2>1 DEF AbsService
<1>3. \A c \in S : AbsService[c] = "open"
                     /\ (AbsClient[c] = "closed" \/ ~(pc # "exited")')
  BY DEF AbsService, AbsClient
<1>4. S \in SUBSET Conns
  OBVIOUS
<1>5. (pc # "exited")' \in { pc # "exited", FALSE }
  OBVIOUS
<1> HIDE DEF S
<1> QED
  BY <1>1, <1>2, <1>3, <1>4, <1>5 DEF Service!Release, AbsClient, AbsService

(* The server lets go of one connection by close(), on end of file, and of  *)
(* all when it ends.                                                        *)
LEMMA ServerLetsGo ==
  ASSUME Scanned, ServerNext
  PROVE  /\ \A c \in Conns : net'[c].cli = net[c].cli
         /\ UNCHANGED <<sent, got>>
         /\ pc # "exited"
         /\ \A c \in Conns : ServerHolds(c)' => ServerHolds(c)
         /\ \/ pc' = "exited" /\ \A c \in Conns : ~ServerHolds(c)'
            \/ \A c \in Conns :
                 ServerHolds(c) /\ ~ServerHolds(c)' => ClientLeft(net[c])
<1> DEFINE LetsGo ==
             /\ \A c \in Conns : ServerHolds(c)' => ServerHolds(c)
             /\ \/ pc' = "exited" /\ \A c \in Conns : ~ServerHolds(c)'
                \/ \A c \in Conns :
                     ServerHolds(c) /\ ~ServerHolds(c)' => ClientLeft(net[c])
<1>0. TypeOK /\ Watched /\ \A c \in Conns : Quiet(net[c])
  BY DEF Scanned, Watched, Placed
<1>1. /\ \A c \in Conns : net'[c].cli = net[c].cli
      /\ UNCHANGED <<sent, got>>
      /\ pc # "exited"
  BY <1>0, ServerKeepsClients
  DEF ServerNext, Select, Accept, AcceptFails, ServRead, ServReadFails, ServEof,
    ServWrite, ServWriteLost, ServKilled, Stops, clients, Visits, VisitsClient
<1>2. ASSUME UNCHANGED <<table, queue>> PROVE LetsGo
  <2>1. \A c \in Conns : ServerHolds(c)' <=> ServerHolds(c)
    BY <1>2 DEF ServerHolds
  <2> QED
    BY <2>1
<1>3. ASSUME Accept PROVE LetsGo
  <2>1. queue # <<>> /\ queue \in Seq(Conns \union {NoConn}) /\ queue \in Seq(Conns)
    BY <1>0, <1>3 DEF Accept, TypeOK
  <2>2. Range(queue) = {Head(queue)} \union Range(Tail(queue))
    BY <2>1, RangeHeadTail
  <2>3. /\ Min(Free) \in Fds /\ table[Min(Free)] = NoConn
    BY <1>3, AcceptedIsFree DEF Accept, Free, Open
  <2>4. queue' = Tail(queue) /\ table' = [table EXCEPT ![Min(Free)] = Head(queue)]
    BY <1>3 DEF Accept
  <2>5. \A c \in Conns : c \in Range(table)' <=> c = Head(queue) \/ c \in Range(table)
    <3>1. \A c \in Conns : c # NoConn
      BY SelectAssumption
    <3> QED
      BY <1>0, <2>3, <2>4, <3>1 DEF TypeOK, Range
  <2>6. \A c \in Conns : ServerHolds(c)' <=> ServerHolds(c)
    BY <2>2, <2>4, <2>5 DEF ServerHolds
  <2> QED
    BY <2>6
<1>4. ASSUME NEW f \in Fds, ServEof(f) PROVE LetsGo
  <2>1. f \in Open /\ table[f] \in Conns /\ net[table[f]] \in Connection
    BY <1>0, <1>4, ServedIsOpen, OpenRefers DEF ServEof
  <2>2. ClientLeft(net[table[f]])
    BY <1>0, <1>4, <2>1, ErrorsOfAbsent DEF ServEof, Present, Connection, ClientLeft
  <2>3. queue' = queue /\ table' = [table EXCEPT ![f] = NoConn]
    BY <1>4 DEF ServEof
  <2>4. \A c \in Conns : /\ c \in Range(table)' => c \in Range(table)
                         /\ c \in Range(table) /\ c # table[f] => c \in Range(table)'
    <3>1. \A c \in Conns : c # NoConn
      BY SelectAssumption
    <3> QED
      BY <1>0, <2>1, <2>3, <3>1 DEF TypeOK, Range, Open
  <2>5. \A c \in Conns : /\ ServerHolds(c)' => ServerHolds(c)
                         /\ ServerHolds(c) /\ ~ServerHolds(c)' => ClientLeft(net[c])
    BY <2>2, <2>3, <2>4 DEF ServerHolds
  <2> QED
    BY <2>5
<1>5. ASSUME AcceptFails \/ ServKilled PROVE LetsGo
  <2>1. pc' = "exited" /\ queue' = <<>> /\ table' = [f \in Fds |-> NoConn]
    BY <1>5 DEF AcceptFails, ServKilled, Stops
  <2>2. \A c \in Conns : c # NoConn
    BY SelectAssumption
  <2>3. \A c \in Conns : ~ServerHolds(c)'
    BY <2>1, <2>2 DEF ServerHolds, Range
  <2> QED
    BY <2>1, <2>3
<1>6. ASSUME Select \/ ServWrite \/ ServWriteLost PROVE LetsGo
  BY <1>2, <1>6 DEF Select, ServWrite, ServWriteLost
<1>7. ASSUME NEW f \in Fds, ServRead(f) \/ ServReadFails(f)
      PROVE LetsGo
  BY <1>2, <1>7 DEF ServRead, ServReadFails
<1>8. LetsGo
  BY <1>3, <1>4, <1>5, <1>6, <1>7 DEF ServerNext
<1> QED
  BY <1>1, <1>8

(* ... which is what EchoService calls a release.                           *)
LEMMA ServerServes ==
  ASSUME Scanned, ServerNext
  PROVE  Service!Release
BY ServerLetsGo, IsRelease

(* A client's calls are those of EchoService's clients: what it reads is    *)
(* the stream it sent.                                                      *)
LEMMA ClientServes ==
  ASSUME Scanned, BytesInv, Scanned', BytesInv', NEW c \in Conns, ClientNext(c)
  PROVE  Service!Connect(c) \/ Service!Send(c) \/ Service!Echo(c) \/ Service!Leave(c)
<1>0. /\ UNCHANGED <<pc, table, clnt, buf>>
      /\ \A d \in Conns \ {c} : net'[d] = net[d]
      /\ net[c] \in Connection /\ TypeOK
  BY BytesTypes
  DEF Scanned, Watched, TypeOK, ClientNext, Connect, CliSend, CliRead, CliClose, echo
<1>1. (pc # "exited")' = (pc # "exited")
  BY <1>0
<1>2. CASE Connect(c)
  <2>1. /\ net[c].cli = "none" /\ net'[c].cli = "open" /\ UNCHANGED <<sent, got>>
        /\ queue' = Append(queue, c) /\ queue \in Seq(Conns)
    BY <1>0, <1>2 DEF Connect, Connected, Connection, clients, TypeOK
  <2>2. Range(queue') = Range(queue) \union {c}
    BY <2>1, RangeAppend
  <2>3. ServerHolds(c)' /\ \A d \in Conns \ {c} : ServerHolds(d)' <=> ServerHolds(d)
    BY <1>0, <2>2 DEF ServerHolds
  <2>4. AbsClient' = [AbsClient EXCEPT ![c] = "open"] /\ AbsClient[c] = "none"
    BY <1>0, <2>1 DEF AbsClient, ClientLeft
  <2>5. AbsService' = [AbsService EXCEPT ![c] = "open"]
    BY <1>0, <2>1, <2>3 DEF AbsService
  <2> QED
    BY <1>1, <2>1, <2>4, <2>5 DEF Service!Connect, AbsClient, AbsService
<1>3. ASSUME queue' = queue, net[c].cli = "open", net'[c].cli # "none"
      PROVE  AbsService' = AbsService
  BY <1>0, <1>3 DEF AbsService, ServerHolds
<1>4. CASE CliSend(c)
  <2>1. /\ net[c].cli = "open" /\ net'[c].cli = "open" /\ queue' = queue
        /\ sent[c] < Quota[c] /\ sent' = [sent EXCEPT ![c] = @ + 1] /\ got' = got
    BY <1>0, <1>4 DEF CliSend, CanSend, Sent, Connection, TypeOK
  <2>2. AbsClient' = AbsClient /\ AbsClient[c] = "open"
    BY <1>0, <2>1 DEF AbsClient, ClientLeft
  <2>3. sent[c] < Max(Range(Quota))
    <3>1. sent[c] \in Nat
      BY <1>0 DEF TypeOK
    <3> QED
      BY <2>1, <3>1, QuotaInBound
  <2> QED
    BY <1>1, <1>3, <2>1, <2>2, <2>3 DEF Service!Send, AbsClient, AbsService
<1>5. CASE CliRead(c)
  <2>1. PICK n \in Counts(net[c].down, Cap) :
          /\ got' = [got EXCEPT ![c] = @ \o Front(net[c].down, n)]
          /\ net' = [net EXCEPT ![c] = Taken(@, n)]
    BY <1>5 DEF CliRead
  <2>2. /\ net[c].cli = "open" /\ net'[c].cli = "open" /\ queue' = queue
        /\ sent' = sent
    BY <1>0, <1>5, <2>1 DEF CliRead, Taken, Connection, TypeOK
  <2>3. AbsClient' = AbsClient /\ AbsClient[c] = "open"
    BY <1>0, <2>2 DEF AbsClient, ClientLeft
  <2>4. /\ got'[c] \in Seq(Nat) /\ net'[c] \in Connection /\ Held(c)' \in Seq(Nat)
        /\ sent[c] \in Nat /\ Flow(got'[c], net'[c], Held(c)', sent[c])
        /\ sent[c] <= Quota[c]
    <3>1. /\ (net[c] \in Connection)' /\ (got[c] \in Seq(Nat))'
          /\ (Held(c) \in Seq(Nat))' /\ (sent[c] \in Nat)' /\ Whole(c)'
      BY FlowBegins DEF Scanned, Watched, TypeOK, BytesInv, Held
    <3> QED
      BY <2>2, <3>1 DEF Whole
  <2>5. got'[c] = Numbered(Len(got'[c])) /\ Len(got'[c]) <= sent[c]
    BY <2>4, FlowIsStream
  <2>6. Len(got[c]) < Len(got'[c]) /\ Len(got'[c]) \in Nat /\ Len(got[c]) \in Nat
    <3>1. got[c] \in Seq(Nat) /\ net[c].down \in Seq(Nat)
      BY <1>0 DEF Connection, TypeOK
    <3>2. got'[c] = got[c] \o Front(net[c].down, n)
      BY <1>0, <2>1 DEF TypeOK
    <3> QED
      BY <3>1, <3>2, TakenLonger
  <2>7. Len(got'[c]) \in 1..Max(Range(Quota))
    BY <2>4, <2>5, <2>6, QuotaInBound
  <2>8. got' = [got EXCEPT ![c] = Service!Stream(Len(got'[c]))]
    <3>1. got'[c] = Service!Stream(Len(got'[c]))
      BY <2>5, Zenon DEF Numbered, Service!Stream
    <3>2. got' = [got EXCEPT ![c] = got'[c]]
      BY <1>0, <2>1 DEF TypeOK
    <3> QED
      BY <3>1, <3>2, Zenon
  <2>9. Service!Echo(c)
    BY <1>1, <1>3, <2>2, <2>3, <2>5, <2>6, <2>7, <2>8
    DEF Service!Echo, AbsClient, AbsService
  <2> QED
    BY <2>9
<1>6. CASE CliClose(c)
  <2>1. /\ net[c].cli = "open" /\ net'[c] = Left(net[c]) /\ queue' = queue
        /\ UNCHANGED <<sent, got>>
    BY <1>0, <1>6 DEF CliClose, clients, TypeOK
  <2>2. ClientLeft(net'[c]) /\ net'[c].cli # "none"
    BY <1>0, <2>1 DEF Left, Connection, ClientLeft
  <2>3. AbsClient' = [AbsClient EXCEPT ![c] = "closed"] /\ AbsClient[c] = "open"
    BY <1>0, <2>1, <2>2 DEF AbsClient, ClientLeft
  <2> QED
    BY <1>1, <1>3, <2>1, <2>2, <2>3 DEF Service!Leave, AbsClient, AbsService
<1> QED
  BY <1>2, <1>4, <1>5, <1>6 DEF ClientNext

(* The select() server implements EchoService, for any number of clients,   *)
(* descriptors and buffers: clients get their own bytes, in order, and are  *)
(* not hung up on while the process lives.                                  *)
THEOREM ImplementsEchoService == Safety => ServesEcho
<1>1. Init => Service!Init
  <2> SUFFICES ASSUME Init PROVE Service!Init
    OBVIOUS
  <2>1. \A c \in Conns : net[c].cli = "none"
    BY DEF Init, Unconnected
  <2>2. AbsClient = [c \in Conns |-> "none"] /\ AbsService = [c \in Conns |-> "none"]
    BY <2>1 DEF AbsClient, AbsService, ClientLeft
  <2>3. (pc # "exited") = TRUE
    BY DEF Init
  <2> QED
    BY <2>2, <2>3 DEF Init, Service!Init, AbsClient, AbsService
<1>2. /\ Scanned /\ BytesInv /\ Scanned' /\ BytesInv' /\ [Next]_vars
      => [Service!Next]_(Service!vars)
  <2> SUFFICES ASSUME Scanned, BytesInv, Scanned', BytesInv', [Next]_vars
               PROVE  Service!Next \/ UNCHANGED Service!vars
    OBVIOUS
  <2>1. CASE ServerNext
    BY <2>1, ServerServes DEF Service!Next
  <2>2. ASSUME NEW c \in Conns, ClientNext(c) PROVE Service!Next
    BY <2>2, ClientServes DEF Service!Next
  <2>3. CASE UNCHANGED vars
    BY <2>3 DEF vars, Service!vars, ServerHolds
  <2> QED
    BY <2>1, <2>2, <2>3 DEF Next
<1> QED
  BY <1>1, <1>2, AlwaysScanned, AlwaysBytes, PTL DEF Safety, ServesEcho, Service!Spec
-----------------------------------------------------------------------------
\* 12-2's client while the server runs: when it prompts it has had the whole
\* echo of what it sent, and otherwise `due` and `left` tell what is missing.
InSession(c) ==
  /\ cpc[c] = "start" <=> net[c].cli = "none"
  /\ cpc[c] \in {"prompt", "write", "read"} <=> net[c].cli = "open"
  /\ net[c].cli = "open" => ServerHolds(c)
  /\ cpc[c] \in {"start", "prompt", "done"} => Len(got[c]) = sent[c]
  /\ cpc[c] = "write" =>
       0 < left[c] /\ 0 < due[c] /\ sent[c] + left[c] = Len(got[c]) + due[c]
  /\ cpc[c] = "read" => 0 < due[c] /\ sent[c] = Len(got[c]) + due[c]

\* The clients' variables, and the invariant of server and clients together.
SessionTypes ==
  /\ cpc \in [Conns -> {"start", "prompt", "write", "read", "done"}]
  /\ left \in [Conns -> Int]
  /\ due \in [Conns -> Int]

SessionInv ==
  /\ SessionTypes
  /\ pc # "exited" => \A c \in Conns : InSession(c)

(* Whatever a client's program does, SelectEcho lets a client do; the       *)
(* server does what it does there.                                          *)
LEMMA SessionStep ==
  ASSUME [SessionNext]_allvars
  PROVE  [Next]_vars
BY DEF SessionNext, allvars, session, vars, Next, ClientNext, Opens, TypeLine,
  Quit, ClientRuns, WritesLine, WriteLost, ReadsEcho, Dies

(* So what is proved of the server and any clients holds with these.        *)
LEMMA SessionIsSafe == SessionSpec => Safety
<1>1. SessionInit => Init
  BY DEF SessionInit
<1>2. [SessionNext]_allvars => [Next]_vars
  BY SessionStep
<1> QED
  BY <1>1, <1>2, PTL DEF SessionSpec, Safety

(* The program's variables keep their types.                                *)
LEMMA SessionTyped ==
  ASSUME TypeOK, TypeOK', SessionTypes, SessionNext
  PROVE  SessionTypes'
<1> USE DEF SessionTypes
<1>1. ASSUME NEW c \in Conns, Opens(c) \/ Quit(c) \/ Dies(c) PROVE SessionTypes'
  BY <1>1 DEF Opens, Quit, Dies, Goes
<1>2. ASSUME NEW c \in Conns, TypeLine(c) PROVE SessionTypes'
  <2>1. PICK n \in 1..MaxLine : left' = [left EXCEPT ![c] = n]
                                /\ due' = [due EXCEPT ![c] = n]
    BY <1>2 DEF TypeLine
  <2>2. n \in Int /\ cpc' = [cpc EXCEPT ![c] = "write"]
    BY <1>2, LineAssumption DEF TypeLine, Goes
  <2> QED
    BY <2>1, <2>2
<1>3. ASSUME NEW c \in Conns, WritesLine(c) \/ WriteLost(c) PROVE SessionTypes'
  BY <1>3 DEF WritesLine, WriteLost, AfterWriting, Goes
<1>4. ASSUME NEW c \in Conns, ReadsEcho(c) PROVE SessionTypes'
  <2>1. Len(got'[c]) \in Int /\ Len(got[c]) \in Int
    <3>1. got[c] \in Seq(Nat) /\ got'[c] \in Seq(Nat)
      BY DEF TypeOK
    <3> QED
      BY <3>1, LenProperties
  <2> DEFINE k == due[c] - (Len(got'[c]) - Len(got[c]))
  <2>2. due[c] \in Int
    OBVIOUS
  <2>3. k \in Int
    <3> DEFINE d == due[c]
               g == Len(got'[c])
               h == Len(got[c])
    <3>1. d \in Int /\ g \in Int /\ h \in Int
      BY <2>1, <2>2
    <3> HIDE DEF d, g, h
    <3>2. d - (g - h) \in Int
      BY <3>1
    <3> QED
      BY <3>2 DEF d, g, h
  <2>4. /\ due' = [due EXCEPT ![c] = k] /\ left' = left
        /\ \E p \in {"read", "prompt"} : cpc' = [cpc EXCEPT ![c] = p]
    BY <1>4 DEF ReadsEcho, Goes
  <2> HIDE DEF k
  <2> QED
    BY <2>3, <2>4
<1>5. CASE UNCHANGED session
  BY <1>5 DEF session
<1> QED
  BY <1>1, <1>2, <1>3, <1>4, <1>5 DEF SessionNext, ClientRuns

(* A client's step leaves the other clients where they are.                 *)
LEMMA OthersInSession ==
  ASSUME Scanned, SessionTypes, NEW c \in Conns,
         Opens(c) \/ TypeLine(c) \/ Quit(c) \/ ClientRuns(c)
  PROVE  /\ pc' = pc
         /\ \A d \in Conns : ServerHolds(d) => ServerHolds(d)'
         /\ \A d \in Conns \ {c} : InSession(d) => InSession(d)'
<1> USE DEF ClientRuns, Goes, AfterWriting
<1>0. TypeOK
  BY DEF Scanned, Watched
<1>1. /\ pc' = pc /\ table' = table
      /\ queue' \in {queue, Append(queue, c)}
  BY DEF Opens, TypeLine, Quit, WritesLine, WriteLost, ReadsEcho, Dies, Connect,
    CliSend, CliRead, CliClose, vars
<1>2. \A d \in Conns : ServerHolds(d) => ServerHolds(d)'
  <2>1. Range(Append(queue, c)) = Range(queue) \union {c}
    BY <1>0, RangeAppend DEF TypeOK
  <2> QED
    BY <1>1, <2>1 DEF ServerHolds
<1>3. \A d \in Conns \ {c} :
        net'[d] = net[d] /\ got'[d] = got[d] /\ sent'[d] = sent[d]
  BY <1>0 DEF TypeOK, Opens, TypeLine, Quit, WritesLine, WriteLost, ReadsEcho,
    Dies, Connect, CliSend, CliRead, CliClose, vars, clients
<1>4. \A d \in Conns \ {c} :
        cpc'[d] = cpc[d] /\ left'[d] = left[d] /\ due'[d] = due[d]
  BY DEF SessionTypes, Opens, TypeLine, Quit, WritesLine, WriteLost, ReadsEcho,
    Dies
<1>5. \A d \in Conns \ {c} : InSession(d) => InSession(d)'
  BY <1>2, <1>3, <1>4 DEF InSession
<1> QED
  BY <1>1, <1>2, <1>5

(* A client opens its connection, types a line, or quits, which it does     *)
(* only at the prompt.                                                      *)
LEMMA UserInSession ==
  ASSUME Scanned, SessionTypes, NEW c \in Conns, InSession(c),
         Opens(c) \/ TypeLine(c) \/ Quit(c)
  PROVE  InSession(c)'
<1>0. TypeOK /\ net[c] \in Connection
  BY DEF Scanned, Watched, TypeOK
<1>1. CASE Opens(c)
  <2>1. /\ net'[c].cli = "open" /\ cpc'[c] = "prompt"
        /\ sent' = sent /\ got' = got /\ cpc[c] = "start"
    BY <1>0, <1>1 DEF Opens, Goes, SessionTypes, Connect, Connected, Connection,
      clients, TypeOK
  <2>2. ServerHolds(c)'
    <3>1. queue' = Append(queue, c) /\ queue \in Seq(Conns)
      BY <1>0, <1>1 DEF Opens, Connect, TypeOK
    <3>2. Range(queue') = Range(queue) \union {c}
      BY <3>1, RangeAppend
    <3> QED
      BY <3>2 DEF ServerHolds
  <2> QED
    BY <2>1, <2>2 DEF InSession
<1>2. CASE TypeLine(c)
  <2>1. PICK n \in 1..MaxLine : left' = [left EXCEPT ![c] = n]
                                /\ due' = [due EXCEPT ![c] = n]
    BY <1>2 DEF TypeLine
  <2>2. n \in Int /\ 0 < n
    BY LineAssumption
  <2>3. /\ cpc[c] = "prompt" /\ cpc'[c] = "write" /\ left'[c] = n /\ due'[c] = n
        /\ UNCHANGED <<table, queue, net, sent, got>>
    BY <1>2, <2>1 DEF TypeLine, Goes, SessionTypes, vars
  <2>4. ServerHolds(c)' <=> ServerHolds(c)
    BY <2>3 DEF ServerHolds
  <2> QED
    BY <2>2, <2>3, <2>4 DEF InSession
<1>3. CASE Quit(c)
  <2>1. /\ cpc[c] = "prompt" /\ cpc'[c] = "done" /\ net'[c] = Left(net[c])
        /\ UNCHANGED <<sent, got>>
    BY <1>0, <1>3 DEF Quit, Goes, SessionTypes, CliClose, clients, TypeOK
  <2>2. ClientLeft(Left(net[c]))
    BY <1>0 DEF ClientLeft, Left, Connection
  <2> QED
    BY <2>1, <2>2 DEF InSession, ClientLeft
<1> QED
  BY <1>1, <1>2, <1>3

(* It writes and reads its line; while the server runs nothing gets lost    *)
(* and no client dies.                                                      *)
LEMMA RunsInSession ==
  ASSUME Scanned, BytesInv, Scanned', BytesInv', SessionTypes, NEW c \in Conns,
         InSession(c), ClientRuns(c)
  PROVE  InSession(c)'
<1>0. TypeOK /\ net[c] \in Connection /\ sent[c] \in Nat /\ got[c] \in Seq(Nat)
      /\ Len(got[c]) \in Nat /\ left[c] \in Int /\ due[c] \in Int
  BY LenProperties DEF Scanned, Watched, TypeOK, SessionTypes
<1>i. sent[c] \in Int /\ Len(got[c]) \in Int /\ left[c] \in Int /\ due[c] \in Int
  BY <1>0
<1>1. ~WriteLost(c) /\ ~Dies(c)
  BY DEF InSession, WriteLost, Dies, CliClose
<1>2. CASE WritesLine(c)
  <2>1. /\ cpc[c] = "write" /\ left'[c] = left[c] - 1 /\ due' = due
        /\ cpc'[c] = IF left[c] = 1 THEN IF MoreToRead(due[c]) THEN "read"
                                                              ELSE "prompt"
                                    ELSE cpc[c]
    BY <1>2 DEF WritesLine, AfterWriting, Goes, SessionTypes
  <2>2. /\ sent'[c] = sent[c] + 1 /\ got' = got /\ net[c].cli = "open"
        /\ net'[c] = Sent(net[c], sent[c] + 1) /\ UNCHANGED <<table, queue>>
    BY <1>0, <1>2 DEF WritesLine, CliSend, CanSend, TypeOK
  <2>3. net'[c].cli = "open"
    BY <1>0, <2>2 DEF Sent, Connection
  <2>4. ServerHolds(c)'
    BY <2>2 DEF InSession, ServerHolds
  <2>5. 0 < left[c] /\ 0 < due[c] /\ sent[c] + left[c] = Len(got[c]) + due[c]
    BY <2>1 DEF InSession
  <2>6. CASE left[c] = 1
    <3>1. cpc'[c] = "read"
      BY <1>0, <2>1, <2>5, <2>6 DEF MoreToRead
    <3>2. sent'[c] = Len(got'[c]) + due'[c]
      BY <1>0, <2>1, <2>2, <2>5, <2>6
    <3> QED
      BY <2>1, <2>3, <2>4, <2>5, <3>1, <3>2 DEF InSession
  <2>7. CASE left[c] # 1
    <3>1. cpc'[c] = "write" /\ left'[c] = left[c] - 1 /\ due'[c] = due[c]
          /\ sent'[c] = sent[c] + 1 /\ Len(got'[c]) = Len(got[c])
      BY <2>1, <2>2, <2>7
    <3>2. 0 < left[c] - 1
      BY <1>i, <2>5, <2>7
    <3>3. (sent[c] + 1) + (left[c] - 1) = Len(got[c]) + due[c]
      BY <1>i, <2>5
    <3>4. 0 < left'[c] /\ sent'[c] + left'[c] = Len(got'[c]) + due'[c]
      BY <3>1, <3>2, <3>3
    <3> QED
      BY <2>1, <2>3, <2>4, <2>5, <3>1, <3>4 DEF InSession
  <2> QED
    BY <2>6, <2>7
<1>3. CASE ReadsEcho(c)
  <2>1. PICK n \in Counts(net[c].down, Cap) :
          /\ got' = [got EXCEPT ![c] = @ \o Front(net[c].down, n)]
          /\ net' = [net EXCEPT ![c] = Taken(@, n)]
    BY <1>3 DEF ReadsEcho, CliRead
  <2>2. /\ cpc[c] = "read" /\ sent' = sent /\ net[c].cli = "open"
        /\ due'[c] = due[c] - (Len(got'[c]) - Len(got[c]))
        /\ cpc'[c] = IF MoreToRead(due'[c]) THEN "read" ELSE "prompt"
        /\ UNCHANGED <<table, queue>>
    BY <1>3 DEF ReadsEcho, CliRead, Goes, SessionTypes
  <2>3. net'[c].cli = "open"
    BY <1>0, <2>1, <2>2 DEF TypeOK, Taken, Connection
  <2>4. ServerHolds(c)'
    BY <2>2 DEF InSession, ServerHolds
  <2>5. 0 < due[c] /\ sent[c] = Len(got[c]) + due[c]
    BY <2>2 DEF InSession
  <2>6. Len(got'[c]) \in Nat /\ Len(got'[c]) <= sent'[c]
    <3>1. /\ (net[c] \in Connection)' /\ (got[c] \in Seq(Nat))'
          /\ (Held(c) \in Seq(Nat))' /\ (sent[c] \in Nat)' /\ Whole(c)'
      BY FlowBegins DEF Scanned, Watched, TypeOK, BytesInv, Held
    <3>2. Flow(got'[c], net'[c], Held(c)', sent'[c])
      BY <3>1 DEF Whole
    <3> QED
      BY <3>1, <3>2, FlowIsStream, LenProperties
  <2>7. due'[c] \in Nat /\ sent'[c] = Len(got'[c]) + due'[c]
    <3> DEFINE g == Len(got'[c])
               h == Len(got[c])
    <3>1. g \in Int /\ g <= sent[c] /\ due'[c] = due[c] - (g - h)
      BY <2>2, <2>6
    <3>2. h \in Int /\ sent[c] = h + due[c]
      BY <1>i, <2>5
    <3>3. sent'[c] = sent[c]
      BY <2>2
    <3> HIDE DEF g, h
    <3>4. due[c] - (g - h) \in Nat /\ sent[c] = g + (due[c] - (g - h))
      BY <1>i, <3>1, <3>2
    <3>5. due'[c] \in Nat /\ sent'[c] = g + due'[c]
      BY <3>1, <3>3, <3>4
    <3> QED
      BY <3>5 DEF g
  <2>8. ASSUME cpc'[c] = "prompt" PROVE Len(got'[c]) = sent'[c]
    <3> DEFINE g == Len(got'[c])
    <3>1. due'[c] \in Nat /\ ~(0 < due'[c])
      BY <2>2, <2>7, <2>8 DEF MoreToRead
    <3>2. g \in Nat /\ sent'[c] = g + due'[c]
      BY <2>6, <2>7
    <3> HIDE DEF g
    <3>3. due'[c] = 0
      BY <3>1
    <3>4. g = sent'[c]
      BY <3>2, <3>3
    <3> QED
      BY <3>4 DEF g
  <2>9. cpc'[c] \in {"prompt", "read"} /\ (cpc'[c] = "read" => 0 < due'[c])
    BY <2>2 DEF MoreToRead
  <2> QED
    BY <2>3, <2>4, <2>7, <2>8, <2>9 DEF InSession
<1> QED
  BY <1>1, <1>2, <1>3 DEF ClientRuns

(* While the server is there no session is abandoned: a client is done only *)
(* with its whole echo.                                                     *)
LEMMA NobodyAbandons ==
  ASSUME Scanned, SessionInv, pc # "exited"
  PROVE  ~Abandoned
<1>1. SUFFICES ASSUME NEW c \in Conns, ClientLeft(net[c]), Len(got[c]) < sent[c]
               PROVE  FALSE
  BY DEF Abandoned
<1>2. InSession(c) /\ cpc[c] \in {"start", "prompt", "write", "read", "done"}
  BY DEF SessionInv, SessionTypes
<1>3. cpc[c] = "done" /\ Len(got[c]) = sent[c]
  BY <1>1, <1>2 DEF InSession, ClientLeft
<1>4. sent[c] \in Nat
  BY DEF Scanned, Watched, TypeOK
<1> QED
  BY <1>1, <1>3, <1>4

(* With its own clients the server ends only when it holds more connections *)
(* than descriptors: none of them closes with echo on its way.              *)
THEOREM OwnClientsKeepServer == SessionSpec => OnlyCrowdingStops
<1>1. SessionInit /\ Scanned => SessionInv
  <2> SUFFICES ASSUME SessionInit PROVE SessionInv
    OBVIOUS
  <2>1. ASSUME NEW c \in Conns PROVE InSession(c)
    <3>1. /\ net[c].cli = "none" /\ got[c] = <<>> /\ sent[c] = 0
          /\ cpc[c] = "start"
      BY DEF SessionInit, Init, Unconnected
    <3>2. Len(got[c]) = 0
      BY <3>1
    <3> QED
      BY <3>1, <3>2 DEF InSession
  <2>2. pc # "exited" /\ SessionTypes
    BY DEF SessionInit, Init, SessionTypes
  <2> QED
    BY <2>1, <2>2 DEF SessionInv
<1>2. /\ Scanned /\ BytesInv /\ Scanned' /\ BytesInv'
      /\ SessionInv /\ [SessionNext]_allvars
      => SessionInv'
  <2> SUFFICES ASSUME Scanned, BytesInv, Scanned', BytesInv', SessionInv,
                      [SessionNext]_allvars
               PROVE  SessionInv'
    OBVIOUS
  <2>2. SessionTypes /\ TypeOK /\ TypeOK'
    BY DEF SessionInv, Scanned, Watched
  <2>3. CASE UNCHANGED allvars
    BY <2>3 DEF allvars, SessionInv, SessionTypes, InSession, ServerHolds
  <2>4. CASE ServerNext /\ UNCHANGED session
    <3>1. SessionTypes'
      BY <2>2, <2>4, SessionTyped DEF SessionNext
    <3>2. ASSUME pc' # "exited", NEW c \in Conns PROVE InSession(c)'
      <4>1. /\ net'[c].cli = net[c].cli /\ UNCHANGED <<sent, got>>
            /\ InSession(c)
            /\ ServerHolds(c) /\ ~ServerHolds(c)' => ClientLeft(net[c])
        BY <2>4, <3>2, ServerLetsGo DEF SessionInv
      <4> QED
        BY <2>4, <4>1 DEF InSession, session, ClientLeft
    <3> QED
      BY <3>1, <3>2 DEF SessionInv
  <2>5. ASSUME NEW c \in Conns, Opens(c) \/ TypeLine(c) \/ Quit(c) \/ ClientRuns(c)
        PROVE  SessionInv'
    <3>1. SessionTypes'
      BY <2>2, <2>5, SessionTyped DEF SessionNext
    <3>2. pc' = pc /\ \A d \in Conns \ {c} : InSession(d) => InSession(d)'
      BY <2>2, <2>5, OthersInSession
    <3>3. InSession(c) => InSession(c)'
      BY <2>2, <2>5, UserInSession, RunsInSession
    <3> QED
      BY <3>1, <3>2, <3>3 DEF SessionInv
  <2> QED
    BY <2>3, <2>4, <2>5 DEF SessionNext
<1>3. Scanned /\ BytesInv /\ SessionInv /\ [SessionNext]_allvars
        => [ServerStops => Crowded]_vars
  <2> SUFFICES ASSUME Scanned, BytesInv, SessionInv, [SessionNext]_allvars,
                      ServerStops
               PROVE  Crowded
    OBVIOUS
  <2>1. AcceptFails \/ ServKilled
    BY SessionStep, StopsHow
  <2>2. ~Abandoned
    BY NobodyAbandons DEF ServerStops
  <2> QED
    BY <2>1, <2>2, DescriptorsTaken, KilledByImpatient DEF Crowded, Holding
<1> QED
  BY <1>1, <1>2, <1>3, SessionIsSafe, AlwaysScanned, AlwaysBytes, PTL
     DEF SessionSpec, OnlyCrowdingStops

=============================================================================
