-------------------------- MODULE EpollEcho_proofs ---------------------------
(****************************************************************************)
(* The epoll servers, for any number of connections, descriptors, events    *)
(* per epoll_wait(), queue places, buffer sizes and bytes: the registered   *)
(* descriptors are the open ones, and an event of a batch stays true until  *)
(* the loop comes to it; bytes flow in order, the servers implement         *)
(* EchoService, and only a client that leaves early ends one. The argument  *)
(* is that of SelectEcho_proofs, whose sets and scan are different ones.    *)
(****************************************************************************)
EXTENDS EpollEcho, Tcp_proofs

-----------------------------------------------------------------------------
(* Descriptors are numbers above serv_sock's.                               *)
LEMMA FdsAreNumbers ==
  /\ Serv \in Nat /\ Serv \notin Fds
  /\ \A f \in Fds : f \in Nat /\ Serv < f
BY EpollAssumption DEF Fds

(* accept() returns a free descriptor.                                      *)
LEMMA AcceptedIsFree ==
  ASSUME Free # {}
  PROVE  Min(Free) \in Free
<1>1. Free \in SUBSET Nat
  BY FdsAreNumbers DEF Free
<1> QED
  BY <1>1, MinIsIn

(* An open descriptor refers to a connection.                               *)
LEMMA OpenRefers ==
  ASSUME TypeOK, NEW f \in Open
  PROVE  f \in Fds /\ table[f] \in Conns /\ net[table[f]] \in Connection
BY DEF TypeOK, Open

-----------------------------------------------------------------------------
(* Types, registrations and events, which need each other: the inductive    *)
(* invariant also says that clnt_sock is open during write() and names no   *)
(* descriptor otherwise.                                                    *)
Registered ==
  /\ interest = IF pc = "exited" THEN {} ELSE {Serv} \union Open
  /\ events \subseteq interest
  /\ pc = "write" <=> clnt \in Open
  /\ pc # "write" => clnt = Serv

Watched == TypeOK /\ Registered

(* The descriptor the loop serves is open.                                  *)
LEMMA ServedIsOpen ==
  ASSUME Watched, NEW f, HandlesClient(f)
  PROVE  f \in Open /\ f \in events /\ pc = "loop"
BY DEF Watched, Registered, HandlesClient, Handles

(* A client's calls keep the types and touch no descriptor.                 *)
LEMMA ClientWatched ==
  ASSUME Watched, NEW c \in Conns, ClientNext(c)
  PROVE  Watched'
<1> USE DEF TypeOK, epoll, echo, clients
<1>0. TypeOK /\ net[c] \in Connection
  BY DEF Watched
<1>1. UNCHANGED <<pc, table, interest, events, clnt, buf>>
  BY DEF ClientNext, Connect, CliSend, CliRead, CliClose
<1>2. TypeOK'
  <2>1. CASE Connect(c)
    <3>1. Append(queue, c) \in Seq(Conns)
      BY <1>0, AppendProperties
    <3>2. Connected(net[c]) \in Connection
      BY <1>0, ClientOpsType
    <3> QED
      BY <1>0, <2>1, <3>1, <3>2 DEF Connect
  <2>2. CASE CliSend(c)
    <3>1. sent[c] + 1 \in Nat
      BY <1>0
    <3>2. Sent(net[c], sent[c] + 1) \in Connection
      BY <1>0, <3>1, ClientOpsType
    <3> QED
      BY <1>0, <2>2, <3>1, <3>2 DEF CliSend
  <2>3. CASE CliRead(c)
    <3>1. PICK n \in Counts(net[c].down, Cap) :
            /\ got' = [got EXCEPT ![c] = @ \o Front(net[c].down, n)]
            /\ net' = [net EXCEPT ![c] = Taken(@, n)]
      BY <2>3 DEF CliRead
    <3>2. Taken(net[c], n) \in Connection
      BY <1>0, <3>1, ClientOpsType
    <3>3. Front(net[c].down, n) \in Seq(Nat)
      BY <1>0, SplitType DEF Connection
    <3>4. got[c] \o Front(net[c].down, n) \in Seq(Nat)
      BY <1>0, <3>3
    <3> QED
      BY <1>0, <2>3, <3>1, <3>2, <3>4 DEF CliRead
  <2>4. CASE CliClose(c)
    <3>1. Left(net[c]) \in Connection
      BY <1>0, ClientOpsType
    <3> QED
      BY <1>0, <2>4, <3>1 DEF CliClose
  <2> QED
    BY <2>1, <2>2, <2>3, <2>4 DEF ClientNext
<1>3. Registered'
  BY <1>1 DEF Watched, Registered, Open
<1> QED
  BY <1>1, <1>2, <1>3 DEF Watched

(* Every event of a batch is of a registered descriptor.                    *)
LEMMA WaitWatched ==
  ASSUME Watched, EpollWait
  PROVE  Watched'
<1>1. events' \subseteq interest
  BY DEF EpollWait
<1>2. TypeOK'
  BY <1>1 DEF Watched, EpollWait, TypeOK, echo, clients
<1>3. Registered'
  BY <1>1 DEF Watched, EpollWait, Registered, Open, echo
<1> QED
  BY <1>2, <1>3 DEF Watched

(* accept() opens one descriptor, and EPOLL_CTL_ADD registers it.           *)
LEMMA AcceptWatched ==
  ASSUME Watched, Accept
  PROVE  Watched'
<1> DEFINE m == Min(Free)
<1>0. TypeOK
  BY DEF Watched
<1>1. m \in Free /\ m \in Fds /\ m \notin Open
  BY AcceptedIsFree DEF Accept, Free
<1>2. Head(queue) \in Conns /\ Tail(queue) \in Seq(Conns)
  BY <1>0, HeadTailProperties DEF Accept, TypeOK
<1>3. TypeOK'
  BY <1>0, <1>1, <1>2 DEF Accept, TypeOK, echo, clients
<1>4. Open' = Open \union {m}
  <2>1. table'[m] # NoConn
    BY <1>0, <1>1, <1>2, EpollAssumption DEF Accept, TypeOK
  <2>2. \A f \in Fds : f # m => table'[f] = table[f]
    BY <1>0, <1>1 DEF Accept, TypeOK
  <2> QED
    BY <1>1, <2>1, <2>2 DEF Open
<1>5. /\ pc = "loop" /\ pc' = "loop"
      /\ clnt = Serv /\ clnt' = Serv
  BY DEF Watched, Registered, Accept, Handles, echo
<1>6. interest = {Serv} \union Open /\ interest' = interest \union {m}
  BY <1>5 DEF Watched, Registered, Accept
<1>7. events' \subseteq interest'
  BY <1>6 DEF Watched, Registered, Accept
<1>8. clnt' \notin Open'
  BY <1>1, <1>4, <1>5, FdsAreNumbers DEF Open
<1>9. Registered'
  BY <1>4, <1>5, <1>6, <1>7, <1>8 DEF Registered
<1> QED
  BY <1>3, <1>9 DEF Watched

(* A failed accept() is one event less.                                     *)
LEMMA AcceptFailsWatched ==
  ASSUME Watched, AcceptFails
  PROVE  Watched'
BY DEF Watched, AcceptFails, Registered, TypeOK, Open, echo, clients

(* A read(), whatever it returns, of the descriptor an event names.         *)
LEMMA ReadWatched ==
  ASSUME Watched, NEW f \in Fds,
         ServRead(f) \/ ServReadFails(f) \/ ServEof(f)
  PROVE  Watched'
<1>0. TypeOK /\ HandlesClient(f)
  BY DEF Watched, ServRead, ServReadFails, ServEof
<1>1. f \in Open /\ f \in events /\ pc = "loop" /\ clnt = Serv
  BY <1>0, ServedIsOpen DEF Watched, Registered
<1>2. net[table[f]] \in Connection /\ table[f] \in Conns
  BY <1>0, <1>1, OpenRefers
<1>3. interest = {Serv} \union Open /\ events \subseteq interest
  BY <1>1 DEF Watched, Registered
<1>4. CASE ServRead(f)
  <2>1. PICK n \in Reads(net[table[f]]) :
          /\ buf' = Front(net[table[f]].up, n)
          /\ net' = [net EXCEPT ![table[f]] = AfterRead(@, n)]
    BY <1>4 DEF ServRead
  <2>2. AfterRead(net[table[f]], n) \in Connection
    <3>1. <<>> \in Seq(Nat)
      OBVIOUS
    <3> QED
      BY <1>2, <2>1, <3>1, ServerOpsType
  <2>3. Front(net[table[f]].up, n) \in Seq(Nat)
    BY <1>2, <2>1, SplitType DEF Connection, Reads
  <2>4. TypeOK'
    BY <1>0, <1>4, <2>1, <2>2, <2>3 DEF ServRead, TypeOK, clients
  <2>5. Registered'
    BY <1>1, <1>3, <1>4 DEF ServRead, Watched, Registered, Open
  <2> QED
    BY <1>4, <2>4, <2>5 DEF Watched, ServRead
<1>5. CASE ServReadFails(f)
  <2>1. Reported(net[table[f]]) \in Connection
    <3>1. <<>> \in Seq(Nat)
      OBVIOUS
    <3> QED
      BY <1>2, <3>1, ServerOpsType
  <2>2. TypeOK'
    BY <1>0, <1>5, <2>1 DEF ServReadFails, TypeOK, echo, clients
  <2>3. Registered'
    BY <1>1, <1>3, <1>5
       DEF ServReadFails, Watched, Registered, Open, echo
  <2> QED
    BY <1>1, <1>5, <2>2, <2>3 DEF Watched, ServReadFails, echo
<1>6. CASE ServEof(f)
  <2>1. TypeOK'
    BY <1>0, <1>6 DEF ServEof, TypeOK, echo, clients
  <2>2. Open' = Open \ {f}
    BY <1>0, <1>6 DEF ServEof, Open, TypeOK
  <2>3. UNCHANGED <<pc, clnt>> /\ interest' = interest \ {f}
        /\ events' = events \ {f}
    BY <1>6 DEF ServEof, echo
  <2>4. Serv # f /\ Serv \notin Open
    BY FdsAreNumbers DEF Open
  <2>5. Registered'
    BY <1>1, <1>3, <2>2, <2>3, <2>4 DEF Watched, Registered
  <2> QED
    BY <1>1, <2>1, <2>3, <2>5 DEF Watched
<1> QED
  BY <1>4, <1>5, <1>6

(* write() touches no descriptor unless SIGPIPE ends the process.           *)
LEMMA WriteWatched ==
  ASSUME Watched, ServWrite \/ ServWriteLost \/ ServKilled
  PROVE  Watched'
<1> DEFINE c == table[clnt]
<1>0. TypeOK /\ pc = "write" /\ clnt \in Open
  BY DEF Watched, Registered, ServWrite, ServWriteLost, ServKilled
<1>1. net[c] \in Connection /\ c \in Conns /\ buf \in Seq(Nat)
  BY <1>0, OpenRefers DEF TypeOK
<1>2. /\ Reported(net[c]) \in Connection
      /\ AfterReset(net[c]) \in Connection
      /\ <<>> \in Seq(Nat)
  BY <1>1, ServerOpsType
<1>3. CASE ServKilled
  <2>1. net' \in [Conns -> Connection]
    BY <1>0, <1>2, <1>3 DEF ServKilled, TypeOK
  <2>2. <<>> \in Seq(Conns)
    OBVIOUS
  <2>3. TypeOK'
    BY <1>0, <1>2, <1>3, <2>1, <2>2 DEF ServKilled, TypeOK, clients
  <2>4. Open' = {}
    BY <1>3 DEF ServKilled, Open
  <2> QED
    BY <1>3, <2>3, <2>4 DEF ServKilled, Watched, Registered
<1>4. ASSUME UNCHANGED <<table, epoll>>,
             \/ EndsWrite
             \/ UNCHANGED <<pc, clnt>>
      PROVE  Registered' /\ (pc' # "write" => clnt' = Serv)
  <2>1. Open' = Open /\ UNCHANGED <<interest, events>>
    BY <1>4 DEF Open, epoll
  <2>2. Serv \notin Open
    BY FdsAreNumbers DEF Open
  <2>3. CASE EndsWrite
    BY <1>0, <2>1, <2>2, <2>3 DEF Watched, Registered, EndsWrite
  <2>4. CASE UNCHANGED <<pc, clnt>>
    BY <1>0, <2>1, <2>4 DEF Watched, Registered
  <2> QED
    BY <1>4, <2>3, <2>4
<1>5. CASE ServWrite
  <2>1. PICK n \in Writes(net[c], buf) :
          /\ net' = [net EXCEPT ![c] = AfterWrite(@, buf, n)]
          /\ IF n = Len(buf)
               THEN EndsWrite
               ELSE buf' = Rest(buf, n) /\ UNCHANGED <<pc, clnt>>
    BY <1>5 DEF ServWrite
  <2>2. AfterWrite(net[c], buf, n) \in Connection
    BY <1>1, <2>1, ServerOpsType
  <2>3. Rest(buf, n) \in Seq(Nat)
    BY <1>1, <2>1, SplitType DEF Writes
  <2>4. UNCHANGED <<table, epoll, queue, clients>>
    BY <1>5 DEF ServWrite
  <2>5. TypeOK'
    BY <1>0, <1>2, <2>1, <2>2, <2>3, <2>4
       DEF TypeOK, EndsWrite, epoll, clients
  <2>6. EndsWrite \/ UNCHANGED <<pc, clnt>>
    BY <2>1
  <2> QED
    BY <1>4, <2>4, <2>5, <2>6 DEF Watched
<1>6. CASE ServWriteLost
  <2>1. /\ net' = [net EXCEPT ![c] = AfterReset(@)]
           \/ net' = [net EXCEPT ![c] = Reported(@)]
        /\ EndsWrite
        /\ UNCHANGED <<table, epoll, queue, clients>>
    BY <1>6 DEF ServWriteLost
  <2>2. TypeOK'
    BY <1>0, <1>2, <2>1 DEF TypeOK, EndsWrite, epoll, clients
  <2> QED
    BY <1>4, <2>1, <2>2 DEF Watched
<1> QED
  BY <1>3, <1>5, <1>6

(* The invariant holds at first and is kept by every step.                  *)
LEMMA AlwaysWatched == Safety => []Watched
<1>1. Init => Watched
  <2> SUFFICES ASSUME Init PROVE Watched
    OBVIOUS
  <2>1. <<>> \in Seq(Conns) /\ <<>> \in Seq(Nat)
    OBVIOUS
  <2>2. Unconnected \in Connection
    BY <2>1 DEF Unconnected, Connection
  <2>3. TypeOK
    <3>1. queue \in Seq(Conns) /\ buf \in Seq(Nat)
      BY <2>1 DEF Init
    <3>2. net \in [Conns -> Connection] /\ got \in [Conns -> Seq(Nat)]
      BY <2>1, <2>2 DEF Init
    <3> QED
      BY <3>1, <3>2 DEF Init, TypeOK
  <2>4. Open = {}
    BY DEF Init, Open
  <2>5. Registered
    BY <2>4, FdsAreNumbers DEF Init, Registered
  <2> QED
    BY <2>3, <2>5 DEF Init, Watched
<1>2. Watched /\ [Next]_vars => Watched'
  <2> SUFFICES ASSUME Watched, [Next]_vars PROVE Watched'
    OBVIOUS
  <2>1. CASE EpollWait
    BY <2>1, WaitWatched
  <2>2. CASE Accept
    BY <2>2, AcceptWatched
  <2>3. CASE AcceptFails
    BY <2>3, AcceptFailsWatched
  <2>4. ASSUME NEW f \in Fds, ServRead(f) \/ ServReadFails(f) \/ ServEof(f)
        PROVE  Watched'
    BY <2>4, ReadWatched
  <2>5. CASE ServWrite \/ ServWriteLost \/ ServKilled
    BY <2>5, WriteWatched
  <2>6. ASSUME NEW c \in Conns, ClientNext(c) PROVE Watched'
    BY <2>6, ClientWatched
  <2>7. CASE UNCHANGED vars
    BY <2>7 DEF vars, Watched, TypeOK, Registered, Open
  <2> QED
    BY <2>1, <2>2, <2>3, <2>4, <2>5, <2>6, <2>7
       DEF Next, ServerNext, HandleClient, WriteNext
<1> QED
  BY <1>1, <1>2, PTL DEF Safety

(* Every variable of the server keeps its type.                             *)
THEOREM TypeCorrect == Safety => []TypeOK
<1>1. Watched => TypeOK
  BY DEF Watched
<1> QED
  BY <1>1, AlwaysWatched, PTL

-----------------------------------------------------------------------------
(* A connection is in the queue or behind one descriptor, and only a client *)
(* that has left resets it.                                                 *)
Placed ==
  /\ \A f, g \in Open : table[f] = table[g] => f = g
  /\ \A i, j \in DOMAIN queue : queue[i] = queue[j] => i = j
  /\ \A i \in DOMAIN queue, f \in Fds : queue[i] # table[f]
  /\ \A c \in Conns : net[c].cli = "none" =>
       /\ \A i \in DOMAIN queue : queue[i] # c
       /\ \A f \in Fds : table[f] # c
  /\ \A c \in Conns : Quiet(net[c])

(* What EventsCurrent says of the clients' sockets.                         *)
EventsReady == events \subseteq ReadableFds

(* What is readable, descriptor by descriptor.                              *)
LEMMA ReadableFdsIs ==
  \A f : f \in ReadableFds <=>
           \/ f = Serv /\ queue # <<>>
           \/ f \in Open /\ Readable(net[table[f]])
BY FdsAreNumbers DEF ReadableFds, Open

(* A step that adds no connection to table or queue places none twice.      *)
LEMMA StillPlaced ==
  ASSUME Watched, Placed,
         \A f \in Fds : table'[f] = table[f] \/ table'[f] = NoConn,
         queue' = queue \/ queue' = <<>>,
         \A c \in Conns : Keeps(net[c], net'[c])
  PROVE  Placed'
<1>1. \A i \in DOMAIN queue : queue[i] \in Conns /\ queue[i] # NoConn
  BY EpollAssumption DEF Watched, TypeOK
<1>2. queue' = queue \/ DOMAIN queue' = {}
  OBVIOUS
<1>3. \A f \in Open' : f \in Open /\ table'[f] = table[f]
  BY DEF Open
<1>4. \A c \in Conns : c # NoConn
  BY EpollAssumption
<1> USE DEF Placed
<1>5. \A f, g \in Open' : table'[f] = table'[g] => f = g
  BY <1>3
<1>6. \A i, j \in DOMAIN queue' : queue'[i] = queue'[j] => i = j
  BY <1>2
<1>7. \A i \in DOMAIN queue', f \in Fds : queue'[i] # table'[f]
  BY <1>1, <1>2
<1>8. \A c \in Conns : net'[c].cli = "none" =>
        /\ \A i \in DOMAIN queue' : queue'[i] # c
        /\ \A f \in Fds : table'[f] # c
  BY <1>2, <1>4 DEF Keeps
<1>9. \A c \in Conns : Quiet(net[c])'
  BY DEF Keeps, Quiet
<1> QED
  BY <1>5, <1>6, <1>7, <1>8, <1>9

(* A step that closes no descriptor, empties no queue and takes no bytes    *)
(* leaves what is ready ready.                                              *)
LEMMA StillReady ==
  ASSUME Watched, Placed, EventsReady,
         table' = table, events' \subseteq events,
         queue # <<>> => queue' # <<>>,
         \A c \in Conns : StaysReadable(net[c], net'[c])
  PROVE  EventsReady'
<1>1. ASSUME NEW f \in events' PROVE f \in ReadableFds'
  <2>1. f \in ReadableFds
    BY DEF EventsReady
  <2>2. CASE f = Serv /\ queue # <<>>
    BY <2>2 DEF ReadableFds
  <2>3. CASE f \in Open /\ Readable(net[table[f]])
    <3>1. table[f] \in Conns /\ f \in Fds
      BY <2>3, OpenRefers DEF Watched
    <3>2. Quiet(net[table[f]])
      BY <3>1 DEF Placed
    <3>3. Readable(net'[table[f]])
      BY <2>3, <3>1, <3>2 DEF StaysReadable
    <3>4. f # Serv
      BY <3>1, FdsAreNumbers
    <3>5. f \in Open'
      BY <2>3 DEF Open
    <3> QED
      BY <3>3, <3>4, <3>5 DEF ReadableFds, Readable, ReadMeetsEof, ReadFails
  <2> QED
    BY <2>1, <2>2, <2>3, ReadableFdsIs
<1> QED
  BY <1>1 DEF EventsReady

Scanned == Watched /\ Placed /\ EventsReady

(* A client's call.                                                         *)
LEMMA ClientScanned ==
  ASSUME Scanned, NEW c \in Conns, ClientNext(c)
  PROVE  (Placed /\ EventsReady)'
<1>0. /\ Watched /\ Placed /\ EventsReady /\ TypeOK
      /\ net[c] \in Connection
      /\ \A d \in Conns : net[d] \in Connection
  BY DEF Scanned, Watched, TypeOK
<1>1. table' = table /\ events' = events
  BY DEF ClientNext, Connect, CliSend, CliRead, CliClose, epoll
<1>2. CASE Connect(c)
  <2>1. /\ Len(queue') = Len(queue) + 1
        /\ \A i \in 1..Len(queue) : queue'[i] = queue[i]
        /\ queue'[Len(queue) + 1] = c
        /\ DOMAIN queue = 1..Len(queue)
        /\ DOMAIN queue' = 1..(Len(queue) + 1)
        /\ Len(queue) \in Nat
    BY <1>0, <1>2 DEF Connect, TypeOK
  <2>2. net[c].cli = "none" /\ net'[c].cli = "open" /\ net'[c].rst = net[c].rst
    BY <1>0, <1>2 DEF Connect, Connected, TypeOK, Connection
  <2>3. \A d \in Conns : d # c => net'[d] = net[d]
    BY <1>0, <1>2 DEF Connect, TypeOK
  <2>4. /\ \A i \in DOMAIN queue : queue[i] # c
        /\ \A f \in Fds : table[f] # c
    BY <1>0, <2>2 DEF Placed
  <2>5. \A f, g \in Open' : table'[f] = table'[g] => f = g
    BY <1>0, <1>1 DEF Placed, Open
  <2>6. \A i, j \in DOMAIN queue' : queue'[i] = queue'[j] => i = j
    BY <1>0, <2>1, <2>4 DEF Placed
  <2>7. \A i \in DOMAIN queue', f \in Fds : queue'[i] # table'[f]
    BY <1>0, <1>1, <2>1, <2>4 DEF Placed
  <2>8. \A d \in Conns : net'[d].cli = "none" =>
          /\ \A i \in DOMAIN queue' : queue'[i] # d
          /\ \A f \in Fds : table'[f] # d
    BY <1>0, <1>1, <2>1, <2>2, <2>3 DEF Placed
  <2>9. \A d \in Conns : Quiet(net[d])'
    BY <1>0, <2>2, <2>3 DEF Placed, Quiet
  <2>10. \A d \in Conns : StaysReadable(net[d], net'[d])
    <3>1. StaysReadable(net[c], net'[c])
      BY <1>0, <1>2, <2>2 DEF Connect, Connected, TypeOK, Connection,
           StaysReadable, Readable, ReadMeetsEof, ReadFails, Quiet
    <3> QED
      BY <1>0, <2>3, <3>1, OpsKeep
  <2>11. queue' # <<>>
    BY <2>1
  <2> QED
    BY <1>0, <1>1, <2>5, <2>6, <2>7, <2>8, <2>9, <2>10, <2>11, StillReady
       DEF Placed
<1>3. ASSUME queue' = queue, \A d \in Conns : d # c => net'[d] = net[d],
             Keeps(net[c], net'[c]), StaysReadable(net[c], net'[c])
      PROVE  (Placed /\ EventsReady)'
  <2>1. \A d \in Conns :
          Keeps(net[d], net'[d]) /\ StaysReadable(net[d], net'[d])
    BY <1>0, <1>3, OpsKeep
  <2> QED
    BY <1>0, <1>1, <1>3, <2>1, StillPlaced, StillReady
<1>4. CASE CliSend(c)
  <2>1. /\ queue' = queue /\ \A d \in Conns : d # c => net'[d] = net[d]
        /\ net'[c] = Sent(net[c], sent[c] + 1) /\ sent[c] + 1 \in Nat
    BY <1>0, <1>4 DEF CliSend, TypeOK
  <2> QED
    BY <1>0, <1>3, <2>1, OpsKeep
<1>5. CASE CliRead(c)
  <2>1. PICK n \in Counts(net[c].down, Cap) :
          net' = [net EXCEPT ![c] = Taken(@, n)]
    BY <1>5 DEF CliRead
  <2>2. /\ queue' = queue /\ \A d \in Conns : d # c => net'[d] = net[d]
        /\ net'[c] = Taken(net[c], n)
    BY <1>0, <1>5, <2>1 DEF CliRead, TypeOK
  <2> QED
    BY <1>0, <1>3, <2>2, OpsKeep
<1>6. CASE CliClose(c)
  <2>1. /\ queue' = queue /\ \A d \in Conns : d # c => net'[d] = net[d]
        /\ net'[c] = Left(net[c]) /\ net[c].cli = "open"
    BY <1>0, <1>6 DEF CliClose, TypeOK
  <2> QED
    BY <1>0, <1>3, <2>1, OpsKeep
<1> QED
  BY <1>2, <1>4, <1>5, <1>6 DEF ClientNext

(* accept() moves a connection from the queue to a descriptor that was not  *)
(* ready, and is itself no longer to be visited.                            *)
LEMMA AcceptScanned ==
  ASSUME Scanned, Accept
  PROVE  (Placed /\ EventsReady)'
<1> DEFINE m == Min(Free)
<1>0. /\ Watched /\ Placed /\ EventsReady /\ TypeOK
  BY DEF Scanned, Watched
<1>1. m \in Fds /\ m \notin Open
  BY AcceptedIsFree DEF Accept, Free
<1>2. /\ Len(queue) \in Nat \ {0}
      /\ DOMAIN queue = 1..Len(queue)
      /\ DOMAIN queue' = 1..(Len(queue) - 1)
      /\ \A i \in DOMAIN queue' : queue'[i] = queue[i + 1] /\ i + 1 \in DOMAIN queue
      /\ 1 \in DOMAIN queue
      /\ Head(queue) = queue[1]
  BY <1>0, HeadTailProperties, EmptySeq DEF Accept, TypeOK
<1>3. table'[m] = queue[1] /\ \A f \in Fds : f # m => table'[f] = table[f]
  BY <1>0, <1>1, <1>2 DEF Accept, TypeOK
<1>4. net' = net /\ events' = events \ {Serv}
  BY DEF Accept
<1>5. \A f \in Open' : f \in Fds /\ (f = m \/ f \in Open)
  BY <1>3 DEF Open
<1>6. \A f \in Fds : queue[1] # table[f]
  BY <1>0, <1>2 DEF Placed
<1>7. Placed'
  <2>1. \A f, g \in Open' : table'[f] = table'[g] => f = g
    BY <1>0, <1>3, <1>5, <1>6 DEF Placed
  <2>2. \A i, j \in DOMAIN queue' : queue'[i] = queue'[j] => i = j
    BY <1>0, <1>2 DEF Placed
  <2>3. \A i \in DOMAIN queue', f \in Fds : queue'[i] # table'[f]
    BY <1>0, <1>2, <1>3 DEF Placed
  <2>4. \A c \in Conns : net'[c].cli = "none" =>
          /\ \A i \in DOMAIN queue' : queue'[i] # c
          /\ \A f \in Fds : table'[f] # c
    BY <1>0, <1>2, <1>3, <1>4 DEF Placed
  <2>5. \A c \in Conns : Quiet(net[c])'
    BY <1>0, <1>4 DEF Placed, Quiet
  <2> QED
    BY <2>1, <2>2, <2>3, <2>4, <2>5 DEF Placed
<1>8. ASSUME NEW f \in events' PROVE f \in ReadableFds'
  <2>1. f \in Open /\ Readable(net[table[f]])
    BY <1>0, <1>4, ReadableFdsIs DEF EventsReady
  <2>2. f \in Fds /\ f # m /\ f # Serv /\ table'[f] = table[f]
    BY <1>1, <1>3, <2>1, FdsAreNumbers DEF Open
  <2>3. f \in Open'
    BY <2>1, <2>2 DEF Open
  <2> QED
    BY <1>4, <2>1, <2>2, <2>3 DEF ReadableFds, Readable, ReadMeetsEof, ReadFails
<1> QED
  BY <1>7, <1>8 DEF EventsReady

(* A read() or close() of one descriptor leaves the others ready, for they  *)
(* refer to other connections.                                              *)
LEMMA ReadScanned ==
  ASSUME Scanned, NEW f \in Fds,
         ServRead(f) \/ ServReadFails(f) \/ ServEof(f)
  PROVE  (Placed /\ EventsReady)'
<1> DEFINE c == table[f]
<1>0. /\ Watched /\ Placed /\ EventsReady /\ TypeOK /\ HandlesClient(f)
  BY DEF Scanned, Watched, ServRead, ServReadFails, ServEof
<1>1. f \in Open /\ c \in Conns /\ net[c] \in Connection
  BY <1>0, ServedIsOpen, OpenRefers
<1>2. \A d \in Conns : net[d] \in Connection
  BY <1>0 DEF TypeOK
<1>3. queue' = queue /\ events' = events \ {f}
  BY DEF ServRead, ServReadFails, ServEof
<1>4. \A g \in Fds : table'[g] = table[g] \/ table'[g] = NoConn
  BY <1>0 DEF ServRead, ServReadFails, ServEof, TypeOK
<1>5. \A g \in Fds : g # f => table'[g] = table[g]
  BY <1>0 DEF ServRead, ServReadFails, ServEof, TypeOK
<1>6. /\ \A d \in Conns : d # c => net'[d] = net[d]
      /\ Keeps(net[c], net'[c])
  <2>1. CASE ServRead(f)
    <3>1. PICK n \in Reads(net[c]) : net' = [net EXCEPT ![c] = AfterRead(@, n)]
      BY <2>1 DEF ServRead
    <3>2. net'[c] = AfterRead(net[c], n)
      BY <1>0, <1>1, <3>1 DEF TypeOK
    <3> QED
      BY <1>0, <1>1, <3>1, <3>2, OpsKeep DEF TypeOK
  <2>2. CASE ServReadFails(f)
    <3>1. net'[c] = Reported(net[c]) /\ net[c].rst # "none"
      BY <1>0, <1>1, <2>2 DEF ServReadFails, ReadFails, TypeOK
    <3> QED
      BY <1>0, <1>1, <2>2, <3>1, OpsKeep DEF ServReadFails, TypeOK
  <2>3. CASE ServEof(f)
    BY <1>1, <2>3, OpsKeep DEF ServEof
  <2> QED
    BY <2>1, <2>2, <2>3
<1>7. Placed'
  <2>1. \A d \in Conns : Keeps(net[d], net'[d])
    BY <1>2, <1>6, OpsKeep
  <2> QED
    BY <1>0, <1>3, <1>4, <2>1, StillPlaced
<1>8. ASSUME NEW g \in events' PROVE g \in ReadableFds'
  <2>1. g # f /\ g \in ReadableFds
    BY <1>0, <1>3 DEF EventsReady
  <2>2. CASE g = Serv /\ queue # <<>>
    BY <1>3, <2>2 DEF ReadableFds
  <2>3. CASE g \in Open /\ Readable(net[table[g]])
    <3>1. g \in Fds /\ table[g] \in Conns
      BY <1>0, <2>3, OpenRefers
    <3>2. table[g] # c /\ table'[g] = table[g]
      BY <1>0, <1>1, <1>5, <2>1, <2>3, <3>1 DEF Placed
    <3>3. net'[table[g]] = net[table[g]]
      BY <1>6, <3>1, <3>2
    <3>4. g \in Open' /\ g # Serv
      BY <2>3, <3>1, <3>2, FdsAreNumbers DEF Open
    <3> QED
      BY <2>3, <3>2, <3>3, <3>4
         DEF ReadableFds, Readable, ReadMeetsEof, ReadFails
  <2> QED
    BY <2>1, <2>2, <2>3, ReadableFdsIs
<1> QED
  BY <1>7, <1>8 DEF EventsReady

(* A write() takes no bytes from anybody's socket.                          *)
LEMMA WriteScanned ==
  ASSUME Scanned, ServWrite \/ ServWriteLost
  PROVE  (Placed /\ EventsReady)'
<1> DEFINE c == table[clnt]
<1>0. /\ Watched /\ Placed /\ EventsReady /\ TypeOK
      /\ pc = "write" /\ clnt \in Open
  BY DEF Scanned, Watched, Registered, ServWrite, ServWriteLost
<1>1. c \in Conns /\ net[c] \in Connection
  BY <1>0, OpenRefers
<1>2. \A d \in Conns : net[d] \in Connection
  BY <1>0 DEF TypeOK
<1>3. UNCHANGED <<table, events, queue>>
  BY DEF ServWrite, ServWriteLost, epoll
<1>4. /\ \A d \in Conns : d # c => net'[d] = net[d]
      /\ Keeps(net[c], net'[c]) /\ StaysReadable(net[c], net'[c])
  <2>1. CASE ServWrite
    <3>1. PICK n \in Writes(net[c], buf) :
            net' = [net EXCEPT ![c] = AfterWrite(@, buf, n)]
      BY <2>1 DEF ServWrite
    <3>2. net'[c] = AfterWrite(net[c], buf, n)
      BY <1>0, <1>1, <3>1 DEF TypeOK
    <3> QED
      BY <1>0, <1>1, <3>1, <3>2, OpsKeep DEF TypeOK
  <2>2. CASE ServWriteLost
    <3>1. \/ /\ net' = [net EXCEPT ![c] = AfterReset(@)]
             /\ WriteDrawsReset(net[c])
          \/ /\ net' = [net EXCEPT ![c] = Reported(@)]
             /\ net[c].rst # "none"
      BY <2>2 DEF ServWriteLost, WriteFails
    <3>2. \/ net'[c] = AfterReset(net[c]) /\ WriteDrawsReset(net[c])
          \/ net'[c] = Reported(net[c]) /\ net[c].rst # "none"
      BY <1>0, <1>1, <3>1 DEF TypeOK
    <3> QED
      BY <1>0, <1>1, <3>1, <3>2, OpsKeep DEF TypeOK
  <2> QED
    BY <2>1, <2>2
<1>5. \A d \in Conns : Keeps(net[d], net'[d]) /\ StaysReadable(net[d], net'[d])
  BY <1>2, <1>4, OpsKeep
<1> QED
  BY <1>0, <1>3, <1>5, StillPlaced, StillReady

(* The end of the process closes everything.                                *)
LEMMA KilledScanned ==
  ASSUME Scanned, ServKilled
  PROVE  (Placed /\ EventsReady)'
<1> DEFINE c == table[clnt]
<1>0. Watched /\ Placed /\ TypeOK /\ clnt \in Open
  BY DEF Scanned, Watched, Registered, ServKilled
<1>1. c \in Conns /\ net[c].rst # "none"
  BY <1>0, OpenRefers DEF ServKilled, WriteKills
<1>2. net' = [net EXCEPT ![c] = Reported(@)]
  BY DEF ServKilled
<1>3. \A d \in Conns : net'[d] = net[d] \/ (d = c /\ net'[d] = Reported(net[d]))
  BY <1>0, <1>1, <1>2 DEF TypeOK
<1>4. \A d \in Conns : Keeps(net[d], net'[d])
  BY <1>0, <1>1, <1>3, OpsKeep DEF TypeOK
<1>5. /\ \A f \in Fds : table'[f] = NoConn
      /\ queue' = <<>> /\ events' = {}
  BY DEF ServKilled
<1> QED
  BY <1>0, <1>4, <1>5, StillPlaced DEF EventsReady

(* All of this together is inductive.                                       *)
LEMMA AlwaysScanned == Safety => []Scanned
<1>1. Init => Placed /\ EventsReady
  <2> SUFFICES ASSUME Init PROVE Placed /\ EventsReady
    OBVIOUS
  <2>1. Open = {} /\ DOMAIN queue = {} /\ \A f \in Fds : table[f] = NoConn
    BY DEF Init, Open
  <2>2. \A c \in Conns : c # NoConn
    BY EpollAssumption
  <2>3. \A c \in Conns : Quiet(net[c])
    BY DEF Init, Unconnected, Quiet
  <2> QED
    BY <2>1, <2>2, <2>3 DEF Init, Placed, EventsReady
<1>2. Scanned /\ [Next]_vars => (Placed /\ EventsReady)'
  <2> SUFFICES ASSUME Scanned, [Next]_vars PROVE (Placed /\ EventsReady)'
    OBVIOUS
  <2>0. /\ TypeOK /\ \A c \in Conns : net[c] \in Connection
        /\ Watched /\ Placed /\ EventsReady
    BY DEF Scanned, Watched, TypeOK
  <2>1. CASE EpollWait
    <3>1. /\ UNCHANGED <<table, queue, net>>
          /\ events' \subseteq ReadableFds
      BY <2>1 DEF EpollWait
    <3>2. Placed'
      BY <2>0, <3>1, StillPlaced, OpsKeep
    <3>3. ReadableFds' = ReadableFds
      BY <3>1 DEF ReadableFds, Open, Readable, ReadMeetsEof, ReadFails
    <3> QED
      BY <3>1, <3>2, <3>3 DEF EventsReady
  <2>2. CASE Accept
    BY <2>2, AcceptScanned
  <2>3. CASE AcceptFails
    <3>1. UNCHANGED <<table, queue, net>> /\ events' \subseteq events
      BY <2>3 DEF AcceptFails
    <3> QED
      BY <2>0, <3>1, StillPlaced, StillReady, OpsKeep
  <2>4. ASSUME NEW f \in Fds, ServRead(f) \/ ServReadFails(f) \/ ServEof(f)
        PROVE  (Placed /\ EventsReady)'
    BY <2>4, ReadScanned
  <2>5. CASE ServWrite \/ ServWriteLost
    BY <2>5, WriteScanned
  <2>6. CASE ServKilled
    BY <2>6, KilledScanned
  <2>7. ASSUME NEW c \in Conns, ClientNext(c)
        PROVE  (Placed /\ EventsReady)'
    BY <2>7, ClientScanned
  <2>8. CASE UNCHANGED vars
    BY <2>0, <2>8, StillPlaced, StillReady, OpsKeep DEF vars
  <2> QED
    BY <2>1, <2>2, <2>3, <2>4, <2>5, <2>6, <2>7, <2>8
       DEF Next, ServerNext, HandleClient, WriteNext
<1> QED
  BY <1>1, <1>2, AlwaysWatched, PTL DEF Safety, Scanned

(* No event of a batch is stale when the loop comes to it, and every open   *)
(* socket is registered: neither accept() nor read() ever blocks a server.  *)
THEOREM EventsStayCurrent == Safety => []EventsCurrent
<1>1. Scanned => EventsCurrent
  BY DEF Scanned, Watched, Registered, EventsReady, EventsCurrent
<1> QED
  BY <1>1, AlwaysScanned, PTL

-----------------------------------------------------------------------------
\* What buffer holds of a connection's bytes.
Held(c) == IF pc = "write" /\ table[clnt] = c THEN buf ELSE <<>>

\* One connection's bytes flow.
Whole(c) == sent[c] <= MaxSend /\ Flow(got[c], net[c], Held(c), sent[c])

\* ... of every connection, and a write() has something to write.
BytesInv ==
  /\ pc = "write" => buf # <<>>
  /\ \A c \in Conns : Whole(c)

(* What a connection consists of, seen through the invariant.               *)
LEMMA BytesTypes ==
  ASSUME Scanned, BytesInv, NEW c \in Conns
  PROVE  /\ net[c] \in Connection /\ got[c] \in Seq(Nat) /\ Held(c) \in Seq(Nat)
         /\ sent[c] \in Nat /\ MaxSend \in Nat
         /\ Whole(c) /\ Quiet(net[c])
<1>1. <<>> \in Seq(Nat)
  BY FlowBegins
<1> QED
  BY <1>1, EpollAssumption
  DEF Scanned, Watched, TypeOK, Placed, BytesInv, Held

(* What leaves a connection and its part of buffer alone.                   *)
LEMMA WholeKept ==
  ASSUME NEW c \in Conns, Whole(c), net'[c] = net[c], Held(c)' = Held(c),
         sent'[c] = sent[c], got'[c] = got[c]
  PROVE  Whole(c)'
BY DEF Whole

(* A client sends no more than its quota.                                   *)
LEMMA SendsBelowMax ==
  ASSUME TypeOK, NEW c \in Conns, CliSend(c)
  PROVE  sent[c] < MaxSend
<1>1. sent[c] < Quota[c] /\ Quota[c] \in 0..MaxSend /\ MaxSend \in Nat /\ sent[c] \in Nat
  BY EpollAssumption DEF CliSend, TypeOK
<1> QED
  BY <1>1

(* A client's calls keep the bytes in order.                                *)
LEMMA ClientBytes ==
  ASSUME Scanned, BytesInv, NEW c \in Conns, ClientNext(c)
  PROVE  BytesInv'
<1>0. /\ net[c] \in Connection /\ got[c] \in Seq(Nat) /\ Held(c) \in Seq(Nat)
      /\ sent[c] \in Nat /\ MaxSend \in Nat /\ Whole(c)
  BY BytesTypes
<1>1. TypeOK
  BY DEF Scanned, Watched
<1>2. UNCHANGED <<pc, table, clnt, buf>>
  BY DEF ClientNext, Connect, CliSend, CliRead, CliClose, echo
<1>3. \A d \in Conns : Held(d)' = Held(d)
  BY <1>2 DEF Held
<1>4. \A d \in Conns \ {c} : /\ net'[d] = net[d] /\ sent'[d] = sent[d]
                             /\ got'[d] = got[d]
  BY <1>1 DEF TypeOK, ClientNext, Connect, CliSend, CliRead, CliClose, clients
<1>5. \A d \in Conns \ {c} : Whole(d)'
  BY <1>3, <1>4, WholeKept DEF BytesInv
<1>6. Whole(c)'
  <2> SUFFICES /\ sent'[c] <= MaxSend
               /\ Flow(got'[c], net'[c], Held(c), sent'[c])
    BY <1>3 DEF Whole
  <2>1. CASE Connect(c)
    <3>1. net'[c] = Connected(net[c]) /\ UNCHANGED <<sent, got>> /\ net[c].cli = "none"
      BY <1>1, <2>1 DEF Connect, clients, TypeOK
    <3>2. Flow(got[c], Connected(net[c]), Held(c), sent[c])
      BY <1>0, <3>1, FlowClient DEF Whole, Present
    <3> QED
      BY <1>0, <3>1, <3>2 DEF Whole
  <2>2. CASE CliSend(c)
    <3>1. /\ net'[c] = Sent(net[c], sent[c] + 1) /\ sent'[c] = sent[c] + 1
          /\ got'[c] = got[c] /\ net[c].cli = "open" /\ sent[c] < MaxSend
      BY <1>1, <2>2, SendsBelowMax DEF CliSend, CanSend, TypeOK
    <3>2. sent[c] + 1 <= MaxSend
      BY <1>0, <3>1
    <3>3. Flow(got[c], Sent(net[c], sent[c] + 1), Held(c), sent[c] + 1)
      BY <1>0, <3>1, FlowClient DEF Whole
    <3> QED
      BY <3>1, <3>2, <3>3
  <2>3. CASE CliRead(c)
    <3>1. PICK n \in Counts(net[c].down, Cap) :
            /\ got' = [got EXCEPT ![c] = @ \o Front(net[c].down, n)]
            /\ net' = [net EXCEPT ![c] = Taken(@, n)]
      BY <2>3 DEF CliRead
    <3>2. /\ net'[c] = Taken(net[c], n) /\ got'[c] = got[c] \o Front(net[c].down, n)
          /\ sent'[c] = sent[c] /\ net[c].cli = "open"
      BY <1>1, <2>3, <3>1 DEF CliRead, TypeOK
    <3>3. Flow(got[c] \o Front(net[c].down, n), Taken(net[c], n), Held(c), sent[c])
      BY <1>0, <3>2, FlowClient DEF Whole
    <3> QED
      BY <1>0, <3>2, <3>3 DEF Whole
  <2>4. CASE CliClose(c)
    <3>1. net'[c] = Left(net[c]) /\ UNCHANGED <<sent, got>> /\ net[c].cli = "open"
      BY <1>1, <2>4 DEF CliClose, clients, TypeOK
    <3>2. Flow(got[c], Left(net[c]), Held(c), sent[c])
      BY <1>0, <3>1, FlowClient DEF Whole
    <3> QED
      BY <1>0, <3>1, <3>2 DEF Whole
  <2> QED
    BY <2>1, <2>2, <2>3, <2>4 DEF ClientNext
<1> QED
  BY <1>2, <1>5, <1>6 DEF BytesInv

(* A server step that neither reads nor writes.                             *)
LEMMA IdleBytes ==
  ASSUME Scanned, BytesInv, pc # "write", pc' # "write",
         UNCHANGED <<net, sent, got>>
  PROVE  BytesInv'
<1>1. \A c \in Conns : Held(c)' = Held(c)
  BY DEF Held
<1> QED
  BY <1>1, WholeKept DEF BytesInv

(* A client that is not there any more has no claim to what the server      *)
(* still holds of its bytes.                                                *)
LEMMA AbsentBytes ==
  ASSUME Scanned, BytesInv, NEW c \in Conns, ~Present(net[c])
  PROVE  /\ Flow(got[c], Reported(net[c]), <<>>, sent[c])
         /\ Flow(got[c], AfterReset(net[c]), <<>>, sent[c])
<1>1. /\ net[c] \in Connection /\ got[c] \in Seq(Nat) /\ Held(c) \in Seq(Nat)
      /\ sent[c] \in Nat /\ Flow(got[c], net[c], Held(c), sent[c])
  BY BytesTypes DEF Whole
<1> QED
  BY <1>1, AbsentFlow

(* A read() takes the bytes of the descriptor served into the empty buffer. *)
LEMMA ReadBytes ==
  ASSUME Scanned, BytesInv, NEW f \in Fds, ServRead(f) \/ ServReadFails(f)
  PROVE  BytesInv'
<1>0. TypeOK /\ Watched /\ HandlesClient(f) /\ pc = "loop"
  BY DEF Scanned, Watched, ServRead, ServReadFails, HandlesClient, Handles
<1>1. PICK c \in Conns : c = table[f]
  BY <1>0, ServedIsOpen, OpenRefers
<1>2. /\ net[c] \in Connection /\ got[c] \in Seq(Nat) /\ sent[c] \in Nat
      /\ Whole(c) /\ Quiet(net[c]) /\ Held(c) = <<>>
  BY <1>0, <1>1, BytesTypes DEF Held
<1>3. UNCHANGED <<sent, got, table>>
  BY DEF ServRead, ServReadFails, clients
<1>4. CASE ServRead(f)
  <2>1. PICK n \in Reads(net[c]) :
          /\ buf' = Front(net[c].up, n)
          /\ net' = [net EXCEPT ![c] = AfterRead(@, n)]
    BY <1>1, <1>4 DEF ServRead
  <2>2. pc' = "write" /\ clnt' = f
    BY <1>1, <1>4 DEF ServRead
  <2>3. /\ net'[c] = AfterRead(net[c], n)
        /\ \A d \in Conns \ {c} : net'[d] = net[d]
    BY <1>0, <1>1, <2>1 DEF TypeOK
  <2>4. Flow(got[c], AfterRead(net[c], n), Front(net[c].up, n), sent[c])
    BY <1>2, FlowBegins, FlowServer DEF Whole
  <2>5. Held(c)' = buf' /\ \A d \in Conns \ {c} : Held(d)' = <<>> /\ Held(d) = <<>>
    BY <1>0, <1>1, <1>3, <2>2 DEF Held
  <2>6. Whole(c)'
    BY <1>2, <1>3, <2>1, <2>3, <2>4, <2>5 DEF Whole
  <2>7. \A d \in Conns \ {c} : Whole(d)'
    BY <1>3, <2>3, <2>5, WholeKept DEF BytesInv
  <2>8. buf' # <<>>
    <3>1. n \in Counts(net[c].up, BufSize) /\ net[c].up \in Seq(Nat)
      BY <1>2, <2>1 DEF Reads, Connection
    <3> QED
      BY <2>1, <3>1, FrontNotEmpty
  <2> QED
    BY <2>6, <2>7, <2>8 DEF BytesInv
<1>5. CASE ServReadFails(f)
  <2>1. ReadFails(net[c]) /\ net' = [net EXCEPT ![c] = Reported(@)]
        /\ pc' = pc
    BY <1>1, <1>5 DEF ServReadFails
  <2>2. /\ net'[c] = Reported(net[c])
        /\ \A d \in Conns \ {c} : net'[d] = net[d]
    BY <1>0, <1>1, <2>1 DEF TypeOK
  <2>3. ~Present(net[c])
    BY <1>2, <2>1, ErrorsOfAbsent
  <2>4. Flow(got[c], Reported(net[c]), <<>>, sent[c])
    BY <1>1, <2>3, AbsentBytes
  <2>5. \A d \in Conns : Held(d)' = <<>> /\ Held(d) = <<>>
    BY <1>0, <2>1 DEF Held
  <2>6. Whole(c)'
    BY <1>1, <1>2, <1>3, <2>2, <2>4, <2>5 DEF Whole
  <2>7. \A d \in Conns \ {c} : Whole(d)'
    BY <1>3, <2>2, <2>5, WholeKept DEF BytesInv
  <2> QED
    BY <1>0, <2>1, <2>6, <2>7 DEF BytesInv
<1> QED
  BY <1>4, <1>5

(* A write() takes what it transfers out of buffer; it gives the rest up    *)
(* only when the client has left.                                           *)
LEMMA WriteBytes ==
  ASSUME Scanned, BytesInv, ServWrite \/ ServWriteLost \/ ServKilled
  PROVE  BytesInv'
<1>0. /\ TypeOK /\ Watched /\ pc = "write" /\ clnt \in Open /\ buf \in Seq(Nat)
  BY DEF Scanned, Watched, Registered, ServWrite, ServWriteLost,
    ServKilled, TypeOK
<1>1. PICK c \in Conns : c = table[clnt]
  BY <1>0, OpenRefers
<1>2. /\ net[c] \in Connection /\ got[c] \in Seq(Nat) /\ sent[c] \in Nat
      /\ Whole(c) /\ Quiet(net[c]) /\ Held(c) = buf
  BY <1>0, <1>1, BytesTypes DEF Held
<1>3. UNCHANGED <<sent, got>>
  BY DEF ServWrite, ServWriteLost, ServKilled, clients
<1>4. \A d \in Conns \ {c} : Held(d) = <<>>
  BY <1>1 DEF Held
<1>5. ASSUME \A d \in Conns \ {c} : net'[d] = net[d] /\ Held(d)' = <<>>,
             Flow(got[c], net'[c], Held(c)', sent[c])
      PROVE  \A d \in Conns : Whole(d)'
  <2>1. \A d \in Conns \ {c} : Whole(d)'
    BY <1>3, <1>4, <1>5, WholeKept DEF BytesInv
  <2>2. Whole(c)'
    BY <1>1, <1>2, <1>3, <1>5 DEF Whole
  <2> QED
    BY <2>1, <2>2
<1>6. CASE ServWrite
  <2>1. PICK n \in Writes(net[c], buf) :
          /\ net' = [net EXCEPT ![c] = AfterWrite(@, buf, n)]
          /\ IF n = Len(buf)
               THEN EndsWrite
               ELSE buf' = Rest(buf, n) /\ UNCHANGED <<pc, clnt>>
    BY <1>1, <1>6 DEF ServWrite
  <2>2. /\ net'[c] = AfterWrite(net[c], buf, n)
        /\ \A d \in Conns \ {c} : net'[d] = net[d]
        /\ table' = table
    BY <1>0, <1>1, <1>6, <2>1 DEF TypeOK, ServWrite
  <2>3. Flow(got[c], AfterWrite(net[c], buf, n), Rest(buf, n), sent[c])
    BY <1>0, <1>2, FlowServer DEF Whole
  <2>4. n \in Counts(buf, Cap - Len(net[c].down))
    BY <2>1 DEF Writes
  <2>5. CASE n = Len(buf)
    <3>1. Rest(buf, n) = <<>> /\ pc' = "loop"
      BY <1>0, <2>1, <2>4, <2>5, RestEmpty DEF EndsWrite
    <3>2. \A d \in Conns : Held(d)' = <<>>
      BY <3>1 DEF Held
    <3> QED
      BY <1>1, <1>5, <2>2, <2>3, <3>1, <3>2 DEF BytesInv
  <2>6. CASE n # Len(buf)
    <3>1. buf' = Rest(buf, n) /\ UNCHANGED <<pc, clnt>>
      BY <2>1, <2>6
    <3>2. Held(c)' = buf' /\ \A d \in Conns \ {c} : Held(d)' = <<>>
      BY <1>0, <1>1, <2>2, <3>1 DEF Held
    <3>3. Rest(buf, n) # <<>>
      BY <1>0, <2>4, <2>6, RestEmpty
    <3> QED
      BY <1>5, <2>2, <2>3, <3>1, <3>2, <3>3 DEF BytesInv
  <2> QED
    BY <2>5, <2>6
<1>7. CASE ServWriteLost \/ ServKilled
  <2>1. /\ \/ WriteDrawsReset(net[c]) \/ WriteFails(net[c]) \/ WriteKills(net[c])
        /\ \/ net' = [net EXCEPT ![c] = AfterReset(@)]
           \/ net' = [net EXCEPT ![c] = Reported(@)]
        /\ pc' # "write"
    BY <1>1, <1>7 DEF ServWriteLost, ServKilled, EndsWrite
  <2>2. /\ net'[c] = AfterReset(net[c]) \/ net'[c] = Reported(net[c])
        /\ \A d \in Conns \ {c} : net'[d] = net[d]
    BY <1>0, <1>1, <2>1 DEF TypeOK
  <2>3. ~Present(net[c])
    BY <1>2, <2>1, ErrorsOfAbsent
  <2>4. Flow(got[c], net'[c], <<>>, sent[c])
    BY <1>1, <2>2, <2>3, AbsentBytes
  <2>5. \A d \in Conns : Held(d)' = <<>>
    BY <2>1 DEF Held
  <2> QED
    BY <1>1, <1>5, <2>1, <2>2, <2>4, <2>5 DEF BytesInv
<1> QED
  BY <1>6, <1>7

(* The bytes of every connection flow, always.                              *)
LEMMA AlwaysBytes == Safety => []BytesInv
<1>1. Init => BytesInv
  <2> SUFFICES ASSUME Init, NEW c \in Conns PROVE Whole(c)
    BY DEF BytesInv, Init
  <2>1. /\ net[c] = Unconnected /\ got[c] = <<>> /\ Held(c) = <<>>
        /\ sent[c] = 0
    BY DEF Init, Held
  <2> QED
    BY <2>1, FlowBegins, EpollAssumption DEF Whole
<1>2. Scanned /\ BytesInv /\ [Next]_vars => BytesInv'
  <2> SUFFICES ASSUME Scanned, BytesInv, [Next]_vars PROVE BytesInv'
    OBVIOUS
  <2>1. CASE EpollWait \/ Accept \/ AcceptFails
    <3>1. pc = "loop" /\ pc' # "write" /\ UNCHANGED <<net, sent, got>>
      BY <2>1 DEF EpollWait, Accept, AcceptFails, Handles, clients
    <3> QED
      BY <3>1, IdleBytes
  <2>2. ASSUME NEW f \in Fds, ServRead(f) \/ ServReadFails(f)
        PROVE  BytesInv'
    BY <2>2, ReadBytes
  <2>3. ASSUME NEW f \in Fds, ServEof(f) PROVE BytesInv'
    <3>1. pc = "loop" /\ pc' # "write" /\ UNCHANGED <<net, sent, got>>
      BY <2>3 DEF ServEof, HandlesClient, Handles, clients
    <3> QED
      BY <3>1, IdleBytes
  <2>4. CASE ServWrite \/ ServWriteLost \/ ServKilled
    BY <2>4, WriteBytes
  <2>5. ASSUME NEW c \in Conns, ClientNext(c) PROVE BytesInv'
    BY <2>5, ClientBytes
  <2>6. CASE UNCHANGED vars
    BY <2>6 DEF vars, BytesInv, Whole, Held
  <2> QED
    BY <2>1, <2>2, <2>3, <2>4, <2>5, <2>6 DEF Next, ServerNext, HandleClient,
      WriteNext
<1> QED
  BY <1>1, <1>2, AlwaysScanned, PTL DEF Safety
(* The server does nothing to the clients' ends.                            *)
LEMMA ServerKeepsClients ==
  ASSUME Watched, ServerNext \/ UNCHANGED vars
  PROVE  \A c \in Conns : net'[c].cli = net[c].cli
<1>0. TypeOK /\ \A c \in Conns : net[c] \in Connection
  BY DEF Watched, TypeOK
<1>1. ASSUME NEW d \in Conns, NEW k, net' = [net EXCEPT ![d] = k],
             k.cli = net[d].cli
      PROVE  \A c \in Conns : net'[c].cli = net[c].cli
  BY <1>0, <1>1 DEF TypeOK
<1>2. CASE UNCHANGED net
  BY <1>2
<1>3. ASSUME NEW f \in Fds, ServRead(f) \/ ServReadFails(f)
      PROVE  \A c \in Conns : net'[c].cli = net[c].cli
  <2>1. table[f] \in Conns /\ net[table[f]] \in Connection
    BY <1>0, <1>3, ServedIsOpen, OpenRefers DEF ServRead, ServReadFails
  <2>2. CASE ServRead(f)
    <3>1. PICK n : net' = [net EXCEPT ![table[f]] = AfterRead(@, n)]
      BY <2>2 DEF ServRead
    <3>2. AfterRead(net[table[f]], n).cli = net[table[f]].cli
      BY <2>1 DEF AfterRead, Connection
    <3> QED
      BY <1>1, <2>1, <3>1, <3>2
  <2>3. CASE ServReadFails(f)
    <3>1. net' = [net EXCEPT ![table[f]] = Reported(@)]
      BY <2>3 DEF ServReadFails
    <3>2. Reported(net[table[f]]).cli = net[table[f]].cli
      BY <2>1 DEF Reported, Connection
    <3> QED
      BY <1>1, <2>1, <3>1, <3>2
  <2> QED
    BY <1>3, <2>2, <2>3
<1>4. CASE ServWrite \/ ServWriteLost \/ ServKilled
  <2>1. table[clnt] \in Conns /\ net[table[clnt]] \in Connection
    BY <1>0, <1>4, OpenRefers
    DEF ServWrite, ServWriteLost, ServKilled, Watched, Registered
  <2>2. \/ \E n : net' = [net EXCEPT ![table[clnt]] = AfterWrite(@, buf, n)]
        \/ net' = [net EXCEPT ![table[clnt]] = AfterReset(@)]
        \/ net' = [net EXCEPT ![table[clnt]] = Reported(@)]
    BY <1>4 DEF ServWrite, ServWriteLost, ServKilled
  <2>3. /\ \A n : AfterWrite(net[table[clnt]], buf, n).cli = net[table[clnt]].cli
        /\ AfterReset(net[table[clnt]]).cli = net[table[clnt]].cli
        /\ Reported(net[table[clnt]]).cli = net[table[clnt]].cli
    BY <2>1 DEF AfterWrite, AfterReset, Reported, Connection
  <2> QED
    BY <1>1, <2>1, <2>2, <2>3
<1> QED
  BY <1>2, <1>3, <1>4
  DEF ServerNext, HandleClient, WriteNext, EpollWait, Accept, AcceptFails, ServEof, vars


-----------------------------------------------------------------------------
\* A session is open whose client has left without the whole of its echo.
Abandoned ==
  \E c \in Conns : ServerHolds(c) /\ ClientLeft(net[c]) /\ Len(got[c]) < sent[c]

(* SIGPIPE is raised in a session whose client left without what is in      *)
(* buffer.                                                                  *)
LEMMA KilledByImpatient ==
  ASSUME Scanned, BytesInv, ServKilled
  PROVE  Abandoned
<1>0. /\ TypeOK /\ pc = "write" /\ clnt \in Open
  BY DEF Scanned, Watched, Registered, ServKilled
<1>1. PICK c \in Conns : c = table[clnt]
  BY <1>0, OpenRefers
<1>2. /\ net[c] \in Connection /\ got[c] \in Seq(Nat) /\ sent[c] \in Nat
      /\ Held(c) \in Seq(Nat)
      /\ Flow(got[c], net[c], Held(c), sent[c]) /\ Quiet(net[c])
      /\ Held(c) = buf /\ buf # <<>>
  BY <1>0, <1>1, BytesTypes DEF Held, BytesInv, Whole
<1>3. Len(got[c]) < sent[c]
  BY <1>2, FlowIsStream
<1>4. WriteKills(net[c])
  BY <1>1 DEF ServKilled
<1>5. ~Present(net[c])
  BY <1>2, <1>4, ErrorsOfAbsent
<1>6. ClientLeft(net[c])
  BY <1>2, <1>5 DEF Present, ClientLeft, Connection
<1>7. ServerHolds(c)
  BY <1>0, <1>1 DEF ServerHolds, Range, TypeOK, Open
<1> QED
  BY <1>3, <1>6, <1>7 DEF Abandoned

\* The server ends only while it serves such a client.
OnlyImpatienceStops ==
  [][pc # "exited" /\ pc' = "exited" => Abandoned]_vars

(* No client that waits for the whole of its echo can stop the server: it   *)
(* ends by SIGPIPE only, for which a client has to leave with bytes of its  *)
(* own in buffer; a failing accept() does not end it.                       *)
THEOREM PatientClientsKeepServer == Safety => OnlyImpatienceStops
<1>1. Scanned /\ BytesInv /\ [Next]_vars
        => [pc # "exited" /\ pc' = "exited" => Abandoned]_vars
  <2> SUFFICES ASSUME Scanned, BytesInv, [Next]_vars, pc # "exited", pc' = "exited"
               PROVE  Abandoned
    OBVIOUS
  <2>1. ServKilled
    BY DEF Next, ServerNext, HandleClient, WriteNext, EpollWait, Accept,
      AcceptFails, Handles, ServRead, ServReadFails, ServEof, ServWrite,
      ServWriteLost, EndsWrite, ClientNext, Connect, CliSend, CliRead,
      CliClose, vars
  <2> QED
    BY <2>1, KilledByImpatient
<1> QED
  BY <1>1, AlwaysScanned, AlwaysBytes, PTL DEF Safety, OnlyImpatienceStops

-----------------------------------------------------------------------------
\* EchoService's view of the server.
AbsClient == [c \in Conns |->
                IF ClientLeft(net[c]) THEN "closed" ELSE net[c].cli]
AbsService == [c \in Conns |->
                 CASE net[c].cli = "none" -> "none"
                   [] net[c].cli # "none" /\ ServerHolds(c) -> "open"
                   [] OTHER -> "closed"]

(* A step of the server, seen by its clients, lets go of connections whose  *)
(* clients have left, or of any when the process ends.                      *)
LEMMA IsRelease ==
  ASSUME UNCHANGED <<sent, got>>,
         \A c \in Conns : net'[c].cli = net[c].cli,
         \A c \in Conns : ServerHolds(c)' => ServerHolds(c),
         \A c \in Conns : ServerHolds(c) /\ ~ServerHolds(c)'
                            => ClientLeft(net[c]) \/ pc' = "exited",
         pc = "exited" => pc' = "exited"
  PROVE  Service!Release
<1> DEFINE S == { c \in Conns : AbsService[c] = "open" /\ ~ServerHolds(c)' }
<1>1. AbsClient' = AbsClient
  BY DEF AbsClient, ClientLeft
<1>2. AbsService' = [c \in Conns |-> IF c \in S THEN "closed" ELSE AbsService[c]]
  <2>1. ASSUME NEW c \in Conns
        PROVE  AbsService'[c] = IF c \in S THEN "closed" ELSE AbsService[c]
    BY DEF AbsService
  <2> QED
    BY <2>1 DEF AbsService
<1>3. \A c \in S : AbsService[c] = "open"
                     /\ (AbsClient[c] = "closed" \/ ~(pc # "exited")')
  BY DEF AbsService, AbsClient
<1>4. S \in SUBSET Conns
  OBVIOUS
<1>5. (pc # "exited")' \in { pc # "exited", FALSE }
  OBVIOUS
<1> HIDE DEF S
<1> QED
  BY <1>1, <1>2, <1>3, <1>4, <1>5 DEF Service!Release, AbsClient, AbsService

(* The server lets go of one connection by close(), on end of file, and of  *)
(* all when it ends.                                                        *)
LEMMA ServerServes ==
  ASSUME Scanned, ServerNext
  PROVE  Service!Release
<1>0. TypeOK /\ Watched /\ \A c \in Conns : Quiet(net[c])
  BY DEF Scanned, Watched, Placed
<1>1. /\ \A c \in Conns : net'[c].cli = net[c].cli
      /\ UNCHANGED <<sent, got>>
      /\ pc # "exited"
  BY <1>0, ServerKeepsClients
  DEF ServerNext, HandleClient, WriteNext, EpollWait, Accept, AcceptFails,
    ServRead, ServReadFails, ServEof,
    ServWrite, ServWriteLost, ServKilled, clients, Handles, HandlesClient
<1>2. ASSUME UNCHANGED <<table, queue>> PROVE Service!Release
  <2>1. \A c \in Conns : ServerHolds(c)' <=> ServerHolds(c)
    BY <1>2 DEF ServerHolds
  <2> QED
    BY <1>1, <2>1, IsRelease
<1>3. CASE Accept
  <2>1. queue # <<>> /\ queue \in Seq(Conns \union {NoConn}) /\ queue \in Seq(Conns)
    BY <1>0, <1>3 DEF Accept, TypeOK
  <2>2. Range(queue) = {Head(queue)} \union Range(Tail(queue))
    BY <2>1, RangeHeadTail
  <2>3. /\ Min(Free) \in Fds /\ table[Min(Free)] = NoConn
    BY <1>3, AcceptedIsFree DEF Accept, Free, Open
  <2>4. queue' = Tail(queue) /\ table' = [table EXCEPT ![Min(Free)] = Head(queue)]
    BY <1>3 DEF Accept
  <2>5. \A c \in Conns : c \in Range(table)' <=> c = Head(queue) \/ c \in Range(table)
    <3>1. \A c \in Conns : c # NoConn
      BY EpollAssumption
    <3> QED
      BY <1>0, <2>3, <2>4, <3>1 DEF TypeOK, Range
  <2>6. \A c \in Conns : ServerHolds(c)' <=> ServerHolds(c)
    BY <2>2, <2>4, <2>5 DEF ServerHolds
  <2> QED
    BY <1>1, <2>6, IsRelease
<1>4. ASSUME NEW f \in Fds, ServEof(f) PROVE Service!Release
  <2>1. f \in Open /\ table[f] \in Conns /\ net[table[f]] \in Connection
    BY <1>0, <1>4, ServedIsOpen, OpenRefers DEF ServEof
  <2>2. ClientLeft(net[table[f]])
    BY <1>0, <1>4, <2>1, ErrorsOfAbsent DEF ServEof, Present, Connection, ClientLeft
  <2>3. queue' = queue /\ table' = [table EXCEPT ![f] = NoConn]
    BY <1>4 DEF ServEof
  <2>4. \A c \in Conns : /\ c \in Range(table)' => c \in Range(table)
                         /\ c \in Range(table) /\ c # table[f] => c \in Range(table)'
    <3>1. \A c \in Conns : c # NoConn
      BY EpollAssumption
    <3> QED
      BY <1>0, <2>1, <2>3, <3>1 DEF TypeOK, Range, Open
  <2>5. \A c \in Conns : /\ ServerHolds(c)' => ServerHolds(c)
                         /\ ServerHolds(c) /\ ~ServerHolds(c)' => ClientLeft(net[c])
    BY <2>2, <2>3, <2>4 DEF ServerHolds
  <2> QED
    BY <1>1, <2>5, IsRelease
<1>5. CASE ServKilled
  <2>1. pc' = "exited" /\ queue' = <<>> /\ table' = [f \in Fds |-> NoConn]
    BY <1>5 DEF ServKilled
  <2>2. \A c \in Conns : c # NoConn
    BY EpollAssumption
  <2>3. \A c \in Conns : ~ServerHolds(c)'
    BY <2>1, <2>2 DEF ServerHolds, Range
  <2> QED
    BY <1>1, <2>1, <2>3, IsRelease
<1>6. CASE EpollWait \/ AcceptFails \/ ServWrite \/ ServWriteLost
  BY <1>2, <1>6 DEF EpollWait, AcceptFails, ServWrite, ServWriteLost
<1>7. ASSUME NEW f \in Fds, ServRead(f) \/ ServReadFails(f)
      PROVE  Service!Release
  BY <1>2, <1>7 DEF ServRead, ServReadFails
<1> QED
  BY <1>3, <1>4, <1>5, <1>6, <1>7 DEF ServerNext, HandleClient, WriteNext

(* A client's calls are those of EchoService's clients: what it reads is    *)
(* the stream it sent.                                                      *)
LEMMA ClientServes ==
  ASSUME Scanned, BytesInv, Scanned', BytesInv', NEW c \in Conns, ClientNext(c)
  PROVE  Service!Connect(c) \/ Service!Send(c) \/ Service!Echo(c) \/ Service!Leave(c)
<1>0. /\ UNCHANGED <<pc, table, clnt, buf>>
      /\ \A d \in Conns \ {c} : net'[d] = net[d]
      /\ net[c] \in Connection /\ TypeOK
  BY BytesTypes
  DEF Scanned, Watched, TypeOK, ClientNext, Connect, CliSend, CliRead, CliClose, echo
<1>1. (pc # "exited")' = (pc # "exited")
  BY <1>0
<1>2. CASE Connect(c)
  <2>1. /\ net[c].cli = "none" /\ net'[c].cli = "open" /\ UNCHANGED <<sent, got>>
        /\ queue' = Append(queue, c) /\ queue \in Seq(Conns)
    BY <1>0, <1>2 DEF Connect, Connected, Connection, clients, TypeOK
  <2>2. Range(queue') = Range(queue) \union {c}
    BY <2>1, RangeAppend
  <2>3. ServerHolds(c)' /\ \A d \in Conns \ {c} : ServerHolds(d)' <=> ServerHolds(d)
    BY <1>0, <2>2 DEF ServerHolds
  <2>4. AbsClient' = [AbsClient EXCEPT ![c] = "open"] /\ AbsClient[c] = "none"
    BY <1>0, <2>1 DEF AbsClient, ClientLeft
  <2>5. AbsService' = [AbsService EXCEPT ![c] = "open"]
    BY <1>0, <2>1, <2>3 DEF AbsService
  <2> QED
    BY <1>1, <2>1, <2>4, <2>5 DEF Service!Connect, AbsClient, AbsService
<1>3. ASSUME queue' = queue, net[c].cli = "open", net'[c].cli # "none"
      PROVE  AbsService' = AbsService
  BY <1>0, <1>3 DEF AbsService, ServerHolds
<1>4. CASE CliSend(c)
  <2>1. /\ net[c].cli = "open" /\ net'[c].cli = "open" /\ queue' = queue
        /\ sent[c] < MaxSend /\ sent' = [sent EXCEPT ![c] = @ + 1] /\ got' = got
    BY <1>0, <1>4, SendsBelowMax DEF CliSend, CanSend, Sent, Connection, TypeOK
  <2>2. AbsClient' = AbsClient /\ AbsClient[c] = "open"
    BY <1>0, <2>1 DEF AbsClient, ClientLeft
  <2> QED
    BY <1>1, <1>3, <2>1, <2>2 DEF Service!Send, AbsClient, AbsService
<1>5. CASE CliRead(c)
  <2>1. PICK n \in Counts(net[c].down, Cap) :
          /\ got' = [got EXCEPT ![c] = @ \o Front(net[c].down, n)]
          /\ net' = [net EXCEPT ![c] = Taken(@, n)]
    BY <1>5 DEF CliRead
  <2>2. /\ net[c].cli = "open" /\ net'[c].cli = "open" /\ queue' = queue
        /\ sent' = sent
    BY <1>0, <1>5, <2>1 DEF CliRead, Taken, Connection, TypeOK
  <2>3. AbsClient' = AbsClient /\ AbsClient[c] = "open"
    BY <1>0, <2>2 DEF AbsClient, ClientLeft
  <2>4. /\ got'[c] \in Seq(Nat) /\ net'[c] \in Connection /\ Held(c)' \in Seq(Nat)
        /\ sent[c] \in Nat /\ Flow(got'[c], net'[c], Held(c)', sent[c])
        /\ sent[c] <= MaxSend
    <3>1. /\ (net[c] \in Connection)' /\ (got[c] \in Seq(Nat))'
          /\ (Held(c) \in Seq(Nat))' /\ (sent[c] \in Nat)' /\ Whole(c)'
      BY FlowBegins DEF Scanned, Watched, TypeOK, BytesInv, Held
    <3> QED
      BY <2>2, <3>1 DEF Whole
  <2>5. got'[c] = Numbered(Len(got'[c])) /\ Len(got'[c]) <= sent[c]
    BY <2>4, FlowIsStream
  <2>6. Len(got[c]) < Len(got'[c]) /\ Len(got'[c]) \in Nat /\ Len(got[c]) \in Nat
    <3>1. got[c] \in Seq(Nat) /\ net[c].down \in Seq(Nat)
      BY <1>0 DEF Connection, TypeOK
    <3>2. got'[c] = got[c] \o Front(net[c].down, n)
      BY <1>0, <2>1 DEF TypeOK
    <3> QED
      BY <3>1, <3>2, TakenLonger
  <2>7. Len(got'[c]) \in 1..MaxSend
    BY <2>4, <2>5, <2>6, EpollAssumption
  <2>8. got' = [got EXCEPT ![c] = Service!Stream(Len(got'[c]))]
    <3>1. got'[c] = Service!Stream(Len(got'[c]))
      BY <2>5, Zenon DEF Numbered, Service!Stream
    <3>2. got' = [got EXCEPT ![c] = got'[c]]
      BY <1>0, <2>1 DEF TypeOK
    <3> QED
      BY <3>1, <3>2, Zenon
  <2>9. Service!Echo(c)
    BY <1>1, <1>3, <2>2, <2>3, <2>5, <2>6, <2>7, <2>8
    DEF Service!Echo, AbsClient, AbsService
  <2> QED
    BY <2>9
<1>6. CASE CliClose(c)
  <2>1. /\ net[c].cli = "open" /\ net'[c] = Left(net[c]) /\ queue' = queue
        /\ UNCHANGED <<sent, got>>
    BY <1>0, <1>6 DEF CliClose, clients, TypeOK
  <2>2. ClientLeft(net'[c]) /\ net'[c].cli # "none"
    BY <1>0, <2>1 DEF Left, Connection, ClientLeft
  <2>3. AbsClient' = [AbsClient EXCEPT ![c] = "closed"] /\ AbsClient[c] = "open"
    BY <1>0, <2>1, <2>2 DEF AbsClient, ClientLeft
  <2> QED
    BY <1>1, <1>3, <2>1, <2>2, <2>3 DEF Service!Leave, AbsClient, AbsService
<1> QED
  BY <1>2, <1>4, <1>5, <1>6 DEF ClientNext

(* The epoll servers implement EchoService, for any number of clients,      *)
(* descriptors, events and buffers: clients get their own bytes, in order,  *)
(* and are not hung up on while the process lives.                          *)
THEOREM ImplementsEchoService == Safety => ServesEcho
<1>1. Init => Service!Init
  <2> SUFFICES ASSUME Init PROVE Service!Init
    OBVIOUS
  <2>1. \A c \in Conns : net[c].cli = "none"
    BY DEF Init, Unconnected
  <2>2. AbsClient = [c \in Conns |-> "none"] /\ AbsService = [c \in Conns |-> "none"]
    BY <2>1 DEF AbsClient, AbsService, ClientLeft
  <2>3. (pc # "exited") = TRUE
    BY DEF Init
  <2> QED
    BY <2>2, <2>3 DEF Init, Service!Init, AbsClient, AbsService
<1>2. /\ Scanned /\ BytesInv /\ Scanned' /\ BytesInv' /\ [Next]_vars
      => [Service!Next]_(Service!vars)
  <2> SUFFICES ASSUME Scanned, BytesInv, Scanned', BytesInv', [Next]_vars
               PROVE  Service!Next \/ UNCHANGED Service!vars
    OBVIOUS
  <2>1. CASE ServerNext
    BY <2>1, ServerServes DEF Service!Next
  <2>2. ASSUME NEW c \in Conns, ClientNext(c) PROVE Service!Next
    BY <2>2, ClientServes DEF Service!Next
  <2>3. CASE UNCHANGED vars
    BY <2>3 DEF vars, Service!vars, ServerHolds
  <2> QED
    BY <2>1, <2>2, <2>3 DEF Next
<1> QED
  BY <1>1, <1>2, AlwaysScanned, AlwaysBytes, PTL DEF Safety, ServesEcho, Service!Spec
=============================================================================
