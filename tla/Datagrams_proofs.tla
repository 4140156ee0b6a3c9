-------------------------- MODULE Datagrams_proofs ---------------------------
(****************************************************************************)
(* The programs that exchange datagrams, for any number of clients, lines,  *)
(* duplications and kills. UDP echo: of one client at most one datagram is  *)
(* about unless one was duplicated (EchoInv), so that an answer belongs to  *)
(* its line; and who waits for nothing waits for ever. The news: every      *)
(* sendto() so far is on its way to a receiver or was printed by it, once   *)
(* (NewsInv), so that the last line comes twice.                            *)
(*                                                                          *)
(* And, from Entries on, the echo server with logger of IpcEcho, for any    *)
(* number of connections, backlog, sizes of buffers and of the pipe. The    *)
(* two share no variable, and nothing assumed of one is used of the other.  *)
(****************************************************************************)
EXTENDS Datagrams, IpcEcho, Tcp_proofs

\* The inductive invariant: types, and that the sender stops at the end of
\* its file.
Typed ==
  /\ TypeOK
  /\ serv = "news" => calls <= NewsLen

(* The bounds are numbers.                                                  *)
LEMMA Bounds ==
  /\ NewsLen \in Nat /\ MaxLines \in Nat /\ MaxDups \in Nat /\ MaxKills \in Nat
BY DatagramsAssumption

(* A datagram is what its fields are.                                       *)
LEMMA Fields ==
  ASSUME NEW d \in Datagram
  PROVE  /\ d.way \in {"up", "down", "icmp"} /\ d.clnt \in Clients
         /\ d.by \in Clients \union {News}
         /\ d.nr \in 1..(MaxLines + NewsLen + 1) /\ d.nr \in Nat
         /\ d.copy \in 0..MaxDups
         /\ [d EXCEPT !.way = "down"] \in Datagram
         /\ [d EXCEPT !.way = "icmp"] \in Datagram
         /\ \A k \in 0..MaxDups : [d EXCEPT !.copy = k] \in Datagram
<1>1. 1..(MaxLines + NewsLen + 1) \subseteq Nat
  BY Bounds
<1> QED
  BY <1>1 DEF Datagram

(* What a program prints is appended to what it has printed.                *)
LEMMA PrintsType ==
  ASSUME TypeOK, NEW c \in Clients, NEW what, Prints(c, what),
         what \in (Clients \union {News}) \X Nat \union {Refused}
  PROVE  seen' \in [Clients -> Seq((Clients \union {News}) \X Nat \union {Refused})]
<1> DEFINE Line == (Clients \union {News}) \X Nat \union {Refused}
<1>1. seen \in [Clients -> Seq(Line)] /\ what \in Line
  BY DEF TypeOK
<1> HIDE DEF Line
<1>2. Append(seen[c], what) \in Seq(Line)
  BY <1>1, AppendProperties
<1>3. seen' \in [Clients -> Seq(Line)]
  BY <1>1, <1>2 DEF Prints
<1> QED
  BY <1>3 DEF Line

(* Loss, duplication, refusal and its report.                               *)
LEMMA NetworkType ==
  ASSUME Typed, NEW d \in net,
         Lose(d) \/ Duplicate(d) \/ Refuse(d) \/ Report(d)
  PROVE  Typed'
<1>0. TypeOK /\ net \subseteq Datagram /\ d \in Datagram
  BY DEF Typed, TypeOK
<1>1. CASE Lose(d)
  BY <1>0, <1>1, Fields DEF Typed, TypeOK, Lose, server, client
<1>2. CASE Duplicate(d)
  <2>1. Len(dups) \in Nat /\ Len(dups) < MaxDups /\ d.clnt \in Clients
        /\ dups \in Seq(Clients)
    <3>1. dups \in Seq(Clients)
      BY <1>0 DEF TypeOK
    <3>2. Len(dups) \in Nat
      BY <3>1, LenProperties
    <3>3. d.clnt \in Clients
      BY <1>0, Fields
    <3> QED
      BY <1>2, <3>1, <3>2, <3>3 DEF Duplicate
  <2>2. Len(dups) + 1 \in 0..MaxDups
    BY <2>1, Bounds
  <2>3. [d EXCEPT !.copy = Len(dups) + 1] \in Datagram
    BY <1>0, <2>2, Fields
  <2>4. Append(dups, d.clnt) \in Seq(Clients)
        /\ Len(Append(dups, d.clnt)) = Len(dups) + 1
    BY <2>1, AppendProperties
  <2>5. dups' \in Seq(Clients) /\ Len(dups') <= MaxDups
    BY <1>2, <2>1, <2>4, Bounds DEF Duplicate
  <2> QED
    BY <1>0, <1>2, <2>3, <2>5 DEF Typed, TypeOK, Duplicate, server, client
<1>3. CASE Refuse(d)
  <2>1. [d EXCEPT !.way = "icmp"] \in Datagram
    BY <1>0, Fields
  <2> QED
    BY <1>0, <1>3, <2>1 DEF Typed, TypeOK, Refuse, server, client, faults
<1>4. CASE Report(d)
  BY <1>0, <1>4, Fields DEF Typed, TypeOK, Report, server, faults
<1> QED
  BY <1>1, <1>2, <1>3, <1>4

(* A client's line or its end.                                              *)
LEMMA UserType ==
  ASSUME Typed, NEW c \in Clients, TypeLine(c) \/ Quit(c)
  PROVE  Typed'
<1>0. TypeOK
  BY DEF Typed
<1>1. CASE TypeLine(c)
  <2>1. typed' = [typed EXCEPT ![c] = @ + 1] /\ typed[c] < MaxLines
    BY <1>1 DEF TypeLine
  <2>2. typed[c] + 1 \in 1..MaxLines
    BY <1>0, <2>1, Bounds DEF TypeOK
  <2>3. typed'[c] \in 1..MaxLines /\ typed' \in [Clients -> 0..MaxLines]
    <3>1. typed[c] + 1 \in 0..MaxLines
      BY <2>2
    <3> QED
      BY <1>0, <2>1, <2>2, <3>1 DEF TypeOK
  <2>4. Up(c, typed'[c]) \in Datagram
    <3>1. typed'[c] \in 1..(MaxLines + NewsLen + 1) /\ 0 \in 0..MaxDups
      BY <2>3, Bounds
    <3> QED
      BY <3>1 DEF Up, Datagram
  <2>5. net' \subseteq Datagram
    BY <1>0, <1>1, <2>4 DEF TypeLine, TypeOK
  <2> QED
    BY <1>0, <1>1, <2>3, <2>5 DEF Typed, TypeOK, TypeLine, server, faults
<1>2. CASE Quit(c)
  BY <1>0, <1>2 DEF Typed, TypeOK, Quit, server, faults
<1> QED
  BY <1>1, <1>2

(* What a client or a receiver is told.                                     *)
LEMMA ReaderType ==
  ASSUME Typed, NEW c \in Clients,
         ReceiveFails(c) \/ \E d \in net : Receive(c, d) \/ Listen(c, d)
  PROVE  Typed'
<1>0. TypeOK /\ net \subseteq Datagram
  BY DEF Typed, TypeOK
<1>1. CASE ReceiveFails(c)
  <2>1. seen' \in [Clients -> Seq((Clients \union {News}) \X Nat \union {Refused})]
    BY <1>0, <1>1, PrintsType DEF ReceiveFails
  <2> QED
    BY <1>0, <1>1, <2>1 DEF Typed, TypeOK, ReceiveFails, server, faults
<1>2. ASSUME NEW d \in net, Receive(c, d) PROVE Typed'
  <2>1. <<d.by, d.nr>> \in (Clients \union {News}) \X Nat
    BY <1>0, Fields
  <2>2. seen' \in [Clients -> Seq((Clients \union {News}) \X Nat \union {Refused})]
    BY <1>0, <1>2, <2>1, PrintsType DEF Receive
  <2> QED
    BY <1>0, <1>2, <2>2 DEF Typed, TypeOK, Receive, server, faults
<1>3. ASSUME NEW d \in net, Listen(c, d) PROVE Typed'
  <2>1. Text(d.nr) \in Nat
    BY <1>0, Fields, Bounds DEF Text
  <2>2. <<d.by, Text(d.nr)>> \in (Clients \union {News}) \X Nat
    BY <1>0, <2>1, Fields
  <2>3. seen' \in [Clients -> Seq((Clients \union {News}) \X Nat \union {Refused})]
    BY <1>0, <1>3, <2>2, PrintsType DEF Listen
  <2> QED
    BY <1>0, <1>3, <2>3 DEF Typed, TypeOK, Listen, server, faults
<1> QED
  BY <1>1, <1>2, <1>3

(* The echo server's loop, its end and its restart.                         *)
LEMMA EchoServerType ==
  ASSUME Typed,
         ServSend \/ ServKilled \/ ServStarts \/ \E d \in net : ServRecv(d)
  PROVE  Typed'
<1>0. TypeOK /\ net \subseteq Datagram
  BY DEF Typed, TypeOK
<1>1. CASE ServSend
  <2>1. PICK d \in Datagram : held = {d}
    BY <1>0, <1>1 DEF ServSend, TypeOK
  <2>2. net' = net \union {[d EXCEPT !.way = "down"]}
    BY <1>1, <2>1 DEF ServSend
  <2>3. net' \subseteq Datagram
    BY <1>0, <2>2, Fields
  <2> QED
    BY <1>0, <1>1, <2>3 DEF Typed, TypeOK, ServSend, client, faults
<1>2. CASE ServKilled
  <2>1. kills + 1 \in 0..MaxKills
    BY <1>0, <1>2, Bounds DEF ServKilled, TypeOK
  <2> QED
    BY <1>0, <1>2, <2>1 DEF Typed, TypeOK, ServKilled, client, faults
<1>3. CASE ServStarts
  BY <1>0, <1>3 DEF Typed, TypeOK, ServStarts, client, faults
<1>4. ASSUME NEW d \in net, ServRecv(d) PROVE Typed'
  BY <1>0, <1>4 DEF Typed, TypeOK, ServRecv, client, faults
<1> QED
  BY <1>1, <1>2, <1>3, <1>4

(* The sender's loop.                                                       *)
LEMMA SenderType ==
  ASSUME Typed, SendNews
  PROVE  Typed'
<1> DEFINE Copy(c) == [way |-> "down", clnt |-> c, by |-> News,
                       nr |-> calls + 1, copy |-> 0]
<1>0. TypeOK /\ net \subseteq Datagram /\ serv = "news" /\ calls \in Nat
  BY Bounds DEF Typed, TypeOK, SendNews
<1>1. calls <= NewsLen
  BY <1>0 DEF Typed
<1>2. calls + 1 \in 1..(MaxLines + NewsLen + 1) /\ calls + 1 \in 0..(NewsLen + 1)
      /\ 0 \in 0..MaxDups
  BY <1>0, <1>1, Bounds
<1>3. \A c \in Clients : Copy(c) \in Datagram
  BY <1>2 DEF Datagram
<1>4. net' \subseteq Datagram
  BY <1>0, <1>3 DEF SendNews
<1>5. serv' \in {"done", "news"} /\ held' = {}
  BY <1>0 DEF SendNews, TypeOK
<1>6. serv' = "news" => calls' <= NewsLen
  <2>1. serv' = "news" => ~(calls + 1 > NewsLen)
    BY DEF SendNews, EndOfFile
  <2>2. calls' = calls + 1
    BY DEF SendNews
  <2> QED
    BY <1>0, <2>1, <2>2, Bounds
<1> QED
  BY <1>0, <1>2, <1>4, <1>5, <1>6 DEF Typed, TypeOK, SendNews, client, faults

(* The types are right at first and every step keeps them so.               *)
LEMMA AlwaysTyped == Spec => []Typed
<1>1. Init => Typed
  <2> SUFFICES ASSUME Init PROVE Typed
    OBVIOUS
  <2>1. <<>> \in Seq((Clients \union {News}) \X Nat \union {Refused})
    OBVIOUS
  <2>2. <<>> \in Seq(Clients) /\ Len(<<>>) = 0
    OBVIOUS
  <2>3. seen \in [Clients -> Seq((Clients \union {News}) \X Nat \union {Refused})]
    BY <2>1 DEF Init
  <2>4. dups \in Seq(Clients) /\ Len(dups) <= MaxDups
    BY <2>2, Bounds DEF Init
  <2> QED
    BY <2>3, <2>4, Bounds DEF Init, Typed, TypeOK
<1>2. Typed /\ [Next]_vars => Typed'
  <2> SUFFICES ASSUME Typed, [Next]_vars PROVE Typed'
    OBVIOUS
  <2>1. ASSUME NEW d \in net, Lose(d) \/ Duplicate(d) \/ Refuse(d) \/ Report(d)
        PROVE  Typed'
    BY <2>1, NetworkType
  <2>2. ASSUME NEW c \in Clients,
               \/ TypeLine(c) \/ Quit(c) \/ ClientRuns(c)
               \/ \E d \in net : Listen(c, d)
        PROVE  Typed'
    BY <2>2, UserType, ReaderType DEF ClientRuns
  <2>3. CASE ServerRuns \/ ServKilled \/ ServStarts
    BY <2>3, EchoServerType, SenderType DEF ServerRuns
  <2>4. CASE UNCHANGED vars
    BY <2>4 DEF vars, Typed, TypeOK
  <2> QED
    BY <2>1, <2>2, <2>3, <2>4 DEF Next
<1> QED
  BY <1>1, <1>2, PTL DEF Spec

(* Every variable of the network and its programs keeps its type, and the   *)
(* sender calls sendto() at most once more than there are lines.            *)
THEOREM TypeCorrect == Spec => []TypeOK
<1>1. Typed => TypeOK
  BY DEF Typed
<1> QED
  BY <1>1, AlwaysTyped, PTL
-----------------------------------------------------------------------------
\* As long as none of a client's datagrams is duplicated, there is at most one
\* of them, or the error it came to, and that only while the client waits for
\* an answer to the line it carries.
OneAtATime(c) ==
  /\ cpc[c] # "recv" => c \notin err /\ \A d \in net \union held : d.clnt # c
  /\ \A d \in net \union held :
       d.clnt = c => d.nr = typed[c] /\ c \notin err
  /\ \A d, e \in net : d.clnt = c /\ e.clnt = c => d = e
  /\ \A d \in net, h \in held : d.clnt = c => h.clnt # c

\* A client of the echo server: it has printed one thing for every line but
\* the one it waits for, and what is on its way to or from it is its own.
Converses(c) ==
  /\ cpc[c] \in {"prompt", "recv", "done", "broken"}
  /\ typed[c] = IF cpc[c] = "recv" THEN Len(seen[c]) + 1 ELSE Len(seen[c])
  /\ \A d \in net \union held : d.clnt = c => d.by = c /\ d.nr <= typed[c]
  /\ Duplicated(c) \/ OneAtATime(c)
  /\ \A i \in DOMAIN seen[c] :
       \/ seen[c][i] = Refused
       \/ \E n \in 1..i : seen[c][i] = <<c, n>> /\ (n = i \/ Duplicated(c))

\* The inductive invariant of the echo example.
EchoInv ==
  example = "echo" =>
    /\ serv \in {"recv", "send", "down"}
    /\ \A c \in Clients : Converses(c)

(* A client that no step concerns: it knows what it knew, and nothing new   *)
(* is on its way.                                                           *)
LEMMA Undisturbed ==
  ASSUME NEW c \in Clients, Converses(c),
         cpc'[c] = cpc[c], typed'[c] = typed[c], seen'[c] = seen[c],
         c \in err' => c \in err,
         Duplicated(c) => Duplicated(c)',
         \A d \in net' : d.clnt = c => d \in net,
         \A d \in held' : d.clnt = c => d \in held
  PROVE  Converses(c)'
<1>1. OneAtATime(c) => OneAtATime(c)'
  BY DEF OneAtATime
<1> QED
  BY <1>1 DEF Converses

(* A datagram d of a client that goes on as e, on its way or in the buffer. *)
LEMMA Forwarded ==
  ASSUME Typed, NEW c \in Clients, Converses(c),
         cpc'[c] = cpc[c], typed'[c] = typed[c], seen'[c] = seen[c],
         err' = err, dups' = dups,
         NEW d \in net \union held, NEW e,
         d.clnt = c, e.clnt = c, e.by = d.by, e.nr = d.nr,
         \A x \in net' : x.clnt = c => x \in net \ {d} \/ x = e,
         \A x \in held' : x.clnt = c => x \in held \ {d} \/ x = e,
         e \notin net' \/ e \notin held'
  PROVE  Converses(c)'
<1>1. Duplicated(c)' <=> Duplicated(c)
  BY DEF Duplicated
<1>2. \A x \in (net \union held)' : x.clnt = c => x.by = c /\ x.nr <= typed'[c]
  BY DEF Converses
<1>3. ASSUME OneAtATime(c) PROVE OneAtATime(c)'
  <2>1. \A x, y \in held : x = y
    BY DEF Typed, TypeOK
  <2>2. \A x \in (net \union held) \ {d} : x.clnt # c
    BY <1>3, <2>1 DEF OneAtATime
  <2>3. \A x \in (net \union held)' : x.clnt = c => x = e
    BY <2>2
  <2>4. cpc[c] = "recv" /\ c \notin err /\ d.nr = typed[c]
    BY <1>3 DEF OneAtATime
  <2> QED
    BY <2>3, <2>4 DEF OneAtATime
<1> QED
  BY <1>1, <1>2, <1>3 DEF Converses

(* The network loses, copies, refuses and reports datagrams.                *)
LEMMA NetworkConverses ==
  ASSUME Typed, NEW c \in Clients, Converses(c), NEW d \in net,
         Lose(d) \/ Duplicate(d) \/ Refuse(d) \/ Report(d)
  PROVE  Converses(c)'
<1>0. net \subseteq Datagram /\ dups \in Seq(Clients) /\ d.clnt \in Clients
  BY Fields DEF Typed, TypeOK
<1>1. UNCHANGED <<cpc, typed, seen, held>>
  BY DEF Lose, Duplicate, Refuse, Report, server, client
<1>2. CASE Lose(d)
  <2>1. net' \subseteq net /\ err' = err /\ dups' = dups
    BY <1>2 DEF Lose, client
  <2> QED
    BY <1>1, <2>1, Undisturbed DEF Duplicated
<1>3. CASE Duplicate(d)
  <2> DEFINE e == [d EXCEPT !.copy = Len(dups) + 1]
  <2>1. /\ net' = net \union {e} /\ err' = err
        /\ dups' = Append(dups, d.clnt)
    BY <1>3 DEF Duplicate, client
  <2>2. e.clnt = d.clnt /\ e.by = d.by /\ e.nr = d.nr
    BY <1>0 DEF Datagram
  <2> HIDE DEF e
  <2>3. /\ DOMAIN dups = 1..Len(dups) /\ DOMAIN dups' = 1..(Len(dups) + 1)
        /\ \A i \in 1..Len(dups) : dups'[i] = dups[i]
        /\ dups'[Len(dups) + 1] = d.clnt
        /\ Len(dups) \in Nat
    BY <1>0, <2>1, AppendProperties, LenProperties
  <2>4. 1..Len(dups) \subseteq 1..(Len(dups) + 1)
        /\ Len(dups) + 1 \in 1..(Len(dups) + 1)
    BY <2>3
  <2>5. Duplicated(c) => Duplicated(c)'
    BY <2>3, <2>4 DEF Duplicated
  <2>6. CASE c # d.clnt
    BY <1>1, <2>1, <2>2, <2>5, <2>6, Undisturbed
  <2>7. CASE c = d.clnt
    <3>1. Duplicated(c)'
      BY <2>3, <2>4, <2>7 DEF Duplicated
    <3>2. \A x \in (net \union held)' :
            x.clnt = c => x.by = c /\ x.nr <= typed'[c]
      BY <1>1, <2>1, <2>2, <2>7 DEF Converses
    <3> QED
      BY <1>1, <3>1, <3>2 DEF Converses
  <2> QED
    BY <2>6, <2>7
<1>4. CASE Refuse(d)
  <2> DEFINE e == [d EXCEPT !.way = "icmp"]
  <2>1. net' = (net \ {d}) \union {e} /\ err' = err /\ dups' = dups
        /\ serv = "down"
    BY <1>4 DEF Refuse, client, faults
  <2>2. e.clnt = d.clnt /\ e.by = d.by /\ e.nr = d.nr
    BY <1>0 DEF Datagram
  <2> HIDE DEF e
  <2>3. held = {} /\ held' = {}
    BY <1>1, <2>1 DEF Typed, TypeOK
  <2>4. CASE c # d.clnt
    BY <1>1, <2>1, <2>2, <2>4, Undisturbed DEF Duplicated
  <2>5. CASE c = d.clnt
    BY <1>1, <2>1, <2>2, <2>3, <2>5, Forwarded
  <2> QED
    BY <2>4, <2>5
<1>5. CASE Report(d)
  <2>1. net' = net \ {d} /\ err' = err \union {d.clnt} /\ dups' = dups
    BY <1>5 DEF Report, faults
  <2>2. CASE c # d.clnt
    BY <1>1, <2>1, <2>2, Undisturbed DEF Duplicated
  <2>3. CASE c = d.clnt
    <3>1. Duplicated(c)' <=> Duplicated(c)
      BY <2>1 DEF Duplicated
    <3>2. ASSUME OneAtATime(c) PROVE OneAtATime(c)'
      <4>1. cpc[c] = "recv" /\ \A x \in (net \union held)' : x.clnt # c
        BY <1>1, <2>1, <2>3, <3>2 DEF OneAtATime
      <4> QED
        BY <1>1, <4>1 DEF OneAtATime
    <3> QED
      BY <1>1, <2>1, <3>1, <3>2 DEF Converses
  <2> QED
    BY <2>2, <2>3
<1> QED
  BY <1>2, <1>3, <1>4, <1>5

(* The server takes a datagram, sends it back, is killed or started again.  *)
LEMMA ServerConverses ==
  ASSUME Typed, NEW c \in Clients, Converses(c),
         ServSend \/ ServKilled \/ ServStarts \/ \E d \in net : ServRecv(d)
  PROVE  Converses(c)'
<1>0. net \subseteq Datagram
  BY DEF Typed, TypeOK
<1>1. UNCHANGED <<cpc, typed, seen, err, dups>>
  BY DEF ServSend, ServKilled, ServStarts, ServRecv, client, faults
<1>2. Duplicated(c) => Duplicated(c)'
  BY <1>1 DEF Duplicated
<1>3. CASE ServKilled \/ ServStarts
  <2>1. net' = net /\ held' \subseteq held
    BY <1>3 DEF ServKilled, ServStarts
  <2> QED
    BY <1>1, <1>2, <2>1, Undisturbed
<1>4. CASE ServSend
  <2>1. PICK d \in Datagram : held = {d}
    BY <1>4 DEF ServSend, Typed, TypeOK
  <2> DEFINE e == [d EXCEPT !.way = "down"]
  <2>2. net' = net \union {e} /\ held' = {}
    BY <1>4, <2>1 DEF ServSend
  <2>3. e.clnt = d.clnt /\ e.by = d.by /\ e.nr = d.nr
    BY DEF Datagram
  <2> HIDE DEF e
  <2>4. CASE c # d.clnt
    BY <1>1, <1>2, <2>2, <2>3, <2>4, Undisturbed
  <2>5. CASE c = d.clnt
    <3>1. Converses(c) => d \notin net \/ Duplicated(c)
      BY <2>1, <2>5 DEF Converses, OneAtATime
    <3>2. CASE d \notin net
      BY <1>1, <2>1, <2>2, <2>3, <2>5, <3>2, Forwarded
    <3>3. CASE Duplicated(c)
      <4>1. \A x \in (net \union held)' :
              x.clnt = c => x.by = c /\ x.nr <= typed'[c]
        BY <1>1, <2>1, <2>2, <2>3, <2>5 DEF Converses
      <4> QED
        BY <1>1, <1>2, <3>3, <4>1 DEF Converses
    <3> QED
      BY <3>1, <3>2, <3>3
  <2> QED
    BY <2>4, <2>5
<1>5. ASSUME NEW d \in net, ServRecv(d) PROVE Converses(c)'
  <2>1. net' = net \ {d} /\ held = {} /\ held' = {d}
    BY <1>5 DEF ServRecv, Typed, TypeOK
  <2>2. CASE c # d.clnt
    BY <1>1, <1>2, <2>1, <2>2, Undisturbed
  <2>3. CASE c = d.clnt
    BY <1>1, <2>1, <2>3, Forwarded
  <2> QED
    BY <2>2, <2>3
<1> QED
  BY <1>3, <1>4, <1>5

(* What is printed comes after everything printed before.                   *)
LEMMA PrintsLast ==
  ASSUME TypeOK, NEW c \in Clients, NEW what, Prints(c, what),
         what \in (Clients \union {News}) \X Nat \union {Refused}
  PROVE  /\ Len(seen[c]) \in Nat /\ Len(seen'[c]) = Len(seen[c]) + 1
         /\ DOMAIN seen[c] = 1..Len(seen[c])
         /\ DOMAIN seen'[c] = 1..(Len(seen[c]) + 1)
         /\ \A i \in 1..Len(seen[c]) : seen'[c][i] = seen[c][i]
         /\ seen'[c][Len(seen[c]) + 1] = what
         /\ \A i \in 1..(Len(seen[c]) + 1) :
              i \in 1..Len(seen[c]) \/ i = Len(seen[c]) + 1
<1> DEFINE Line == (Clients \union {News}) \X Nat \union {Refused}
<1>1. seen \in [Clients -> Seq(Line)] /\ what \in Line
  BY DEF TypeOK
<1> HIDE DEF Line
<1>2. seen[c] \in Seq(Line) /\ seen'[c] = Append(seen[c], what)
  BY <1>1 DEF Prints
<1>3. /\ Len(seen[c]) \in Nat /\ Len(seen'[c]) = Len(seen[c]) + 1
      /\ DOMAIN seen[c] = 1..Len(seen[c])
      /\ DOMAIN seen'[c] = 1..(Len(seen[c]) + 1)
      /\ \A i \in 1..Len(seen[c]) : seen'[c][i] = seen[c][i]
      /\ seen'[c][Len(seen[c]) + 1] = what
  BY <1>1, <1>2, AppendProperties, LenProperties
<1> QED
  BY <1>3

(* The user types the next line, or quits.                                  *)
LEMMA UserConverses ==
  ASSUME Typed, NEW c \in Clients, Converses(c), TypeLine(c) \/ Quit(c)
  PROVE  Converses(c)'
<1>0. TypeOK /\ typed[c] \in Nat
  BY Bounds DEF Typed, TypeOK
<1>1. /\ seen' = seen /\ held' = held /\ dups' = dups /\ cpc[c] = "prompt"
      /\ (Duplicated(c)' <=> Duplicated(c))
  BY DEF TypeLine, Quit, server, faults, Duplicated
<1>2. CASE TypeLine(c)
  <2>1. /\ typed'[c] = typed[c] + 1 /\ cpc'[c] = "recv" /\ c \notin err'
        /\ net' = IF c \in err THEN net ELSE net \union {Up(c, typed'[c])}
    BY <1>0, <1>2 DEF TypeLine, TypeOK
  <2> DEFINE u == Up(c, typed'[c])
  <2>2. u.by = c /\ u.clnt = c /\ u.nr = typed'[c]
    BY DEF Up
  <2> HIDE DEF u
  <2>3. net' \subseteq net \union {u}
    BY <2>1 DEF u
  <2>4. \A d \in net \union held : d.clnt = c => d.nr \in Nat
    <3>1. net \subseteq Datagram /\ held \subseteq Datagram
      BY <1>0 DEF TypeOK
    <3> QED
      BY <3>1, Fields
  <2>5. typed'[c] \in Nat /\ \A k \in Nat : k <= typed[c] => k <= typed'[c]
    BY <1>0, <2>1
  <2>6. \A d \in (net \union held)' :
          d.clnt = c => d.by = c /\ d.nr <= typed'[c]
    BY <1>1, <2>2, <2>3, <2>4, <2>5 DEF Converses
  <2>7. ASSUME OneAtATime(c) PROVE OneAtATime(c)'
    <3>1. \A d \in (net \union held)' : d.clnt = c => d = u
      BY <1>1, <2>3, <2>7 DEF OneAtATime
    <3>2. \A d \in held' : d.clnt # c
      BY <1>1, <2>7 DEF OneAtATime
    <3> QED
      BY <2>1, <2>2, <3>1, <3>2 DEF OneAtATime
  <2>8. typed'[c] = Len(seen'[c]) + 1
    BY <1>1, <2>1 DEF Converses
  <2> QED
    BY <1>1, <2>1, <2>6, <2>7, <2>8 DEF Converses
<1>3. CASE Quit(c)
  <2>1. cpc'[c] = "done" /\ UNCHANGED <<net, typed, err>>
    BY <1>0, <1>3 DEF Quit, TypeOK
  <2>2. OneAtATime(c) => OneAtATime(c)'
    BY <1>1, <2>1 DEF OneAtATime
  <2> QED
    BY <1>1, <2>1, <2>2 DEF Converses
<1> QED
  BY <1>2, <1>3

(* recvfrom() returns an answer, or fails.                                  *)
LEMMA ReaderConverses ==
  ASSUME Typed, NEW c \in Clients, Converses(c), ClientRuns(c)
  PROVE  Converses(c)'
<1>0. TypeOK /\ typed[c] \in Nat /\ net \subseteq Datagram
  BY Bounds DEF Typed, TypeOK
<1>1. /\ typed' = typed /\ held' = held /\ dups' = dups /\ cpc[c] = "recv"
      /\ (Duplicated(c)' <=> Duplicated(c)) /\ net' \subseteq net
  BY DEF ClientRuns, ReceiveFails, Receive, server, faults, Duplicated
<1>2. typed[c] = Len(seen[c]) + 1
  BY <1>1 DEF Converses
<1>3. \A d \in (net \union held)' : d.clnt = c => d.by = c /\ d.nr <= typed'[c]
  BY <1>1 DEF Converses
<1>4. PICK what \in (Clients \union {News}) \X Nat \union {Refused} :
        /\ Prints(c, what) /\ cpc'[c] \in {"prompt", "broken"}
        /\ \/ what = Refused
           \/ \E n \in 1..typed[c] :
                what = <<c, n>> /\ (n = typed[c] \/ Duplicated(c))
        /\ OneAtATime(c) =>
              c \notin err' /\ \A d \in (net \union held)' : d.clnt # c
  <2>1. CASE ReceiveFails(c)
    <3>1. /\ Prints(c, Refused) /\ cpc'[c] \in {"prompt", "broken"}
          /\ c \in err /\ err' = err \ {c} /\ net' = net
      BY <1>0, <2>1 DEF ReceiveFails, TypeOK
    <3>2. OneAtATime(c) => \A d \in (net \union held)' : d.clnt # c
      BY <1>1, <3>1 DEF OneAtATime
    <3> QED
      BY <3>1, <3>2
  <2>2. ASSUME NEW d \in net, Receive(c, d)
        PROVE  /\ Prints(c, <<d.by, d.nr>>) /\ cpc'[c] = "prompt"
               /\ \E n \in 1..typed[c] :
                    <<d.by, d.nr>> = <<c, n>> /\ (n = typed[c] \/ Duplicated(c))
               /\ OneAtATime(c) =>
                     c \notin err' /\ \A x \in (net \union held)' : x.clnt # c
               /\ <<d.by, d.nr>> \in (Clients \union {News}) \X Nat
    <3>1. /\ Prints(c, <<d.by, d.nr>>) /\ cpc'[c] = "prompt" /\ d.clnt = c
          /\ net' = net \ {d} /\ err' = err
      BY <1>0, <2>2 DEF Receive, TypeOK
    <3>2. d.nr \in Nat /\ 1 <= d.nr /\ d.by \in Clients \union {News}
      <4>1. /\ d.nr \in 1..(MaxLines + NewsLen + 1) /\ d.nr \in Nat
            /\ d.by \in Clients \union {News}
        BY <1>0, Fields
      <4> QED
        BY <4>1, Bounds
    <3>3. d.by = c /\ d.nr <= typed[c] /\ (d.nr = typed[c] \/ Duplicated(c))
      BY <3>1 DEF Converses, OneAtATime
    <3>4. d.nr \in 1..typed[c]
      BY <1>0, <3>2, <3>3
    <3>5. OneAtATime(c) =>
            c \notin err' /\ \A x \in (net \union held)' : x.clnt # c
      BY <1>1, <3>1 DEF OneAtATime
    <3> QED
      BY <3>1, <3>2, <3>3, <3>4, <3>5
  <2> QED
    BY <2>1, <2>2 DEF ClientRuns
<1>5. /\ Len(seen[c]) \in Nat /\ Len(seen'[c]) = Len(seen[c]) + 1
      /\ DOMAIN seen[c] = 1..Len(seen[c])
      /\ DOMAIN seen'[c] = 1..(Len(seen[c]) + 1)
      /\ \A i \in 1..Len(seen[c]) : seen'[c][i] = seen[c][i]
      /\ seen'[c][Len(seen[c]) + 1] = what
      /\ \A i \in 1..(Len(seen[c]) + 1) :
           i \in 1..Len(seen[c]) \/ i = Len(seen[c]) + 1
  BY <1>0, <1>4, PrintsLast
<1>6. ASSUME NEW i \in DOMAIN seen'[c]
      PROVE  \/ seen'[c][i] = Refused
             \/ \E n \in 1..i : seen'[c][i] = <<c, n>>
                                /\ (n = i \/ Duplicated(c)')
  <2>1. CASE i \in 1..Len(seen[c])
    BY <1>1, <1>5, <2>1 DEF Converses
  <2>2. CASE i = typed[c]
    BY <1>1, <1>2, <1>4, <1>5, <2>2
  <2> QED
    BY <1>2, <1>5, <2>1, <2>2
<1>7. OneAtATime(c) => OneAtATime(c)'
  BY <1>4 DEF OneAtATime
<1> QED
  BY <1>1, <1>2, <1>3, <1>4, <1>5, <1>6, <1>7 DEF Converses

(* In the echo example nobody is a receiver of news, and nobody sends any.  *)
LEMMA EchoSteps ==
  ASSUME Typed, EchoInv, [Next]_vars
  PROVE  EchoInv'
<1>0. example' = example
  BY DEF Next, Lose, Duplicate, Refuse, Report, TypeLine, Quit, ClientRuns,
    Receive, ReceiveFails, Listen, ServerRuns, ServSend, ServRecv, SendNews,
    ServKilled, ServStarts, vars
<1>1. SUFFICES ASSUME example = "echo" PROVE EchoInv'
  BY <1>0 DEF EchoInv
<1>2. serv \in {"recv", "send", "down"} /\ \A c \in Clients : Converses(c)
  BY <1>1 DEF EchoInv
<1>3. ASSUME NEW d \in net, Lose(d) \/ Duplicate(d) \/ Refuse(d) \/ Report(d)
      PROVE  EchoInv'
  <2>1. serv' = serv
    BY <1>3 DEF Lose, Duplicate, Refuse, Report, server
  <2> QED
    BY <1>2, <1>3, <2>1, NetworkConverses DEF EchoInv
<1>4. ASSUME NEW c \in Clients, TypeLine(c) \/ Quit(c) \/ ClientRuns(c)
      PROVE  EchoInv'
  <2>1. serv' = serv /\ held' = held /\ dups' = dups
    BY <1>4 DEF TypeLine, Quit, ClientRuns, Receive, ReceiveFails, server, faults
  <2>2. Converses(c)'
    BY <1>2, <1>4, UserConverses, ReaderConverses
  <2>3. ASSUME NEW e \in Clients \ {c} PROVE Converses(e)'
    <3>1. /\ cpc'[e] = cpc[e] /\ typed'[e] = typed[e] /\ seen'[e] = seen[e]
          /\ e \in err' => e \in err
      BY <1>4 DEF Typed, TypeOK, TypeLine, Quit, ClientRuns, Receive,
        ReceiveFails, Prints
    <3>2. \A d \in net' : d.clnt = e => d \in net
      <4>1. net' \subseteq net \union {Up(c, typed'[c])}
        BY <1>4 DEF TypeLine, Quit, ClientRuns, Receive, ReceiveFails
      <4>2. Up(c, typed'[c]).clnt = c
        BY DEF Up
      <4> QED
        BY <4>1, <4>2
    <3> QED
      BY <1>2, <2>1, <3>1, <3>2, Undisturbed DEF Duplicated
  <2> QED
    BY <1>2, <2>1, <2>2, <2>3 DEF EchoInv
<1>5. ASSUME NEW c \in Clients, NEW d \in net, Listen(c, d) PROVE FALSE
  BY <1>2, <1>5 DEF Listen, Converses
<1>6. ~SendNews
  BY <1>2 DEF SendNews
<1>7. CASE ServSend \/ ServKilled \/ ServStarts \/ \E d \in net : ServRecv(d)
  <2>1. serv' \in {"recv", "send", "down"}
    BY <1>7 DEF ServSend, ServKilled, ServStarts, ServRecv
  <2> QED
    BY <1>2, <1>7, <2>1, ServerConverses DEF EchoInv
<1>8. CASE UNCHANGED vars
  <2>1. ASSUME NEW c \in Clients PROVE Converses(c)'
    BY <1>2, <1>8, Undisturbed DEF vars, Duplicated
  <2> QED
    BY <1>2, <1>8, <2>1 DEF EchoInv, vars
<1> QED
  BY <1>3, <1>4, <1>5, <1>6, <1>7, <1>8 DEF Next, ServerRuns

(* No answer runs behind its question at first, and none ever does.         *)
LEMMA AlwaysEcho == Spec => []EchoInv
<1>1. Init => EchoInv
  <2> SUFFICES ASSUME Init, example = "echo" PROVE EchoInv
    BY DEF EchoInv
  <2>1. ASSUME NEW c \in Clients PROVE Converses(c)
    <3>1. /\ cpc[c] = "prompt" /\ typed[c] = 0 /\ seen[c] = <<>>
          /\ net = {} /\ held = {} /\ err = {}
      BY DEF Init
    <3>2. Len(seen[c]) = 0 /\ DOMAIN seen[c] = {}
      BY <3>1
    <3> QED
      BY <3>1, <3>2 DEF Converses, OneAtATime
  <2> QED
    BY <2>1 DEF EchoInv, Init
<1>2. Typed /\ EchoInv /\ [Next]_vars => EchoInv'
  BY EchoSteps
<1> QED
  BY <1>1, <1>2, AlwaysTyped, PTL DEF Spec

(* However datagrams are lost, delayed or refused and the server restarted, *)
(* the n-th thing a client prints is its n-th line or a refusal; only if    *)
(* one of its own datagrams was duplicated it may be an earlier line.       *)
THEOREM EchoAnswersItsLine == Spec => []AnswersItsLine
<1>1. EchoInv => AnswersItsLine
  BY DEF EchoInv, Converses, AnswersItsLine
<1> QED
  BY <1>1, AlwaysEcho, PTL
-----------------------------------------------------------------------------
\* A receiver of the news: every call of sendto() so far is either the number
\* of exactly one datagram on its way to it, or of one thing it has printed,
\* in the order of which f tells.
Hears(c) ==
  /\ cpc[c] = "listen"
  /\ \A d \in net : d.clnt = c =>
       d.way = "down" /\ d.by = News /\ d.nr \in 1..calls
  /\ ~Duplicated(c) /\ c \notin lost =>
       /\ \A d \in net : d.clnt = c => d.copy = 0
       /\ \E f \in [1..Len(seen[c]) -> 1..calls] :
            /\ \A i, j \in DOMAIN f : f[i] = f[j] => i = j
            /\ \A i \in DOMAIN f : seen[c][i] = <<News, Text(f[i])>>
            /\ \A n \in 1..calls :
                 (\E i \in DOMAIN f : f[i] = n)
                   <=> ~ \E d \in net : d.clnt = c /\ d.nr = n

\* The inductive invariant of the news.
NewsInv ==
  example # "echo" =>
    /\ serv \in {"news", "done", "down"}
    /\ serv = "news" => calls < NewsLen \/ (calls = NewsLen /\ whole)
    /\ serv = "done" => calls = IF whole THEN NewsLen + 1 ELSE NewsLen
    /\ \A c \in Clients : Hears(c)

(* A receiver to whom nothing has happened.                                 *)
LEMMA HearsNothing ==
  ASSUME NEW c \in Clients, Hears(c), UNCHANGED <<example, calls>>,
         cpc'[c] = cpc[c], seen'[c] = seen[c],
         c \in lost => c \in lost', Duplicated(c) => Duplicated(c)',
         \A d : d.clnt = c => (d \in net' <=> d \in net)
  PROVE  Hears(c)'
<1>1. \A n : Text(n)' = Text(n)
  BY DEF Text
<1>2. \A n : (\E d \in net' : d.clnt = c /\ d.nr = n)
              <=> (\E d \in net : d.clnt = c /\ d.nr = n)
  OBVIOUS
<1>3. \A d \in net' : d.clnt = c => d \in net
  OBVIOUS
<1>4. cpc'[c] = "listen"
  BY DEF Hears
<1>5. \A d \in net' : d.clnt = c =>
        d.way = "down" /\ d.by = News /\ d.nr \in 1..calls'
  BY <1>3 DEF Hears
<1>6. ASSUME ~Duplicated(c)', c \notin lost'
      PROVE  /\ \A d \in net' : d.clnt = c => d.copy = 0
             /\ \E f \in [1..Len(seen'[c]) -> 1..calls'] :
                  /\ \A i, j \in DOMAIN f : f[i] = f[j] => i = j
                  /\ \A i \in DOMAIN f : seen'[c][i] = <<News, Text(f[i])'>>
                  /\ \A n \in 1..calls' :
                       (\E i \in DOMAIN f : f[i] = n)
                         <=> ~ \E d \in net' : d.clnt = c /\ d.nr = n
  <2>1. \A d \in net : d.clnt = c => d.copy = 0
    BY <1>6 DEF Hears
  <2>2. PICK f \in [1..Len(seen[c]) -> 1..calls] :
          /\ \A i, j \in DOMAIN f : f[i] = f[j] => i = j
          /\ \A i \in DOMAIN f : seen[c][i] = <<News, Text(f[i])>>
          /\ \A n \in 1..calls :
               (\E i \in DOMAIN f : f[i] = n)
                 <=> ~ \E d \in net : d.clnt = c /\ d.nr = n
    BY <1>6 DEF Hears
  <2>3. f \in [1..Len(seen'[c]) -> 1..calls']
    BY <2>2
  <2>4. \A n \in 1..calls' :
          (\E i \in DOMAIN f : f[i] = n)
            <=> ~ \E d \in net' : d.clnt = c /\ d.nr = n
    BY <1>2, <2>2
  <2>5. \A d \in net' : d.clnt = c => d.copy = 0
    BY <1>3, <2>1
  <2>6. \A i \in DOMAIN f : seen'[c][i] = <<News, Text(f[i])'>>
    BY <1>1, <2>2
  <2>7. \A i, j \in DOMAIN f : f[i] = f[j] => i = j
    BY <2>2
  <2> QED
    BY <2>3, <2>4, <2>5, <2>6, <2>7
<1> QED
  BY <1>4, <1>5, <1>6 DEF Hears

(* A call of sendto(): its number is new.                                   *)
LEMMA SenderHears ==
  ASSUME Typed, NEW c \in Clients, Hears(c), SendNews
  PROVE  Hears(c)'
<1> DEFINE u == [way |-> "down", clnt |-> c, by |-> News,
                 nr |-> calls + 1, copy |-> 0]
<1>0. calls \in Nat
  BY Bounds DEF Typed, TypeOK
<1>1. /\ calls' = calls + 1 /\ cpc' = cpc /\ seen' = seen /\ lost' = lost
      /\ example' = example /\ (Duplicated(c)' <=> Duplicated(c))
  BY DEF SendNews, client, faults, Duplicated
<1>2. /\ u.clnt = c /\ u.way = "down" /\ u.by = News /\ u.nr = calls + 1
      /\ u.copy = 0
  OBVIOUS
<1>3. \A d : d.clnt = c => (d \in net' <=> d \in net \/ d = u)
  BY DEF SendNews
<1> HIDE DEF u
<1>4. /\ calls + 1 \in 1..(calls + 1) /\ 1..calls \subseteq 1..(calls + 1)
      /\ calls + 1 \notin 1..calls
      /\ \A n \in 1..(calls + 1) : n \in 1..calls \/ n = calls + 1
  BY <1>0
<1>5. \A n : Text(n)' = Text(n)
  BY <1>1 DEF Text
<1>6. \A d \in net' : d.clnt = c =>
        d.way = "down" /\ d.by = News /\ d.nr \in 1..calls'
  BY <1>1, <1>2, <1>3, <1>4 DEF Hears
<1>7. ASSUME ~Duplicated(c)', c \notin lost'
      PROVE  /\ \A d \in net' : d.clnt = c => d.copy = 0
             /\ \E f \in [1..Len(seen'[c]) -> 1..calls'] :
                  /\ \A i, j \in DOMAIN f : f[i] = f[j] => i = j
                  /\ \A i \in DOMAIN f : seen'[c][i] = <<News, Text(f[i])'>>
                  /\ \A n \in 1..calls' :
                       (\E i \in DOMAIN f : f[i] = n)
                         <=> ~ \E d \in net' : d.clnt = c /\ d.nr = n
  <2>1. \A d \in net : d.clnt = c => d.copy = 0 /\ d.nr \in 1..calls
    BY <1>1, <1>7 DEF Hears
  <2>2. PICK f \in [1..Len(seen[c]) -> 1..calls] :
          /\ \A i, j \in DOMAIN f : f[i] = f[j] => i = j
          /\ \A i \in DOMAIN f : seen[c][i] = <<News, Text(f[i])>>
          /\ \A n \in 1..calls :
               (\E i \in DOMAIN f : f[i] = n)
                 <=> ~ \E d \in net : d.clnt = c /\ d.nr = n
    BY <1>1, <1>7 DEF Hears
  <2>3. f \in [1..Len(seen'[c]) -> 1..calls']
    BY <1>1, <1>4, <2>2
  <2>4. ASSUME NEW n \in 1..calls'
        PROVE  (\E i \in DOMAIN f : f[i] = n)
                 <=> ~ \E d \in net' : d.clnt = c /\ d.nr = n
    <3>1. CASE n = calls + 1
      <4>1. u \in net' /\ u.clnt = c /\ u.nr = n
        BY <1>2, <1>3, <3>1
      <4>2. \A i \in DOMAIN f : f[i] # n
        BY <1>4, <2>2, <3>1
      <4> QED
        BY <4>1, <4>2
    <3>2. CASE n \in 1..calls
      <4>1. n # u.nr
        BY <1>2, <1>4, <3>2
      <4> QED
        BY <1>3, <2>2, <3>2, <4>1
    <3> QED
      BY <1>1, <1>4, <3>1, <3>2
  <2>5. \A d \in net' : d.clnt = c => d.copy = 0
    BY <1>2, <1>3, <2>1
  <2>6. \A i \in DOMAIN f : seen'[c][i] = <<News, Text(f[i])'>>
    BY <1>1, <1>5, <2>2
  <2>7. \A i, j \in DOMAIN f : f[i] = f[j] => i = j
    BY <2>2
  <2> QED
    BY <2>3, <2>4, <2>5, <2>6, <2>7
<1> QED
  BY <1>1, <1>6, <1>7 DEF Hears

(* Two datagrams of the news for one receiver that are not copies differ in *)
(* their numbers.                                                           *)
LEMMA SameDatagram ==
  ASSUME NEW d \in Datagram, NEW e \in Datagram,
         d.way = e.way, d.clnt = e.clnt, d.by = e.by, d.nr = e.nr,
         d.copy = e.copy
  PROVE  d = e
BY DEF Datagram

(* recvfrom() and fputs(): what is printed is the text of a call of which   *)
(* nothing was printed before.                                              *)
LEMMA ListenerHears ==
  ASSUME Typed, NEW c \in Clients, Hears(c), NEW d \in net, Listen(c, d)
  PROVE  Hears(c)'
<1>0. TypeOK /\ net \subseteq Datagram
  BY DEF Typed, TypeOK
<1>1. /\ d.clnt = c /\ d.way = "down" /\ net' = net \ {d}
      /\ Prints(c, <<d.by, Text(d.nr)>>)
      /\ UNCHANGED <<example, calls, cpc, lost, dups>>
  BY DEF Listen, server, faults
<1>2. d.by = News /\ d.nr \in 1..calls /\ cpc[c] = "listen"
  BY <1>1 DEF Hears
<1>3. \A n : Text(n)' = Text(n)
  BY <1>1 DEF Text
<1>4. /\ Len(seen[c]) \in Nat /\ Len(seen'[c]) = Len(seen[c]) + 1
      /\ \A i \in 1..Len(seen[c]) : seen'[c][i] = seen[c][i]
      /\ seen'[c][Len(seen[c]) + 1] = <<News, Text(d.nr)>>
      /\ \A i \in 1..(Len(seen[c]) + 1) :
           i \in 1..Len(seen[c]) \/ i = Len(seen[c]) + 1
  <2>1. Text(d.nr) \in Nat
    BY <1>0, Fields, Bounds DEF Text
  <2>2. <<d.by, Text(d.nr)>> \in (Clients \union {News}) \X Nat
    BY <1>0, <2>1, Fields
  <2> QED
    BY <1>0, <1>1, <1>2, <2>2, PrintsLast
<1>5. \A x \in net' : x.clnt = c =>
        x.way = "down" /\ x.by = News /\ x.nr \in 1..calls'
  BY <1>1 DEF Hears
<1>6. ASSUME ~Duplicated(c)', c \notin lost'
      PROVE  /\ \A x \in net' : x.clnt = c => x.copy = 0
             /\ \E g \in [1..Len(seen'[c]) -> 1..calls'] :
                  /\ \A i, j \in DOMAIN g : g[i] = g[j] => i = j
                  /\ \A i \in DOMAIN g : seen'[c][i] = <<News, Text(g[i])'>>
                  /\ \A n \in 1..calls' :
                       (\E i \in DOMAIN g : g[i] = n)
                         <=> ~ \E x \in net' : x.clnt = c /\ x.nr = n
  <2>0. ~Duplicated(c) /\ c \notin lost
    BY <1>1, <1>6 DEF Duplicated
  <2>1. \A x \in net : x.clnt = c =>
          x.copy = 0 /\ x.way = "down" /\ x.by = News
    BY <2>0 DEF Hears
  <2>2. \A x \in net : x.clnt = c /\ x.nr = d.nr => x = d
    <3>1. ASSUME NEW x \in net, x.clnt = c, x.nr = d.nr PROVE x = d
      <4>1. /\ x \in Datagram /\ d \in Datagram /\ x.way = d.way
            /\ x.clnt = d.clnt /\ x.by = d.by /\ x.copy = d.copy
        BY <1>0, <1>1, <2>1, <3>1
      <4> QED
        BY <3>1, <4>1, SameDatagram
    <3> QED
      BY <3>1
  <2>3. PICK f \in [1..Len(seen[c]) -> 1..calls] :
          /\ \A i, j \in DOMAIN f : f[i] = f[j] => i = j
          /\ \A i \in DOMAIN f : seen[c][i] = <<News, Text(f[i])>>
          /\ \A n \in 1..calls :
               (\E i \in DOMAIN f : f[i] = n)
                 <=> ~ \E x \in net : x.clnt = c /\ x.nr = n
    BY <2>0 DEF Hears
  <2> DEFINE last == Len(seen[c]) + 1
             g == [i \in 1..last |-> IF i = last THEN d.nr ELSE f[i]]
  <2>4. /\ last \in 1..last /\ 1..Len(seen[c]) \subseteq 1..last
        /\ last \notin 1..Len(seen[c])
        /\ \A i \in 1..last : i \in 1..Len(seen[c]) \/ i = last
    BY <1>4
  <2>5. DOMAIN f = 1..Len(seen[c]) /\ \A i \in DOMAIN f : f[i] # d.nr
    BY <1>1, <1>2, <2>3
  <2> HIDE DEF last
  <2>6. /\ DOMAIN g = 1..last /\ g[last] = d.nr
        /\ \A i \in DOMAIN f : g[i] = f[i]
    BY <2>4, <2>5
  <2>7. g \in [1..last -> 1..calls]
    BY <1>2, <2>3, <2>4, <2>5
  <2> HIDE DEF g
  <2>8. \A i, j \in DOMAIN g : g[i] = g[j] => i = j
    BY <2>3, <2>4, <2>5, <2>6
  <2>9. \A i \in DOMAIN g : seen'[c][i] = <<News, Text(g[i])>>
    <3>1. seen'[c][last] = <<News, Text(d.nr)>>
      BY <1>4 DEF last
    <3> QED
      BY <1>4, <2>3, <2>4, <2>5, <2>6, <3>1
  <2>10. ASSUME NEW n \in 1..calls
         PROVE  (\E i \in DOMAIN g : g[i] = n)
                  <=> ~ \E x \in net' : x.clnt = c /\ x.nr = n
    <3>1. CASE n = d.nr
      BY <1>1, <2>2, <2>4, <2>6, <3>1
    <3>2. CASE n # d.nr
      <4>1. (\E i \in DOMAIN g : g[i] = n) <=> (\E i \in DOMAIN f : f[i] = n)
        BY <2>4, <2>5, <2>6, <3>2
      <4>2. (\E x \in net' : x.clnt = c /\ x.nr = n)
              <=> (\E x \in net : x.clnt = c /\ x.nr = n)
        BY <1>1, <3>2
      <4> QED
        BY <2>3, <4>1, <4>2
    <3> QED
      BY <3>1, <3>2
  <2>11. Len(seen'[c]) = last /\ calls' = calls
    BY <1>1, <1>4 DEF last
  <2>12. \A x \in net' : x.clnt = c => x.copy = 0
    BY <1>1, <2>1
  <2> QED
    BY <1>3, <2>7, <2>8, <2>9, <2>10, <2>11, <2>12
<1> QED
  BY <1>1, <1>2, <1>5, <1>6 DEF Hears

(* In the news nobody asks and nothing is refused: what is on its way has   *)
(* been sent by the sender to somebody who listens.                         *)
LEMMA NewsSteps ==
  ASSUME Typed, NewsInv, [Next]_vars
  PROVE  NewsInv'
<1>0. example' = example
  BY DEF Next, Lose, Duplicate, Refuse, Report, TypeLine, Quit, ClientRuns,
    Receive, ReceiveFails, Listen, ServerRuns, ServSend, ServRecv, SendNews,
    ServKilled, ServStarts, vars
<1>1. SUFFICES ASSUME example # "echo" PROVE NewsInv'
  BY <1>0 DEF NewsInv
<1>2. /\ serv \in {"news", "done", "down"}
      /\ serv = "news" => calls < NewsLen \/ (calls = NewsLen /\ whole)
      /\ serv = "done" => calls = IF whole THEN NewsLen + 1 ELSE NewsLen
      /\ \A c \in Clients : Hears(c)
  BY <1>1 DEF NewsInv
<1>3. net \subseteq Datagram /\ dups \in Seq(Clients) /\ calls \in Nat
  BY Bounds DEF Typed, TypeOK
<1>4. \A d \in net : d.clnt \in Clients /\ d.way = "down"
  BY <1>2, <1>3, Fields DEF Hears
<1>5. ASSUME NEW d \in net, Lose(d) PROVE NewsInv'
  <2>1. /\ UNCHANGED <<example, whole, serv, calls, cpc, seen, dups>>
        /\ net' = net \ {d} /\ lost' = lost \union {d.clnt}
    BY <1>5 DEF Lose, server, client
  <2>2. ASSUME NEW c \in Clients PROVE Hears(c)'
    <3>1. CASE c # d.clnt
      BY <1>2, <2>1, <3>1, HearsNothing DEF Duplicated
    <3>2. CASE c = d.clnt
      BY <1>2, <2>1, <3>2 DEF Hears
    <3> QED
      BY <3>1, <3>2
  <2> QED
    BY <1>2, <2>1, <2>2 DEF NewsInv
<1>6. ASSUME NEW d \in net, Duplicate(d) PROVE NewsInv'
  <2> DEFINE e == [d EXCEPT !.copy = Len(dups) + 1]
  <2>1. /\ UNCHANGED <<example, whole, serv, calls, cpc, seen, lost>>
        /\ net' = net \union {e} /\ dups' = Append(dups, d.clnt)
    BY <1>6 DEF Duplicate, server, client
  <2>2. /\ e.clnt = d.clnt /\ e.by = d.by /\ e.nr = d.nr /\ e.way = d.way
    BY <1>3 DEF Datagram
  <2> HIDE DEF e
  <2>3. /\ DOMAIN dups = 1..Len(dups) /\ DOMAIN dups' = 1..(Len(dups) + 1)
        /\ \A i \in 1..Len(dups) : dups'[i] = dups[i]
        /\ dups'[Len(dups) + 1] = d.clnt
        /\ Len(dups) \in Nat
    BY <1>3, <1>4, <2>1, AppendProperties, LenProperties
  <2>4. 1..Len(dups) \subseteq 1..(Len(dups) + 1)
        /\ Len(dups) + 1 \in 1..(Len(dups) + 1)
    BY <2>3
  <2>5. ASSUME NEW c \in Clients PROVE Hears(c)'
    <3>1. CASE c # d.clnt
      <4>1. Duplicated(c) => Duplicated(c)'
        BY <2>3, <2>4 DEF Duplicated
      <4> QED
        BY <1>2, <2>1, <2>2, <3>1, <4>1, HearsNothing
    <3>2. CASE c = d.clnt
      <4>1. Duplicated(c)'
        BY <2>3, <2>4, <3>2 DEF Duplicated
      <4>2. \A x \in net' : x.clnt = c =>
              x.way = "down" /\ x.by = News /\ x.nr \in 1..calls'
        BY <1>2, <2>1, <2>2, <3>2 DEF Hears
      <4>3. cpc'[c] = "listen"
        BY <1>2, <2>1 DEF Hears
      <4> QED
        BY <4>1, <4>2, <4>3 DEF Hears
    <3> QED
      BY <3>1, <3>2
  <2> QED
    BY <1>2, <2>1, <2>5 DEF NewsInv
<1>7. \A d \in net : ~Refuse(d) /\ ~Report(d) /\ ~ServRecv(d)
  BY <1>4 DEF Refuse, Report, ServRecv
<1>8. \A c \in Clients : ~TypeLine(c) /\ ~Quit(c) /\ ~ClientRuns(c)
  BY <1>2 DEF Hears, TypeLine, Quit, ClientRuns, Receive, ReceiveFails
<1>9. ASSUME NEW c \in Clients, NEW d \in net, Listen(c, d) PROVE NewsInv'
  <2>1. /\ UNCHANGED <<example, whole, serv, calls, cpc, lost, dups>>
        /\ net' = net \ {d} /\ d.clnt = c /\ Prints(c, <<d.by, Text(d.nr)>>)
    BY <1>9 DEF Listen, server, faults
  <2>2. ASSUME NEW e \in Clients \ {c} PROVE Hears(e)'
    <3>1. seen'[e] = seen[e]
      BY <2>1 DEF Prints, Typed, TypeOK
    <3> QED
      BY <1>2, <2>1, <3>1, HearsNothing DEF Duplicated
  <2>3. Hears(c)'
    BY <1>2, <1>9, ListenerHears
  <2> QED
    BY <1>2, <2>1, <2>2, <2>3 DEF NewsInv
<1>10. CASE SendNews
  <2>1. /\ UNCHANGED <<example, whole>> /\ serv = "news" /\ calls' = calls + 1
        /\ serv' = IF EndOfFile THEN "done" ELSE "news"
    BY <1>10 DEF SendNews
  <2>2. serv' = "news" => calls' < NewsLen \/ (calls' = NewsLen /\ whole')
    BY <1>3, <2>1, Bounds DEF EndOfFile
  <2>3. serv' = "done" => calls' = IF whole' THEN NewsLen + 1 ELSE NewsLen
    BY <1>2, <1>3, <2>1, Bounds DEF EndOfFile
  <2>4. \A c \in Clients : Hears(c)'
    BY <1>2, <1>10, SenderHears
  <2>5. serv' \in {"news", "done", "down"}
    BY <2>1
  <2> QED
    BY <2>2, <2>3, <2>4, <2>5 DEF NewsInv
<1>11. CASE ServKilled
  <2>1. UNCHANGED <<example, whole, net, calls, cpc, seen, lost, dups>>
        /\ serv' = "down"
    BY <1>11 DEF ServKilled, client, faults
  <2>2. \A c \in Clients : Hears(c)'
    BY <1>2, <2>1, HearsNothing DEF Duplicated
  <2> QED
    BY <2>1, <2>2 DEF NewsInv
<1>12. CASE UNCHANGED vars
  <2>1. \A c \in Clients : Hears(c)'
    BY <1>2, <1>12, HearsNothing DEF vars, Duplicated
  <2> QED
    BY <1>2, <1>12, <2>1 DEF NewsInv, vars
<1>13. ~ServSend /\ ~ServStarts
  BY <1>1, <1>2 DEF ServSend, ServStarts
<1> QED
  BY <1>5, <1>6, <1>7, <1>8, <1>9, <1>10, <1>11, <1>12, <1>13
     DEF Next, ServerRuns

(* How many of the things printed, f telling which call printed each, have  *)
(* a text that one call sent, that two sent, or that none did.              *)
LEMMA TimesPrinted ==
  ASSUME NEW c \in Clients, NEW n,
         NEW f \in [DOMAIN seen[c] -> 1..calls],
         \A i, j \in DOMAIN f : f[i] = f[j] => i = j,
         \A i \in DOMAIN f : seen[c][i] = <<News, Text(f[i])>>,
         \A m \in 1..calls : \E i \in DOMAIN f : f[i] = m
  PROVE  /\ (\A m \in 1..calls : Text(m) # n) => Times(c, n) = 0
         /\ \A a \in 1..calls :
              (\A m \in 1..calls : Text(m) = n <=> m = a) => Times(c, n) = 1
         /\ \A a, b \in 1..calls :
              a # b /\ (\A m \in 1..calls : Text(m) = n <=> m = a \/ m = b)
                => Times(c, n) = 2
<1> DEFINE S == { i \in DOMAIN seen[c] : seen[c][i] = <<News, n>> }
<1>1. Times(c, n) = Cardinality(S)
  BY DEF Times
<1>2. \A i : i \in S <=> i \in DOMAIN f /\ Text(f[i]) = n
  OBVIOUS
<1> HIDE DEF S
<1>3. ASSUME \A m \in 1..calls : Text(m) # n PROVE Times(c, n) = 0
  <2>1. S = {}
    BY <1>2, <1>3
  <2> QED
    BY <1>1, <2>1, FS_EmptySet
<1>4. ASSUME NEW a \in 1..calls, \A m \in 1..calls : Text(m) = n <=> m = a
      PROVE  Times(c, n) = 1
  <2>1. PICK p \in DOMAIN f : f[p] = a
    OBVIOUS
  <2>2. \A i : i \in S <=> i = p
    BY <1>2, <1>4, <2>1
  <2>3. S = {p}
    BY <2>2
  <2> QED
    BY <1>1, <2>3, FS_Singleton
<1>5. ASSUME NEW a \in 1..calls, NEW b \in 1..calls, a # b,
             \A m \in 1..calls : Text(m) = n <=> m = a \/ m = b
      PROVE  Times(c, n) = 2
  <2>1. PICK p \in DOMAIN f : f[p] = a
    OBVIOUS
  <2>2. PICK q \in DOMAIN f : f[q] = b
    OBVIOUS
  <2>3. \A i : i \in S <=> i = p \/ i = q
    BY <1>2, <1>5, <2>1, <2>2
  <2>4. S = {p} \union {q} /\ q \notin {p}
    BY <1>5, <2>1, <2>2, <2>3
  <2>5. IsFiniteSet({p}) /\ Cardinality({p}) = 1
    BY FS_Singleton
  <2>6. Cardinality({p} \union {q}) = 1 + 1
    BY <2>4, <2>5, FS_AddElement
  <2>7. Cardinality(S) = 1 + 1
    BY <2>4, <2>6, Zenon
  <2>8. 1 + 1 = 2
    OBVIOUS
  <2> QED
    BY <1>1, <2>7, <2>8, Zenon
<1> QED
  BY <1>3, <1>4, <1>5

(* A sender that has sent nothing is heard by everybody as it should be,    *)
(* and it stays so.                                                         *)
LEMMA AlwaysNews == Spec => []NewsInv
<1>1. Init => NewsInv
  <2> SUFFICES ASSUME Init, example # "echo" PROVE NewsInv
    BY DEF NewsInv
  <2>1. ASSUME NEW c \in Clients PROVE Hears(c)
    <3>1. /\ cpc[c] = "listen" /\ seen[c] = <<>> /\ net = {} /\ calls = 0
      BY DEF Init
    <3>2. Len(seen[c]) = 0 /\ 1..Len(seen[c]) = {} /\ 1..calls = {}
      BY <3>1
    <3> DEFINE f == [i \in {} |-> 0]
    <3>3. f \in [1..Len(seen[c]) -> 1..calls] /\ DOMAIN f = {}
      BY <3>2
    <3> HIDE DEF f
    <3> QED
      BY <3>1, <3>2, <3>3 DEF Hears
  <2>2. calls = 0 /\ 0 < NewsLen /\ serv = "news"
    BY DatagramsAssumption DEF Init
  <2> QED
    BY <2>1, <2>2 DEF NewsInv
<1>2. Typed /\ NewsInv /\ [Next]_vars => NewsInv'
  BY NewsSteps
<1> QED
  BY <1>1, <1>2, AlwaysTyped, PTL DEF Spec

(* feof() is asked after the sending: of a file that ends with a newline    *)
(* every receiver that loses nothing prints the last line twice with 14-1   *)
(* and one empty text with 14-2, and every other line exactly once.         *)
THEOREM NewsLastLineTwice == Spec => []LastLineTwice
<1>1. Typed /\ NewsInv /\ EchoInv => LastLineTwice
  <2> SUFFICES ASSUME Typed, NewsInv, EchoInv, NEW c \in Clients, serv = "done",
                      c \notin lost, ~Duplicated(c), \A d \in net : d.clnt # c
               PROVE  /\ \A n \in 1..NewsLen :
                           Times(c, n) = IF n = NewsLen /\ whole
                                              /\ example = "multicast"
                                           THEN 2 ELSE 1
                      /\ Times(c, 0) = IF whole /\ example = "broadcast"
                                         THEN 1 ELSE 0
    BY DEF LastLineTwice
  <2>1. example # "echo"
    BY DEF EchoInv
  <2>2. example \in {"multicast", "broadcast"} /\ whole \in BOOLEAN
        /\ DOMAIN seen[c] = 1..Len(seen[c])
    BY <2>1 DEF Typed, TypeOK
  <2>3. calls = IF whole THEN NewsLen + 1 ELSE NewsLen
    BY <2>1 DEF NewsInv
  <2>4. PICK f \in [1..Len(seen[c]) -> 1..calls] :
          /\ \A i, j \in DOMAIN f : f[i] = f[j] => i = j
          /\ \A i \in DOMAIN f : seen[c][i] = <<News, Text(f[i])>>
          /\ \A m \in 1..calls : \E i \in DOMAIN f : f[i] = m
    BY <2>1 DEF NewsInv, Hears
  <2>5. f \in [DOMAIN seen[c] -> 1..calls]
    BY <2>2, <2>4
  <2>6. /\ \A n : (\A m \in 1..calls : Text(m) # n) => Times(c, n) = 0
        /\ \A n : \A a \in 1..calls :
             (\A m \in 1..calls : Text(m) = n <=> m = a) => Times(c, n) = 1
        /\ \A n : \A a, b \in 1..calls :
             a # b /\ (\A m \in 1..calls : Text(m) = n <=> m = a \/ m = b)
               => Times(c, n) = 2
    BY <2>4, <2>5, TimesPrinted
  <2>7. NewsLen \in Nat /\ NewsLen # 0
    BY DatagramsAssumption
  <2>8. CASE ~whole
    <3>1. calls = NewsLen /\ \A m \in 1..calls : Text(m) = m /\ m # 0
      BY <2>3, <2>7, <2>8 DEF Text
    <3> QED
      BY <2>6, <2>8, <3>1
  <2>9. CASE whole
    <3>1. /\ calls = NewsLen + 1 /\ calls \in 1..calls /\ NewsLen \in 1..calls
          /\ calls # NewsLen /\ calls # 0
          /\ \A m \in 1..calls : m = calls \/ m \in 1..NewsLen
          /\ \A m \in 1..NewsLen : m # 0 /\ m # calls /\ m \in 1..calls
          /\ \A m \in 1..NewsLen : Text(m) = m
      BY <2>3, <2>7, <2>9 DEF Text
    <3>2. CASE example = "multicast"
      <4>1. Text(calls) = NewsLen
        BY <2>7, <3>1, <3>2 DEF Text
      <4>2. \A m \in 1..calls : Text(m) = NewsLen <=> m = NewsLen \/ m = calls
        BY <3>1, <4>1
      <4>3. Times(c, NewsLen) = 2
        <5>1. NewsLen \in 1..calls /\ calls \in 1..calls /\ NewsLen # calls
          BY <3>1
        <5>2. \A a, b \in 1..calls :
                a # b /\ (\A m \in 1..calls :
                            Text(m) = NewsLen <=> m = a \/ m = b)
                  => Times(c, NewsLen) = 2
          BY <2>6
        <5>3. (\A m \in 1..calls : Text(m) = NewsLen <=> m = NewsLen \/ m = calls)
                => Times(c, NewsLen) = 2
          BY <5>1, <5>2
        <5> QED
          BY <4>2, <5>3
      <4>4. ASSUME NEW n \in 1..NewsLen, n # NewsLen PROVE Times(c, n) = 1
        <5>1. n \in 1..calls /\ \A m \in 1..calls : Text(m) = n <=> m = n
          BY <3>1, <4>1, <4>4
        <5> QED
          BY <2>6, <5>1
      <4>5. Times(c, 0) = 0
        <5>1. \A m \in 1..calls : Text(m) # 0
          BY <2>7, <3>1, <4>1
        <5> QED
          BY <2>6, <5>1
      <4> QED
        BY <2>9, <3>2, <4>3, <4>4, <4>5
    <3>3. CASE example = "broadcast"
      <4>1. Text(calls) = 0
        BY <2>7, <3>1, <3>3 DEF Text
      <4>2. ASSUME NEW n \in 1..NewsLen PROVE Times(c, n) = 1
        <5>1. n \in 1..calls /\ \A m \in 1..calls : Text(m) = n <=> m = n
          BY <3>1, <4>1
        <5> QED
          BY <2>6, <5>1
      <4>3. Times(c, 0) = 1
        <5>1. \A m \in 1..calls : Text(m) = 0 <=> m = calls
          BY <3>1, <4>1
        <5> QED
          BY <2>6, <3>1, <5>1
      <4> QED
        BY <2>9, <3>3, <4>2, <4>3
    <3> QED
      BY <2>2, <3>2, <3>3
  <2> QED
    BY <2>2, <2>8, <2>9
<1> QED
  BY <1>1, AlwaysTyped, AlwaysEcho, AlwaysNews, PTL
-----------------------------------------------------------------------------
(* Nobody but a client itself puts anything on its way that carries its     *)
(* address, so a client that waits for nothing waits for ever: no loss,     *)
(* refusal, restart or other client brings an answer.                       *)
THEOREM LossStaysFinal == Spec => LossIsFinal
<1>1. ASSUME Typed, EchoInv, NewsInv, [Next]_vars, NEW c \in Clients, Stuck(c)
      PROVE  Stuck(c)'
  <2>1. /\ cpc[c] = "recv" /\ c \notin err
        /\ \A d \in net : d.clnt # c
        /\ \A d \in held : d.clnt # c
    BY <1>1 DEF Stuck
  <2>2. example = "echo" /\ ~SendNews
    BY <1>1, <2>1 DEF EchoInv, NewsInv, Hears, SendNews
  <2>3. net \subseteq Datagram /\ TypeOK
    BY <1>1 DEF Typed, TypeOK
  <2>4. ASSUME NEW d \in net, Lose(d) \/ Duplicate(d) \/ Refuse(d) \/ Report(d)
        PROVE  Stuck(c)'
    <3>1. /\ [d EXCEPT !.copy = Len(dups) + 1].clnt = d.clnt
          /\ [d EXCEPT !.way = "icmp"].clnt = d.clnt
      BY <2>3 DEF Datagram
    <3>2. cpc' = cpc /\ held' = held /\ err' \subseteq err \union {d.clnt}
      BY <2>4 DEF Lose, Duplicate, Refuse, Report, server, client
    <3>3. net' \subseteq net \union {[d EXCEPT !.copy = Len(dups) + 1],
                                   [d EXCEPT !.way = "icmp"]}
      BY <2>4 DEF Lose, Duplicate, Refuse, Report
    <3> QED
      BY <2>1, <3>1, <3>2, <3>3 DEF Stuck
  <2>5. ASSUME NEW e \in Clients, TypeLine(e) \/ Quit(e) \/ ClientRuns(e)
        PROVE  Stuck(c)'
    <3>1. e # c
      BY <2>1, <2>5 DEF TypeLine, Quit, ClientRuns, ReceiveFails, Receive
    <3>2. cpc'[c] = cpc[c] /\ held' = held /\ err' \subseteq err
      BY <2>3, <2>5, <3>1 DEF TypeLine, Quit, ClientRuns, ReceiveFails, Receive,
        server, TypeOK
    <3>3. net' \subseteq net \union {Up(e, typed'[e])}
      BY <2>5 DEF TypeLine, Quit, ClientRuns, ReceiveFails, Receive
    <3>4. Up(e, typed'[e]).clnt = e
      BY DEF Up
    <3> QED
      BY <2>1, <3>1, <3>2, <3>3, <3>4 DEF Stuck
  <2>6. ASSUME NEW e \in Clients, NEW d \in net, Listen(e, d) PROVE Stuck(c)'
    BY <2>1, <2>6 DEF Listen, server, Stuck
  <2>7. CASE ServSend
    <3>1. PICK d \in Datagram : held = {d}
      BY <2>3, <2>7 DEF ServSend, TypeOK
    <3>2. net' = net \union {[d EXCEPT !.way = "down"]} /\ held' = {}
          /\ UNCHANGED <<cpc, err>>
      BY <2>7, <3>1 DEF ServSend, client
    <3>3. [d EXCEPT !.way = "down"].clnt = d.clnt
      BY DEF Datagram
    <3> QED
      BY <2>1, <3>1, <3>2, <3>3 DEF Stuck
  <2>8. ASSUME NEW d \in net, ServRecv(d) PROVE Stuck(c)'
    BY <2>1, <2>8 DEF ServRecv, client, Stuck
  <2>9. CASE ServKilled \/ ServStarts \/ UNCHANGED vars
    BY <2>1, <2>9 DEF ServKilled, ServStarts, client, vars, Stuck
  <2> QED
    BY <1>1, <2>2, <2>4, <2>5, <2>6, <2>7, <2>8, <2>9 DEF Next, ServerRuns
<1>2. Typed /\ EchoInv /\ NewsInv /\ [Next]_vars
        => [\A c \in Clients : Stuck(c) => Stuck(c)']_vars
  BY <1>1
<1> QED
  BY <1>2, AlwaysTyped, AlwaysEcho, AlwaysNews, PTL DEF Spec, LossIsFinal


-----------------------------------------------------------------------------
(* 11-2-ipcecho's pipe carries bytes, each with the connection it is from.  *)
Entries == Conns \X Nat

(* How the pipe's entries are grouped does not matter ...                   *)
LEMMA EntriesRegroup ==
  \A s, t, u \in Seq(Entries) : (s \o t) \o u = s \o (t \o u)
BY ConcatAssociative

(* ... nor how bytes are.                                                   *)
LEMMA BytesRegroup ==
  \A s, t, u \in Seq(Nat) : (s \o t) \o u = s \o (t \o u)
BY ConcatAssociative

(* f has, for each prefix of s up to n, the bytes of c's client in it.      *)
Picks(c, s, n, f) ==
  f = [i \in 0..n |->
         CASE i = 0 -> <<>>
           [] i > 0 /\ s[i][1] = c -> Append(f[i - 1], s[i][2])
           [] OTHER -> f[i - 1]]

(* Of an empty prefix there are none.                                       *)
LEMMA PicksNone ==
  \A c, s, f : \A n \in Nat : Picks(c, s, n, f) => f[0] = <<>>
<1> SUFFICES ASSUME NEW c, NEW s, NEW f, NEW n \in Nat, Picks(c, s, n, f)
             PROVE  f[0] = <<>>
  OBVIOUS
<1> QED
  BY DEF Picks

(* What the i-th entry adds.                                                *)
Takes(c, s, i, f) ==
  f[i] = IF s[i][1] = c THEN Append(f[i - 1], s[i][2]) ELSE f[i - 1]

(* Every entry adds a byte of c's or nothing.                               *)
LEMMA PicksStep ==
  \A c, s, f : \A n \in Nat :
    Picks(c, s, n, f) => \A i \in 1..n : Takes(c, s, i, f)
<1> SUFFICES ASSUME NEW c, NEW s, NEW f, NEW n \in Nat, Picks(c, s, n, f),
                    NEW i \in 1..n
             PROVE  Takes(c, s, i, f)
  OBVIOUS
<1>1. i \in 0..n /\ i # 0 /\ i > 0
  OBVIOUS
<1>2. f[i] = CASE i = 0 -> <<>>
               [] i > 0 /\ s[i][1] = c -> Append(f[i - 1], s[i][2])
               [] OTHER -> f[i - 1]
  BY <1>1, Zenon DEF Picks
<1> QED
  BY <1>1, <1>2 DEF Takes

(* There is such an f for every n: a smallest n without one would have a    *)
(* predecessor with one, which a single further entry extends.              *)
LEMMA PicksExists ==
  ASSUME NEW c, NEW s, NEW n \in Nat
  PROVE  \E f : Picks(c, s, n, f)
<1> DEFINE Bad == {m \in Nat : ~ \E f : Picks(c, s, m, f)}
<1>1. CASE Bad = {}
  BY <1>1
<1>2. CASE Bad # {}
  <2>1. Bad \in SUBSET Nat
    OBVIOUS
  <2> HIDE DEF Bad
  <2>2. PICK m \in Bad : \A k \in Bad : m <= k
    BY <1>2, <2>1, SmallestOf
  <2> USE DEF Bad
  <2>3. CASE m = 0
    <3> DEFINE g == [i \in 0..0 |-> <<>>]
    <3>1. g = [i \in 0..0 |->
                 CASE i = 0 -> <<>>
                   [] i > 0 /\ s[i][1] = c -> Append(g[i - 1], s[i][2])
                   [] OTHER -> g[i - 1]]
      <4>1. \A i \in 0..0 : i = 0 /\ ~(i > 0)
        OBVIOUS
      <4> QED
        BY <4>1
    <3>2. Picks(c, s, 0, g)
      BY <3>1, Zenon DEF Picks
    <3> QED
      BY <2>2, <2>3, <3>2
  <2>4. CASE m # 0
    <3>1. m - 1 \in Nat /\ m \in Nat /\ ~(m <= m - 1)
      BY <2>4
    <3>2. PICK f : Picks(c, s, m - 1, f)
      BY <2>2, <3>1
    <3>3. /\ f[0] = <<>>
          /\ \A i \in 1..(m - 1) :
               f[i] = IF s[i][1] = c THEN Append(f[i - 1], s[i][2])
                                     ELSE f[i - 1]
      BY <3>1, <3>2, PicksNone, PicksStep DEF Takes
    <3> DEFINE new == IF s[m][1] = c THEN Append(f[m - 1], s[m][2])
                                     ELSE f[m - 1]
               g == [i \in 0..m |-> IF i = m THEN new ELSE f[i]]
    <3>4. ASSUME NEW i \in 0..m
          PROVE  g[i] = CASE i = 0 -> <<>>
                          [] i > 0 /\ s[i][1] = c -> Append(g[i - 1], s[i][2])
                          [] OTHER -> g[i - 1]
      <4> HIDE DEF new
      <4>1. CASE i = 0
        BY <2>4, <3>3, <4>1
      <4>2. CASE i # 0 /\ i # m
        <5>1. i \in 1..(m - 1) /\ i > 0 /\ i - 1 \in 0..m /\ i - 1 # m
          BY <4>2, <3>1
        <5>2. g[i] = f[i] /\ g[i - 1] = f[i - 1]
          BY <4>2, <5>1
        <5> QED
          BY <3>3, <4>2, <5>1, <5>2
      <4>3. CASE i = m
        <5>1. m > 0 /\ m # 0 /\ m - 1 \in 0..m /\ m - 1 # m
          BY <2>4, <3>1
        <5>2. g[m] = new /\ g[m - 1] = f[m - 1]
          BY <5>1
        <5>3. g[m] = IF s[m][1] = c THEN Append(g[m - 1], s[m][2]) ELSE g[m - 1]
          BY <5>2 DEF new
        <5> HIDE DEF g
        <5> QED
          BY <4>3, <5>1, <5>3
      <4> QED
        BY <4>1, <4>2, <4>3
    <3>5. g = [i \in 0..m |->
                 CASE i = 0 -> <<>>
                   [] i > 0 /\ s[i][1] = c -> Append(g[i - 1], s[i][2])
                   [] OTHER -> g[i - 1]]
      BY <3>4
    <3>6. Picks(c, s, m, g)
      BY <3>5, Zenon DEF Picks
    <3> QED
      BY <2>2, <3>6
  <2> QED
    BY <2>3, <2>4
<1> QED
  BY <1>1, <1>2

(* So BytesOf(c, s), defined by recursion, does satisfy its equation.       *)
LEMMA BytesOfPicks ==
  ASSUME NEW c, NEW s \in Seq(Entries)
  PROVE  \E f : Picks(c, s, Len(s), f) /\ BytesOf(c, s) = f[Len(s)]
<1> DEFINE F == CHOOSE f : Picks(c, s, Len(s), f)
<1>1. Picks(c, s, Len(s), F)
  BY PicksExists, LenProperties
<1>2. BytesOf(c, s) = F[Len(s)]
  BY DEF BytesOf, Picks
<1> QED
  BY <1>1, <1>2

(* What it is of a prefix depends on that prefix and nothing else.          *)
LEMMA PicksAgree ==
  ASSUME NEW c, NEW s, NEW t, NEW m \in Nat, NEW n \in Nat, NEW f, NEW g,
         Picks(c, s, m, f), Picks(c, t, n, g),
         NEW k \in Nat, k <= m, k <= n, \A i \in 1..k : s[i] = t[i]
  PROVE  f[k] = g[k]
<1> DEFINE Bad == {i \in Nat : i <= k /\ f[i] # g[i]}
<1>1. CASE Bad = {}
  BY <1>1
<1>2. CASE Bad # {}
  <2>1. Bad \in SUBSET Nat
    OBVIOUS
  <2> HIDE DEF Bad
  <2>2. PICK j \in Bad : \A i \in Bad : j <= i
    BY <1>2, <2>1, SmallestOf
  <2> USE DEF Bad
  <2>3. f[0] = g[0]
    <3>1. f[0] = <<>>
      BY PicksNone
    <3>2. g[0] = <<>>
      BY PicksNone
    <3> QED
      BY <3>1, <3>2
  <2>4. CASE j # 0
    <3>1. /\ j - 1 \in Nat /\ j - 1 <= k /\ ~(j <= j - 1)
          /\ j \in 1..m /\ j \in 1..n /\ j \in 1..k
      BY <2>4
    <3>2. f[j - 1] = g[j - 1]
      BY <2>2, <3>1
    <3>3. f[j] = IF s[j][1] = c THEN Append(f[j - 1], s[j][2]) ELSE f[j - 1]
      BY <3>1, PicksStep DEF Takes
    <3>4. g[j] = IF t[j][1] = c THEN Append(g[j - 1], t[j][2]) ELSE g[j - 1]
      BY <3>1, PicksStep DEF Takes
    <3>5. s[j] = t[j]
      BY <3>1
    <3>6. f[j] = g[j]
      BY <3>2, <3>3, <3>4, <3>5, Zenon
    <3> QED
      BY <3>6
  <2> QED
    BY <2>3, <2>4
<1> QED
  BY <1>1, <1>2

(* One more entry in a sequence ...                                         *)
LEMMA BytesOfAppend ==
  ASSUME NEW c, NEW s \in Seq(Entries), NEW e \in Entries
  PROVE  BytesOf(c, Append(s, e)) =
           IF e[1] = c THEN Append(BytesOf(c, s), e[2]) ELSE BytesOf(c, s)
<1> DEFINE t == Append(s, e)
<1>1. /\ t \in Seq(Entries) /\ Len(t) = Len(s) + 1 /\ Len(s) \in Nat
      /\ \A i \in 1..Len(s) : t[i] = s[i]
      /\ t[Len(s) + 1] = e
  BY AppendProperties, LenProperties
<1> HIDE DEF t
<1>2. PICK f : Picks(c, s, Len(s), f) /\ BytesOf(c, s) = f[Len(s)]
  BY BytesOfPicks
<1>3. PICK g : Picks(c, t, Len(t), g) /\ BytesOf(c, t) = g[Len(t)]
  BY <1>1, BytesOfPicks
<1>4. PICK n \in Nat : n = Len(s)
  BY <1>1
<1>5. g[n] = f[n]
  <2>1. /\ Picks(c, t, n + 1, g) /\ Picks(c, s, n, f)
        /\ n + 1 \in Nat /\ n <= n + 1 /\ n <= n
        /\ \A i \in 1..n : t[i] = s[i]
    BY <1>1, <1>2, <1>3, <1>4
  <2> QED
    BY <2>1, PicksAgree
<1>6. g[n + 1] = IF t[n + 1][1] = c THEN Append(g[n], t[n + 1][2]) ELSE g[n]
  <2>1. Picks(c, t, n + 1, g) /\ n + 1 \in Nat /\ n + 1 \in 1..(n + 1)
        /\ (n + 1) - 1 = n
    BY <1>1, <1>3, <1>4
  <2>2. \A i \in 1..(n + 1) :
          g[i] = IF t[i][1] = c THEN Append(g[i - 1], t[i][2]) ELSE g[i - 1]
    BY <2>1, PicksStep DEF Takes
  <2> QED
    BY <2>1, <2>2
<1>7. BytesOf(c, t) =
        IF e[1] = c THEN Append(BytesOf(c, s), e[2]) ELSE BytesOf(c, s)
  BY <1>1, <1>2, <1>3, <1>4, <1>5, <1>6
<1> QED
  BY <1>7 DEF t

(* ... and none.                                                            *)
LEMMA BytesOfEmpty ==
  ASSUME NEW c
  PROVE  BytesOf(c, <<>>) = <<>>
<1>1. <<>> \in Seq(Entries) /\ Len(<<>>) = 0
  OBVIOUS
<1>2. PICK f : Picks(c, <<>>, Len(<<>>), f) /\ BytesOf(c, <<>>) = f[Len(<<>>)]
  BY <1>1, BytesOfPicks
<1>3. Picks(c, <<>>, 0, f) /\ BytesOf(c, <<>>) = f[0]
  BY <1>1, <1>2
<1>4. f[0] = <<>>
  BY <1>3, PicksNone
<1> QED
  BY <1>3, <1>4

(* A set of sequences in which there is no shortest is empty. What holds of *)
(* the empty sequence and with each element added thus holds of all.        *)
LEMMA NoneIsShortest ==
  ASSUME NEW S, NEW Bad \in SUBSET Seq(S), <<>> \notin Bad,
         \A u \in Seq(S) : \A e \in S : Append(u, e) \in Bad => u \in Bad
  PROVE  Bad = {}
<1> SUFFICES ASSUME Bad # {} PROVE FALSE
  OBVIOUS
<1> DEFINE Lens == { Len(t) : t \in Bad }
<1>0. \A t \in Bad : Len(t) \in Nat
  <2>1. \A t \in Bad : t \in Seq(S)
    OBVIOUS
  <2> QED
    BY <2>1, LenProperties
<1>1. Lens \in SUBSET Nat /\ Lens # {}
  <2>1. Lens \in SUBSET Nat
    BY <1>0
  <2>2. PICK t \in Bad : TRUE
    OBVIOUS
  <2>3. Len(t) \in Lens
    BY <2>2
  <2> QED
    BY <2>1, <2>3
<1>2. PICK n \in Lens : \A k \in Lens : n <= k
  <2> HIDE DEF Lens
  <2> QED
    BY <1>1, SmallestOf
<1>3. PICK t \in Bad : Len(t) = n
  BY <1>2
<1>4. t \in Seq(S) /\ t # <<>>
  OBVIOUS
<1>5. PICK u \in Seq(S), e \in S : t = Append(u, e)
  BY <1>4, SequenceEmptyOrAppend
<1>6. u \in Bad
  BY <1>5
<1>7. Len(u) \in Lens
  BY <1>6
<1>8. Len(t) = Len(u) + 1 /\ Len(u) \in Nat
  BY <1>5, AppendProperties, LenProperties
<1>9. n <= Len(u)
  BY <1>2, <1>7
<1> QED
  BY <1>3, <1>8, <1>9

(* The parts of an entry.                                                   *)
LEMMA EntryFields ==
  \A e \in Entries : e[1] \in Conns /\ e[2] \in Nat
BY DEF Entries

(* What BytesOf picks are bytes ...                                         *)
LEMMA BytesOfType ==
  \A c : \A t \in Seq(Entries) : BytesOf(c, t) \in Seq(Nat)
<1> SUFFICES ASSUME NEW c
             PROVE  \A t \in Seq(Entries) : BytesOf(c, t) \in Seq(Nat)
  OBVIOUS
<1> DEFINE Bad == { t \in Seq(Entries) : BytesOf(c, t) \notin Seq(Nat) }
<1>1. Bad \in SUBSET Seq(Entries)
  OBVIOUS
<1>2. <<>> \notin Bad
  <2>1. <<>> \in Seq(Nat)
    OBVIOUS
  <2> QED
    BY <2>1, BytesOfEmpty
<1>3. ASSUME NEW u \in Seq(Entries), NEW e \in Entries, u \notin Bad
      PROVE  Append(u, e) \notin Bad
  <2>1. BytesOf(c, u) \in Seq(Nat) /\ e[2] \in Nat
    BY <1>3, EntryFields
  <2>2. Append(BytesOf(c, u), e[2]) \in Seq(Nat)
    BY <2>1, AppendProperties
  <2>3. BytesOf(c, Append(u, e)) \in Seq(Nat)
    BY <2>1, <2>2, BytesOfAppend
  <2> QED
    BY <2>3
<1> HIDE DEF Bad
<1>4. Bad = {}
  BY <1>1, <1>2, <1>3, NoneIsShortest
<1> QED
  BY <1>4 DEF Bad

(* ... and of two sequences put together those of both.                     *)
LEMMA BytesOfConcat ==
  \A c : \A s, t \in Seq(Entries) :
    BytesOf(c, s \o t) = BytesOf(c, s) \o BytesOf(c, t)
<1> SUFFICES ASSUME NEW c, NEW s \in Seq(Entries)
             PROVE  \A t \in Seq(Entries) :
                      BytesOf(c, s \o t) = BytesOf(c, s) \o BytesOf(c, t)
  OBVIOUS
<1> DEFINE Bad == { t \in Seq(Entries) :
                      BytesOf(c, s \o t) # BytesOf(c, s) \o BytesOf(c, t) }
<1>1. Bad \in SUBSET Seq(Entries)
  OBVIOUS
<1>0. BytesOf(c, s) \in Seq(Nat)
  BY BytesOfType
<1>2. <<>> \notin Bad
  <2>1. s \o <<>> = s /\ BytesOf(c, s) \o <<>> = BytesOf(c, s)
    BY <1>0, ConcatEmptySeq
  <2> QED
    BY <2>1, BytesOfEmpty
<1>3. ASSUME NEW u \in Seq(Entries), NEW e \in Entries, u \notin Bad
      PROVE  Append(u, e) \notin Bad
  <2>1. BytesOf(c, s \o u) = BytesOf(c, s) \o BytesOf(c, u)
    BY <1>3
  <2>2. BytesOf(c, u) \in Seq(Nat) /\ s \o u \in Seq(Entries) /\ e[2] \in Nat
    BY BytesOfType, ConcatProperties, EntryFields
  <2>3. s \o Append(u, e) = Append(s \o u, e)
    <3>1. <<e>> \in Seq(Entries)
      OBVIOUS
    <3>2. Append(u, e) = u \o <<e>> /\ Append(s \o u, e) = (s \o u) \o <<e>>
      BY <2>2, AppendIsConcat
    <3>3. (s \o u) \o <<e>> = s \o (u \o <<e>>)
      BY <3>1, EntriesRegroup, Zenon
    <3> QED
      BY <3>2, <3>3, Zenon
  <2>4. BytesOf(c, s) \o Append(BytesOf(c, u), e[2]) =
          Append(BytesOf(c, s) \o BytesOf(c, u), e[2])
    <3> DEFINE x == BytesOf(c, s)
               y == BytesOf(c, u)
    <3>1. x \in Seq(Nat) /\ y \in Seq(Nat) /\ <<e[2]>> \in Seq(Nat)
      BY <1>0, <2>2
    <3> HIDE DEF x, y
    <3>2. x \o y \in Seq(Nat)
      BY <3>1, ConcatProperties
    <3>3. /\ Append(y, e[2]) = y \o <<e[2]>>
          /\ Append(x \o y, e[2]) = (x \o y) \o <<e[2]>>
      BY <2>2, <3>1, <3>2, AppendIsConcat
    <3>4. (x \o y) \o <<e[2]>> = x \o (y \o <<e[2]>>)
      BY <3>1, BytesRegroup, Zenon
    <3>5. x \o Append(y, e[2]) = Append(x \o y, e[2])
      BY <3>3, <3>4, Zenon
    <3> QED
      BY <3>5 DEF x, y
  <2>5. BytesOf(c, Append(u, e)) =
          IF e[1] = c THEN Append(BytesOf(c, u), e[2]) ELSE BytesOf(c, u)
    BY BytesOfAppend
  <2>6. BytesOf(c, Append(s \o u, e)) =
          IF e[1] = c THEN Append(BytesOf(c, s \o u), e[2])
                      ELSE BytesOf(c, s \o u)
    BY <2>2, BytesOfAppend
  <2>7. BytesOf(c, s \o Append(u, e)) =
          BytesOf(c, s) \o BytesOf(c, Append(u, e))
    <3>1. CASE e[1] = c
      BY <2>1, <2>3, <2>4, <2>5, <2>6, <3>1, Zenon
    <3>2. CASE e[1] # c
      BY <2>1, <2>3, <2>5, <2>6, <3>2, Zenon
    <3> QED
      BY <3>1, <3>2
  <2> QED
    BY <2>7
<1> HIDE DEF Bad
<1>4. Bad = {}
  BY <1>1, <1>2, <1>3, NoneIsShortest
<1> QED
  BY <1>4 DEF Bad

(* The entries an echo process makes of a piece of its buffer ...           *)
Tagged(c, g) == [i \in 1..Len(g) |-> <<c, g[i]>>]

(* ... byte by byte ...                                                     *)
LEMMA TaggedAppend ==
  ASSUME NEW c \in Conns, NEW g \in Seq(Nat), NEW b \in Nat
  PROVE  /\ Tagged(c, g) \in Seq(Entries)
         /\ Tagged(c, Append(g, b)) = Append(Tagged(c, g), <<c, b>>)
<1>1. Tagged(c, g) \in Seq(Entries)
  <2>1. \A i \in 1..Len(g) : <<c, g[i]>> \in Entries
    BY ElementOfSeq DEF Entries
  <2> QED
    BY <2>1, IsASeq, LenProperties DEF Tagged
<1>2. PICK n \in Nat : n = Len(g)
  BY LenProperties
<1> DEFINE h == Append(g, b)
           t == Tagged(c, g)
           x == Tagged(c, h)
           y == Append(t, <<c, b>>)
<1>3. /\ Len(h) = n + 1 /\ h[n + 1] = b
      /\ \A i \in 1..n : h[i] = g[i]
  BY <1>2, AppendProperties
<1>4. /\ t = [i \in 1..n |-> <<c, g[i]>>] /\ Len(t) = n
  BY <1>2 DEF Tagged
<1>5. x = [i \in 1..(n + 1) |-> <<c, h[i]>>]
  <2> HIDE DEF h
  <2> QED
    BY <1>3 DEF Tagged
<1>6. <<c, b>> \in Entries
  BY DEF Entries
<1>7. /\ y \in Seq(Entries) /\ Len(y) = n + 1 /\ y[n + 1] = <<c, b>>
      /\ \A i \in 1..n : y[i] = t[i]
  <2> HIDE DEF t
  <2> QED
    BY <1>1, <1>4, <1>6, AppendProperties DEF t
<1>8. y = [i \in 1..(n + 1) |-> y[i]]
  <2> HIDE DEF y
  <2> QED
    BY <1>7
<1>9. ASSUME NEW i \in 1..(n + 1)
      PROVE  <<c, h[i]>> = y[i]
  <2> HIDE DEF y, t, h
  <2>1. CASE i = n + 1
    BY <1>3, <1>7, <2>1
  <2>2. CASE i # n + 1
    <3>1. i \in 1..n
      BY <2>2
    <3>2. t[i] = <<c, g[i]>>
      BY <1>4, <3>1
    <3> QED
      BY <1>3, <1>7, <3>1, <3>2
  <2> QED
    BY <2>1, <2>2
<1>10. x = y
  <2> HIDE DEF x, y, h
  <2> QED
    BY <1>5, <1>8, <1>9
<1> QED
  BY <1>1, <1>10

(* ... from none on.                                                        *)
LEMMA TaggedEmpty ==
  ASSUME NEW c
  PROVE  Tagged(c, <<>>) = <<>>
BY DEF Tagged

(* They are c's and nobody else's.                                          *)
LEMMA BytesOfTagged ==
  \A c, d \in Conns : \A g \in Seq(Nat) :
    BytesOf(d, Tagged(c, g)) = IF c = d THEN g ELSE <<>>
<1> SUFFICES ASSUME NEW c \in Conns, NEW d \in Conns
             PROVE  \A g \in Seq(Nat) :
                      BytesOf(d, Tagged(c, g)) = IF c = d THEN g ELSE <<>>
  OBVIOUS
<1> DEFINE Bad == { g \in Seq(Nat) :
                      BytesOf(d, Tagged(c, g)) # IF c = d THEN g ELSE <<>> }
<1>1. Bad \in SUBSET Seq(Nat)
  OBVIOUS
<1>2. <<>> \notin Bad
  BY TaggedEmpty, BytesOfEmpty
<1>3. ASSUME NEW u \in Seq(Nat), NEW b \in Nat, u \notin Bad
      PROVE  Append(u, b) \notin Bad
  <2>1. BytesOf(d, Tagged(c, u)) = IF c = d THEN u ELSE <<>>
    BY <1>3
  <2>2. /\ Tagged(c, u) \in Seq(Entries)
        /\ Tagged(c, Append(u, b)) = Append(Tagged(c, u), <<c, b>>)
    BY TaggedAppend
  <2>3. <<c, b>> \in Entries /\ <<c, b>>[1] = c /\ <<c, b>>[2] = b
    BY DEF Entries
  <2>4. BytesOf(d, Append(Tagged(c, u), <<c, b>>)) =
          IF <<c, b>>[1] = d THEN Append(BytesOf(d, Tagged(c, u)), <<c, b>>[2])
                             ELSE BytesOf(d, Tagged(c, u))
    BY <2>2, <2>3, BytesOfAppend
  <2>5. BytesOf(d, Tagged(c, Append(u, b))) =
          IF c = d THEN Append(u, b) ELSE <<>>
    <3>1. CASE c = d
      BY <2>1, <2>2, <2>3, <2>4, <3>1, Zenon
    <3>2. CASE c # d
      BY <2>1, <2>2, <2>3, <2>4, <3>2, Zenon
    <3> QED
      BY <3>1, <3>2
  <2> QED
    BY <2>5
<1> HIDE DEF Bad
<1>4. Bad = {}
  BY <1>1, <1>2, <1>3, NoneIsShortest
<1> QED
  BY <1>4 DEF Bad
-----------------------------------------------------------------------------
(* main() has accepted c and not yet forked its process.                    *)
Enters(c) == mainPc = "fork" /\ clnt = c

(* A connection is queued, being accepted or served, never two of these,    *)
(* and gets a process once: what it starts with is as it was at first.      *)
OneEach ==
  /\ \A i, j \in DOMAIN queue : queue[i] = queue[j] => i = j
  /\ \A i \in DOMAIN queue :
       /\ conn[queue[i]].cli # "none"
       /\ proc[queue[i]] = "none"
       /\ ~Enters(queue[i])
  /\ \A c \in Conns :
       /\ Enters(c) => conn[c].cli # "none" /\ proc[c] = "none"
       /\ conn[c].cli = "none" => proc[c] = "none"
  /\ mainPc = "fork" => clnt \in Conns

(* Who holds fds[1]: main() while it runs, the logger until it closes its   *)
(* own, and every echo process until it ends. So nobody who can still write *)
(* is left when the logger meets end of file.                               *)
Holders ==
  /\ Main \in writers <=> mainPc # "exited"
  /\ Logger \in writers <=> logger = "start"
  /\ \A c \in Conns : c \in writers <=> proc[c] \in Alive
  /\ mainPc = "fork logger" =>
       logger = "none" /\ \A c \in Conns : proc[c] = "none"
  /\ logger = "ended" => writers = {} /\ pipe = <<>>

(* What is in the buffers at each place of the programs.                    *)
Buffers ==
  /\ \A c \in Conns :
       /\ Len(buf[c]) <= BufSize
       /\ proc[c] \in {"write", "log"} => at[c] < Len(buf[c])
       /\ proc[c] \notin {"write", "log", "killed"} =>
            buf[c] = <<>> /\ at[c] = 0
  /\ logger # "write" => logBuf = <<>>


-----------------------------------------------------------------------------
(* The n bytes sent by a client: l has been logged or is on its way there,  *)
(* b is in the process's buffer, of which a bytes were copied to the pipe,  *)
(* u is on its way to the server. l ends where b and a say, if it has to    *)
(* (lg).                                                                    *)
LogFlow(lg, l, a, b, u, n) ==
  \E y, z \in Nat :
    /\ Run(b, y, z) /\ Run(u, z, n)
    /\ lg => Run(l, 0, y + a)

(* The log file has been opened or may still be.                            *)
Logging == logger \in {"none", "start"} \/ opened
(* How much of its buffer a process has written to the pipe.                *)
Copied(c) == IF proc[c] = "log" THEN at[c] ELSE 0
(* What has been logged of c's client, or will be.                          *)
Logged(c) == log[c] \o BytesOf(c, logBuf \o pipe)

(* The bytes of every client, from its socket to the file, are in order,    *)
(* each there once.                                                         *)
Trails ==
  \A c \in Conns :
    LogFlow(Logging, Logged(c), Copied(c), buf[c], conn[c].up, sent[c])

(* The inductive invariant of IpcEcho. EveryByteLogged is not inductive: it *)
(* does not say that the buffer goes on where the log ends (Trails), nor    *)
(* that a process finds its buffer as it left it (Buffers), nor that it is  *)
(* the only one of its connection (OneEach); its second half rests on       *)
(* Holders.                                                                 *)
IpcInv == IpcTypeOK /\ OneEach /\ Holders /\ Buffers /\ Trails

(* Nothing has been sent and nothing logged.                                *)
LEMMA LogFlowBegins ==
  \A lg : LogFlow(lg, <<>>, 0, <<>>, <<>>, 0)
<1>1. Run(<<>>, 0, 0) /\ 0 + 0 = 0
  BY RunEmpty
<1> QED
  BY <1>1 DEF LogFlow

(* Less may be asked of the log ...                                         *)
LEMMA LogFlowWeakens ==
  \A lg, more, l, a, b, u, n :
    LogFlow(lg, l, a, b, u, n) /\ (more => lg) => LogFlow(more, l, a, b, u, n)
BY DEF LogFlow

(* A byte sent goes on where the others end.                                *)
LEMMA LogFlowSent ==
  \A lg, l, a, b : \A u \in Seq(Nat) : \A n \in Nat :
    LogFlow(lg, l, a, b, u, n) => LogFlow(lg, l, a, b, Append(u, n + 1), n + 1)
<1> SUFFICES ASSUME NEW lg, NEW l, NEW a, NEW b, NEW u \in Seq(Nat),
                    NEW n \in Nat, LogFlow(lg, l, a, b, u, n)
             PROVE  LogFlow(lg, l, a, b, Append(u, n + 1), n + 1)
  OBVIOUS
<1>1. PICK y \in Nat, z \in Nat :
        Run(b, y, z) /\ Run(u, z, n) /\ (lg => Run(l, 0, y + a))
  BY DEF LogFlow
<1>2. Run(Append(u, n + 1), z, n + 1)
  BY <1>1, RunAppend
<1> QED
  BY <1>1, <1>2 DEF LogFlow

(* A read() into the empty buffer takes the next bytes.                     *)
LEMMA LogFlowRead ==
  \A lg, l : \A u \in Seq(Nat) : \A n \in Nat :
  \A room : \A m \in Counts(u, room) :
    LogFlow(lg, l, 0, <<>>, u, n) =>
      LogFlow(lg, l, 0, Front(u, m), Rest(u, m), n)
<1> SUFFICES ASSUME NEW lg, NEW l, NEW u \in Seq(Nat), NEW n \in Nat,
                    NEW room, NEW m \in Counts(u, room),
                    LogFlow(lg, l, 0, <<>>, u, n)
             PROVE  LogFlow(lg, l, 0, Front(u, m), Rest(u, m), n)
  OBVIOUS
<1>1. PICK y \in Nat, z \in Nat :
        Run(<<>>, y, z) /\ Run(u, z, n) /\ (lg => Run(l, 0, y + 0))
  BY DEF LogFlow
<1>2. y = z
  BY <1>1, RunEmpty
<1>3. y + m \in Nat /\ Run(Front(u, m), y, y + m) /\ Run(Rest(u, m), y + m, n)
  BY <1>1, <1>2, RunSplit
<1> QED
  BY <1>1, <1>3 DEF LogFlow

(* What a write() of n bytes copies of a buffer, a of which were copied.    *)
Piece(b, a, n) == SubSeq(b, a + 1, a + n)

(* These are n bytes ...                                                    *)
LEMMA PieceType ==
  \A b \in Seq(Nat) : \A a, n \in Nat :
    a + n <= Len(b) =>
      /\ Piece(b, a, n) \in Seq(Nat)
      /\ Len(Piece(b, a, n)) = n
      /\ \A i \in 1..n : Piece(b, a, n)[i] = b[a + i]
<1> SUFFICES ASSUME NEW b \in Seq(Nat), NEW a \in Nat, NEW n \in Nat,
                    a + n <= Len(b)
             PROVE  /\ Piece(b, a, n) \in Seq(Nat)
                    /\ Len(Piece(b, a, n)) = n
                    /\ \A i \in 1..n : Piece(b, a, n)[i] = b[a + i]
  OBVIOUS
<1>1. Len(b) \in Nat
  BY LenProperties
<1> QED
  BY <1>1 DEF Piece

(* ... and their entries those that ChildLog appends.                       *)
LEMMA PieceTagged ==
  \A c : \A b \in Seq(Nat) : \A a, n \in Nat :
    a + n <= Len(b) =>
      Tagged(c, Piece(b, a, n)) = [i \in 1..n |-> <<c, b[a + i]>>]
BY PieceType DEF Tagged

(* Copied to the pipe they go on where the log ends; after the last the     *)
(* buffer is empty.                                                         *)
LEMMA LogFlowLogged ==
  ASSUME NEW lg, NEW l \in Seq(Nat), NEW b \in Seq(Nat), NEW u,
         NEW a \in Nat, NEW n \in Nat, NEW m \in Nat,
         LogFlow(lg, l, a, b, u, n), a + m <= Len(b)
  PROVE  /\ LogFlow(lg, l \o Piece(b, a, m), a + m, b, u, n)
         /\ a + m = Len(b) =>
              LogFlow(lg, l \o Piece(b, a, m), 0, <<>>, u, n)
<1> DEFINE g == Piece(b, a, m)
<1>1. PICK y \in Nat, z \in Nat :
        Run(b, y, z) /\ Run(u, z, n) /\ (lg => Run(l, 0, y + a))
  BY DEF LogFlow
<1>2. /\ g \in Seq(Nat) /\ Len(g) = m
      /\ \A i \in 1..m : g[i] = b[a + i]
  BY PieceType
<1> HIDE DEF g
<1>3. PICK k \in Nat : k = Len(b)
  BY LenProperties
<1>4. z = y + k /\ \A i \in 1..k : b[i] = y + i
  BY <1>1, <1>3 DEF Run
<1>5. Run(g, y + a, y + (a + m))
  <2>1. y + (a + m) = (y + a) + Len(g)
    BY <1>2
  <2>2. \A i \in 1..Len(g) : g[i] = (y + a) + i
    <3> SUFFICES ASSUME NEW i \in 1..m PROVE g[i] = (y + a) + i
      BY <1>2
    <3>1. a + i \in 1..k /\ y + (a + i) = (y + a) + i
      BY <1>3
    <3>2. g[i] = b[a + i] /\ b[a + i] = y + (a + i)
      BY <1>2, <1>4, <3>1
    <3> QED
      BY <3>1, <3>2
  <2> QED
    BY <2>1, <2>2 DEF Run
<1>6. lg => Run(l \o g, 0, y + (a + m))
  <2>1. y + a \in Nat /\ y + (a + m) \in Nat /\ 0 \in Nat
    OBVIOUS
  <2> QED
    BY <1>1, <1>2, <1>5, <2>1, RunConcat
<1>7. LogFlow(lg, l \o g, a + m, b, u, n)
  BY <1>1, <1>6 DEF LogFlow
<1>8. ASSUME a + m = Len(b)
      PROVE  LogFlow(lg, l \o g, 0, <<>>, u, n)
  <2>1. y + (a + m) = z /\ z + 0 = z
    BY <1>3, <1>4, <1>8
  <2>2. Run(<<>>, z, z)
    BY RunEmpty
  <2> QED
    BY <1>1, <1>6, <2>1, <2>2 DEF LogFlow
<1> QED
  BY <1>7, <1>8 DEF g

(* So what is logged is the beginning of what was sent, up to what is still *)
(* on its way or in the buffer.                                             *)
LEMMA LogFlowIsStream ==
  \A l, b, u \in Seq(Nat) : \A a, n \in Nat :
    LogFlow(TRUE, l, a, b, u, n) =>
      l = [i \in 1..(n - Len(u) - Len(b) + a) |-> i]
<1> SUFFICES ASSUME NEW l \in Seq(Nat), NEW b \in Seq(Nat), NEW u \in Seq(Nat),
                    NEW a \in Nat, NEW n \in Nat,
                    LogFlow(TRUE, l, a, b, u, n)
             PROVE  l = [i \in 1..(n - Len(u) - Len(b) + a) |-> i]
  OBVIOUS
<1>1. PICK y \in Nat, z \in Nat :
        Run(b, y, z) /\ Run(u, z, n) /\ Run(l, 0, y + a)
  BY DEF LogFlow
<1>2. Len(u) \in Nat /\ Len(b) \in Nat
  BY LenProperties
<1>3. z = y + Len(b) /\ n = z + Len(u)
  BY <1>1 DEF Run
<1>4. n - Len(u) - Len(b) + a = y + a
  BY <1>2, <1>3
<1>5. y + a \in Nat
  OBVIOUS
<1> QED
  BY <1>1, <1>4, <1>5, RunIsStream

-----------------------------------------------------------------------------
(* A client that may still send has room below MaxSend.                     *)
LEMMA RoomToSend ==
  ASSUME IpcTypeOK, NEW c \in Conns, sent[c] < Quota[c]
  PROVE  sent[c] + 1 \in 0..MaxSend
<1>1. sent[c] \in 0..MaxSend /\ Quota[c] \in 0..MaxSend /\ MaxSend \in Nat
  BY IpcAssumption DEF IpcTypeOK
<1> QED
  BY <1>1

(* The types of the variables, as the proofs use them.                      *)
LEMMA IpcFacts ==
  ASSUME IpcTypeOK
  PROVE  /\ BufSize \in Nat /\ 0 < BufSize /\ PipeCap \in Nat
         /\ 0 \in 0..BufSize
         /\ pipe \in Seq(Entries) /\ logBuf \in Seq(Entries)
         /\ Len(pipe) \in Nat /\ Len(logBuf) \in Nat /\ Len(pipe) <= PipeCap
         /\ queue \in Seq(Conns)
         /\ <<>> \in Seq(Conns) /\ <<>> \in Seq(Entries) /\ <<>> \in Seq(Nat)
         /\ Len(<<>>) = 0
         /\ \A c \in Conns :
              /\ conn[c] \in Connection
              /\ buf[c] \in Seq(Nat) /\ Len(buf[c]) \in Nat
              /\ at[c] \in Nat
              /\ log[c] \in Seq(Nat)
              /\ sent[c] \in Nat
<1>1. BufSize \in Nat /\ 0 < BufSize /\ PipeCap \in Nat /\ 0 \in 0..BufSize
  BY TcpAssumption, IpcAssumption
<1>2. /\ pipe \in Seq(Entries) /\ logBuf \in Seq(Entries)
      /\ Len(pipe) <= PipeCap /\ queue \in Seq(Conns)
  BY DEF IpcTypeOK, Entries
<1>3. Len(pipe) \in Nat /\ Len(logBuf) \in Nat
  BY <1>2, LenProperties
<1>4. /\ <<>> \in Seq(Conns) /\ <<>> \in Seq(Entries) /\ <<>> \in Seq(Nat)
      /\ Len(<<>>) = 0
  OBVIOUS
<1>5. ASSUME NEW c \in Conns
      PROVE  /\ conn[c] \in Connection
             /\ buf[c] \in Seq(Nat) /\ Len(buf[c]) \in Nat
             /\ at[c] \in Nat
             /\ log[c] \in Seq(Nat)
             /\ sent[c] \in Nat
  <2>1. conn[c] \in Connection /\ buf[c] \in Seq(Nat) /\ log[c] \in Seq(Nat)
    BY DEF IpcTypeOK
  <2>2. Len(buf[c]) \in Nat
    BY <2>1, LenProperties
  <2>3. at[c] \in 0..BufSize /\ sent[c] \in 0..MaxSend
    BY DEF IpcTypeOK
  <2>4. at[c] \in Nat /\ sent[c] \in Nat
    BY <2>3
  <2> QED
    BY <2>1, <2>2, <2>4
<1> QED
  BY <1>1, <1>2, <1>3, <1>4, <1>5

(* A client's calls keep every variable in its type.                        *)
LEMMA IpcClientType ==
  ASSUME IpcTypeOK, NEW c \in Conns, ClientNext(c)
  PROVE  IpcTypeOK'
<1> USE DEF main, child, logging
<1>0. conn[c] \in Connection
  BY IpcFacts
<1>1. CASE Connect(c)
  <2>1. Append(queue, c) \in Seq(Conns) /\ Connected(conn[c]) \in Connection
    BY <1>0, IpcFacts, AppendProperties, ClientOpsType
  <2> QED
    BY <1>1, <2>1 DEF Connect, IpcTypeOK
<1>2. CASE CliSend(c)
  <2>1. sent[c] + 1 \in 0..MaxSend
    BY <1>2, RoomToSend DEF CliSend
  <2>2. sent[c] + 1 \in Nat
    BY <2>1
  <2>3. Sent(conn[c], sent[c] + 1) \in Connection
    BY <1>0, <2>2, ClientOpsType
  <2> QED
    BY <1>2, <2>1, <2>3 DEF CliSend, IpcTypeOK
<1>3. CASE CliRead(c)
  <2>1. conn[c].down \in Seq(Nat) /\ conn[c].down # <<>>
    BY <1>0, <1>3 DEF CliRead, Connection
  <2>2. Len(conn[c].down) \in Counts(conn[c].down, Len(conn[c].down))
    <3> DEFINE d == conn[c].down
    <3>1. Len(d) \in Nat /\ Len(d) # 0
      BY <2>1, EmptySeq, LenProperties
    <3> HIDE DEF d
    <3>2. Len(d) \in Counts(d, Len(d))
      BY <3>1 DEF Counts
    <3> QED
      BY <3>2 DEF d
  <2>3. Taken(conn[c], Len(conn[c].down)) \in Connection
    BY <1>0, <2>2, ClientOpsType
  <2> QED
    BY <1>3, <2>3 DEF CliRead, IpcTypeOK
<1>4. CASE CliClose(c)
  <2>1. Left(conn[c]) \in Connection
    BY <1>0, ClientOpsType
  <2> QED
    BY <1>4, <2>1 DEF CliClose, IpcTypeOK
<1> QED
  BY <1>1, <1>2, <1>3, <1>4 DEF ClientNext

(* So does main() ...                                                       *)
LEMMA IpcMainType ==
  ASSUME IpcTypeOK, OneEach, MainNext
  PROVE  IpcTypeOK'
<1> USE DEF main, child, logging
<1>0. <<>> \in Seq(Conns)
  BY IpcFacts
<1>1. CASE ForkLogger
  BY <1>1 DEF ForkLogger, IpcTypeOK
<1>2. CASE ForkLoggerFails
  BY <1>0, <1>2 DEF ForkLoggerFails, IpcTypeOK
<1>3. CASE Accept
  <2>1. Head(queue) \in Conns /\ Tail(queue) \in Seq(Conns)
    BY <1>3, IpcFacts, HeadTailProperties DEF Accept
  <2> QED
    BY <1>3, <2>1 DEF Accept, IpcTypeOK
<1>4. CASE Fork
  <2>1. clnt \in Conns
    BY <1>4 DEF Fork, OneEach
  <2> QED
    BY <1>4, <2>1 DEF Fork, Alive, IpcTypeOK
<1>5. CASE ForkFails
  BY <1>0, <1>5 DEF ForkFails, IpcTypeOK
<1> QED
  BY <1>1, <1>2, <1>3, <1>4, <1>5 DEF MainNext

(* ... the logger, which reads no more than BUFFER_SIZE ...                 *)
LEMMA IpcLoggerType ==
  ASSUME IpcTypeOK, LoggerNext
  PROVE  IpcTypeOK'
<1> USE DEF main, child
<1>0. <<>> \in Seq(Conns) /\ <<>> \in Seq(Entries) /\ Len(<<>>) = 0
  BY IpcFacts
<1>1. CASE LoggerStart
  BY <1>0, <1>1 DEF LoggerStart, IpcTypeOK
<1>2. CASE LoggerRead
  <2> DEFINE n == IF Len(pipe) < BufSize THEN Len(pipe) ELSE BufSize
  <2>1. /\ logBuf' = Front(pipe, n) /\ pipe' = Rest(pipe, n)
        /\ pipe # <<>> /\ logger' = "write"
    BY <1>2 DEF LoggerRead
  <2>2. n \in Counts(pipe, BufSize)
    BY <2>1, IpcFacts, EmptySeq DEF Counts
  <2>3. n \in Nat /\ n <= BufSize /\ n <= Len(pipe)
    BY <2>2, IpcFacts DEF Counts
  <2> HIDE DEF n
  <2>4. pipe \in Seq(Entries)
    BY IpcFacts
  <2>5. logBuf' \in Seq(Entries) /\ pipe' \in Seq(Entries)
    BY <2>1, <2>2, <2>4, SplitType
  <2>6. Len(logBuf') = n /\ Len(pipe') = Len(pipe) - n
    BY <2>1, <2>3, <2>4, IpcFacts DEF Front, Rest
  <2>7. Len(pipe') <= PipeCap /\ Len(logBuf') <= BufSize
    BY <2>3, <2>6, IpcFacts
  <2> QED
    BY <1>2, <2>1, <2>5, <2>7 DEF LoggerRead, Entries, IpcTypeOK
<1>3. CASE LoggerWrite
  <2>1. logBuf \in Seq(Entries)
    BY IpcFacts
  <2>2. \A c \in Conns : BytesOf(c, logBuf) \in Seq(Nat)
    BY <2>1, BytesOfType
  <2>3. \A c \in Conns : log[c] \o BytesOf(c, logBuf) \in Seq(Nat)
    BY <2>2, IpcFacts, ConcatProperties
  <2>4. log' \in [Conns -> Seq(Nat)]
    BY <1>3, <2>3 DEF LoggerWrite, IpcTypeOK
  <2>5. 0 <= BufSize
    BY IpcFacts
  <2> QED
    BY <1>0, <1>3, <2>4, <2>5 DEF LoggerWrite, Entries, IpcTypeOK
<1>4. CASE LoggerEof
  BY <1>4 DEF LoggerEof, IpcTypeOK
<1> QED
  BY <1>1, <1>2, <1>3, <1>4 DEF LoggerNext

(* (One write() to the pipe: it copies a piece and is at the end or is      *)
(* not.)                                                                    *)
LEMMA LogStep ==
  ASSUME IpcTypeOK, Buffers, NEW c \in Conns, ChildLog(c)
  PROVE  \E n \in Nat :
           /\ proc[c] = "log" /\ at[c] + n <= Len(buf[c])
           /\ Len(pipe) + n <= PipeCap
           /\ Len(buf[c]) <= BufSize
           /\ pipe' = pipe \o Tagged(c, Piece(buf[c], at[c], n))
           /\ \/ /\ at[c] + n = Len(buf[c])
                 /\ at' = [at EXCEPT ![c] = 0]
                 /\ buf' = [buf EXCEPT ![c] = <<>>]
                 /\ proc' = [proc EXCEPT ![c] = "read"]
              \/ /\ at[c] + n < Len(buf[c])
                 /\ at' = [at EXCEPT ![c] = at[c] + n]
                 /\ buf' = buf
                 /\ proc' = proc
           /\ UNCHANGED <<main, queue, conn, writers, logging, sent>>
<1>1. PICK n \in LogCounts(c) :
        /\ pipe' = pipe \o [i \in 1..n |-> <<c, buf[c][at[c] + i]>>]
        /\ at' = [at EXCEPT ![c] =
                     IF at[c] + n = Len(buf[c]) THEN 0 ELSE @ + n]
        /\ buf' = [buf EXCEPT ![c] =
                     IF at[c] + n = Len(buf[c]) THEN <<>> ELSE @]
        /\ proc' = [proc EXCEPT ![c] =
                      IF at[c] + n = Len(buf[c]) THEN "read" ELSE "log"]
  BY DEF ChildLog
<1>2. /\ proc[c] = "log"
      /\ UNCHANGED <<main, queue, conn, writers, logging, sent>>
      /\ Len(buf[c]) <= BufSize
  BY DEF ChildLog, Buffers
<1>3. /\ at[c] \in Nat /\ Len(buf[c]) \in Nat /\ Len(pipe) \in Nat
      /\ buf[c] \in Seq(Nat) /\ PipeCap \in Nat
  BY IpcFacts
<1>4. n \in Nat /\ at[c] + n <= Len(buf[c]) /\ Len(pipe) + n <= PipeCap
  BY <1>3 DEF LogCounts
<1>5. pipe' = pipe \o Tagged(c, Piece(buf[c], at[c], n))
  <2>1. Tagged(c, Piece(buf[c], at[c], n)) =
          [i \in 1..n |-> <<c, buf[c][at[c] + i]>>]
    <3> DEFINE b == buf[c]
    <3>1. PICK a \in Nat : a = at[c]
      BY <1>3
    <3>2. b \in Seq(Nat) /\ a + n <= Len(b)
      BY <1>3, <1>4, <3>1
    <3> HIDE DEF b
    <3>3. Tagged(c, Piece(b, a, n)) = [i \in 1..n |-> <<c, b[a + i]>>]
      BY <1>4, <3>2, PieceTagged
    <3> QED
      BY <3>1, <3>3 DEF b
  <2> QED
    BY <1>1, <2>1, Zenon
<1>6. CASE at[c] + n = Len(buf[c])
  BY <1>1, <1>2, <1>4, <1>5, <1>6
<1>7. CASE at[c] + n # Len(buf[c])
  <2>1. at[c] + n < Len(buf[c])
    <3>1. PICK k \in Nat, a \in Nat : k = Len(buf[c]) /\ a = at[c]
      BY <1>3
    <3>2. a + n <= k /\ a + n # k
      BY <1>4, <1>7, <3>1
    <3>3. a + n < k
      BY <1>4, <3>1, <3>2
    <3> QED
      BY <3>1, <3>3
  <2>2. at' = [at EXCEPT ![c] = at[c] + n] /\ buf' = buf /\ proc' = proc
    BY <1>1, <1>2, <1>7 DEF IpcTypeOK
  <2> QED
    BY <1>2, <1>4, <1>5, <2>1, <2>2
<1> QED
  BY <1>6, <1>7

(* ... and an echo process, which does not overfill the pipe.               *)
LEMMA IpcChildType ==
  ASSUME IpcTypeOK, Buffers, NEW c \in Conns, ChildNext(c)
  PROVE  IpcTypeOK'
<1> USE DEF main, logging
<1>0. /\ conn[c] \in Connection
      /\ buf[c] \in Seq(Nat)
      /\ Reported(conn[c]) \in Connection
      /\ AfterReset(conn[c]) \in Connection
      /\ <<>> \in Seq(Nat) /\ <<>> \in Seq(Conns)
      /\ 0 \in 0..BufSize
  BY IpcFacts, ServerOpsType
<1>1. CASE ChildCloseServ(c)
  BY <1>0, <1>1 DEF ChildCloseServ, Alive, IpcTypeOK
<1>2. CASE ChildRead(c)
  <2>1. PICK n \in Reads(conn[c]) :
          /\ buf' = [buf EXCEPT ![c] = Front(conn[c].up, n)]
          /\ conn' = [conn EXCEPT ![c] = AfterRead(@, n)]
    BY <1>2 DEF ChildRead
  <2>2. AfterRead(conn[c], n) \in Connection
    BY <1>0, ServerOpsType
  <2>3. Front(conn[c].up, n) \in Seq(Nat)
    BY <1>0, SplitType DEF Connection, Reads
  <2> QED
    BY <1>2, <2>1, <2>2, <2>3 DEF ChildRead, Alive, IpcTypeOK
<1>3. CASE ChildEof(c)
  BY <1>3 DEF ChildEof, Alive, IpcTypeOK
<1>4. CASE ChildWrite(c)
  <2> DEFINE left == Rest(buf[c], at[c])
  <2>1. PICK n \in Writes(conn[c], left) :
          /\ conn' = [conn EXCEPT ![c] = AfterWrite(@, left, n)]
          /\ at' = [at EXCEPT ![c] =
                       IF at[c] + n = Len(buf[c]) THEN 0 ELSE @ + n]
          /\ proc' = [proc EXCEPT ![c] =
                        IF at[c] + n = Len(buf[c]) THEN "log" ELSE "write"]
    BY <1>4 DEF ChildWrite
  <2>2. /\ at[c] \in Nat /\ Len(buf[c]) \in Nat /\ Len(buf[c]) <= BufSize
        /\ at[c] < Len(buf[c])
    BY <1>4, IpcFacts DEF ChildWrite, Buffers
  <2>3. left \in Seq(Nat) /\ Len(left) = Len(buf[c]) - at[c]
    <3> DEFINE b == buf[c]
    <3>1. PICK a \in Nat : a = at[c]
      BY <2>2
    <3>2. b \in Seq(Nat) /\ Len(b) \in Nat /\ a < Len(b)
      BY <1>0, <2>2, <3>1
    <3> HIDE DEF b
    <3>3. Rest(b, a) \in Seq(Nat) /\ Len(Rest(b, a)) = Len(b) - a
      BY <3>1, <3>2 DEF Rest
    <3> QED
      BY <3>1, <3>3 DEF b
  <2>4. AfterWrite(conn[c], left, n) \in Connection
    <3> HIDE DEF left
    <3> QED
      BY <1>0, <2>1, <2>3, ServerOpsType
  <2>5. n \in Nat /\ n <= Len(left)
    BY <2>1 DEF Writes, Counts
  <2>6. at[c] + n \in 0..BufSize
    <3> HIDE DEF left
    <3>1. PICK k \in Nat, a \in Nat : k = Len(buf[c]) /\ a = at[c]
      BY <2>2
    <3>2. n <= k - a /\ k <= BufSize /\ a < k
      BY <2>2, <2>3, <2>5, <3>1
    <3>3. a + n \in 0..BufSize
      <4>1. BufSize \in Nat
        BY IpcFacts
      <4>2. n \in Nat
        BY <2>5
      <4> QED
        BY <3>2, <4>1, <4>2
    <3> QED
      BY <3>1, <3>3
  <2> HIDE DEF left
  <2> QED
    BY <1>0, <1>4, <2>1, <2>4, <2>6 DEF ChildWrite, Alive, IpcTypeOK
<1>5. CASE ChildWriteLost(c)
  BY <1>0, <1>5 DEF ChildWriteLost, Alive, IpcTypeOK
<1>6. CASE ChildLog(c)
  <2>1. PICK n \in Nat :
           /\ proc[c] = "log" /\ at[c] + n <= Len(buf[c])
           /\ Len(pipe) + n <= PipeCap
           /\ Len(buf[c]) <= BufSize
           /\ pipe' = pipe \o Tagged(c, Piece(buf[c], at[c], n))
           /\ \/ /\ at[c] + n = Len(buf[c])
                 /\ at' = [at EXCEPT ![c] = 0]
                 /\ buf' = [buf EXCEPT ![c] = <<>>]
                 /\ proc' = [proc EXCEPT ![c] = "read"]
              \/ /\ at[c] + n < Len(buf[c])
                 /\ at' = [at EXCEPT ![c] = at[c] + n]
                 /\ buf' = buf
                 /\ proc' = proc
           /\ UNCHANGED <<main, queue, conn, writers, logging, sent>>
    BY <1>6, LogStep, Zenon
  <2>2. at[c] \in Nat /\ pipe \in Seq(Entries) /\ Len(pipe) \in Nat
    BY IpcFacts
  <2> DEFINE g == Piece(buf[c], at[c], n)
             t == Tagged(c, g)
  <2>3. g \in Seq(Nat) /\ Len(g) = n
    BY <1>0, <2>1, <2>2, PieceType
  <2>4. t \in Seq(Entries) /\ Len(t) = n
    <3> HIDE DEF g
    <3>1. t \in Seq(Entries)
      BY <2>3, TaggedAppend
    <3>2. Len(t) = n
      BY <2>3 DEF Tagged
    <3> QED
      BY <3>1, <3>2
  <2>5. pipe' = pipe \o t
    BY <2>1
  <2> HIDE DEF t
  <2>6. pipe' \in Seq(Entries) /\ Len(pipe') <= PipeCap
    <3>1. pipe \o t \in Seq(Entries) /\ Len(pipe \o t) = Len(pipe) + n
      BY <2>2, <2>4, ConcatProperties
    <3> QED
      BY <2>1, <2>5, <3>1
  <2>7. at' \in [Conns -> 0..BufSize]
    <3>1. at[c] + n < Len(buf[c]) => at[c] + n \in 0..BufSize
      <4> HIDE DEF g
      <4>1. PICK k \in Nat, a \in Nat : k = Len(buf[c]) /\ a = at[c]
        BY <2>2, IpcFacts
      <4>2. k <= BufSize /\ BufSize \in Nat
        <5>1. Len(buf[c]) <= BufSize
          BY DEF Buffers
        <5> QED
          BY <4>1, <5>1, IpcFacts
      <4>3. a + n < k => a + n \in 0..BufSize
        BY <4>2
      <4> QED
        BY <4>1, <4>3
    <3> QED
      BY <1>0, <2>1, <3>1 DEF IpcTypeOK
  <2>8. /\ buf' \in [Conns -> Seq(Nat)]
        /\ proc' \in [Conns -> {"none"} \union Alive \union Ended]
    BY <1>0, <2>1 DEF Alive, IpcTypeOK
  <2>9. UNCHANGED <<mainPc, clnt, queue, conn, writers, logger, opened,
                    logBuf, log, sent>>
    BY <2>1
  <2> QED
    BY <2>6, <2>7, <2>8, <2>9 DEF Entries, IpcTypeOK
<1>7. CASE ChildClose(c)
  BY <1>7 DEF ChildClose, Ended, IpcTypeOK
<1>8. CASE ChildReadFails(c)
  BY <1>0, <1>8 DEF ChildReadFails, Alive, IpcTypeOK
<1>9. CASE ChildKilled(c)
  BY <1>0, <1>9 DEF ChildKilled, Ended, IpcTypeOK
<1> QED
  BY <1>1, <1>2, <1>3, <1>4, <1>5, <1>6, <1>7, <1>8, <1>9 DEF ChildNext
-----------------------------------------------------------------------------
(* No call of the server changes a client's end, and only read() takes      *)
(* bytes off the way to the server.                                         *)
LEMMA OpsLeaveClient ==
  \A k \in Connection :
    /\ Reported(k).cli = k.cli /\ Reported(k).up = k.up
    /\ AfterReset(k).cli = k.cli /\ AfterReset(k).up = k.up
    /\ \A n : AfterRead(k, n).cli = k.cli /\ AfterRead(k, n).up = Rest(k.up, n)
    /\ \A b, n : /\ AfterWrite(k, b, n).cli = k.cli
                 /\ AfterWrite(k, b, n).up = k.up
BY DEF Connection, Reported, AfterReset, AfterRead, AfterWrite

(* What the steps of an echo process have in common: no other's state       *)
(* changes, and its end of the pipe goes with it.                           *)
LEMMA IpcChildFrame ==
  ASSUME IpcTypeOK, NEW c \in Conns, ChildNext(c)
  PROVE  /\ UNCHANGED <<mainPc, clnt, logger, opened, logBuf, log, sent>>
         /\ queue' = queue \/ queue' = <<>>
         /\ proc[c] \in Alive /\ proc'[c] \in Alive \union Ended
         /\ writers' = IF proc'[c] \in Alive THEN writers ELSE writers \ {c}
         /\ \A d \in Conns : conn'[d].cli = conn[d].cli
         /\ \A d \in Conns : d # c =>
              /\ proc'[d] = proc[d] /\ conn'[d] = conn[d]
              /\ buf'[d] = buf[d] /\ at'[d] = at[d]
<1> USE DEF main, logging
<1>0. \A d \in Conns : conn[d] \in Connection
  BY IpcFacts
<1>1. CASE ChildCloseServ(c)
  BY <1>1 DEF ChildCloseServ, Alive, IpcTypeOK
<1>2. CASE ChildRead(c)
  <2>1. PICK n \in Reads(conn[c]) :
          /\ buf' = [buf EXCEPT ![c] = Front(conn[c].up, n)]
          /\ conn' = [conn EXCEPT ![c] = AfterRead(@, n)]
    BY <1>2 DEF ChildRead
  <2>2. AfterRead(conn[c], n).cli = conn[c].cli
    BY <1>0, OpsLeaveClient
  <2> QED
    BY <1>2, <2>1, <2>2 DEF ChildRead, Alive, IpcTypeOK
<1>3. CASE ChildEof(c)
  BY <1>3 DEF ChildEof, Alive, IpcTypeOK
<1>4. CASE ChildWrite(c)
  <2> DEFINE left == Rest(buf[c], at[c])
  <2>1. PICK n \in Writes(conn[c], left) :
          /\ conn' = [conn EXCEPT ![c] = AfterWrite(@, left, n)]
          /\ at' = [at EXCEPT ![c] =
                       IF at[c] + n = Len(buf[c]) THEN 0 ELSE @ + n]
          /\ proc' = [proc EXCEPT ![c] =
                        IF at[c] + n = Len(buf[c]) THEN "log" ELSE "write"]
    BY <1>4 DEF ChildWrite
  <2> HIDE DEF left
  <2>2. AfterWrite(conn[c], left, n).cli = conn[c].cli
    BY <1>0, OpsLeaveClient
  <2> QED
    BY <1>4, <2>1, <2>2 DEF ChildWrite, Alive, IpcTypeOK
<1>5. CASE ChildWriteLost(c)
  <2>1. \/ conn' = [conn EXCEPT ![c] = AfterReset(@)]
        \/ conn' = [conn EXCEPT ![c] = Reported(@)]
    BY <1>5 DEF ChildWriteLost
  <2>2. /\ AfterReset(conn[c]).cli = conn[c].cli
        /\ Reported(conn[c]).cli = conn[c].cli
    BY <1>0, OpsLeaveClient
  <2> QED
    BY <1>5, <2>1, <2>2 DEF ChildWriteLost, Alive, IpcTypeOK
<1>6. CASE ChildLog(c)
  BY <1>6 DEF ChildLog, Alive, IpcTypeOK
<1>7. CASE ChildClose(c)
  BY <1>7 DEF ChildClose, Alive, Ended, IpcTypeOK
<1>8. CASE ChildReadFails(c)
  BY <1>0, <1>8, OpsLeaveClient DEF ChildReadFails, Alive, IpcTypeOK
<1>9. CASE ChildKilled(c)
  BY <1>0, <1>9, OpsLeaveClient DEF ChildKilled, Alive, Ended, IpcTypeOK
<1> QED
  BY <1>1, <1>2, <1>3, <1>4, <1>5, <1>6, <1>7, <1>8, <1>9 DEF ChildNext

(* A connection is made once ...                                            *)
LEMMA ClientOneEach ==
  ASSUME IpcTypeOK, OneEach, NEW c \in Conns, ClientNext(c)
  PROVE  OneEach'
<1> USE DEF OneEach, Enters, main, child
<1>0. \A d \in Conns : conn[d] \in Connection
  BY IpcFacts
<1>1. CASE Connect(c)
  <2>1. /\ Len(queue') = Len(queue) + 1
        /\ \A i \in 1..Len(queue) : queue'[i] = queue[i]
        /\ queue'[Len(queue) + 1] = c
        /\ DOMAIN queue = 1..Len(queue)
        /\ DOMAIN queue' = 1..(Len(queue) + 1)
        /\ Len(queue) \in Nat
    BY <1>1, IpcFacts DEF Connect
  <2>2. conn[c].cli = "none" /\ conn'[c].cli # "none"
    BY <1>0, <1>1 DEF Connect, Connected, IpcTypeOK, Connection
  <2>3. \A d \in Conns : d # c => conn'[d] = conn[d]
    BY <1>1 DEF Connect, IpcTypeOK
  <2>4. \A i \in DOMAIN queue : queue[i] \in Conns /\ queue[i] # c
    BY <2>1, <2>2, IpcFacts
  <2>5. UNCHANGED <<mainPc, clnt, proc>>
    BY <1>1 DEF Connect
  <2>6. proc[c] = "none" /\ ~Enters(c)
    BY <2>2
  <2>7. \A i \in DOMAIN queue' :
          /\ conn'[queue'[i]].cli # "none"
          /\ proc'[queue'[i]] = "none"
          /\ ~Enters(queue[i])'
    BY <2>1, <2>2, <2>3, <2>4, <2>5, <2>6
  <2>8. \A i, j \in DOMAIN queue' : queue'[i] = queue'[j] => i = j
    BY <2>1, <2>4
  <2>9. \A d \in Conns :
          /\ Enters(d)' => conn'[d].cli # "none" /\ proc'[d] = "none"
          /\ conn'[d].cli = "none" => proc'[d] = "none"
    BY <2>2, <2>3, <2>5
  <2> QED
    BY <2>5, <2>7, <2>8, <2>9
<1>2. ASSUME UNCHANGED <<mainPc, clnt, proc, queue>>,
             \A d \in Conns : conn'[d].cli = "none" <=> conn[d].cli = "none"
      PROVE  OneEach'
  <2>1. \A i \in DOMAIN queue : queue[i] \in Conns
    BY IpcFacts
  <2> QED
    BY <1>2, <2>1
<1>3. CASE CliSend(c)
  <2>1. \A d \in Conns : conn'[d].cli = conn[d].cli
    BY <1>0, <1>3 DEF CliSend, Sent, IpcTypeOK, Connection
  <2> QED
    BY <1>2, <1>3, <2>1 DEF CliSend
<1>4. CASE CliRead(c)
  <2>1. \A d \in Conns : conn'[d].cli = conn[d].cli
    BY <1>0, <1>4 DEF CliRead, Taken, IpcTypeOK, Connection
  <2> QED
    BY <1>2, <1>4, <2>1 DEF CliRead
<1>5. CASE CliClose(c)
  <2>1. Left(conn[c]).cli \in {"fin", "aborted"}
    BY <1>0 DEF Left, Connection
  <2>2. conn[c].cli = "open" /\ conn'[c] = Left(conn[c])
    BY <1>5 DEF CliClose, IpcTypeOK
  <2>3. \A d \in Conns : d # c => conn'[d] = conn[d]
    BY <1>5 DEF CliClose, IpcTypeOK
  <2> QED
    BY <1>2, <1>5, <2>1, <2>2, <2>3 DEF CliClose
<1> QED
  BY <1>1, <1>3, <1>4, <1>5 DEF ClientNext

(* ... a step that makes none and accepts none disturbs nothing ...         *)
LEMMA OthersOneEach ==
  ASSUME IpcTypeOK, OneEach,
         UNCHANGED clnt, mainPc' = mainPc \/ mainPc' \in {"accept", "exited"},
         queue' = queue \/ queue' = <<>>,
         \A c \in Conns : conn'[c].cli = conn[c].cli,
         \A c \in Conns : proc'[c] = "none" <=> proc[c] = "none"
  PROVE  OneEach'
<1>1. \A i \in DOMAIN queue : queue[i] \in Conns
  BY IpcFacts
<1>2. queue' = queue \/ DOMAIN queue' = {}
  OBVIOUS
<1> QED
  BY <1>1, <1>2 DEF OneEach, Enters

(* ... main() accepts the first of the queue and forks for it ...           *)
LEMMA MainOneEach ==
  ASSUME IpcTypeOK, OneEach, MainNext
  PROVE  OneEach'
<1>0. \A i \in DOMAIN queue : queue[i] \in Conns
  BY IpcFacts
<1>1. CASE Accept
  <2> USE DEF OneEach, Enters
  <2>1. /\ Len(queue) \in Nat \ {0}
        /\ DOMAIN queue = 1..Len(queue)
        /\ DOMAIN queue' = 1..(Len(queue) - 1)
        /\ \A i \in DOMAIN queue' : queue'[i] = queue[i + 1]
        /\ clnt' = queue[1]
    BY <1>1, HeadTailProperties, EmptySeq, IpcFacts DEF Accept
  <2>2. UNCHANGED <<conn, proc>> /\ mainPc = "accept" /\ mainPc' = "fork"
    BY <1>1 DEF Accept, child
  <2>3. clnt' \in Conns /\ proc[clnt'] = "none" /\ conn[clnt'].cli # "none"
    BY <1>0, <2>1
  <2>4. \A i \in DOMAIN queue' :
          /\ i + 1 \in DOMAIN queue
          /\ queue'[i] # clnt'
    BY <2>1
  <2>5. \A i \in DOMAIN queue' :
          /\ conn'[queue'[i]].cli # "none"
          /\ proc'[queue'[i]] = "none"
          /\ ~Enters(queue[i])'
    BY <2>1, <2>2, <2>4
  <2>6. \A i, j \in DOMAIN queue' : queue'[i] = queue'[j] => i = j
    BY <2>1, <2>4
  <2>7. \A c \in Conns :
          /\ Enters(c)' => conn'[c].cli # "none" /\ proc'[c] = "none"
          /\ conn'[c].cli = "none" => proc'[c] = "none"
    BY <2>2, <2>3
  <2> QED
    BY <2>2, <2>3, <2>5, <2>6, <2>7
<1>2. CASE Fork
  <2>1. clnt \in Conns /\ Enters(clnt) /\ \A c \in Conns : ~Enters(c)'
    BY <1>2 DEF Fork, OneEach, Enters
  <2>2. proc'[clnt] # "none" /\ \A c \in Conns : c # clnt => proc'[c] = proc[c]
    BY <1>2, <2>1 DEF Fork, IpcTypeOK
  <2>3. UNCHANGED <<clnt, queue, conn>> /\ mainPc = "fork" /\ mainPc' = "accept"
    BY <1>2 DEF Fork
  <2>4. conn[clnt].cli # "none" /\ \A i \in DOMAIN queue : queue[i] # clnt
    BY <1>0, <2>1 DEF OneEach
  <2> QED
    BY <1>0, <2>1, <2>2, <2>3, <2>4 DEF OneEach, Enters
<1>3. CASE ForkLogger
  BY <1>3, OthersOneEach DEF ForkLogger, child
<1>4. CASE ForkLoggerFails
  BY <1>4, OthersOneEach DEF ForkLoggerFails, child
<1>5. CASE ForkFails
  BY <1>5, OthersOneEach DEF ForkFails, child
<1> QED
  BY <1>1, <1>2, <1>3, <1>4, <1>5 DEF MainNext

(* ... the logger has nothing to do with them ...                           *)
LEMMA LoggerOneEach ==
  ASSUME IpcTypeOK, OneEach, LoggerNext
  PROVE  OneEach'
<1>1. /\ UNCHANGED <<mainPc, clnt, conn, proc>>
      /\ queue' = queue \/ queue' = <<>>
  BY DEF LoggerNext, LoggerStart, LoggerRead, LoggerWrite, LoggerEof, main,
    child
<1> QED
  BY <1>1, OthersOneEach

(* ... and a process ends without freeing its connection.                   *)
LEMMA ChildOneEach ==
  ASSUME IpcTypeOK, OneEach, NEW c \in Conns, ChildNext(c)
  PROVE  OneEach'
<1>1. /\ UNCHANGED <<mainPc, clnt>>
      /\ queue' = queue \/ queue' = <<>>
      /\ \A d \in Conns : conn'[d].cli = conn[d].cli
  BY IpcChildFrame
<1>2. \A d \in Conns : proc'[d] = "none" <=> proc[d] = "none"
  BY IpcChildFrame DEF Alive, Ended
<1> QED
  BY <1>1, <1>2, OthersOneEach

(* main(), the logger and the echo processes are different.                 *)
LEMMA NamesApart ==
  Main # Logger /\ \A c \in Conns : c # Main /\ c # Logger
BY IpcAssumption

(* A client holds nothing ...                                               *)
LEMMA ClientHolders ==
  ASSUME IpcTypeOK, Holders, NEW c \in Conns, ClientNext(c)
  PROVE  Holders'
<1>1. UNCHANGED <<mainPc, logger, writers, proc, pipe>>
  BY DEF ClientNext, Connect, CliSend, CliRead, CliClose, main, child, logging
<1> QED
  BY <1>1 DEF Holders

(* ... main() hands fds[1] to its children and drops it when it exits ...   *)
LEMMA MainHolders ==
  ASSUME IpcTypeOK, OneEach, Holders, MainNext
  PROVE  Holders'
<1> USE NamesApart DEF Holders, main, child, logging
<1>1. CASE ForkLogger
  BY <1>1 DEF ForkLogger
<1>2. CASE ForkLoggerFails
  BY <1>2 DEF ForkLoggerFails, Alive
<1>3. CASE Accept
  BY <1>3 DEF Accept
<1>4. CASE Fork
  <2>1. clnt \in Conns /\ proc'[clnt] \in Alive
    BY <1>4 DEF Fork, OneEach, Alive, IpcTypeOK
  <2>2. \A c \in Conns : c # clnt => proc'[c] = proc[c]
    BY <1>4 DEF Fork, IpcTypeOK
  <2> QED
    BY <1>4, <2>1, <2>2 DEF Fork
<1>5. CASE ForkFails
  BY <1>5 DEF ForkFails
<1> QED
  BY <1>1, <1>2, <1>3, <1>4, <1>5 DEF MainNext

(* ... the logger closes its own first and ends only when nobody holds it   *)
(* ...                                                                      *)
LEMMA LoggerHolders ==
  ASSUME IpcTypeOK, Buffers, Holders, LoggerNext
  PROVE  Holders'
<1> USE NamesApart DEF Holders, main, child
<1>1. CASE LoggerStart
  BY <1>1 DEF LoggerStart
<1>2. CASE LoggerRead
  BY <1>2 DEF LoggerRead
<1>3. CASE LoggerWrite
  BY <1>3 DEF LoggerWrite
<1>4. CASE LoggerEof
  BY <1>4 DEF LoggerEof
<1> QED
  BY <1>1, <1>2, <1>3, <1>4 DEF LoggerNext

(* ... and an echo process keeps it as long as it lives.                    *)
LEMMA ChildHolders ==
  ASSUME IpcTypeOK, Holders, NEW c \in Conns, ChildNext(c)
  PROVE  Holders'
<1>1. /\ UNCHANGED <<mainPc, logger>>
      /\ proc[c] \in Alive
      /\ writers' = IF proc'[c] \in Alive THEN writers ELSE writers \ {c}
      /\ \A d \in Conns : d # c => proc'[d] = proc[d]
  BY IpcChildFrame
<1>2. logger # "ended" /\ logger' # "ended"
  BY <1>1 DEF Holders
<1>3. \A x : x # c => (x \in writers' <=> x \in writers)
  BY <1>1
<1>4. c \in writers' <=> proc'[c] \in Alive
  BY <1>1 DEF Holders
<1>5. \A d \in Conns : d \in writers' <=> proc'[d] \in Alive
  BY <1>1, <1>3, <1>4 DEF Holders
<1>6. /\ Main \in writers' <=> mainPc' # "exited"
      /\ Logger \in writers' <=> logger' = "start"
  BY <1>1, <1>3, NamesApart DEF Holders
<1>7. mainPc' # "fork logger"
  BY <1>1 DEF Holders, Alive
<1>8. logger' = "ended" => writers' = {} /\ pipe' = <<>>
  BY <1>2
<1> QED
  BY <1>5, <1>6, <1>7, <1>8 DEF Holders

(* No client touches the buffers ...                                        *)
LEMMA ClientBuffers ==
  ASSUME Buffers, NEW c \in Conns, ClientNext(c)
  PROVE  Buffers'
<1>1. UNCHANGED <<proc, buf, at, logger, logBuf>>
  BY DEF ClientNext, Connect, CliSend, CliRead, CliClose, child, logging
<1> QED
  BY <1>1 DEF Buffers

(* ... and no process starts with one that is not empty.                    *)
LEMMA MainBuffers ==
  ASSUME IpcTypeOK, OneEach, Holders, Buffers, MainNext
  PROVE  Buffers'
<1>1. CASE Fork
  <2>1. clnt \in Conns /\ proc[clnt] = "none"
    BY <1>1 DEF Fork, OneEach, Enters
  <2>2. UNCHANGED <<buf, at, logger, logBuf>> /\ proc'[clnt] = "start"
        /\ \A c \in Conns : c # clnt => proc'[c] = proc[c]
    BY <1>1, <2>1 DEF Fork, IpcTypeOK, logging
  <2> QED
    BY <2>1, <2>2 DEF Buffers
<1>2. CASE ForkLogger
  <2>1. /\ logger = "none" /\ logger' = "start"
        /\ UNCHANGED <<proc, buf, at, logBuf>>
    BY <1>2 DEF ForkLogger, Holders, child
  <2> QED
    BY <2>1 DEF Buffers
<1>3. ASSUME UNCHANGED <<proc, buf, at, logger, logBuf>> PROVE Buffers'
  BY <1>3 DEF Buffers
<1>4. CASE ForkLoggerFails
  BY <1>3, <1>4 DEF ForkLoggerFails, child, logging
<1>5. CASE Accept
  BY <1>3, <1>5 DEF Accept, child, logging
<1>6. CASE ForkFails
  BY <1>3, <1>6 DEF ForkFails, child, logging
<1> QED
  BY <1>1, <1>2, <1>4, <1>5, <1>6 DEF MainNext

(* The logger's is empty when it reads ...                                  *)
LEMMA LoggerBuffers ==
  ASSUME Buffers, LoggerNext
  PROVE  Buffers'
<1>1. UNCHANGED <<proc, buf, at>> /\ (logger' # "write" => logBuf' = <<>>)
  BY DEF LoggerNext, LoggerStart, LoggerRead, LoggerWrite, LoggerEof, child,
    Buffers
<1> QED
  BY <1>1 DEF Buffers

(* ... and so is an echo process's, which goes on until all of it is        *)
(* written.                                                                 *)
LEMMA ChildBuffers ==
  ASSUME IpcTypeOK, Buffers, NEW c \in Conns, ChildNext(c)
  PROVE  Buffers'
<1> DEFINE Good(p, b, a) ==
             /\ Len(b) <= BufSize
             /\ p \in {"write", "log"} => a < Len(b)
             /\ p \notin {"write", "log", "killed"} => b = <<>> /\ a = 0
<1>0. /\ buf[c] \in Seq(Nat) /\ Len(buf[c]) \in Nat /\ at[c] \in Nat
      /\ conn[c] \in Connection
      /\ Len(<<>>) = 0 /\ BufSize \in Nat /\ 0 < BufSize
  BY IpcFacts
<1>1. Good(proc[c], buf[c], at[c])
  BY DEF Buffers
<1>2. Good(proc'[c], buf'[c], at'[c])
  <2>1. CASE ChildCloseServ(c)
    BY <1>1, <2>1 DEF ChildCloseServ, IpcTypeOK
  <2>2. CASE ChildRead(c)
    <3>1. PICK n \in Reads(conn[c]) :
            /\ buf'[c] = Front(conn[c].up, n)
            /\ proc'[c] = "write" /\ at' = at /\ proc[c] = "read"
      BY <2>2 DEF ChildRead, IpcTypeOK
    <3>2. conn[c].up \in Seq(Nat) /\ Len(conn[c].up) \in Nat
      BY <1>0, LenProperties DEF Connection
    <3>3. n \in Nat /\ 1 <= n /\ n <= BufSize /\ n <= Len(conn[c].up)
      BY <1>0, <3>2 DEF Reads, Counts
    <3>4. Len(buf'[c]) = n
      BY <3>1, <3>2, <3>3 DEF Front
    <3>5. at'[c] = 0
      BY <1>1, <3>1
    <3> QED
      BY <3>1, <3>3, <3>4, <3>5
  <2>3. CASE ChildEof(c)
    BY <1>1, <2>3 DEF ChildEof, IpcTypeOK
  <2>4. CASE ChildWrite(c)
    <3> DEFINE left == Rest(buf[c], at[c])
    <3>1. PICK n \in Writes(conn[c], left) :
          /\ at'[c] = IF at[c] + n = Len(buf[c]) THEN 0 ELSE at[c] + n
          /\ proc'[c] = IF at[c] + n = Len(buf[c]) THEN "log" ELSE "write"
          /\ buf' = buf /\ proc[c] = "write"
      BY <2>4 DEF ChildWrite, IpcTypeOK
    <3>2. PICK k \in Nat, a \in Nat : k = Len(buf[c]) /\ a = at[c]
      BY <1>0
    <3>3. a < k /\ k <= BufSize
      BY <1>1, <3>1, <3>2
    <3>4. Len(left) = k - a
      <4> DEFINE b == buf[c]
      <4>1. b \in Seq(Nat) /\ Len(b) = k
        BY <1>0, <3>2
      <4> HIDE DEF b
      <4>2. Len(Rest(b, a)) = k - a
        BY <3>3, <4>1 DEF Rest
      <4> QED
        BY <3>2, <4>2 DEF b
    <3>5. n \in Nat /\ n <= k - a
      <4> HIDE DEF left
      <4> QED
        BY <3>1, <3>4 DEF Writes, Counts
    <3>6. a + n <= k /\ (a + n # k => a + n < k) /\ 0 < k
      BY <3>3, <3>5
    <3> HIDE DEF left
    <3>7. CASE a + n = k
      BY <3>1, <3>2, <3>3, <3>6, <3>7
    <3>8. CASE a + n # k
      BY <3>1, <3>2, <3>3, <3>6, <3>8
    <3> QED
      BY <3>7, <3>8
  <2>5. CASE ChildWriteLost(c)
    <3>1. /\ at'[c] = 0 /\ proc'[c] = "log" /\ buf' = buf /\ proc[c] = "write"
      BY <2>5 DEF ChildWriteLost, IpcTypeOK
    <3> QED
      BY <1>0, <1>1, <3>1
  <2>6. CASE ChildLog(c)
    <3>1. PICK n \in Nat :
           /\ proc[c] = "log"
           /\ \/ /\ at' = [at EXCEPT ![c] = 0]
                 /\ buf' = [buf EXCEPT ![c] = <<>>]
                 /\ proc' = [proc EXCEPT ![c] = "read"]
              \/ /\ at[c] + n < Len(buf[c])
                 /\ at' = [at EXCEPT ![c] = at[c] + n]
                 /\ buf' = buf
                 /\ proc' = proc
      BY <2>6, LogStep
    <3>2. \/ at'[c] = 0 /\ buf'[c] = <<>> /\ proc'[c] = "read"
          \/ at'[c] < Len(buf[c]) /\ buf'[c] = buf[c] /\ proc'[c] = proc[c]
      BY <3>1 DEF IpcTypeOK
    <3> QED
      BY <1>0, <1>1, <3>1, <3>2
  <2>7. CASE ChildClose(c)
    BY <1>1, <2>7 DEF ChildClose, IpcTypeOK
  <2>8. CASE ChildReadFails(c)
    BY <1>1, <2>8 DEF ChildReadFails, IpcTypeOK
  <2>9. CASE ChildKilled(c)
    BY <1>1, <2>9 DEF ChildKilled, IpcTypeOK
  <2> QED
    BY <2>1, <2>2, <2>3, <2>4, <2>5, <2>6, <2>7, <2>8, <2>9 DEF ChildNext
<1>3. /\ UNCHANGED <<logger, logBuf>>
      /\ \A d \in Conns : d # c =>
              proc'[d] = proc[d] /\ buf'[d] = buf[d] /\ at'[d] = at[d]
  BY IpcChildFrame
<1> QED
  BY <1>2, <1>3 DEF Buffers

-----------------------------------------------------------------------------
(* What is logged are bytes.                                                *)
LEMMA LoggedType ==
  ASSUME IpcTypeOK, NEW c \in Conns
  PROVE  Logged(c) \in Seq(Nat)
<1>1. logBuf \o pipe \in Seq(Entries) /\ log[c] \in Seq(Nat)
  BY IpcFacts, ConcatProperties
<1>2. BytesOf(c, logBuf \o pipe) \in Seq(Nat)
  BY <1>1, BytesOfType
<1> QED
  BY <1>1, <1>2, ConcatProperties DEF Logged

(* A step that moves no byte leaves them in order.                          *)
LEMMA TrailsKept ==
  ASSUME Trails, UNCHANGED <<log, logBuf, pipe, buf, sent>>,
         Logging' => Logging,
         \A c \in Conns : Copied(c)' = Copied(c) /\ conn'[c].up = conn[c].up
  PROVE  Trails'
<1> SUFFICES ASSUME NEW c \in Conns
             PROVE  LogFlow(Logging', Logged(c)', Copied(c)',
                            buf'[c], conn'[c].up, sent'[c])
  BY DEF Trails
<1>1. LogFlow(Logging, Logged(c), Copied(c), buf[c], conn[c].up, sent[c])
  BY DEF Trails
<1>2. LogFlow(Logging', Logged(c), Copied(c), buf[c], conn[c].up, sent[c])
  BY <1>1, LogFlowWeakens
<1>3. /\ Logged(c)' = Logged(c) /\ Copied(c)' = Copied(c)
      /\ buf'[c] = buf[c] /\ conn'[c].up = conn[c].up /\ sent'[c] = sent[c]
  BY DEF Logged
<1> QED
  BY <1>2, <1>3, Zenon

(* Neither does a client's call disturb the order ...                       *)
LEMMA ClientTrails ==
  ASSUME IpcTypeOK, Trails, NEW c \in Conns, ClientNext(c)
  PROVE  Trails'
<1> USE DEF main, child, logging
<1>0. /\ UNCHANGED <<log, logBuf, pipe, proc, buf, at, logger, opened>>
      /\ Logging' = Logging /\ \A d \in Conns : Copied(d)' = Copied(d)
  BY DEF ClientNext, Connect, CliSend, CliRead, CliClose, Logging, Copied
<1>1. CASE CliSend(c)
  <2>1. /\ sent' = [sent EXCEPT ![c] = @ + 1]
        /\ conn' = [conn EXCEPT ![c] = Sent(@, sent[c] + 1)]
    BY <1>1 DEF CliSend
  <2>2. /\ sent'[c] = sent[c] + 1 /\ conn'[c] = Sent(conn[c], sent[c] + 1)
        /\ \A d \in Conns : d # c => sent'[d] = sent[d] /\ conn'[d] = conn[d]
    BY <2>1 DEF IpcTypeOK
  <2>3. /\ conn[c] \in Connection /\ conn[c].up \in Seq(Nat) /\ sent[c] \in Nat
    BY IpcFacts DEF Connection
  <2>4. conn'[c].up = Append(conn[c].up, sent[c] + 1)
    BY <2>2, <2>3 DEF Sent, Connection
  <2> SUFFICES ASSUME NEW d \in Conns
               PROVE  LogFlow(Logging', Logged(d)', Copied(d)',
                              buf'[d], conn'[d].up, sent'[d])
    BY DEF Trails
  <2>5. LogFlow(Logging, Logged(d), Copied(d), buf[d], conn[d].up, sent[d])
    BY DEF Trails
  <2>6. /\ Logged(d)' = Logged(d) /\ Copied(d)' = Copied(d)
        /\ buf'[d] = buf[d] /\ Logging' = Logging
    BY <1>0 DEF Logged
  <2>7. CASE d = c
    <3>1. LogFlow(Logging, Logged(c), Copied(c), buf[c],
                  Append(conn[c].up, sent[c] + 1), sent[c] + 1)
      BY <2>3, <2>5, <2>7, LogFlowSent
    <3> QED
      BY <2>2, <2>4, <2>6, <2>7, <3>1, Zenon
  <2>8. CASE d # c
    BY <2>2, <2>5, <2>6, <2>8, Zenon
  <2> QED
    BY <2>7, <2>8
<1>2. ASSUME \A d \in Conns : conn'[d].up = conn[d].up, UNCHANGED sent
      PROVE  Trails'
  BY <1>0, <1>2, TrailsKept
<1>3. CASE Connect(c)
  <2>1. Connected(conn[c]).up = conn[c].up
    BY IpcFacts DEF Connected, Connection
  <2>2. \A d \in Conns : conn'[d].up = conn[d].up
    BY <1>3, <2>1 DEF Connect, IpcTypeOK
  <2> QED
    BY <1>2, <1>3, <2>2 DEF Connect
<1>4. CASE CliRead(c)
  <2> DEFINE n == Len(conn[c].down)
  <2>1. Taken(conn[c], n).up = conn[c].up
    <3> HIDE DEF n
    <3> QED
      BY IpcFacts DEF Taken, Connection
  <2>2. conn' = [conn EXCEPT ![c] = Taken(conn[c], n)]
    BY <1>4 DEF CliRead
  <2> HIDE DEF n
  <2>3. \A d \in Conns : conn'[d].up = conn[d].up
    BY <2>1, <2>2 DEF IpcTypeOK
  <2> QED
    BY <1>2, <1>4, <2>3 DEF CliRead
<1>5. CASE CliClose(c)
  <2>1. Left(conn[c]).up = conn[c].up
    BY IpcFacts DEF Left, Connection
  <2>2. \A d \in Conns : conn'[d].up = conn[d].up
    BY <1>5, <2>1 DEF CliClose, IpcTypeOK
  <2> QED
    BY <1>2, <1>5, <2>2 DEF CliClose
<1> QED
  BY <1>1, <1>3, <1>4, <1>5 DEF ClientNext

(* ... nor main() ...                                                       *)
LEMMA MainTrails ==
  ASSUME IpcTypeOK, OneEach, Holders, Trails, MainNext
  PROVE  Trails'
<1> USE DEF main, child, logging
<1>1. UNCHANGED <<log, logBuf, pipe, buf, at, sent, conn, opened>>
  BY DEF MainNext, ForkLogger, ForkLoggerFails, Accept, Fork, ForkFails
<1>2. Logging' => Logging
  <2>1. CASE ForkLogger
    BY <2>1 DEF ForkLogger, Holders, Logging
  <2>2. CASE ~ForkLogger
    <3>1. UNCHANGED <<logger, opened>>
      BY <2>2 DEF MainNext, ForkLoggerFails, Accept, Fork, ForkFails
    <3> QED
      BY <3>1 DEF Logging
  <2> QED
    BY <2>1, <2>2
<1>3. \A c \in Conns : Copied(c)' = Copied(c)
  <2>1. CASE Fork
    <3>1. clnt \in Conns /\ proc[clnt] = "none"
      BY <2>1 DEF Fork, OneEach, Enters
    <3>2. /\ proc'[clnt] = "start"
          /\ \A c \in Conns : c # clnt => proc'[c] = proc[c]
      BY <2>1, <3>1 DEF Fork, IpcTypeOK
    <3> QED
      BY <1>1, <3>1, <3>2 DEF Copied
  <2>2. CASE ~Fork
    <3>1. UNCHANGED <<proc, at>>
      BY <2>2 DEF MainNext, ForkLogger, ForkLoggerFails, Accept, ForkFails
    <3> QED
      BY <3>1 DEF Copied
  <2> QED
    BY <2>1, <2>2
<1> QED
  BY <1>1, <1>2, <1>3, TrailsKept

(* ... nor the logger, which takes what is first in the pipe and appends it *)
(* to the file ...                                                          *)
LEMMA LoggerTrails ==
  ASSUME IpcTypeOK, Buffers, Trails, LoggerNext
  PROVE  Trails'
<1> USE DEF main, child
<1>0. /\ UNCHANGED <<conn, proc, buf, at, sent>>
      /\ \A c \in Conns : Copied(c)' = Copied(c)
  BY DEF LoggerNext, LoggerStart, LoggerRead, LoggerWrite, LoggerEof, Copied
<1>1. CASE LoggerStart
  <2>1. UNCHANGED <<log, logBuf, pipe>> /\ (Logging' => Logging)
    BY <1>1 DEF LoggerStart, Logging
  <2> QED
    BY <1>0, <2>1, TrailsKept
<1>2. CASE LoggerEof
  <2>1. UNCHANGED <<log, logBuf, pipe>> /\ (Logging' => Logging)
    BY <1>2 DEF LoggerEof, Logging
  <2> QED
    BY <1>0, <2>1, TrailsKept
<1>3. ASSUME \A c \in Conns : Logging' => Logged(c)' = Logged(c),
             Logging' => Logging
      PROVE  Trails'
  <2> SUFFICES ASSUME NEW c \in Conns
               PROVE  LogFlow(Logging', Logged(c)', Copied(c)',
                              buf'[c], conn'[c].up, sent'[c])
    BY DEF Trails
  <2>1. LogFlow(Logging, Logged(c), Copied(c), buf[c], conn[c].up, sent[c])
    BY DEF Trails
  <2>2. LogFlow(Logging', Logged(c)', Copied(c), buf[c], conn[c].up, sent[c])
    <3>1. PICK y \in Nat, z \in Nat :
            /\ Run(buf[c], y, z) /\ Run(conn[c].up, z, sent[c])
            /\ Logging => Run(Logged(c), 0, y + Copied(c))
      BY <2>1 DEF LogFlow
    <3>2. Logging' => Run(Logged(c)', 0, y + Copied(c))
      BY <1>3, <3>1
    <3> QED
      BY <3>1, <3>2 DEF LogFlow
  <2>3. /\ Copied(c)' = Copied(c)
        /\ buf'[c] = buf[c] /\ conn'[c].up = conn[c].up /\ sent'[c] = sent[c]
    BY <1>0
  <2> QED
    BY <2>2, <2>3, Zenon
<1>4. CASE LoggerRead
  <2> DEFINE n == IF Len(pipe) < BufSize THEN Len(pipe) ELSE BufSize
  <2>1. /\ logBuf' = Front(pipe, n) /\ pipe' = Rest(pipe, n)
        /\ pipe # <<>> /\ logger = "read" /\ logger' = "write"
        /\ UNCHANGED <<opened, log>>
    BY <1>4 DEF LoggerRead
  <2>2. n \in Counts(pipe, BufSize)
    BY <2>1, IpcFacts, EmptySeq DEF Counts
  <2> HIDE DEF n
  <2>3. pipe \in Seq(Entries)
    BY IpcFacts
  <2>4. logBuf' \o pipe' = pipe
    BY <2>1, <2>2, <2>3, SplitJoins
  <2>5. logBuf \o pipe = pipe
    BY <2>1, <2>3, ConcatEmptySeq DEF Buffers
  <2>6. \A c \in Conns : Logged(c)' = Logged(c)
    BY <2>1, <2>4, <2>5 DEF Logged
  <2>7. Logging' => Logging
    BY <2>1 DEF Logging
  <2> QED
    BY <1>3, <2>6, <2>7
<1>5. CASE LoggerWrite
  <2>1. /\ log' = IF opened
                    THEN [c \in Conns |-> log[c] \o BytesOf(c, logBuf)] ELSE log
        /\ logBuf' = <<>> /\ logger = "write" /\ logger' = "read"
        /\ UNCHANGED <<opened, pipe>>
    BY <1>5 DEF LoggerWrite
  <2>2. logBuf \in Seq(Entries) /\ pipe \in Seq(Entries)
    BY IpcFacts
  <2>3. Logging' => opened
    BY <2>1 DEF Logging
  <2>4. ASSUME NEW c \in Conns, opened
        PROVE  Logged(c)' = Logged(c)
    <3>1. log'[c] = log[c] \o BytesOf(c, logBuf)
      BY <2>1, <2>4
    <3>2. logBuf' \o pipe' = pipe
      BY <2>1, <2>2, ConcatEmptySeq
    <3>3. BytesOf(c, logBuf \o pipe) = BytesOf(c, logBuf) \o BytesOf(c, pipe)
      BY <2>2, BytesOfConcat
    <3>4. /\ log[c] \in Seq(Nat)
          /\ BytesOf(c, logBuf) \in Seq(Nat) /\ BytesOf(c, pipe) \in Seq(Nat)
      BY <2>2, IpcFacts, BytesOfType
    <3>5. (log[c] \o BytesOf(c, logBuf)) \o BytesOf(c, pipe) =
            log[c] \o (BytesOf(c, logBuf) \o BytesOf(c, pipe))
      <4> DEFINE x == log[c]
                 y == BytesOf(c, logBuf)
                 z == BytesOf(c, pipe)
      <4>1. x \in Seq(Nat) /\ y \in Seq(Nat) /\ z \in Seq(Nat)
        BY <3>4
      <4> HIDE DEF x, y, z
      <4>2. (x \o y) \o z = x \o (y \o z)
        BY <4>1, BytesRegroup, Zenon
      <4> QED
        BY <4>2 DEF x, y, z
    <3>6. Logged(c)' = log'[c] \o BytesOf(c, pipe)
      BY <3>2 DEF Logged
    <3> QED
      BY <3>1, <3>3, <3>5, <3>6 DEF Logged
  <2> QED
    BY <1>3, <2>3, <2>4 DEF Logging
<1> QED
  BY <1>1, <1>2, <1>4, <1>5 DEF LoggerNext

(* ... nor a write() to the pipe, between two pieces of which others may    *)
(* write: each client's bytes still follow its own ...                      *)
LEMMA ChildLogTrails ==
  ASSUME IpcTypeOK, Buffers, Trails, NEW c \in Conns, ChildLog(c)
  PROVE  Trails'
<1>1. PICK n \in Nat :
         /\ proc[c] = "log" /\ at[c] + n <= Len(buf[c])
         /\ pipe' = pipe \o Tagged(c, Piece(buf[c], at[c], n))
         /\ \/ /\ at[c] + n = Len(buf[c])
               /\ at' = [at EXCEPT ![c] = 0]
               /\ buf' = [buf EXCEPT ![c] = <<>>]
               /\ proc' = [proc EXCEPT ![c] = "read"]
            \/ /\ at[c] + n < Len(buf[c])
               /\ at' = [at EXCEPT ![c] = at[c] + n]
               /\ buf' = buf
               /\ proc' = proc
         /\ UNCHANGED <<conn, logger, opened, logBuf, log, sent>>
  BY LogStep DEF main, logging
<1>2. /\ buf[c] \in Seq(Nat) /\ at[c] \in Nat /\ sent[c] \in Nat
      /\ logBuf \in Seq(Entries) /\ pipe \in Seq(Entries)
  BY IpcFacts
<1> DEFINE g == Piece(buf[c], at[c], n)
           t == Tagged(c, g)
           old == logBuf \o pipe
<1>3. g \in Seq(Nat)
  BY <1>1, <1>2, PieceType
<1>4. t \in Seq(Entries) /\ old \in Seq(Entries)
  <2>1. old \in Seq(Entries)
    BY <1>2, ConcatProperties
  <2> HIDE DEF g
  <2> QED
    BY <1>3, <2>1, TaggedAppend
<1>5. logBuf' \o pipe' = old \o t
  <2>1. pipe' = pipe \o t /\ logBuf' = logBuf
    BY <1>1
  <2>2. /\ logBuf \in Seq(Entries) /\ pipe \in Seq(Entries)
        /\ t \in Seq(Entries)
    BY <1>2, <1>4, Zenon
  <2> HIDE DEF t
  <2>3. (logBuf \o pipe) \o t = logBuf \o (pipe \o t)
    BY <2>2, EntriesRegroup, Zenon
  <2> QED
    BY <2>1, <2>3, Zenon
<1>6. ASSUME NEW d \in Conns
      PROVE  Logged(d)' = IF d = c THEN Logged(d) \o g ELSE Logged(d)
  <2> HIDE DEF g, old
  <2>1. BytesOf(d, old \o t) = BytesOf(d, old) \o BytesOf(d, t)
    <3> HIDE DEF t
    <3> QED
      BY <1>4, BytesOfConcat
  <2>2. BytesOf(d, t) = IF c = d THEN g ELSE <<>>
    BY <1>3, BytesOfTagged
  <2>3. log[d] \in Seq(Nat) /\ BytesOf(d, old) \in Seq(Nat)
    BY <1>4, IpcFacts, BytesOfType
  <2>4. Logged(d)' = log[d] \o (BytesOf(d, old) \o BytesOf(d, t))
    BY <1>1, <1>5, <2>1 DEF Logged
  <2>5. Logged(d) = log[d] \o BytesOf(d, old)
    BY DEF Logged, old
  <2>6. CASE d = c
    <3> DEFINE x == log[d]
               y == BytesOf(d, old)
    <3>1. x \in Seq(Nat) /\ y \in Seq(Nat)
      BY <2>3
    <3>2. Logged(d)' = x \o (y \o g) /\ Logged(d) = x \o y
      BY <2>2, <2>4, <2>5, <2>6
    <3> HIDE DEF x, y
    <3>3. (x \o y) \o g = x \o (y \o g)
      BY <1>3, <3>1, BytesRegroup, Zenon
    <3> QED
      BY <2>6, <3>2, <3>3, Zenon
  <2>7. CASE d # c
    <3>1. BytesOf(d, old) \o <<>> = BytesOf(d, old)
      BY <2>3, ConcatEmptySeq
    <3> QED
      BY <2>2, <2>4, <2>5, <2>7, <3>1, Zenon
  <2> QED
    BY <2>6, <2>7
<1>7. Logging' = Logging
  BY <1>1 DEF Logging
<1> SUFFICES ASSUME NEW d \in Conns
             PROVE  LogFlow(Logging', Logged(d)', Copied(d)',
                            buf'[d], conn'[d].up, sent'[d])
  BY DEF Trails
<1>8. LogFlow(Logging, Logged(d), Copied(d), buf[d], conn[d].up, sent[d])
  BY DEF Trails
<1>9. CASE d # c
  <2>1. /\ proc'[d] = proc[d] /\ at'[d] = at[d] /\ buf'[d] = buf[d]
        /\ conn' = conn /\ sent' = sent
    BY <1>1, <1>9 DEF IpcTypeOK
  <2>2. Copied(d)' = Copied(d)
    BY <2>1 DEF Copied
  <2>3. Logged(d)' = Logged(d)
    BY <1>6, <1>9
  <2> QED
    BY <1>7, <1>8, <2>1, <2>2, <2>3, Zenon
<1>10. CASE d = c
  <2>1. /\ Logged(c)' = Logged(c) \o g /\ Copied(c) = at[c]
        /\ Logged(c) \in Seq(Nat)
        /\ conn' = conn /\ sent' = sent
    BY <1>1, <1>6, LoggedType DEF Copied
  <2>2. LogFlow(Logging, Logged(c), at[c], buf[c], conn[c].up, sent[c])
    BY <1>8, <1>10, <2>1, Zenon
  <2>3. /\ LogFlow(Logging, Logged(c) \o g, at[c] + n, buf[c], conn[c].up,
                   sent[c])
        /\ at[c] + n = Len(buf[c]) =>
             LogFlow(Logging, Logged(c) \o g, 0, <<>>, conn[c].up, sent[c])
    BY <1>1, <1>2, <2>1, <2>2, LogFlowLogged
  <2> HIDE DEF g
  <2>4. CASE /\ at[c] + n = Len(buf[c])
             /\ at' = [at EXCEPT ![c] = 0]
             /\ buf' = [buf EXCEPT ![c] = <<>>]
             /\ proc' = [proc EXCEPT ![c] = "read"]
    <3>1. Copied(c)' = 0 /\ buf'[c] = <<>>
      BY <2>4 DEF Copied, IpcTypeOK
    <3>2. LogFlow(Logging, Logged(c) \o g, 0, <<>>, conn[c].up, sent[c])
      BY <2>3, <2>4, Zenon
    <3> QED
      BY <1>7, <1>10, <2>1, <3>1, <3>2, Zenon
  <2>5. CASE /\ at' = [at EXCEPT ![c] = at[c] + n]
             /\ buf' = buf /\ proc' = proc
    <3>1. Copied(c)' = at[c] + n /\ buf'[c] = buf[c]
      BY <1>1, <2>5 DEF Copied, IpcTypeOK
    <3> QED
      BY <1>7, <1>10, <2>1, <2>3, <3>1, Zenon
  <2> QED
    BY <1>1, <2>4, <2>5
<1> QED
  BY <1>9, <1>10

(* ... nor an echo process in its other steps, even when its client is      *)
(* gone.                                                                    *)
LEMMA ChildTrails ==
  ASSUME IpcTypeOK, Buffers, Trails, NEW c \in Conns, ChildNext(c)
  PROVE  Trails'
<1> USE DEF main, logging
<1>0. /\ UNCHANGED <<logger, opened, logBuf, log, sent>>
      /\ \A d \in Conns : d # c =>
           /\ proc'[d] = proc[d] /\ conn'[d] = conn[d]
           /\ buf'[d] = buf[d] /\ at'[d] = at[d]
  BY IpcChildFrame
<1>1. /\ conn[c] \in Connection /\ conn[c].up \in Seq(Nat) /\ sent[c] \in Nat
  BY IpcFacts DEF Connection
<1>2. ASSUME UNCHANGED <<pipe, buf>>, Copied(c)' = Copied(c),
             conn'[c].up = conn[c].up
      PROVE  Trails'
  <2>1. \A d \in Conns : Copied(d)' = Copied(d) /\ conn'[d].up = conn[d].up
    BY <1>0, <1>2 DEF Copied
  <2>2. Logging' => Logging
    BY <1>0 DEF Logging
  <2> QED
    BY <1>0, <1>2, <2>1, <2>2, TrailsKept
<1>3. CASE ChildCloseServ(c)
  BY <1>2, <1>3 DEF ChildCloseServ, Copied, IpcTypeOK
<1>4. CASE ChildEof(c)
  BY <1>2, <1>4 DEF ChildEof, Copied, IpcTypeOK
<1>5. CASE ChildClose(c)
  BY <1>2, <1>5 DEF ChildClose, Copied, IpcTypeOK
<1>6. CASE ChildReadFails(c)
  <2>1. conn'[c] = Reported(conn[c]) /\ UNCHANGED <<pipe, buf>>
    BY <1>6 DEF ChildReadFails, IpcTypeOK
  <2>2. Copied(c)' = Copied(c)
    BY <1>6 DEF ChildReadFails, Copied, IpcTypeOK
  <2> QED
    BY <1>1, <1>2, <2>1, <2>2, OpsLeaveClient
<1>7. CASE ChildKilled(c)
  <2>1. conn'[c] = Reported(conn[c]) /\ UNCHANGED <<pipe, buf>>
    BY <1>7 DEF ChildKilled, IpcTypeOK
  <2>2. Copied(c)' = Copied(c)
    BY <1>7 DEF ChildKilled, Copied, IpcTypeOK
  <2> QED
    BY <1>1, <1>2, <2>1, <2>2, OpsLeaveClient
<1>8. CASE ChildWriteLost(c)
  <2>1. conn'[c] \in {AfterReset(conn[c]), Reported(conn[c])}
    BY <1>8 DEF ChildWriteLost, IpcTypeOK
  <2>2. Copied(c)' = Copied(c) /\ UNCHANGED <<pipe, buf>>
    BY <1>8 DEF ChildWriteLost, Copied, IpcTypeOK
  <2> QED
    BY <1>1, <1>2, <2>1, <2>2, OpsLeaveClient
<1>9. CASE ChildWrite(c)
  <2> DEFINE left == Rest(buf[c], at[c])
  <2>1. PICK n \in Writes(conn[c], left) :
          /\ conn' = [conn EXCEPT ![c] = AfterWrite(@, left, n)]
          /\ at' = [at EXCEPT ![c] =
                       IF at[c] + n = Len(buf[c]) THEN 0 ELSE @ + n]
          /\ proc' = [proc EXCEPT ![c] =
                        IF at[c] + n = Len(buf[c]) THEN "log" ELSE "write"]
          /\ proc[c] = "write" /\ UNCHANGED <<pipe, buf>>
    BY <1>9 DEF ChildWrite
  <2> HIDE DEF left
  <2>2. conn'[c] = AfterWrite(conn[c], left, n)
    BY <2>1 DEF IpcTypeOK
  <2>3. Copied(c)' = Copied(c)
    BY <2>1 DEF Copied, IpcTypeOK
  <2> QED
    BY <1>1, <1>2, <2>1, <2>2, <2>3, OpsLeaveClient
<1>10. CASE ChildRead(c)
  <2>1. PICK n \in Reads(conn[c]) :
          /\ buf' = [buf EXCEPT ![c] = Front(conn[c].up, n)]
          /\ conn' = [conn EXCEPT ![c] = AfterRead(@, n)]
          /\ proc[c] = "read" /\ proc' = [proc EXCEPT ![c] = "write"]
          /\ UNCHANGED <<at, pipe>>
    BY <1>10 DEF ChildRead
  <2>2. /\ buf'[c] = Front(conn[c].up, n) /\ conn'[c] = AfterRead(conn[c], n)
        /\ buf[c] = <<>> /\ Copied(c) = 0 /\ Copied(c)' = 0
    BY <2>1 DEF IpcTypeOK, Buffers, Copied
  <2>3. conn'[c].up = Rest(conn[c].up, n)
    BY <1>1, <2>2, OpsLeaveClient
  <2>4. \A d \in Conns : Logged(d)' = Logged(d)
    BY <1>0, <2>1 DEF Logged
  <2>5. Logging' = Logging
    BY <1>0 DEF Logging
  <2> SUFFICES ASSUME NEW d \in Conns
               PROVE  LogFlow(Logging', Logged(d)', Copied(d)',
                              buf'[d], conn'[d].up, sent'[d])
    BY DEF Trails
  <2>6. LogFlow(Logging, Logged(d), Copied(d), buf[d], conn[d].up, sent[d])
    BY DEF Trails
  <2>7. CASE d = c
    <3>1. LogFlow(Logging, Logged(c), 0, <<>>, conn[c].up, sent[c])
      BY <2>2, <2>6, <2>7, Zenon
    <3>2. n \in Counts(conn[c].up, BufSize)
      BY DEF Reads
    <3>3. LogFlow(Logging, Logged(c), 0, Front(conn[c].up, n),
                  Rest(conn[c].up, n), sent[c])
      BY <1>1, <3>1, <3>2, LogFlowRead
    <3>4. sent' = sent
      BY <1>0
    <3> QED
      BY <2>2, <2>3, <2>4, <2>5, <2>7, <3>3, <3>4, Zenon
  <2>8. CASE d # c
    <3>1. Copied(d)' = Copied(d)
      BY <1>0, <2>8 DEF Copied
    <3> QED
      BY <1>0, <2>4, <2>5, <2>6, <2>8, <3>1
  <2> QED
    BY <2>7, <2>8
<1>11. CASE ChildLog(c)
  BY <1>11, ChildLogTrails
<1> QED
  BY <1>3, <1>4, <1>5, <1>6, <1>7, <1>8, <1>9, <1>10, <1>11 DEF ChildNext

-----------------------------------------------------------------------------
(* The invariant holds at first ...                                         *)
LEMMA IpcBegins == IpcInit => IpcInv
<1> SUFFICES ASSUME IpcInit PROVE IpcInv
  OBVIOUS
<1>0. /\ <<>> \in Seq(Conns) /\ <<>> \in Seq(Entries) /\ <<>> \in Seq(Nat)
      /\ Len(<<>>) = 0 /\ DOMAIN <<>> = {}
  OBVIOUS
<1>1. Unconnected \in Connection
  BY <1>0 DEF Unconnected, Connection
<1>2. /\ 0 \in 0..BufSize /\ 0 \in 0..MaxSend /\ 0 <= PipeCap
      /\ 0 <= BufSize
  BY TcpAssumption, IpcAssumption
<1> USE DEF IpcInit
<1>3. IpcTypeOK
  BY <1>0, <1>1, <1>2 DEF IpcTypeOK, Entries
<1>4. OneEach
  BY <1>0 DEF OneEach, Enters
<1>5. Holders
  BY NamesApart DEF Holders, Alive
<1>6. Buffers
  BY <1>0, <1>2 DEF Buffers
<1>7. Trails
  <2> SUFFICES ASSUME NEW c \in Conns
               PROVE  LogFlow(Logging, Logged(c), Copied(c),
                              buf[c], conn[c].up, sent[c])
    BY DEF Trails
  <2>1. logBuf = <<>> /\ pipe = <<>> /\ log[c] = <<>>
    OBVIOUS
  <2>2. <<>> \o <<>> = <<>>
    BY <1>0, ConcatEmptySeq
  <2>4. Logged(c) = <<>>
    BY <2>1, <2>2, BytesOfEmpty, Zenon DEF Logged
  <2>3. Copied(c) = 0 /\ buf[c] = <<>> /\ conn[c].up = <<>> /\ sent[c] = 0
    BY DEF Copied, Unconnected
  <2> QED
    BY <2>3, <2>4, LogFlowBegins
<1> QED
  BY <1>3, <1>4, <1>5, <1>6, <1>7 DEF IpcInv

(* ... and every step keeps it.                                             *)
LEMMA IpcContinues == IpcInv /\ [IpcNext]_ipcVars => IpcInv'
<1> SUFFICES ASSUME IpcInv, [IpcNext]_ipcVars PROVE IpcInv'
  OBVIOUS
<1> USE DEF IpcInv
<1>1. CASE MainNext
  BY <1>1, IpcMainType, MainOneEach, MainHolders, MainBuffers, MainTrails
<1>2. CASE LoggerNext
  BY <1>2, IpcLoggerType, LoggerOneEach, LoggerHolders, LoggerBuffers,
    LoggerTrails
<1>3. ASSUME NEW c \in Conns, ClientNext(c) PROVE IpcInv'
  BY <1>3, IpcClientType, ClientOneEach, ClientHolders, ClientBuffers,
    ClientTrails
<1>4. ASSUME NEW c \in Conns, ChildNext(c) PROVE IpcInv'
  BY <1>4, IpcChildType, ChildOneEach, ChildHolders, ChildBuffers, ChildTrails
<1>5. CASE UNCHANGED ipcVars
  BY <1>5 DEF ipcVars, IpcTypeOK, OneEach, Enters, Holders, Buffers, Trails,
     Logging, Logged, Copied
<1> QED
  BY <1>1, <1>2, <1>3, <1>4, <1>5 DEF IpcNext

(* So it holds always.                                                      *)
LEMMA AlwaysIpcInv == IpcSpec => []IpcInv
BY IpcBegins, IpcContinues, PTL DEF IpcSpec

(* IpcEcho's type invariant, for any connections and sizes: the pipe is     *)
(* never overfull, no read() exceeds its buffer, and of a buffer nothing is *)
(* written behind its end.                                                  *)
THEOREM IpcTypeCorrect == IpcSpec => []IpcTypeOK
<1>1. IpcInv => IpcTypeOK
  BY DEF IpcInv
<1> QED
  BY <1>1, AlwaysIpcInv, PTL

(* 11-2-ipcecho: for any number of echo processes that write to one pipe,   *)
(* in pieces of any size, the log has what they have read of each client,   *)
(* in order and nothing twice; and when the logger ends, nothing is left in *)
(* the pipe and no process lives that could write to it.                    *)
THEOREM EveryByteReachesTheLog == IpcSpec => []EveryByteLogged
<1>1. IpcInv => EveryByteLogged
  <2> SUFFICES ASSUME IpcInv PROVE EveryByteLogged
    OBVIOUS
  <2> USE DEF IpcInv
  <2>1. ASSUME Logging, NEW c \in Conns
        PROVE  log[c] \o BytesOf(c, logBuf \o pipe) =
                 [i \in 1..HandedOn(c) |-> i]
    <3>1. LogFlow(TRUE, Logged(c), Copied(c), buf[c], conn[c].up, sent[c])
      BY <2>1, LogFlowWeakens DEF Trails
    <3>2. /\ Logged(c) \in Seq(Nat) /\ buf[c] \in Seq(Nat)
          /\ conn[c].up \in Seq(Nat) /\ sent[c] \in Nat /\ Copied(c) \in Nat
      BY IpcFacts, LoggedType DEF Connection, Copied
    <3>3. Logged(c) =
            [i \in 1..(sent[c] - Len(conn[c].up) - Len(buf[c]) + Copied(c))
               |-> i]
      <4> DEFINE l == Logged(c)
                 b == buf[c]
                 u == conn[c].up
                 a == Copied(c)
                 n == sent[c]
      <4>1. /\ l \in Seq(Nat) /\ b \in Seq(Nat) /\ u \in Seq(Nat)
            /\ a \in Nat /\ n \in Nat /\ LogFlow(TRUE, l, a, b, u, n)
        BY <3>1, <3>2
      <4> HIDE DEF l, b, u, a, n
      <4>2. l = [i \in 1..(n - Len(u) - Len(b) + a) |-> i]
        BY <4>1, LogFlowIsStream
      <4> QED
        BY <4>2 DEF l, b, u, a, n
    <3> QED
      BY <3>3, Zenon DEF Logged, HandedOn, Copied
  <2>2. ASSUME logger = "ended"
        PROVE  logBuf \o pipe = <<>> /\ \A c \in Conns : proc[c] \notin Alive
    <3>1. logBuf = <<>> /\ pipe = <<>> /\ writers = {}
      BY <2>2 DEF Holders, Buffers
    <3>2. \A c \in Conns : proc[c] \notin Alive
      BY <3>1 DEF Holders
    <3> QED
      BY <3>1, <3>2
  <2> QED
    BY <2>1, <2>2 DEF EveryByteLogged, Logging
<1> QED
  BY <1>1, AlwaysIpcInv, PTL
=============================================================================
