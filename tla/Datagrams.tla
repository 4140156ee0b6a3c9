------------------------------ MODULE Datagrams ------------------------------
(****************************************************************************)
(* The programs that exchange datagrams, over a network that may lose,      *)
(* duplicate, delay and reorder them:                                       *)
(*   echo       6-2-udpecho: clients with connected sockets, each waiting   *)
(*              in recvfrom() after every line; there is no timeout, no     *)
(*              retry, and nothing that says which line an echo belongs to  *)
(*   multicast  14-1-multicast: news.txt line by line to all receivers      *)
(*   broadcast  14-2-broadcast: the same, the line buffer zeroed each time  *)
(* The server, or the sender, may be killed; the server may be started      *)
(* again.  A datagram that finds no server is refused by ICMP, which a      *)
(* connected socket reports with the next call.                             *)
(*                                                                          *)
(* Datagrams of a client carry the number of its line; those of the news    *)
(* the number of the sendto() call, from which Text tells what is in them.  *)
(****************************************************************************)
EXTENDS Naturals, Sequences, FiniteSets

CONSTANTS
  Clients,    \* the echo clients, or the receivers of the news
  News,       \* the sender of the news
  Refused,    \* printed when recvfrom() failed
  NewsLen,    \* lines of news.txt
  MaxLines,   \* bound on the lines one client types
  MaxDups,    \* bound on duplications
  MaxKills    \* bound on the times the server is killed

ASSUME DatagramsAssumption ==
  /\ IsFiniteSet(Clients) /\ News \notin Clients
  /\ NewsLen \in Nat \ {0}
  /\ {MaxLines, MaxDups, MaxKills} \subseteq Nat
  /\ Refused \notin Nat

VARIABLES
  example,    \* the example that runs
  whole,      \* news.txt ends with a newline
  net,        \* the datagrams on their way
  serv,       \* the server's or sender's next call
  held,       \* the datagram in the server's buffer during sendto()
  kills,      \* how often the server was killed
  calls,      \* the sender's sendto() calls so far
  cpc,        \* a client: prompt, recv, done or broken; a receiver: listen
  typed,      \* the lines a client has typed
  err,        \* clients whose socket has a pending error
  seen,       \* what each client has printed
  lost,       \* clients of whose datagrams some were lost
  dups        \* clients of whose datagrams some were duplicated, one by one

server == <<serv, held, kills, calls>>
client == <<cpc, typed, err, seen>>
faults == <<lost, dups>>
vars == <<example, whole, net, serv, held, kills, calls,
          cpc, typed, err, seen, lost, dups>>

\* by is the program that sent the text first, clnt the client's address;
\* an icmp goes to clnt.  Copies are 0, the original, and 1, 2, ...
Datagram ==
  [ way : {"up", "down", "icmp"}, clnt : Clients, by : Clients \union {News},
    nr : 1..(MaxLines + NewsLen + 1), copy : 0..MaxDups ]

TypeOK ==
  /\ example \in {"echo", "multicast", "broadcast"}
  /\ whole \in BOOLEAN
  /\ net \subseteq Datagram
  /\ serv \in {"recv", "send", "news", "done", "down"}
  /\ IF serv = "send" THEN \E d \in Datagram : held = {d} ELSE held = {}
  /\ kills \in 0..MaxKills
  /\ calls \in 0..(NewsLen + 1)
  /\ cpc \in [Clients -> {"prompt", "recv", "done", "broken", "listen"}]
  /\ typed \in [Clients -> 0..MaxLines]
  /\ err \subseteq Clients
  /\ seen \in [Clients -> Seq((Clients \union {News}) \X Nat \union {Refused})]
  /\ lost \subseteq Clients
  /\ dups \in Seq(Clients) /\ Len(dups) <= MaxDups

\* Receivers that join later have lost what was sent before.
Init ==
  /\ example \in {"echo", "multicast", "broadcast"}
  /\ whole \in BOOLEAN
  /\ net = {} /\ held = {}
  /\ serv = (IF example = "echo" THEN "recv" ELSE "news")
  /\ kills = 0 /\ calls = 0
  /\ cpc = [c \in Clients |-> IF example = "echo" THEN "prompt" ELSE "listen"]
  /\ typed = [c \in Clients |-> 0]
  /\ err = {}
  /\ seen = [c \in Clients |-> <<>>]
  /\ lost = {} /\ dups = <<>>

Up(c, n) == [way |-> "up", clnt |-> c, by |-> c, nr |-> n, copy |-> 0]

\* What the n-th sendto() of the news sends: a line, or what is in the buffer
\* after an fgets() that found the end of the file, 0 being the empty text.
Text(n) ==
  CASE n <= NewsLen -> n
    [] n > NewsLen /\ example = "multicast" -> NewsLen
    [] OTHER -> 0

Prints(c, what) == seen' = [seen EXCEPT ![c] = Append(@, what)]

-----------------------------------------------------------------------------
\* Faults: what a slip would make of the actions below.  No specification
\* uses them; README.md says which property rules each of them out.

\* setsockopt(SO_RCVTIMEO): recvfrom() gives up on a late datagram.
TimesOut(c) ==
  /\ cpc[c] = "recv"
  /\ cpc' = [cpc EXCEPT ![c] = "prompt"]
  /\ err' = err \ {c}
  /\ Prints(c, Refused)
  /\ UNCHANGED <<example, whole, net, server, typed, faults>>

\* recvfrom(..., NULL, 0): sendto() goes to whatever address is there.
SendsAnywhere ==
  /\ serv = "send"
  /\ \E c \in Clients :
       net' = net \union { [d EXCEPT !.way = "down", !.clnt = c] : d \in held }
  /\ serv' = "recv"
  /\ held' = {}
  /\ UNCHANGED <<example, whole, kills, calls, client, faults>>

\* while (fgets(...)): the end of the file is met before, not after, sending.
EndOfFileFirst == calls + 1 >= NewsLen

-----------------------------------------------------------------------------
\* The network.

Lose(d) ==
  /\ net' = net \ {d}
  /\ lost' = lost \union {d.clnt}
  /\ UNCHANGED <<example, whole, server, client, dups>>

Duplicate(d) ==
  /\ Len(dups) < MaxDups
  /\ net' = net \union {[d EXCEPT !.copy = Len(dups) + 1]}
  /\ dups' = Append(dups, d.clnt)
  /\ UNCHANGED <<example, whole, server, client, lost>>

\* The host has no socket for the datagram.
Refuse(d) ==
  /\ serv = "down" /\ d.way = "up"
  /\ net' = (net \ {d}) \union {[d EXCEPT !.way = "icmp"]}
  /\ UNCHANGED <<example, whole, server, client, faults>>

Report(d) ==
  /\ d.way = "icmp"
  /\ net' = net \ {d}
  /\ err' = err \union {d.clnt}
  /\ UNCHANGED <<example, whole, server, cpc, typed, seen, faults>>

-----------------------------------------------------------------------------
\* 6-2's client.

\* write() of a line, perhaps an empty one, which is a datagram like others.
\* A pending error makes it fail, which nobody looks at: nothing is sent.
TypeLine(c) ==
  /\ cpc[c] = "prompt" /\ typed[c] < MaxLines
  /\ typed' = [typed EXCEPT ![c] = @ + 1]
  /\ net' = IF c \in err THEN net ELSE net \union {Up(c, typed'[c])}
  /\ err' = err \ {c}
  /\ cpc' = [cpc EXCEPT ![c] = "recv"]
  /\ UNCHANGED <<example, whole, server, seen, faults>>

Quit(c) ==
  /\ cpc[c] = "prompt"
  /\ cpc' = [cpc EXCEPT ![c] = "done"]
  /\ UNCHANGED <<example, whole, net, server, typed, err, seen, faults>>

\* recvfrom() takes any datagram the server has sent to this socket.
Receive(c, d) ==
  /\ cpc[c] = "recv" /\ d.way = "down" /\ d.clnt = c
  /\ net' = net \ {d}
  /\ cpc' = [cpc EXCEPT ![c] = "prompt"]
  /\ Prints(c, <<d.by, d.nr>>)
  /\ UNCHANGED <<example, whole, server, typed, err, faults>>

\* recvfrom() returns -1, and recv_buffer[-1] = 0 is undefined: it may meet
\* padding or the end of input_buffer, which changes nothing, or another
\* variable, after which nothing can be said of this process.
ReceiveFails(c) ==
  /\ cpc[c] = "recv" /\ c \in err
  /\ err' = err \ {c}
  /\ \/ cpc' = [cpc EXCEPT ![c] = "prompt"]
     \/ cpc' = [cpc EXCEPT ![c] = "broken"]
  /\ Prints(c, Refused)
  /\ UNCHANGED <<example, whole, net, server, typed, faults>>

ClientRuns(c) == ReceiveFails(c) \/ \E d \in net : Receive(c, d)

-----------------------------------------------------------------------------
\* 6-2's server.

ServRecv(d) ==
  /\ serv = "recv" /\ d.way = "up"
  /\ serv' = "send"
  /\ held' = {d}
  /\ net' = net \ {d}
  /\ UNCHANGED <<example, whole, kills, calls, client, faults>>

\* sendto() the address that recvfrom() has stored.
ServSend ==
  /\ serv = "send"
  /\ net' = net \union { [d EXCEPT !.way = "down"] : d \in held }
  /\ serv' = "recv"
  /\ held' = {}
  /\ UNCHANGED <<example, whole, kills, calls, client, faults>>

ServKilled ==
  /\ serv \in {"recv", "send", "news"} /\ kills < MaxKills
  /\ serv' = "down"
  /\ held' = {}
  /\ kills' = kills + 1
  /\ UNCHANGED <<example, whole, net, calls, client, faults>>

ServStarts ==
  /\ example = "echo" /\ serv = "down"
  /\ serv' = "recv"
  /\ UNCHANGED <<example, whole, net, held, kills, calls, client, faults>>

-----------------------------------------------------------------------------
\* 14-1's and 14-2's sender and receivers.

\* feof() after the next fgets(): true only if it had to read past the end.
EndOfFile == calls + 1 > NewsLen \/ (calls + 1 = NewsLen /\ ~whole)

\* fgets(), sendto() and feof().
SendNews ==
  /\ serv = "news"
  /\ net' = net \union
       { [way |-> "down", clnt |-> c, by |-> News, nr |-> calls + 1, copy |-> 0]
           : c \in Clients }
  /\ calls' = calls + 1
  /\ serv' = IF EndOfFile THEN "done" ELSE "news"
  /\ UNCHANGED <<example, whole, held, kills, client, faults>>

\* recvfrom() and fputs(), for ever.
Listen(c, d) ==
  /\ cpc[c] = "listen" /\ d.way = "down" /\ d.clnt = c
  /\ net' = net \ {d}
  /\ Prints(c, <<d.by, Text(d.nr)>>)
  /\ UNCHANGED <<example, whole, server, cpc, typed, err, faults>>

-----------------------------------------------------------------------------
ServerRuns == ServSend \/ SendNews \/ \E d \in net : ServRecv(d)

Next ==
  \/ \E d \in net : Lose(d) \/ Duplicate(d) \/ Refuse(d) \/ Report(d)
  \/ \E c \in Clients :
       TypeLine(c) \/ Quit(c) \/ ClientRuns(c) \/ \E d \in net : Listen(c, d)
  \/ ServerRuns \/ ServKilled \/ ServStarts

\* The programs are scheduled, and a datagram that is not lost arrives.
Fairness ==
  /\ WF_vars(ServerRuns)
  /\ \A c \in Clients : WF_vars(ClientRuns(c))

Spec == Init /\ [][Next]_vars /\ Fairness

-----------------------------------------------------------------------------
Duplicated(c) == \E i \in DOMAIN dups : dups[i] = c

(* An echo says nothing of the line it answers, and yet, as long as none of *)
(* a client's datagrams is duplicated, what it prints is the line it has    *)
(* just typed, or that it was refused: losses, delays, other clients and    *)
(* restarts of the server never make answers run behind questions, because  *)
(* a client that has lost its answer asks nothing more.  At worst it is a   *)
(* line of its own.                                                         *)
AnswersItsLine ==
  \A c \in Clients : \A i \in DOMAIN seen[c] :
    example = "echo" =>
      \/ seen[c][i] = Refused
      \/ \E n \in 1..i : seen[c][i] = <<c, n>> /\ (n = i \/ Duplicated(c))

\* The client waits and nothing that could wake it up exists.
Stuck(c) ==
  /\ cpc[c] = "recv"
  /\ c \notin err
  /\ \A d \in net \union held : d.clnt # c

(* Without timeout or retry a loss is for good: no step of the network, of  *)
(* the server, of its restart or of other clients wakes up a client whose   *)
(* datagram, echo or ICMP error was lost.                                   *)
LossIsFinal == [][\A c \in Clients : Stuck(c) => Stuck(c)']_vars

(* Every line is answered, whatever the other clients do, unless one of     *)
(* its client's datagrams was lost or the server was killed.                *)
AnswerArrives ==
  \A c \in Clients :
    cpc[c] = "recv" ~> cpc[c] # "recv" \/ c \in lost \/ kills > 0

\* How often a receiver has printed line n of the news.
Times(c, n) == Cardinality({ i \in DOMAIN seen[c] : seen[c][i] = <<News, n>> })

(* feof() is true only after a read has failed: of a file that ends with a  *)
(* newline 14-1 sends the last line twice, and 14-2 an empty datagram.  A   *)
(* receiver that loses nothing prints every other line once, in any order.  *)
LastLineTwice ==
  \A c \in Clients :
    serv = "done" /\ c \notin lost /\ ~Duplicated(c) /\ (\A d \in net : d.clnt # c) =>
      /\ \A n \in 1..NewsLen :
           Times(c, n) = IF n = NewsLen /\ whole /\ example = "multicast" THEN 2 ELSE 1
      /\ Times(c, 0) = IF whole /\ example = "broadcast" THEN 1 ELSE 0
=============================================================================
