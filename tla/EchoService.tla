----------------------------- MODULE EchoService -----------------------------
(****************************************************************************)
(* What an echo server of this repository promises its clients, whatever    *)
(* way it multiplexes them: each connection gets its own bytes back, in     *)
(* order and without gaps or duplicates, and the server keeps a connection  *)
(* as long as its client does, unless the server itself stops.              *)
(*                                                                          *)
(* The bytes of a connection are numbered 1, 2, ... in the order sent.      *)
(****************************************************************************)
EXTENDS Naturals, Sequences

CONSTANTS
  Conns,     \* the connections
  MaxSend    \* bound on the bytes one client sends

VARIABLES
  client,    \* none, open or closed, by connection: the client's end
  service,   \* none, open or closed, by connection: the server's end
  running,   \* the server accepts connections
  sent,      \* number of bytes the client has sent
  got        \* the bytes echoed to the client and read by it

vars == <<client, service, running, sent, got>>

Stream(n) == [i \in 1..n |-> i]

Init ==
  /\ client = [c \in Conns |-> "none"]
  /\ service = [c \in Conns |-> "none"]
  /\ running = TRUE
  /\ sent = [c \in Conns |-> 0]
  /\ got = [c \in Conns |-> <<>>]

Connect(c) ==
  /\ client[c] = "none"
  /\ client' = [client EXCEPT ![c] = "open"]
  /\ service' = [service EXCEPT ![c] = "open"]
  /\ UNCHANGED <<running, sent, got>>

Send(c) ==
  /\ client[c] = "open"
  /\ sent[c] < MaxSend
  /\ sent' = [sent EXCEPT ![c] = @ + 1]
  /\ UNCHANGED <<client, service, running, got>>

\* The client reads some more of its own bytes.
Echo(c) ==
  /\ client[c] = "open"
  /\ \E n \in 1..MaxSend :
       /\ Len(got[c]) < n
       /\ n <= sent[c]
       /\ got' = [got EXCEPT ![c] = Stream(n)]
  /\ UNCHANGED <<client, service, running, sent>>

Leave(c) ==
  /\ client[c] = "open"
  /\ client' = [client EXCEPT ![c] = "closed"]
  /\ UNCHANGED <<service, running, sent, got>>

\* The server lets go of connections whose client has left, or of any once it
\* has stopped; it may stop and let go in one step.
Release ==
  /\ running' \in { running, FALSE }
  /\ \E S \in SUBSET Conns :
       /\ \A c \in S : service[c] = "open" /\ (client[c] = "closed" \/ ~running')
       /\ service' = [c \in Conns |-> IF c \in S THEN "closed" ELSE service[c]]
  /\ UNCHANGED <<client, sent, got>>

Next ==
  \/ \E c \in Conns : Connect(c) \/ Send(c) \/ Echo(c) \/ Leave(c)
  \/ Release

Spec == Init /\ [][Next]_vars
=============================================================================
