---------------------------- MODULE SelectSession ----------------------------
(****************************************************************************)
(* 12-2-select's server and its own clients: SelectEcho leaves open what a  *)
(* client does, here each one runs 12-2-select/echoclient.c (the same       *)
(* program in 10-4, 11-2, 17-1 and 17-2), which sends a line, reads until   *)
(* it has as many bytes as the line, and only then prompts again.           *)
(*                                                                          *)
(* A client's step is a step of SelectEcho's client together with what it   *)
(* does to the client's own variables.                                      *)
(****************************************************************************)
EXTENDS SelectEcho

CONSTANT MaxLine    \* bound on the length of a line

\* A line longer than both socket buffers and the server's own would leave
\* client and server in write(), each waiting for the other to read.  The
\* program's lines are shorter than BUFFER_SIZE, which the buffers exceed.
ASSUME LineAssumption == MaxLine \in Nat /\ MaxLine <= 2 * Cap + BufSize

VARIABLES
  cpc,        \* a client: start, prompt, write, read or done
  left,       \* what write() has not yet copied of its line
  due         \* input_size - total_rcv_size

session == <<cpc, left, due>>
allvars == <<pc, table, reads, ready, fdMax, clnt, buf, queue, net, sent, got,
             cpc, left, due>>

Goes(c, to) == cpc' = [cpc EXCEPT ![c] = to]

SessionInit ==
  /\ Init
  /\ cpc = [c \in Conns |-> "start"]
  /\ left = [c \in Conns |-> 0]
  /\ due = [c \in Conns |-> 0]

-----------------------------------------------------------------------------
\* Faults: what a slip would make of the definition below.  No specification
\* uses them; README.md says which property rules each of them out.

\* One read() for each line.
NoMoreToRead(d) == FALSE

\* while (total_rcv_size <= input_size)
OneByteMore(d) == d >= 0

\* while (total_rcv_size < input_size - 1)
OneByteLess(d) == d > 1

-----------------------------------------------------------------------------
\* The loop's condition, total_rcv_size < input_size.
MoreToRead(d) == d > 0

Opens(c) ==
  /\ cpc[c] = "start"
  /\ Connect(c)
  /\ Goes(c, "prompt")
  /\ UNCHANGED <<left, due>>

\* A line; an empty one is a write() and a wait for nothing.  At the end of
\* stdin fgets() leaves the line before where it was: it is sent once more.
TypeLine(c) ==
  /\ cpc[c] = "prompt"
  /\ \E n \in 1..MaxLine :
       /\ sent[c] + n <= Quota[c]
       /\ left' = [left EXCEPT ![c] = n]
       /\ due' = [due EXCEPT ![c] = n]
  /\ Goes(c, "write")
  /\ UNCHANGED vars

\* The line is "q".
Quit(c) ==
  /\ cpc[c] = "prompt"
  /\ CliClose(c)
  /\ Goes(c, "done")
  /\ UNCHANGED <<left, due>>

AfterWriting(c) == Goes(c, IF MoreToRead(due[c]) THEN "read" ELSE "prompt")

\* write() copies byte after byte as there is room.
WritesLine(c) ==
  /\ cpc[c] = "write"
  /\ CliSend(c)
  /\ left' = [left EXCEPT ![c] = @ - 1]
  /\ IF left[c] = 1 THEN AfterWriting(c) ELSE UNCHANGED cpc
  /\ UNCHANGED due

\* The server's end is closed: the rest of the line is accepted and lost.
WriteLost(c) ==
  /\ cpc[c] = "write"
  /\ ~ServerHolds(c)
  /\ left' = [left EXCEPT ![c] = 0]
  /\ AfterWriting(c)
  /\ UNCHANGED <<vars, due>>

\* read() of what is there.  When it returns 0 the loop goes round unchanged.
ReadsEcho(c) ==
  /\ cpc[c] = "read"
  /\ CliRead(c)
  /\ due' = [due EXCEPT ![c] = @ - (Len(got'[c]) - Len(got[c]))]
  /\ Goes(c, IF MoreToRead(due'[c]) THEN "read" ELSE "prompt")
  /\ UNCHANGED left

\* The server's end was reset: read() returns -1, or write() raises SIGPIPE.
Dies(c) ==
  /\ cpc[c] \in {"write", "read"}
  /\ net[c].down = <<>> /\ ~ServerHolds(c)
  /\ CliClose(c)
  /\ Goes(c, "done")
  /\ UNCHANGED <<left, due>>

\* What the program does without its user.
ClientRuns(c) ==
  WritesLine(c) \/ WriteLost(c) \/ ReadsEcho(c) \/ Dies(c)

SessionNext ==
  \/ ServerNext /\ UNCHANGED session
  \/ \E c \in Conns : Opens(c) \/ TypeLine(c) \/ Quit(c) \/ ClientRuns(c)

\* The programs are scheduled; no user has to type anything.
SessionSpec ==
  /\ SessionInit /\ [][SessionNext]_allvars
  /\ WF_allvars(ServerNext /\ UNCHANGED session)
  /\ \A c \in Conns : WF_allvars(ClientRuns(c))

-----------------------------------------------------------------------------
(* The program is a client as SelectEcho supposes: what it does is allowed  *)
(* there, and it always comes to read() what the server sent it.            *)
IsSelectClient == Spec

(* These clients never close with echo on its way, so that no SIGPIPE ends  *)
(* the server: it only ends when, at that moment, it holds more of their    *)
(* connections than it has descriptors.                                     *)
OnlyCrowdingStops == [][ServerStops => Crowded]_vars

\* The client awaits bytes that its server, which is gone, never wrote.
Lost(c) ==
  /\ ~ServerHolds(c)
  /\ cpc[c] \in {"write", "read"}
  /\ Len(net[c].down) < due[c]

(* Every line comes back whole and the client prompts again, though its     *)
(* connection may first have to wait in the listen queue.  Only if the      *)
(* server ends does it not, and then never: the client dies of the reset or *)
(* goes round its read() loop at end of file for ever.                      *)
LineReturns ==
  \A c \in Conns :
    cpc[c] = "write" ~>
      \/ cpc[c] = "prompt"
      \/ [](Lost(c) \/ cpc[c] = "done")
=============================================================================
