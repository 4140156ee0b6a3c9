--------------------------------- MODULE Tcp ---------------------------------
(****************************************************************************)
(* One TCP connection between a client and an echo server, as far as the    *)
(* calls in src/ can tell: what read(), write() and close() see and do.     *)
(* The kernel is not part of the repository: this module is modelled from   *)
(* how the servers use it (POSIX stream sockets, blocking mode).            *)
(*                                                                          *)
(*   up     bytes sent by the client and not yet read by the server         *)
(*   down   bytes written by the server and not yet read by the client      *)
(*   cli    the client's end: none before connect(), open, fin after a      *)
(*          close() in good order, aborted after one that left bytes unread *)
(*          (the kernel then resets the connection)                         *)
(*   rst    a reset received by the server: none, pending (the next call    *)
(*          reports it) or reported                                         *)
(****************************************************************************)
EXTENDS Integers, Sequences

CONSTANTS
  Cap,       \* bytes a socket buffer holds in one direction
  BufSize    \* BUFFER_SIZE, the most one read() returns

ASSUME TcpAssumption == Cap \in Nat \ {0} /\ BufSize \in Nat \ {0}

Connection ==
  [ up : Seq(Nat), down : Seq(Nat),
    cli : {"none", "open", "fin", "aborted"},
    rst : {"none", "pending", "reported"} ]

Unconnected == [up |-> <<>>, down |-> <<>>, cli |-> "none", rst |-> "none"]

\* The byte counts a call may transfer out of s when it has room for `room`.
Counts(s, room) == { n \in 1..room : n <= Len(s) }
Front(s, n) == SubSeq(s, 1, n)
Rest(s, n) == SubSeq(s, n + 1, Len(s))

ClientLeft(k) == k.cli \in {"fin", "aborted"}

-----------------------------------------------------------------------------
\* The client's side.

Connected(k) == [k EXCEPT !.cli = "open"]

CanSend(k) == k.cli = "open" /\ Len(k.up) < Cap
Sent(k, byte) == [k EXCEPT !.up = Append(@, byte)]

Taken(k, n) == [k EXCEPT !.down = Rest(@, n)]

\* close() with unread data resets the connection at once.
Left(k) ==
  IF k.down = <<>>
    THEN [k EXCEPT !.cli = "fin"]
    ELSE [k EXCEPT !.cli = "aborted", !.down = <<>>, !.rst = "pending"]

-----------------------------------------------------------------------------
\* The server's side: read().  Received data comes first, then the error of
\* a reset, then end of file.  (When a reset follows a FIN, Linux reports end
\* of file and BSD the error: both are allowed.)

Reads(k) == Counts(k.up, BufSize)
ReadMeetsEof(k) == k.up = <<>> /\ (k.cli = "fin" \/ k.rst = "reported")
ReadFails(k) == k.up = <<>> /\ k.rst = "pending"
Readable(k) == k.up # <<>> \/ ReadMeetsEof(k) \/ ReadFails(k)

AfterRead(k, n) == [k EXCEPT !.up = Rest(@, n)]
Reported(k) == [k EXCEPT !.rst = "reported"]

-----------------------------------------------------------------------------
\* The server's side: write().

\* The client is there: the call sleeps until the socket buffer has room.
Writes(k, buf) ==
  IF k.cli = "open" THEN Counts(buf, Cap - Len(k.down)) ELSE {}
AfterWrite(k, buf, n) == [k EXCEPT !.down = @ \o Front(buf, n)]

\* The client closed: the bytes are accepted, and answered by a reset.
WriteDrawsReset(k) == k.cli = "fin" /\ k.rst = "none"
AfterReset(k) == [k EXCEPT !.rst = "pending"]

\* After a reset write() fails: with the reset's error the first time, or
\* with EPIPE, which raises SIGPIPE.
WriteFails(k) == k.rst = "pending"
WriteKills(k) == k.rst # "none"
=============================================================================
