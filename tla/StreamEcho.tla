----------------------------- MODULE StreamEcho ------------------------------
(****************************************************************************)
(* 15-3-streamecho: an echo server and its client that read and write their *)
(* connection with fgets() and fputs(), one client and one connection.      *)
(*                                                                          *)
(* fgets() returns with a newline, with BUFFER_SIZE - 1 bytes, or at end of *)
(* file; failing, it leaves the buffer as it was, and neither program looks *)
(* at its result.  The bytes the user types are numbered; ends has those    *)
(* that are newlines.                                                       *)
(****************************************************************************)
EXTENDS Tcp

CONSTANTS
  MaxTyped,    \* bound on the bytes the user types
  MaxAsked    \* bound on the buffers the client sends

\* What fgets() returns fits a socket buffer, so that a flush is one step.
ASSUME StreamAssumption ==
  /\ BufSize > 1 /\ BufSize - 1 <= Cap
  /\ MaxTyped \in Nat /\ MaxAsked \in Nat

VARIABLES
  conn,       \* the connection
  crst,       \* a reset received by the client: none, pending or reported
  cpc,        \* the client's next call: input, write, read, done or killed
  stdinEof,   \* the end of stdin has been met
  count,      \* bytes typed so far
  ends,       \* those of them that are newlines
  input,      \* the client's input_buffer
  answer,     \* the client's rcv_buffer
  spc,        \* the server's next call: read, write, done or killed
  feof,       \* feof(rfp)
  line,       \* the server's rcv_buffer
  asked,      \* the buffers the client has sent
  stdout      \* the buffers the server has printed

client == <<cpc, stdinEof, count, ends, input, answer>>
server == <<spc, feof, line, stdout>>
streamVars == <<conn, crst, cpc, stdinEof, count, ends, input, answer,
          spc, feof, line, asked, stdout>>

StreamTypeOK ==
  /\ conn \in Connection
  /\ crst \in {"none", "pending", "reported"}
  /\ cpc \in {"input", "write", "read", "done", "killed"}
  /\ spc \in {"read", "write", "done", "killed"}
  /\ stdinEof \in BOOLEAN /\ feof \in BOOLEAN
  /\ count \in 0..MaxTyped
  /\ ends \subseteq 1..count
  /\ \A b \in {input, answer, line} :
       b \in Seq(1..count) /\ Len(b) <= BufSize - 1
  /\ Len(conn.up) < BufSize /\ Len(conn.down) < BufSize
  /\ asked \in Seq(Seq(1..count)) /\ stdout \in Seq(Seq(1..count))

StreamInit ==
  /\ conn = Connected(Unconnected)
  /\ crst = "none"
  /\ cpc = "input" /\ stdinEof = FALSE /\ count = 0 /\ ends = {}
  /\ spc = "read" /\ feof = FALSE
  /\ input = <<>> /\ answer = <<>> /\ line = <<>>
  /\ asked = <<>> /\ stdout = <<>>

\* How much of s an fgets() returns before the end of the file: a set of one
\* number or none.
Lines(s) ==
  { n \in 1..(BufSize - 1) :
      /\ n <= Len(s)
      /\ n = BufSize - 1 \/ s[n] \in ends
      /\ \A m \in 1..(n - 1) : s[m] \notin ends }

ServerThere == spc \in {"read", "write"}
Killed == cpc = "killed" \/ spc = "killed"

-----------------------------------------------------------------------------
\* Faults: what a slip would make of the actions below.  No specification
\* uses them; README.md says which property rules each of them out.

\* while (fgets(...)): end of file ends the loop before another echo.
EofEndsLoop ==
  /\ spc = "read" /\ Lines(conn.up) = {} /\ ReadMeetsEof(conn)
  /\ spc' = "done" /\ feof' = TRUE
  /\ UNCHANGED <<conn, crst, client, line, asked, stdout>>

\* No fflush(wfp): the echo stays in the FILE until it is closed.
WithoutFlush ==
  /\ spc = "write"
  /\ stdout' = Append(stdout, line)
  /\ spc' = IF feof THEN "done" ELSE "read"
  /\ UNCHANGED <<conn, crst, client, feof, line, asked>>

\* read(sock, rcv_buffer, BUFFER_SIZE - 1): what has arrived is the echo.
CliReadsAny ==
  /\ cpc = "read"
  /\ \E n \in Counts(conn.down, BufSize - 1) :
       answer' = Front(conn.down, n) /\ conn' = Taken(conn, n)
  /\ cpc' = "input"
  /\ UNCHANGED <<crst, stdinEof, count, ends, input, server, asked>>

-----------------------------------------------------------------------------
\* The client: fgets(..., stdin).

Types(n, isLine) ==
  /\ cpc = "input" /\ ~stdinEof
  /\ count + n <= MaxTyped
  /\ input' = [i \in 1..n |-> count + i]
  /\ count' = count + n
  /\ ends' = IF isLine THEN ends \union {count + n} ELSE ends
  /\ cpc' = "write"
  /\ UNCHANGED <<conn, crst, answer, server, asked>>

\* A line or the end of a long one; a part of a long line; what stands after
\* the last newline of stdin.
TypeLine ==
  /\ \E n \in 1..(BufSize - 1) : Types(n, TRUE)
  /\ UNCHANGED stdinEof

\* Fault: fgets(input_buffer, BUFFER_SIZE + 1, stdin).
TypePartOver == Types(BufSize, FALSE) /\ UNCHANGED stdinEof

TypePart == Types(BufSize - 1, FALSE) /\ UNCHANGED stdinEof

TypeRest ==
  /\ \E n \in 1..(BufSize - 2) : Types(n, FALSE)
  /\ stdinEof' = TRUE

\* At end of file the buffer is what it was: the last line is sent again.
TypeEof ==
  /\ cpc = "input"
  /\ stdinEof' = TRUE
  /\ cpc' = "write"
  /\ UNCHANGED <<conn, crst, count, ends, input, answer, server, asked>>

\* The line is "q\n": fclose(wfp).
Quit ==
  /\ cpc = "input" /\ ~stdinEof
  /\ cpc' = "done"
  /\ conn' = Left(conn)
  /\ UNCHANGED <<crst, stdinEof, count, ends, input, answer, server, asked>>

-----------------------------------------------------------------------------
\* The client: fputs() and fflush(); an empty buffer writes nothing.

CliWrite ==
  /\ cpc = "write" /\ ServerThere /\ Len(asked) < MaxAsked
  /\ conn' = [conn EXCEPT !.up = @ \o input]
  /\ asked' = IF input = <<>> THEN asked ELSE Append(asked, input)
  /\ cpc' = "read"
  /\ UNCHANGED <<crst, stdinEof, count, ends, input, answer, server>>

\* The server is gone: the bytes are accepted and answered by a reset, of
\* which the next call tells.
CliWriteLost ==
  /\ cpc = "write" /\ ~ServerThere
  /\ \/ input = <<>> /\ UNCHANGED crst
     \/ input # <<>> /\ crst = "none" /\ crst' = "pending"
     \/ input # <<>> /\ crst = "pending" /\ crst' = "reported"
  /\ cpc' = "read"
  /\ UNCHANGED <<conn, stdinEof, count, ends, input, answer, server, asked>>

CliSigpipe ==
  /\ cpc = "write" /\ ~ServerThere /\ input # <<>> /\ crst # "none"
  /\ cpc' = "killed"
  /\ conn' = Left(conn)
  /\ UNCHANGED <<crst, stdinEof, count, ends, input, answer, server, asked>>

\* fgets(..., rfp) and fputs(..., stdout).
CliGets ==
  /\ cpc = "read"
  /\ \E n \in Lines(conn.down) :
       answer' = Front(conn.down, n) /\ conn' = Taken(conn, n)
  /\ cpc' = "input"
  /\ UNCHANGED <<crst, stdinEof, count, ends, input, server, asked>>

\* End of file or a reset: what is left of an echo, or the answer before,
\* which is printed once more.
CliGetsEof ==
  /\ cpc = "read" /\ ~ServerThere /\ Lines(conn.down) = {}
  /\ answer' = IF conn.down = <<>> THEN answer ELSE conn.down
  /\ conn' = Taken(conn, Len(conn.down))
  /\ crst' = IF crst = "pending" THEN "reported" ELSE crst
  /\ cpc' = "input"
  /\ UNCHANGED <<stdinEof, count, ends, input, server, asked>>

CliKilled ==
  /\ cpc \in {"input", "write", "read"}
  /\ cpc' = "killed"
  /\ conn' = Left(conn)
  /\ UNCHANGED <<crst, stdinEof, count, ends, input, answer, server, asked>>

ClientRuns == CliWrite \/ CliWriteLost \/ CliSigpipe \/ CliGets \/ CliGetsEof

-----------------------------------------------------------------------------
\* The server: fgets(..., rfp).

ServGets ==
  /\ spc = "read"
  /\ \E n \in Lines(conn.up) :
       line' = Front(conn.up, n) /\ conn' = AfterRead(conn, n)
  /\ spc' = "write"
  /\ UNCHANGED <<crst, client, feof, asked, stdout>>

\* End of file, after an unterminated line or in the place of a line.
ServGetsEof ==
  /\ spc = "read" /\ Lines(conn.up) = {} /\ conn.cli = "fin"
  /\ line' = IF conn.up = <<>> THEN line ELSE conn.up
  /\ conn' = AfterRead(conn, Len(conn.up))
  /\ feof' = TRUE
  /\ spc' = "write"
  /\ UNCHANGED <<crst, client, asked, stdout>>

\* A reset is an error, not an end of file: feof() stays false.
ServGetsFails ==
  /\ spc = "read" /\ ReadFails(conn)
  /\ conn' = Reported(conn)
  /\ spc' = "write"
  /\ UNCHANGED <<crst, client, feof, line, asked, stdout>>

\* fputs() to both, fflush() of both, and the loop's feof().
ServPrints ==
  /\ stdout' = IF line = <<>> THEN stdout ELSE Append(stdout, line)
  /\ spc' = IF feof THEN "done" ELSE "read"
  /\ UNCHANGED <<crst, client, feof, line, asked>>

ServWrite ==
  /\ spc = "write" /\ conn.cli = "open"
  /\ conn' = AfterWrite(conn, line, Len(line))
  /\ ServPrints

ServWriteLost ==
  /\ spc = "write"
  /\ \/ conn.cli # "open" /\ line = <<>> /\ UNCHANGED conn
     \/ line # <<>> /\ WriteDrawsReset(conn) /\ conn' = AfterReset(conn)
     \/ line # <<>> /\ WriteFails(conn) /\ conn' = Reported(conn)
  /\ ServPrints

\* The process is gone: unread bytes reset the connection.
ServGone ==
  /\ spc' = "killed"
  /\ crst' = IF conn.up # <<>> /\ conn.cli = "open" THEN "pending" ELSE crst
  /\ UNCHANGED <<conn, client, feof, line, asked, stdout>>

ServSigpipe == spc = "write" /\ line # <<>> /\ WriteKills(conn) /\ ServGone
ServKilled == ServerThere /\ ServGone

ServerRuns ==
  \/ ServGets \/ ServGetsEof \/ ServGetsFails
  \/ ServWrite \/ ServWriteLost \/ ServSigpipe

-----------------------------------------------------------------------------
StreamNext ==
  \/ TypeLine \/ TypePart \/ TypeRest \/ TypeEof \/ Quit
  \/ ClientRuns \/ CliKilled
  \/ ServerRuns \/ ServKilled

\* The programs are scheduled; nobody has to type or to be killed.
StreamFairness == WF_streamVars(ClientRuns) /\ WF_streamVars(ServerRuns)

StreamSpec == StreamInit /\ [][StreamNext]_streamVars /\ StreamFairness

-----------------------------------------------------------------------------
\* The server's fgets() will return with the client's buffer.
InOneCall(b) == Lines(b) # {}

Final(s) == s[Len(s)]

(* As long as the server is there, the client has the whole echo of its     *)
(* last buffer when it reads from stdin, and nothing more is on its way:    *)
(* both sides cut the stream up alike, lines longer than a buffer included. *)
NoLag ==
  cpc = "input" /\ ServerThere =>
    answer = input /\ conn.up = <<>> /\ conn.down = <<>>

(* feof() is true only after a read has failed: when the client has closed, *)
(* the server echoes and prints its last line once more; not if that line   *)
(* was unterminated, for then the same fgets() met the end of the file.     *)
LastLineTwice ==
  spc = "done" =>
    stdout = IF asked # <<>> /\ InOneCall(Final(asked))
               THEN Append(asked, Final(asked)) ELSE asked

\* The client awaits the echo of a buffer the server's fgets() goes on reading.
Stalled == cpc = "read" /\ ServerThere /\ ~InOneCall(input)

(* A line, or a buffer full of one, comes back.  If stdin ends without a    *)
(* newline (or with no line at all), the client waits for an echo and the   *)
(* server for a newline, until one of them is killed.                       *)
RoundTrip ==
  /\ cpc = "read" /\ InOneCall(input) ~> cpc # "read"
  /\ [][Stalled => Stalled' \/ Killed']_streamVars
=============================================================================
