----------------------------- MODULE Tcp_proofs -----------------------------
(****************************************************************************)
(* What the proofs about the servers have in common, whatever the sizes of  *)
(* buffers. The operations of Tcp keep a connection a connection. They also *)
(* keep its bytes in order (Flow): what the client has read, what is on its *)
(* way to it, what the server holds and what is on its way to the server    *)
(* are consecutive runs of the bytes sent. And the least and the greatest   *)
(* of a finite set of numbers exist.                                        *)
(****************************************************************************)
EXTENDS Tcp, FiniteSetsExt, SequenceTheorems, FiniteSetTheorems,
        WellFoundedInduction, TLAPS

(* A transfer splits a sequence into two sequences of the same kind.        *)
LEMMA SplitType ==
  ASSUME NEW S, NEW s \in Seq(S), NEW room, NEW n \in Counts(s, room)
  PROVE  /\ Front(s, n) \in Seq(S)
         /\ Rest(s, n) \in Seq(S)
BY DEF Counts, Front, Rest

(* ... that are the whole of it again when put together.                    *)
LEMMA SplitJoins ==
  ASSUME NEW S, NEW s \in Seq(S), NEW room, NEW n \in Counts(s, room)
  PROVE  Front(s, n) \o Rest(s, n) = s
BY DEF Counts, Front, Rest

(* What is transferred is not empty, and the rest is when it was all.       *)
LEMMA FrontNotEmpty ==
  ASSUME NEW S, NEW s \in Seq(S), NEW room, NEW n \in Counts(s, room)
  PROVE  Front(s, n) # <<>>
<1>1. n \in Nat /\ 1 <= n /\ n <= Len(s) /\ Len(s) \in Nat
  BY DEF Counts
<1>2. Len(Front(s, n)) = n
  BY <1>1 DEF Front
<1> QED
  BY <1>1, <1>2

(* ... and only then.                                                       *)
LEMMA RestEmpty ==
  ASSUME NEW S, NEW s \in Seq(S), NEW room, NEW n \in Counts(s, room)
  PROVE  Rest(s, n) = <<>> <=> n = Len(s)
<1>1. n \in Nat /\ 1 <= n /\ n <= Len(s) /\ Len(s) \in Nat
  BY DEF Counts
<1>2. Rest(s, n) \in Seq(S) /\ Len(Rest(s, n)) = Len(s) - n
  BY <1>1, SplitType DEF Rest
<1>3. Rest(s, n) = <<>> <=> Len(Rest(s, n)) = 0
  BY <1>2, EmptySeq
<1> QED
  BY <1>1, <1>2, <1>3

(* What the client does to a connection.                                    *)
LEMMA ClientOpsType ==
  ASSUME NEW k \in Connection
  PROVE  /\ Connected(k) \in Connection
         /\ Left(k) \in Connection
         /\ \A byte \in Nat : Sent(k, byte) \in Connection
         /\ \A room : \A n \in Counts(k.down, room) : Taken(k, n) \in Connection
<1>1. Connected(k) \in Connection
  BY DEF Connection, Connected
<1>2. Left(k) \in Connection
  <2>1. <<>> \in Seq(Nat)
    OBVIOUS
  <2> QED
    BY <2>1 DEF Connection, Left
<1>3. ASSUME NEW byte \in Nat PROVE Sent(k, byte) \in Connection
  <2>1. k.up \in Seq(Nat)
    BY DEF Connection
  <2>2. Append(k.up, byte) \in Seq(Nat)
    BY <2>1, AppendProperties
  <2> QED
    BY <2>2 DEF Connection, Sent
<1>4. ASSUME NEW room, NEW n \in Counts(k.down, room)
      PROVE  Taken(k, n) \in Connection
  <2>1. Rest(k.down, n) \in Seq(Nat)
    BY SplitType DEF Connection
  <2> QED
    BY <2>1 DEF Connection, Taken
<1> QED
  BY <1>1, <1>2, <1>3, <1>4

(* What the server's read() and write() do to it.                           *)
LEMMA ServerOpsType ==
  ASSUME NEW k \in Connection, NEW buf \in Seq(Nat)
  PROVE  /\ \A n \in Reads(k) : AfterRead(k, n) \in Connection
         /\ \A n \in Writes(k, buf) : AfterWrite(k, buf, n) \in Connection
         /\ AfterReset(k) \in Connection
         /\ Reported(k) \in Connection
<1>1. ASSUME NEW n \in Reads(k) PROVE AfterRead(k, n) \in Connection
  <2>1. Rest(k.up, n) \in Seq(Nat)
    BY SplitType DEF Connection, Reads
  <2> QED
    BY <2>1 DEF Connection, AfterRead
<1>2. ASSUME NEW n \in Writes(k, buf) PROVE AfterWrite(k, buf, n) \in Connection
  <2>1. n \in Counts(buf, Cap - Len(k.down))
    BY DEF Writes
  <2>2. Front(buf, n) \in Seq(Nat)
    BY <2>1, SplitType
  <2>3. k.down \o Front(buf, n) \in Seq(Nat)
    BY <2>2 DEF Connection
  <2> QED
    BY <2>3 DEF Connection, AfterWrite
<1>3. AfterReset(k) \in Connection /\ Reported(k) \in Connection
  BY DEF Connection, AfterReset, Reported
<1> QED
  BY <1>1, <1>2, <1>3

-----------------------------------------------------------------------------
\* Only a client that has left resets its connection.
Quiet(k) == k.cli \in {"none", "open"} => k.rst = "none"

\* What a step may make of a connection.
Keeps(k, m) ==
  /\ m.cli = "none" => k.cli = "none"
  /\ Quiet(k) => Quiet(m)

StaysReadable(k, m) == Quiet(k) /\ Readable(k) => Readable(m)

(* A stream with a byte more is not empty.                                  *)
LEMMA AppendedNotEmpty ==
  ASSUME NEW s \in Seq(Nat), NEW byte \in Nat
  PROVE  Append(s, byte) # <<>>
BY AppendProperties

(* No operation but a read() makes a readable connection unreadable.        *)
LEMMA OpsKeep ==
  ASSUME NEW k \in Connection
  PROVE  /\ Keeps(k, k) /\ StaysReadable(k, k)
         /\ \A byte \in Nat :
              Keeps(k, Sent(k, byte)) /\ StaysReadable(k, Sent(k, byte))
         /\ \A n : Keeps(k, Taken(k, n)) /\ StaysReadable(k, Taken(k, n))
         /\ k.cli = "open" => Keeps(k, Left(k)) /\ StaysReadable(k, Left(k))
         /\ \A n : Keeps(k, AfterRead(k, n))
         /\ \A b, n : /\ Keeps(k, AfterWrite(k, b, n))
                      /\ StaysReadable(k, AfterWrite(k, b, n))
         /\ WriteDrawsReset(k) =>
              Keeps(k, AfterReset(k)) /\ StaysReadable(k, AfterReset(k))
         /\ k.rst # "none" =>
              Keeps(k, Reported(k)) /\ StaysReadable(k, Reported(k))
<1> USE DEF Connection, Keeps, StaysReadable, Quiet, Readable, ReadMeetsEof,
            ReadFails
<1>1. Keeps(k, k) /\ StaysReadable(k, k)
  OBVIOUS
<1>2. ASSUME NEW byte \in Nat
      PROVE  Keeps(k, Sent(k, byte)) /\ StaysReadable(k, Sent(k, byte))
  <2>1. k.up \in Seq(Nat)
    OBVIOUS
  <2>3. Append(k.up, byte) # <<>>
    BY <2>1, AppendedNotEmpty
  <2> QED
    BY <2>3 DEF Sent
<1>3. ASSUME NEW n
      PROVE  Keeps(k, Taken(k, n)) /\ StaysReadable(k, Taken(k, n))
  BY DEF Taken
<1>4. ASSUME k.cli = "open"
      PROVE  Keeps(k, Left(k)) /\ StaysReadable(k, Left(k))
  BY <1>4 DEF Left
<1>5. ASSUME NEW n PROVE Keeps(k, AfterRead(k, n))
  BY DEF AfterRead
<1>6. ASSUME NEW b, NEW n
      PROVE  /\ Keeps(k, AfterWrite(k, b, n))
             /\ StaysReadable(k, AfterWrite(k, b, n))
  BY DEF AfterWrite
<1>7. ASSUME WriteDrawsReset(k)
      PROVE  Keeps(k, AfterReset(k)) /\ StaysReadable(k, AfterReset(k))
  BY <1>7 DEF WriteDrawsReset, AfterReset
<1>8. ASSUME k.rst # "none"
      PROVE  Keeps(k, Reported(k)) /\ StaysReadable(k, Reported(k))
  BY <1>8 DEF Reported
<1> QED
  BY <1>1, <1>2, <1>3, <1>4, <1>5, <1>6, <1>7, <1>8

-----------------------------------------------------------------------------
\* The bytes of a connection are numbered: s has those from a + 1 to z.
Run(s, a, z) == z = a + Len(s) /\ \A i \in 1..Len(s) : s[i] = a + i

(* A run can be empty.                                                      *)
LEMMA RunEmpty ==
  ASSUME NEW a \in Nat
  PROVE  Run(<<>>, a, a) /\ \A z : Run(<<>>, a, z) => z = a
BY DEF Run

(* A run only goes up.                                                      *)
LEMMA RunUp ==
  ASSUME NEW s \in Seq(Nat), NEW a \in Nat, NEW z \in Nat, Run(s, a, z)
  PROVE  a <= z /\ (s # <<>> => a < z)
<1>1. Len(s) \in Nat /\ (s # <<>> => Len(s) # 0)
  BY EmptySeq
<1> QED
  BY <1>1 DEF Run

(* One more byte goes on where a run ends.                                  *)
LEMMA RunAppend ==
  ASSUME NEW s \in Seq(Nat), NEW a \in Nat, NEW z \in Nat, Run(s, a, z)
  PROVE  Run(Append(s, z + 1), a, z + 1)
<1> DEFINE r == Append(s, z + 1)
<1>1. Len(s) \in Nat /\ z = a + Len(s)
  BY DEF Run
<1>2. /\ Len(r) = Len(s) + 1
      /\ \A i \in 1..Len(s) : r[i] = s[i]
      /\ r[Len(s) + 1] = z + 1
  BY AppendProperties
<1> HIDE DEF r
<1>3. ASSUME NEW i \in 1..(Len(s) + 1) PROVE r[i] = a + i
  <2>1. CASE i \in 1..Len(s)
    BY <1>2, <2>1 DEF Run
  <2>2. CASE i = Len(s) + 1
    BY <1>1, <1>2, <2>2
  <2> QED
    BY <1>1, <2>1, <2>2
<1>4. Run(r, a, z + 1)
  BY <1>1, <1>2, <1>3 DEF Run
<1> QED
  BY <1>4 DEF r

(* So does another run.                                                     *)
LEMMA RunConcat ==
  ASSUME NEW s \in Seq(Nat), NEW t \in Seq(Nat), NEW a \in Nat, NEW m \in Nat,
         NEW z \in Nat, Run(s, a, m), Run(t, m, z)
  PROVE  Run(s \o t, a, z)
<1> DEFINE r == s \o t
<1>1. Len(s) \in Nat /\ Len(t) \in Nat /\ m = a + Len(s) /\ z = m + Len(t)
  BY DEF Run
<1>2. /\ Len(r) = Len(s) + Len(t)
      /\ \A i \in 1..(Len(s) + Len(t)) :
           r[i] = IF i <= Len(s) THEN s[i] ELSE t[i - Len(s)]
  BY ConcatProperties
<1> HIDE DEF r
<1>3. ASSUME NEW i \in 1..(Len(s) + Len(t)) PROVE r[i] = a + i
  <2>1. CASE i <= Len(s)
    <3>1. i \in 1..Len(s)
      BY <1>1, <2>1
    <3> QED
      BY <1>2, <2>1, <3>1 DEF Run
  <2>2. CASE ~(i <= Len(s))
    <3>1. i - Len(s) \in 1..Len(t)
      BY <1>1, <2>2
    <3>2. t[i - Len(s)] = m + (i - Len(s))
      BY <3>1 DEF Run
    <3> QED
      BY <1>1, <1>2, <2>2, <3>2
  <2> QED
    BY <2>1, <2>2
<1>4. Run(r, a, z)
  BY <1>1, <1>2, <1>3 DEF Run
<1> QED
  BY <1>4 DEF r

(* A transfer splits a run into two.                                        *)
LEMMA RunSplit ==
  ASSUME NEW s \in Seq(Nat), NEW a \in Nat, NEW z \in Nat, Run(s, a, z),
         NEW room, NEW n \in Counts(s, room)
  PROVE  /\ n \in Nat /\ a + n \in Nat
         /\ Run(Front(s, n), a, a + n)
         /\ Run(Rest(s, n), a + n, z)
<1>1. /\ n \in Nat /\ 1 <= n /\ n <= Len(s) /\ Len(s) \in Nat
      /\ z = a + Len(s)
  BY DEF Counts, Run
<1>2. /\ Len(Front(s, n)) = n
      /\ \A i \in 1..n : Front(s, n)[i] = s[i]
  BY <1>1 DEF Front
<1>3. /\ Len(Rest(s, n)) = Len(s) - n
      /\ \A i \in 1..(Len(s) - n) : Rest(s, n)[i] = s[n + i]
  BY <1>1 DEF Rest
<1>4. \A i \in 1..n : i \in 1..Len(s)
  BY <1>1
<1>5. Run(Front(s, n), a, a + n)
  BY <1>2, <1>4 DEF Run
<1>6. \A i \in 1..(Len(s) - n) : n + i \in 1..Len(s) /\ a + (n + i) = (a + n) + i
  BY <1>1
<1>7. z = (a + n) + (Len(s) - n)
  BY <1>1
<1>8. Run(Rest(s, n), a + n, z)
  BY <1>3, <1>6, <1>7 DEF Run
<1> QED
  BY <1>1, <1>5, <1>8

(* A run from the first byte on is the stream up to its last.               *)
LEMMA RunIsStream ==
  ASSUME NEW s \in Seq(Nat), NEW z \in Nat, Run(s, 0, z)
  PROVE  s = [i \in 1..z |-> i] /\ Len(s) = z
<1>1. Len(s) = z /\ s = [i \in 1..Len(s) |-> s[i]]
  BY DEF Run
<1>2. \A i \in 1..Len(s) : s[i] = i
  BY <1>1 DEF Run
<1> QED
  BY <1>1, <1>2

-----------------------------------------------------------------------------
\* The n bytes a client has sent: it has read g, the server holds b.  All of
\* them are in order; while the client is there none is missing, afterwards
\* some may be lost between g and b, and b and what is still to be read.
Present(k) == k.cli \in {"none", "open"}

Flow(g, k, b, n) ==
  \E x, y, z, w \in Nat :
    /\ x <= y /\ z <= w
    /\ Run(g, 0, x) /\ Run(b, y, z) /\ Run(k.up, w, n)
    /\ Present(k) => Run(k.down, x, y) /\ z = w

(* The flow begins with a connection that has not been made.                *)
LEMMA FlowBegins ==
  /\ <<>> \in Seq(Nat) /\ Unconnected \in Connection
  /\ Flow(<<>>, Unconnected, <<>>, 0)
<1>1. <<>> \in Seq(Nat) /\ Run(<<>>, 0, 0)
  BY RunEmpty
<1> QED
  BY <1>1 DEF Flow, Unconnected, Connection

(* The client's calls keep it.                                              *)
LEMMA FlowClient ==
  ASSUME NEW g \in Seq(Nat), NEW k \in Connection, NEW b \in Seq(Nat),
         NEW n \in Nat, Flow(g, k, b, n)
  PROVE  /\ Present(k) => Flow(g, Connected(k), b, n)
         /\ k.cli = "open" => Flow(g, Sent(k, n + 1), b, n + 1)
         /\ k.cli = "open" => Flow(g, Left(k), b, n)
         /\ k.cli = "open" => \A room : \A m \in Counts(k.down, room) :
              Flow(g \o Front(k.down, m), Taken(k, m), b, n)
<1>0. k.up \in Seq(Nat) /\ k.down \in Seq(Nat)
  BY DEF Connection
<1>1. PICK x \in Nat, y \in Nat, z \in Nat, w \in Nat :
        /\ x <= y /\ z <= w
        /\ Run(g, 0, x) /\ Run(b, y, z) /\ Run(k.up, w, n)
        /\ Present(k) => Run(k.down, x, y) /\ z = w
  BY DEF Flow
<1>2. Present(k) => Flow(g, Connected(k), b, n)
  BY <1>1 DEF Flow, Present, Connected, Connection
<1>3. ASSUME k.cli = "open" PROVE Flow(g, Sent(k, n + 1), b, n + 1)
  <2>1. /\ Sent(k, n + 1).up = Append(k.up, n + 1)
        /\ Sent(k, n + 1).down = k.down /\ Sent(k, n + 1).cli = "open"
    BY <1>3 DEF Sent, Connection
  <2>2. Run(Append(k.up, n + 1), w, n + 1)
    BY <1>0, <1>1, RunAppend
  <2> QED
    BY <1>1, <1>3, <2>1, <2>2 DEF Flow, Present
<1>4. ASSUME k.cli = "open" PROVE Flow(g, Left(k), b, n)
  <2>1. ~Present(Left(k)) /\ Left(k).up = k.up
    BY DEF Left, Connection, Present
  <2> QED
    BY <1>1, <2>1 DEF Flow
<1>5. ASSUME NEW room, NEW m \in Counts(k.down, room), k.cli = "open"
      PROVE  Flow(g \o Front(k.down, m), Taken(k, m), b, n)
  <2>1. /\ Taken(k, m).down = Rest(k.down, m)
        /\ Taken(k, m).up = k.up /\ Taken(k, m).cli = "open"
    BY <1>5 DEF Taken, Connection
  <2>2. Run(k.down, x, y) /\ z = w
    BY <1>1, <1>5 DEF Present
  <2>3. /\ x + m \in Nat /\ Run(Front(k.down, m), x, x + m)
        /\ Run(Rest(k.down, m), x + m, y)
    BY <1>0, <1>1, <2>2, RunSplit
  <2>4. Front(k.down, m) \in Seq(Nat) /\ Rest(k.down, m) \in Seq(Nat)
    BY <1>0, SplitType
  <2>5. Run(g \o Front(k.down, m), 0, x + m)
    BY <1>1, <2>3, <2>4, RunConcat
  <2>6. x + m <= y
    BY <1>1, <2>3, <2>4, RunUp
  <2> QED
    BY <1>1, <2>1, <2>2, <2>3, <2>5, <2>6 DEF Flow
<1> QED
  BY <1>2, <1>3, <1>4, <1>5

(* So do the server's.                                                      *)
LEMMA FlowServer ==
  ASSUME NEW g \in Seq(Nat), NEW k \in Connection, NEW b \in Seq(Nat),
         NEW n \in Nat, Flow(g, k, b, n)
  PROVE  /\ b = <<>> =>
              \A m \in Reads(k) : Flow(g, AfterRead(k, m), Front(k.up, m), n)
         /\ \A m \in Writes(k, b) : Flow(g, AfterWrite(k, b, m), Rest(b, m), n)
         /\ Flow(g, Reported(k), b, n) /\ Flow(g, AfterReset(k), b, n)
         /\ ~Present(k) => Flow(g, k, <<>>, n)
<1>0. k.up \in Seq(Nat) /\ k.down \in Seq(Nat)
  BY DEF Connection
<1>1. PICK x \in Nat, y \in Nat, z \in Nat, w \in Nat :
        /\ x <= y /\ z <= w
        /\ Run(g, 0, x) /\ Run(b, y, z) /\ Run(k.up, w, n)
        /\ Present(k) => Run(k.down, x, y) /\ z = w
  BY DEF Flow
<1>2. y <= z
  BY <1>1, RunUp
<1>3. ASSUME b = <<>>, NEW m \in Reads(k)
      PROVE  Flow(g, AfterRead(k, m), Front(k.up, m), n)
  <2>1. m \in Counts(k.up, BufSize)
    BY DEF Reads
  <2>2. /\ AfterRead(k, m).up = Rest(k.up, m)
        /\ AfterRead(k, m).down = k.down /\ AfterRead(k, m).cli = k.cli
    BY DEF AfterRead, Connection
  <2>3. /\ w + m \in Nat /\ Run(Front(k.up, m), w, w + m)
        /\ Run(Rest(k.up, m), w + m, n)
    BY <1>0, <1>1, <2>1, RunSplit
  <2>4. z = y
    BY <1>1, <1>3, RunEmpty
  <2>5. x <= w
    BY <1>1, <2>4
  <2>6. Present(AfterRead(k, m)) => Run(AfterRead(k, m).down, x, w)
    BY <1>1, <2>2, <2>4 DEF Present
  <2> QED
    BY <1>1, <2>2, <2>3, <2>5, <2>6 DEF Flow
<1>4. ASSUME NEW m \in Writes(k, b)
      PROVE  Flow(g, AfterWrite(k, b, m), Rest(b, m), n)
  <2>1. k.cli = "open" /\ m \in Counts(b, Cap - Len(k.down))
    BY DEF Writes
  <2>2. /\ AfterWrite(k, b, m).down = k.down \o Front(b, m)
        /\ AfterWrite(k, b, m).up = k.up /\ AfterWrite(k, b, m).cli = "open"
    BY <2>1 DEF AfterWrite, Connection
  <2>3. Run(k.down, x, y) /\ z = w
    BY <1>1, <2>1 DEF Present
  <2>4. /\ m \in Nat /\ y + m \in Nat /\ Run(Front(b, m), y, y + m)
        /\ Run(Rest(b, m), y + m, z)
    BY <1>1, <2>1, RunSplit
  <2>5. Front(b, m) \in Seq(Nat) /\ Rest(b, m) \in Seq(Nat)
    BY <2>1, SplitType
  <2>6. Run(k.down \o Front(b, m), x, y + m)
    BY <1>0, <1>1, <2>3, <2>4, <2>5, RunConcat
  <2>7. x <= y + m
    BY <1>1, <2>4
  <2> QED
    BY <1>1, <2>2, <2>3, <2>4, <2>6, <2>7 DEF Flow
<1>5. Flow(g, Reported(k), b, n) /\ Flow(g, AfterReset(k), b, n)
  BY <1>1 DEF Flow, Present, Reported, AfterReset, Connection
<1>6. ASSUME ~Present(k) PROVE Flow(g, k, <<>>, n)
  <2>1. Run(<<>>, y, y)
    BY RunEmpty
  <2>2. y <= w
    BY <1>1, <1>2
  <2> QED
    BY <1>1, <1>6, <2>1, <2>2 DEF Flow
<1> QED
  BY <1>3, <1>4, <1>5, <1>6

(* A client that is not there any more has no claim to what the server      *)
(* still holds of its bytes.                                                *)
LEMMA AbsentFlow ==
  ASSUME NEW g \in Seq(Nat), NEW k \in Connection, NEW b \in Seq(Nat),
         NEW n \in Nat, Flow(g, k, b, n), ~Present(k)
  PROVE  /\ Flow(g, k, <<>>, n)
         /\ Flow(g, Reported(k), <<>>, n)
         /\ Flow(g, AfterReset(k), <<>>, n)
<1>1. Flow(g, k, <<>>, n)
  BY FlowServer
<1> QED
  BY <1>1, FlowBegins, FlowServer

(* The errors and the end of file a call can meet are of clients that have  *)
(* left.                                                                    *)
LEMMA ErrorsOfAbsent ==
  ASSUME NEW k, Quiet(k),
         \/ ReadMeetsEof(k) \/ ReadFails(k) \/ WriteDrawsReset(k)
         \/ WriteFails(k) \/ WriteKills(k)
  PROVE  ~Present(k)
BY DEF Quiet, Present, ReadMeetsEof, ReadFails, WriteDrawsReset, WriteFails,
  WriteKills

\* All of a connection's bytes, and those that were sent.
AllBytes(g, k, b) == g \o k.down \o b \o k.up
Numbered(n) == [i \in 1..n |-> i]

(* What the flow says: the pieces put together are the stream; what the     *)
(* client has read is the beginning of it, and all of it only if the server *)
(* holds no more.                                                           *)
LEMMA FlowIsStream ==
  ASSUME NEW g \in Seq(Nat), NEW k \in Connection, NEW b \in Seq(Nat),
         NEW n \in Nat, Flow(g, k, b, n)
  PROVE  /\ k.cli = "open" => AllBytes(g, k, b) = Numbered(n)
         /\ Len(g) <= n
         /\ b # <<>> \/ (Present(k) /\ k.down # <<>>) => Len(g) < n
         /\ g = Numbered(Len(g))
<1>0. k.up \in Seq(Nat) /\ k.down \in Seq(Nat)
  BY DEF Connection
<1>1. PICK x \in Nat, y \in Nat, z \in Nat, w \in Nat :
        /\ x <= y /\ z <= w
        /\ Run(g, 0, x) /\ Run(b, y, z) /\ Run(k.up, w, n)
        /\ Present(k) => Run(k.down, x, y) /\ z = w
  BY DEF Flow
<1>2. /\ y <= z /\ (b # <<>> => y < z) /\ w <= n
  BY <1>0, <1>1, RunUp
<1>3. Len(g) = x /\ g = [i \in 1..x |-> i]
  BY <1>1, RunIsStream
<1>4. ASSUME k.cli = "open"
      PROVE  AllBytes(g, k, b) = Numbered(n)
  <2> DEFINE gd == g \o k.down
             gdb == gd \o b
             all == gdb \o k.up
  <2>1. gd \in Seq(Nat) /\ gdb \in Seq(Nat) /\ all \in Seq(Nat)
    BY <1>0, ConcatProperties
  <2>2. Run(k.down, x, y) /\ z = w
    BY <1>1, <1>4 DEF Present
  <2>3. Run(gd, 0, y)
    BY <1>0, <1>1, <2>2, RunConcat
  <2>4. Run(gdb, 0, z)
    BY <1>1, <2>1, <2>3, RunConcat
  <2>5. Run(all, 0, n)
    BY <1>0, <1>1, <2>1, <2>2, <2>4, RunConcat
  <2> QED
    BY <2>1, <2>5, RunIsStream DEF AllBytes, Numbered
<1>8. Present(k) /\ k.down # <<>> => x < y
  BY <1>0, <1>1, RunUp
<1>5. x <= n /\ (b # <<>> \/ (Present(k) /\ k.down # <<>>) => x < n)
  BY <1>1, <1>2, <1>8
<1>6. g = Numbered(Len(g))
  BY <1>3, Zenon DEF Numbered
<1>7. /\ Len(g) <= n
      /\ b # <<>> \/ (Present(k) /\ k.down # <<>>) => Len(g) < n
  BY <1>3, <1>5
<1> QED
  BY <1>4, <1>6, <1>7

-----------------------------------------------------------------------------
(* What a listen queue holds when a connection joins it ...                 *)
LEMMA RangeAppend ==
  ASSUME NEW S, NEW q \in Seq(S), NEW c \in S
  PROVE  Range(Append(q, c)) = Range(q) \union {c}
<1>1. /\ Len(q) \in Nat
      /\ DOMAIN q = 1..Len(q) /\ DOMAIN Append(q, c) = 1..(Len(q) + 1)
      /\ \A i \in 1..Len(q) : Append(q, c)[i] = q[i]
      /\ Append(q, c)[Len(q) + 1] = c
  BY AppendProperties, LenProperties
<1>2. \A i \in 1..(Len(q) + 1) : i \in 1..Len(q) \/ i = Len(q) + 1
  BY <1>1
<1>3. 1..Len(q) \subseteq 1..(Len(q) + 1) /\ Len(q) + 1 \in 1..(Len(q) + 1)
  BY <1>1
<1> HIDE DEF Range
<1>4. Range(q) = { q[i] : i \in 1..Len(q) }
  BY <1>1 DEF Range
<1>5. Range(Append(q, c)) = { Append(q, c)[i] : i \in 1..(Len(q) + 1) }
  BY <1>1 DEF Range
<1> QED
  BY <1>1, <1>2, <1>3, <1>4, <1>5

(* ... and when accept() takes the first.                                   *)
LEMMA RangeHeadTail ==
  ASSUME NEW S, NEW q \in Seq(S), q # <<>>
  PROVE  Range(q) = {Head(q)} \union Range(Tail(q))
<1>1. /\ Len(q) \in Nat \ {0} /\ Tail(q) \in Seq(S) /\ Head(q) = q[1]
      /\ DOMAIN q = 1..Len(q) /\ DOMAIN Tail(q) = 1..(Len(q) - 1)
      /\ \A i \in 1..(Len(q) - 1) : Tail(q)[i] = q[i + 1]
  BY HeadTailProperties, LenProperties, EmptySeq
<1>2. /\ 1 \in 1..Len(q)
      /\ \A i \in 1..Len(q) : i = 1 \/ (i - 1 \in 1..(Len(q) - 1) /\ (i - 1) + 1 = i)
      /\ \A i \in 1..(Len(q) - 1) : i + 1 \in 1..Len(q)
  BY <1>1
<1>3. Range(q) = { q[i] : i \in 1..Len(q) }
  BY <1>1 DEF Range
<1>4. Range(Tail(q)) = { Tail(q)[i] : i \in 1..(Len(q) - 1) }
  BY <1>1 DEF Range
<1>5. ASSUME NEW x \in Range(q) PROVE x \in {Head(q)} \union Range(Tail(q))
  <2>1. PICK i \in 1..Len(q) : x = q[i]
    BY <1>3
  <2>2. CASE i = 1
    BY <1>1, <2>1, <2>2
  <2>3. CASE i # 1
    <3>1. i - 1 \in 1..(Len(q) - 1) /\ x = Tail(q)[i - 1]
      BY <1>1, <1>2, <2>1, <2>3
    <3> QED
      BY <1>4, <3>1
  <2> QED
    BY <2>2, <2>3
<1>6. ASSUME NEW x \in {Head(q)} \union Range(Tail(q)) PROVE x \in Range(q)
  BY <1>1, <1>2, <1>3, <1>4, <1>6
<1> QED
  BY <1>5, <1>6

(* A read() that returns makes what has been read longer.                   *)
LEMMA TakenLonger ==
  ASSUME NEW g \in Seq(Nat), NEW s \in Seq(Nat), NEW room, NEW n \in Counts(s, room)
  PROVE  /\ Len(g) \in Nat /\ Len(g \o Front(s, n)) \in Nat /\ n \in Nat
         /\ Len(g \o Front(s, n)) = Len(g) + n
         /\ Len(g) < Len(g \o Front(s, n))
<1>1. n \in Nat /\ 1 <= n /\ n <= Len(s) /\ Len(s) \in Nat /\ Len(g) \in Nat
  BY DEF Counts
<1>2. Front(s, n) \in Seq(Nat) /\ Len(Front(s, n)) = n
  BY <1>1, SplitType DEF Front
<1>3. Len(g \o Front(s, n)) = Len(g) + n
  BY <1>2, ConcatProperties
<1> QED
  BY <1>1, <1>3

(* A set of naturals that is not empty has a smallest element ...           *)
LEMMA SmallestOf ==
  ASSUME NEW S \in SUBSET Nat, S # {}
  PROVE  \E m \in S : \A n \in S : m =< n
<1> DEFINE Less == OpToRel(<, Nat)
<1>1. IsWellFoundedOn(Less, Nat)
  BY NatLessThanWellFounded, Zenon
<1> HIDE DEF Less
<1>2. PICK x \in S : \A y \in S : ~ (<<y, x>> \in Less)
  BY <1>1, WFMin
<1>3. \A y \in S : y < x => <<y, x>> \in Less
  BY DEF Less, OpToRel
<1>4. \A y \in S : x =< y
  <2>1. \A y \in S : ~ (y < x)
    BY <1>2, <1>3, Zenon
  <2>2. x \in Nat /\ \A y \in S : y \in Nat
    OBVIOUS
  <2> QED
    BY <2>1, <2>2
<1> QED
  BY <1>4

(* ... which is what Min names.                                             *)
LEMMA MinIsIn ==
  ASSUME NEW S \in SUBSET Nat, S # {}
  PROVE  Min(S) \in S
BY SmallestOf DEF Min

(* A finite set of numbers has a greatest one: a smallest set without would *)
(* have none without any of its elements either.                            *)
LEMMA MaxOfFinite ==
  ASSUME NEW S \in SUBSET Nat, IsFiniteSet(S), S # {}
  PROVE  Max(S) \in S /\ \A x \in S : x <= Max(S)
<1> DEFINE Greatest(T, m) == m \in T /\ \A y \in T : m >= y
           Sizes == { n \in Nat : \E T \in SUBSET S :
                        T # {} /\ Cardinality(T) = n /\ ~ \E m : Greatest(T, m) }
           Less == OpToRel(<, Nat)
<1>1. IsWellFoundedOn(Less, Nat)
  BY NatLessThanWellFounded, Zenon
<1>2. \A T \in SUBSET S : IsFiniteSet(T) /\ Cardinality(T) \in Nat
  BY FS_Subset, FS_CardinalityType
<1>3. Sizes = {}
  <2> SUFFICES ASSUME Sizes # {} PROVE FALSE
    OBVIOUS
  <2>1. PICK n \in Sizes : \A m \in Sizes : ~ (<<m, n>> \in Less)
    <3>1. Sizes \subseteq Nat
      OBVIOUS
    <3> HIDE DEF Sizes, Less
    <3> QED
      BY <1>1, <3>1, WFMin
  <2>2. \A m \in Sizes : ~ (m < n)
    <3>1. \A m, k \in Nat : m < k => <<m, k>> \in Less
      BY DEF OpToRel
    <3>2. n \in Nat /\ \A m \in Sizes : m \in Nat
      OBVIOUS
    <3> HIDE DEF Sizes, Less
    <3> QED
      BY <2>1, <3>1, <3>2
  <2>3. PICK T \in SUBSET S :
          T # {} /\ Cardinality(T) = n /\ ~ \E m : Greatest(T, m)
    OBVIOUS
  <2>4. PICK x : x \in T
    BY <2>3
  <2> DEFINE U == T \ {x}
  <2>5. x \in Nat /\ U \in SUBSET S /\ U \in SUBSET Nat
    BY <2>4
  <2>6. Cardinality(U) = n - 1 /\ n \in Nat /\ Cardinality(U) \in Nat
    BY <1>2, <2>3, <2>4, <2>5, FS_RemoveElement
  <2>7. CASE U = {}
    <3>1. Greatest(T, x)
      BY <2>4, <2>5, <2>7
    <3> QED
      BY <2>3, <3>1
  <2>8. CASE U # {}
    <3>0. Cardinality(U) < n
      BY <2>6
    <3>1. Cardinality(U) \notin Sizes
      BY <2>2, <3>0, Zenon
    <3>2. PICK m : Greatest(U, m)
      BY <2>5, <2>6, <2>8, <3>1
    <3>3. m \in Nat /\ m \in T /\ \A y \in T : y = x \/ m >= y
      BY <2>5, <3>2
    <3>4. Greatest(T, m) \/ Greatest(T, x)
      <4>1. CASE m >= x
        BY <3>3, <4>1
      <4>2. CASE x >= m
        BY <2>4, <2>5, <3>3, <4>2
      <4> QED
        BY <2>5, <3>3, <4>1, <4>2
    <3> QED
      BY <2>3, <3>4
  <2> QED
    BY <2>7, <2>8
<1>4. \E m \in S : \A y \in S : m >= y
  <2>1. Cardinality(S) \notin Sizes
    BY <1>3
  <2> QED
    BY <1>2, <2>1
<1>5. Max(S) \in S /\ \A y \in S : Max(S) >= y
  BY <1>4 DEF Max
<1> QED
  BY <1>5
=============================================================================
