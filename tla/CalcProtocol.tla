----------------------------- MODULE CalcProtocol -----------------------------
(****************************************************************************)
(* 5-1-2-calc: one request and one answer between calcclient.c and          *)
(* calcserver.c, byte by byte on the wire.                                  *)
(*                                                                          *)
(* make_msg_header() stores the size of the operands alone, and main()      *)
(* writes that many bytes of the msg_t it got back: header and operands     *)
(* less the last three bytes.  The receiver reads as many, into a buffer of *)
(* zeroes.  (A 64-bit little-endian build, where a msg_t has 16 bytes and   *)
(* is copied whole, its padding included.)                                  *)
(****************************************************************************)
EXTENDS Integers, Sequences, FiniteSets

CONSTANTS
  Requests,   \* what may be typed: [cnt, op, oprs], op as scanf() stores it
  Garbage     \* what the stack may hold after a msg_t

Int32 == { v \in Int : -2147483647 - 1 <= v /\ v <= 2147483647 }

ASSUME CalcAssumption ==
  /\ \A r \in Requests :
       /\ r.cnt \in -128..127
       /\ r.op \in 0..127
       /\ r.oprs \in Seq(Int32)
       /\ Len(r.oprs) = IF r.cnt < 0 THEN 0 ELSE r.cnt
  /\ Garbage \subseteq 0..255 /\ Garbage # {}

VARIABLES
  request,    \* what the client's user typed
  cliPc,      \* prompt, recv or done
  servPc,     \* recv, done or crashed
  up, down,   \* the bytes on their way to the server and to the client
  servBuf,    \* what recv_msg() has read at the server
  cliBuf,     \* what recv_msg() has read at the client
  result,     \* the server's result
  printed     \* "Result from calc server: %d"

calcVars == <<request, cliPc, servPc, up, down, servBuf, cliBuf, result, printed>>

-----------------------------------------------------------------------------
\* Fixed-width integers.

\* Fault: the byte is not cut out of the word.
ByteUncut(v, k) == v \div <<1, 256, 65536, 16777216>>[k + 1]

Int8(v) == ((v + 128) % 256) - 128                       \* int8_t
Byte(v, k) ==                                            \* little-endian
  (v \div <<1, 256, 65536, 16777216>>[k + 1]) % 256
Word(b0, b1, b2, b3) ==
  b0 + 256 * b1 + 65536 * b2 + 16777216 * (IF b3 < 128 THEN b3 ELSE b3 - 256)

\* a / b of C: towards zero.
Quotient(a, b) ==
  LET abs == IF b < 0 THEN -b ELSE b
      q == IF a < 0 /\ a % abs # 0 THEN (a \div abs) + 1 ELSE a \div abs
  IN  IF b < 0 THEN -q ELSE q

\* What C leaves undefined: by zero, or INT32_MIN by -1.
NoQuotient(a, b) == b = 0 \/ (b = -1 /\ a = -2147483647 - 1)

Plus == 43
Minus == 45
Times == 42
Divide == 47
Equals == 61
Ops == {Plus, Minus, Times, Divide}

-----------------------------------------------------------------------------
\* eval_msg.c.  Operands are numbered from 0, by a function opr.  Results are
\* not bounded here: past int32_t C leaves them undefined, and what is said
\* below of a calculation that goes there is said of the numbers only.

OpFunc(op, a, b) ==
  CASE op = Plus -> a + b
    [] op = Minus -> a - b
    [] op = Times -> a * b
    [] op = Divide /\ ~NoQuotient(a, b) -> Quotient(a, b)
    [] op = Divide /\ b = -1 -> a                        \* arm64's; see ServCrash
    [] OTHER -> 0                                        \* op_none, arm64's x / 0

\* The loop's result after each operand.
Results(op, opr) ==
  LET value[i \in 0..127] ==
        IF i = 0 THEN opr[0] ELSE OpFunc(op, value[i - 1], opr[i])
  IN  value

EvalMsg(op, cnt, opr) == Results(op, opr)[IF cnt < 1 THEN 0 ELSE cnt - 1]

\* Some division of the loop is undefined.
Traps(op, cnt, opr) ==
  op = Divide
    /\ \E i \in 1..(cnt - 1) : NoQuotient(Results(op, opr)[i - 1], opr[i])

-----------------------------------------------------------------------------
\* make_msg.c and main(): the bytes written for a message.

HeaderSize == 3
StructSize == 16

MsgSize(cnt) == Int8(4 * cnt)

\* The zeroed buffer after make_msg_header(): its i-th byte, from 0.
BufferByte(cnt, op, oprs, i) ==
  CASE i = 0 -> MsgSize(cnt) % 256
    [] i = 1 -> cnt % 256
    [] i = 2 -> op
    [] OTHER -> LET k == (i - HeaderSize) \div 4 + 1
                IN  IF k <= Len(oprs)
                      THEN Byte(oprs[k], (i - HeaderSize) % 4)
                      ELSE 0

\* write(sock, &snd_msg, snd_msg.size).  A negative size is a huge size_t,
\* which write() refuses; past the struct lies whatever the stack holds.
Written(cnt, op, oprs, junk) ==
  [i \in 1..MsgSize(cnt) |->
     IF i <= StructSize THEN BufferByte(cnt, op, oprs, i - 1) ELSE junk]

-----------------------------------------------------------------------------
\* recv_msg.c: the loop's condition and the message found in the buffer.

ByteAt(b, i) == IF i < Len(b) THEN b[i + 1] ELSE 0
\* Faults: the first read() is taken for the whole message; the loop
\* goes on until there is more than a message.
ExpectsOnce(b) == b = <<>>
ExpectsMore(b) == Len(b) <= IF b = <<>> THEN 1 ELSE Int8(b[1])

Expects(b) == Len(b) < IF b = <<>> THEN 1 ELSE Int8(b[1])

RcvCnt(b) == Int8(ByteAt(b, 1))
RcvOp(b) == ByteAt(b, 2)
RcvOprs(b) ==
  [k \in 0..126 |->
     LET at == HeaderSize + 4 * k
     IN  Word(ByteAt(b, at), ByteAt(b, at + 1), ByteAt(b, at + 2), ByteAt(b, at + 3))]

-----------------------------------------------------------------------------
CalcTypeOK ==
  /\ request \in Requests
  /\ cliPc \in {"prompt", "recv", "done"}
  /\ servPc \in {"recv", "done", "crashed"}
  /\ {up, down, servBuf, cliBuf} \subseteq Seq(0..255)
  /\ result \in Int
  /\ printed \in Int

\* Connected; the user is about to type a request.
CalcInit ==
  /\ request \in Requests
  /\ cliPc = "prompt"
  /\ servPc = "recv"
  /\ up = <<>> /\ down = <<>>
  /\ servBuf = <<>> /\ cliBuf = <<>>
  /\ result = 0 /\ printed = 0

\* make_msg_prompt() and write().
CliRequest ==
  /\ cliPc = "prompt"
  /\ \E junk \in Garbage :
       up' = Written(request.cnt, request.op, request.oprs, junk)
  /\ cliPc' = "recv"
  /\ UNCHANGED <<request, servPc, down, servBuf, cliBuf, result, printed>>

\* read() returns any part of what has arrived.
ServRecv ==
  /\ servPc = "recv"
  /\ Expects(servBuf)
  /\ \E n \in 1..Len(up) :
       /\ servBuf' = servBuf \o SubSeq(up, 1, n)
       /\ up' = SubSeq(up, n + 1, Len(up))
  /\ UNCHANGED <<request, cliPc, servPc, down, cliBuf, result, printed>>

\* eval_msg(), make_result_msg(), write(), close() and return.
ServAnswer ==
  /\ servPc = "recv"
  /\ ~Expects(servBuf)
  /\ result' = EvalMsg(RcvOp(servBuf), RcvCnt(servBuf), RcvOprs(servBuf))
  /\ \E junk \in Garbage : down' = Written(1, Equals, <<result'>>, junk)
  /\ servPc' = "done"
  /\ UNCHANGED <<request, cliPc, up, servBuf, cliBuf, printed>>

\* An undefined division raises SIGFPE on x86; arm64 goes on with OpFunc's.
ServCrash ==
  /\ servPc = "recv"
  /\ ~Expects(servBuf)
  /\ Traps(RcvOp(servBuf), RcvCnt(servBuf), RcvOprs(servBuf))
  /\ servPc' = "crashed"
  /\ UNCHANGED <<request, cliPc, up, down, servBuf, cliBuf, result, printed>>

\* At end of file read() returns 0 and the loop goes round unchanged.
CliRecv ==
  /\ cliPc = "recv"
  /\ Expects(cliBuf)
  /\ \E n \in 1..Len(down) :
       /\ cliBuf' = cliBuf \o SubSeq(down, 1, n)
       /\ down' = SubSeq(down, n + 1, Len(down))
  /\ UNCHANGED <<request, cliPc, servPc, up, servBuf, result, printed>>

\* eval_msg() of the answer, printf() and close().
CliPrint ==
  /\ cliPc = "recv"
  /\ ~Expects(cliBuf)
  /\ printed' = EvalMsg(RcvOp(cliBuf), RcvCnt(cliBuf), RcvOprs(cliBuf))
  /\ cliPc' = "done"
  /\ UNCHANGED <<request, servPc, up, down, servBuf, cliBuf, result>>

CalcNext ==
  \/ CliRequest \/ CliRecv \/ CliPrint
  \/ ServRecv \/ ServAnswer \/ ServCrash

\* Client and server are two running processes.
CalcFairness ==
  /\ WF_calcVars(CliRequest \/ CliRecv \/ CliPrint)
  /\ WF_calcVars(ServRecv \/ ServAnswer \/ ServCrash)

CalcSpec == CalcInit /\ [][CalcNext]_calcVars /\ CalcFairness

-----------------------------------------------------------------------------
\* A calculator: the operands from left to right.
Value(op, oprs) ==
  EvalMsg(op, Len(oprs), [k \in 0..(Len(oprs) - 1) |-> oprs[k + 1]])

\* Requests of which write() sends anything.
Sendable == request.cnt \in { n \in -128..127 : MsgSize(n) > 0 }

\* Requests whose operands a msg_t holds.
Fits == request.cnt \in 1..4

LowByte(v) == v % 256
WithLowByteLast(oprs) == [oprs EXCEPT ![Len(oprs)] = LowByte(@)]

(* For a request that fits a msg_t, however TCP cuts it up, the server      *)
(* evaluates the typed operands, all of them whole but the last, of which   *)
(* only the low byte is sent.                                               *)
ServerEvaluatesRequest ==
  Fits /\ servPc = "done" =>
    result = Value(request.op, WithLowByteLast(request.oprs))

(* The client prints the low byte of the server's result; so the answer is  *)
(* right when last operand and result lie in 0..255, whatever the others.   *)
ClientPrintsLowByte == cliPc = "done" => printed = LowByte(result)

(* So what a request loses on its way is in its last number only, and what  *)
(* an answer loses is all but its low byte, however TCP cuts them up.       *)
LastNumberCut == ServerEvaluatesRequest /\ ClientPrintsLowByte

(* An exchange ends with an answer, unless a division kills the server,     *)
(* after which the client goes round its read() at end of file and never    *)
(* ends, or the size is not positive (no operands, or so many that int8_t   *)
(* wraps): then no byte is ever sent, and both wait for each other.         *)
ExchangeEnds ==
  /\ Sendable ~> cliPc = "done" \/ servPc = "crashed"
  /\ [](servPc = "crashed" => cliPc # "done")
  /\ [](~Sendable => cliPc # "done" /\ servPc = "recv" /\ up = <<>>)

(* README.md of 5-1-2-calc, line 3: the client gets the result of the       *)
(* operation it asked for.                                                  *)
AnswerIsRight ==
  Fits /\ cliPc = "done" => printed = Value(request.op, request.oprs)
=============================================================================
