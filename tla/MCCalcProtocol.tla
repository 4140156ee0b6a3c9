--------------------------- MODULE MCCalcProtocol ---------------------------
(* Requests around the protocol's limits: results and last operands that    *)
(* need more than a byte, negative ones, a divisor of zero (also one whose  *)
(* low byte is zero), the quotient that no int32_t holds, no operand, five  *)
(* (more than a msg_t holds), and counts whose size wraps around int8_t to  *)
(* -128, 0 and 4.                                                           *)
EXTENDS CalcProtocol

Tuples(S, n) == [1..n -> S]

Newline == 10          \* what scanf("%c") finds if fflush(stdin) kept it

Request(cnt, op, oprs) == [cnt |-> cnt, op |-> op, oprs |-> oprs]

MCRequests ==
  { Request(1, op, o) : op \in Ops, o \in Tuples({7, 300, -1}, 1) }
  \union
  { Request(2, op, o) : op \in Ops \union {Newline},
                        o \in Tuples({2, 200, 256, -3, 70001}, 2)
                              \ { <<70001, 70001>> } }
  \union
  { Request(3, op, o) : op \in Ops, o \in Tuples({3, -260}, 3) }
  \union
  { Request(4, op, o) : op \in {Plus, Divide}, o \in { <<900, -2, 3, 260>> } }
  \union
  { Request(3, Divide, <<-2147483647 - 1, -1, 3>>) }
  \union
  { Request(5, Plus, <<1, 2, 3, 4, 5>>) }
  \union
  { Request(n, Plus, [i \in 1..n |-> 1]) : n \in {0, 32, 64, 65} }
  \union
  { Request(n, Plus, <<>>) : n \in {-1, -63} }

MCGarbage == {0, 255}
=============================================================================
