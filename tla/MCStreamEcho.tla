---------------------------- MODULE MCStreamEcho -----------------------------
(* Buffers for three bytes and the terminating zero, and enough bytes for   *)
(* lines that are shorter, as long as and longer than that.                 *)
EXTENDS StreamEcho
=============================================================================
