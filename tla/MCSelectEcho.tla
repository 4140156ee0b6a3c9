---------------------------- MODULE MCSelectEcho ----------------------------
(* Three clients for two descriptors, so that accept() can fail; buffers of *)
(* two bytes, so that reads and writes can be partial.  c1 sends enough to  *)
(* fill every buffer and block write(), and to leave with an echo under way *)
(* and raise SIGPIPE; c2 is its neighbour with an echo to wait for.         *)
EXTENDS SelectEcho, TLC

CONSTANTS c1, c2, c3

MCConns == {c1, c2, c3}
MCQuota == c1 :> 3 @@ c2 :> 1 @@ c3 :> 0
=============================================================================
