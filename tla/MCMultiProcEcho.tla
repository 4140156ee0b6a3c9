--------------------------- MODULE MCMultiProcEcho ---------------------------
(* Two connections, so that a child can end while the other's signal is     *)
(* pending; a listen queue of one, so that it fills.  c1 sends enough for   *)
(* buffers of two bytes to make reads and writes partial and write() block; *)
(* c2 is its neighbour with an echo of its own.                             *)
EXTENDS MultiProcEcho, TLC

CONSTANTS c1, c2

MCConns == {c1, c2}
MCQuota == c1 :> 3 @@ c2 :> 1
=============================================================================
