----------------------------- MODULE MCDatagrams -----------------------------
(* Two clients, and more lines than duplicates, so that answers can run     *)
(* behind questions; one kill, after which the server may start again.      *)
EXTENDS Datagrams
=============================================================================
