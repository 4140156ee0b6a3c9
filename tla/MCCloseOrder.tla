---------------------------- MODULE MCCloseOrder -----------------------------
(* Buffers of two bytes.  Two socket buffers and the server's own hold six  *)
(* bytes: a line may have seven.  File and message take several reads.      *)
EXTENDS CloseOrder
=============================================================================
