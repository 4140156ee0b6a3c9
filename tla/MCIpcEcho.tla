------------------------------ MODULE MCIpcEcho ------------------------------
(* Two connections, so that two processes write to the pipe at once; a read *)
(* of two bytes and a PIPE_BUF of one, so that such writes may be cut and   *)
(* interleave; a pipe of three bytes and clients that send four, so that it *)
(* fills, a process waits for the logger, and one read() does not empty it. *)
EXTENDS IpcEcho, TLC

CONSTANTS c1, c2

MCConns == {c1, c2}
MCQuota == c1 :> 3 @@ c2 :> 1
=============================================================================
