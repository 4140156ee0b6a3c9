---------------------------- MODULE MCEchoClients ----------------------------
(* Two clients of servers that accept one or two; two-byte buffers and more *)
(* bytes per client than client, server and both directions of a connection *)
(* hold, so that unread echoes can block everybody.                         *)
EXTENDS EchoClients
=============================================================================
