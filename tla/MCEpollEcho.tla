----------------------------- MODULE MCEpollEcho -----------------------------
(* Three connections and two descriptors: two accepted clients and a queued *)
(* third make three descriptors ready, and epoll_wait() returns two of      *)
(* them.  A buffer of two bytes and a client that sends three, so that an   *)
(* event leaves bytes for the next; the other sends one, and the third only *)
(* connects, waits for a descriptor and closes.                             *)
EXTENDS EpollEcho, TLC

CONSTANTS c1, c2, c3

MCConns == {c1, c2, c3}
MCQuota == c1 :> 3 @@ c2 :> 1 @@ c3 :> 0
=============================================================================
