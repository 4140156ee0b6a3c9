--------------------------- MODULE MCSelectSession ---------------------------
(* Three clients for two descriptors, so that descriptors are reused and    *)
(* run out; buffers of one byte and lines of up to two.                     *)
EXTENDS SelectSession

MCQuota == [c \in Conns |-> 2]
=============================================================================
