------------------------------ MODULE MCSigChld ------------------------------
(* Four children: two may end while a signal is pending and two while the   *)
(* handler runs, so that signals merge more than once.  strays needs no     *)
(* bound: it is the number of merged exits less Lost, and so at most six.   *)
EXTENDS SigChldStrays
=============================================================================
