---------------------------- MODULE SigChldStrays ----------------------------
(****************************************************************************)
(* SigChld with a history variable: how many SIGCHLDs no exit stands        *)
(* behind, less the handler runs that have come back empty-handed.  The     *)
(* program has no such variable, no action reads it, and it constrains      *)
(* none of them.                                                            *)
(****************************************************************************)
EXTENDS SigChld

VARIABLE strays

strayVars == <<vars, strays>>

StrayInit == Init /\ strays = 0

\* One more by a signal that merges with no other, one less by a waitpid()
\* that returns 0 or -1.
StrayNext ==
  \/ \E c \in Children : Spawn(c) /\ UNCHANGED strays
  \/ \E c \in Children : Exit(c) /\ UNCHANGED strays
  \/ \E c \in Children :
       StopOrContinue(c) /\ strays' = IF pending THEN strays ELSE strays + 1
  \/ Deliver /\ UNCHANGED strays
  \/ Reap /\ strays' = IF Zombies = {} THEN strays - 1 ELSE strays
  \/ ParentExit /\ UNCHANGED strays

StraySafety == StrayInit /\ [][StrayNext]_strayVars

-----------------------------------------------------------------------------
(* The handler's waitpid() comes back empty-handed, and zombie.c reads a    *)
(* status nobody has set, at most once for every SIGCHLD of a child that    *)
(* was stopped or continued, and never on account of children that end,     *)
(* however their signals merge and whichever zombie a run has taken.        *)
HandlerFindsZombie ==
  /\ strays >= 0
  /\ handling /\ Zombies = {} => strays > 0
=============================================================================
