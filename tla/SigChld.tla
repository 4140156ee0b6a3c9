------------------------------- MODULE SigChld -------------------------------
(****************************************************************************)
(* How a parent of this repository collects its children: a SIGCHLD handler *)
(* that calls waitpid(-1, &status, WNOHANG) exactly once.  The same handler *)
(* is in 10-3-3-zombie/zombie.c, 10-4-multiprocecho, 10-5-iosplit and       *)
(* 11-2-ipcecho; the servers' modules refine this one.                      *)
(*                                                                          *)
(* SIGCHLD is a standard signal: the kernel remembers at most one pending   *)
(* occurrence, and blocks it while its handler runs.  As sa_flags is 0, not *)
(* SA_NOCLDSTOP, it is raised by a child that is stopped or continued, too. *)
(****************************************************************************)
EXTENDS FiniteSets, Integers

CONSTANT Children   \* the processes the parent may fork

ASSUME ChildrenAssumption == IsFiniteSet(Children)

VARIABLES
  proc,       \* process table: none, running, zombie or reaped, by child
  pending,    \* a SIGCHLD is pending for the parent
  handling,   \* the parent is in its SIGCHLD handler
  parent      \* running or exited

vars == <<proc, pending, handling, parent>>

Zombies == { c \in Children : proc[c] = "zombie" }

TypeOK ==
  /\ proc \in [Children -> {"none", "running", "zombie", "reaped"}]
  /\ pending \in BOOLEAN
  /\ handling \in BOOLEAN
  /\ parent \in {"running", "exited"}

Init ==
  /\ proc = [c \in Children |-> "none"]
  /\ pending = FALSE
  /\ handling = FALSE
  /\ parent = "running"

-----------------------------------------------------------------------------
\* Faults: what a slip would make of the actions below.  No specification
\* uses them; README.md says which property rules each of them out.

\* while (waitpid(-1, &status, WNOHANG) > 0)
ReapAll ==
  /\ handling
  /\ proc' = [c \in Children |-> IF c \in Zombies THEN "reaped" ELSE proc[c]]
  /\ handling' = FALSE
  /\ UNCHANGED <<pending, parent>>

\* The handler returns before waitpid().
ReapNone ==
  /\ handling
  /\ handling' = FALSE
  /\ UNCHANGED <<proc, pending, parent>>

-----------------------------------------------------------------------------
\* fork() succeeds; the handler is not running, main() is.
Spawn(c) ==
  /\ parent = "running"
  /\ ~handling
  /\ proc[c] = "none"
  /\ proc' = [proc EXCEPT ![c] = "running"]
  /\ UNCHANGED <<pending, handling, parent>>

\* A child ends and the kernel raises SIGCHLD: it merges with one already
\* pending.  An orphan is collected by init.
Exit(c) ==
  /\ proc[c] = "running"
  /\ IF parent = "running"
       THEN proc' = [proc EXCEPT ![c] = "zombie"] /\ pending' = TRUE
       ELSE proc' = [proc EXCEPT ![c] = "reaped"] /\ pending' = pending
  /\ UNCHANGED <<handling, parent>>

\* A child is stopped (Ctrl-Z, kill -STOP) or goes on (fg, kill -CONT): a
\* SIGCHLD without a zombie.  A stopped child is one that takes no step, so the
\* table does not tell it from a running one.
StopOrContinue(c) ==
  /\ parent = "running"
  /\ proc[c] = "running"
  /\ pending' = TRUE
  /\ UNCHANGED <<proc, handling, parent>>

\* The handler is entered; further SIGCHLDs stay pending until it returns.
Deliver ==
  /\ parent = "running"
  /\ pending
  /\ ~handling
  /\ pending' = FALSE
  /\ handling' = TRUE
  /\ UNCHANGED <<proc, parent>>

\* The handler's one waitpid(): any one zombie.  If there is none it returns 0,
\* or -1 without children, and status stays uninitialized.
Reap ==
  /\ handling
  /\ \/ \E c \in Zombies : proc' = [proc EXCEPT ![c] = "reaped"]
     \/ Zombies = {} /\ proc' = proc
  /\ handling' = FALSE
  /\ UNCHANGED <<pending, parent>>

\* The parent returns from main() (or leaves it because fork() failed): init
\* adopts and collects what is left.
ParentExit ==
  /\ parent = "running"
  /\ ~handling
  /\ parent' = "exited"
  /\ pending' = FALSE
  /\ proc' = [c \in Children |-> IF c \in Zombies THEN "reaped" ELSE proc[c]]
  /\ UNCHANGED handling

Next ==
  \/ \E c \in Children : Spawn(c) \/ Exit(c) \/ StopOrContinue(c)
  \/ Deliver
  \/ Reap
  \/ ParentExit

\* A pending signal is delivered and a handler runs to its end: the kernel
\* schedules the parent.  Nothing makes a child or the parent end.
Fairness == WF_vars(Deliver) /\ WF_vars(Reap)

Safety == Init /\ [][Next]_vars
Spec == Safety /\ Fairness

-----------------------------------------------------------------------------
AsNumber(b) == IF b THEN 1 ELSE 0

\* Zombies that no signal, pending or being handled, will collect; less than
\* none if there is a signal without one.
Lost == Cardinality(Zombies) - AsNumber(pending) - AsNumber(handling)

(* A loss is made up for only by a SIGCHLD that stands for no exit: one of  *)
(* a stopped or continued child that merges with no other.  Each handler    *)
(* run takes one zombie, so exits alone never win one back.                 *)
OnlyStraysMakeUp ==
  [][parent' = "running" /\ Lost' < Lost =>
       ~pending /\ Lost' = Lost - 1
         /\ \E c \in Children : StopOrContinue(c)]_vars

(* And a zombie is lost only by a child that ends while another SIGCHLD is  *)
(* pending; the only other step that spends a signal for nothing is a       *)
(* handler run that finds no zombie.                                        *)
LossNeedsMergedSignal ==
  [][parent' = "running" /\ Lost' > Lost =>
       /\ Lost' = Lost + 1
       /\ \/ pending /\ \E c \in Children : Exit(c)
          \/ Reap /\ Zombies = {}]_vars

(* The balance of zombies and signals moves by merged exits, by handler     *)
(* runs in vain and by signals without an exit, one at a time, and by       *)
(* nothing else while the parent runs.                                      *)
LossesAreMerges == OnlyStraysMakeUp /\ LossNeedsMergedSignal
=============================================================================
