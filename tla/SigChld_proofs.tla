--------------------------- MODULE SigChld_proofs ---------------------------
(****************************************************************************)
(* What SigChld promises, for every finite set of children: a zombie is     *)
(* lost only when signals merge and won back only by a signal of a stopped  *)
(* or continued child, and the handler's waitpid() comes back empty-handed  *)
(* at most once for each of those; never, if there are none.                *)
(****************************************************************************)
EXTENDS SigChldStrays, FiniteSetTheorems, TLAPS

ProcType == [Children -> {"none", "running", "zombie", "reaped"}]

-----------------------------------------------------------------------------
(* Zombies are children, so they can be counted.                            *)
LEMMA ZombiesFinite ==
  IsFiniteSet(Zombies) /\ Cardinality(Zombies) \in Nat
<1>1. IsFiniteSet(Zombies)
  BY ChildrenAssumption, FS_Subset, Zombies \subseteq Children DEF Zombies
<1> QED
  BY <1>1, FS_CardinalityType

(* A child that becomes a zombie adds one to their number.                  *)
LEMMA OneMore ==
  ASSUME NEW c \in Children, proc \in ProcType, proc[c] # "zombie",
         proc' = [proc EXCEPT ![c] = "zombie"]
  PROVE  Cardinality(Zombies') = Cardinality(Zombies) + 1
<1>1. Zombies' = Zombies \union {c} /\ c \notin Zombies
  BY DEF Zombies, ProcType
<1> QED
  BY <1>1, ZombiesFinite, FS_AddElement

(* A zombie that is collected takes one from it.                            *)
LEMMA OneLess ==
  ASSUME NEW c \in Zombies, proc \in ProcType,
         proc' = [proc EXCEPT ![c] = "reaped"]
  PROVE  Cardinality(Zombies') = Cardinality(Zombies) - 1
<1>1. Zombies' = Zombies \ {c}
  BY DEF Zombies, ProcType
<1> QED
  BY <1>1, ZombiesFinite, FS_RemoveElement

(* Any other change of the table leaves it as it is.                        *)
LEMMA SameZombies ==
  ASSUME NEW c \in Children, proc \in ProcType, proc[c] # "zombie",
         NEW state, state # "zombie",
         proc' = [proc EXCEPT ![c] = state]
  PROVE  Zombies' = Zombies
BY DEF Zombies, ProcType

-----------------------------------------------------------------------------
(* The model's type invariant: processes move through the table's four      *)
(* states only, signals and handler are on or off.                          *)
THEOREM TypeCorrect == Safety => []TypeOK
<1>1. Init => TypeOK
  BY DEF Init, TypeOK
<1>2. TypeOK /\ [Next]_vars => TypeOK'
  <2> SUFFICES ASSUME TypeOK, [Next]_vars PROVE TypeOK'
    OBVIOUS
  <2> USE DEF TypeOK
  <2>1. ASSUME NEW c \in Children, Spawn(c) PROVE TypeOK'
    BY <2>1 DEF Spawn
  <2>2. ASSUME NEW c \in Children, Exit(c) PROVE TypeOK'
    BY <2>2 DEF Exit
  <2>3. CASE Deliver
    BY <2>3 DEF Deliver
  <2>4. CASE Reap
    BY <2>4 DEF Reap
  <2>5. CASE ParentExit
    BY <2>5 DEF ParentExit
  <2>6. ASSUME NEW c \in Children, StopOrContinue(c) PROVE TypeOK'
    BY <2>6 DEF StopOrContinue
  <2>7. CASE UNCHANGED vars
    BY <2>7 DEF vars
  <2> QED
    BY <2>1, <2>2, <2>3, <2>4, <2>5, <2>6, <2>7 DEF Next
<1> QED
  BY <1>1, <1>2, PTL DEF Safety

-----------------------------------------------------------------------------
(* The balance is a whole number.                                           *)
LEMMA LostIsInt == ASSUME TypeOK PROVE Lost \in Int
BY ZombiesFinite DEF Lost, AsNumber, TypeOK

(* Without a zombie it counts the signals, against.                         *)
LEMMA LostOfNone ==
  ASSUME TypeOK, Zombies = {}
  PROVE  Lost <= 0 /\ (handling => Lost < 0)
BY FS_EmptySet DEF TypeOK, Lost, AsNumber

(* How each step moves the balance of zombies and signals: a fork and the   *)
(* delivery of a signal do not ...                                          *)
LEMMA SpawnBalance ==
  ASSUME TypeOK, NEW c \in Children, Spawn(c)
  PROVE  Lost' = Lost
<1>1. Zombies' = Zombies
  BY SameZombies DEF TypeOK, ProcType, Spawn
<1> QED
  BY <1>1 DEF Spawn, Lost

LEMMA DeliverBalance ==
  ASSUME TypeOK, Deliver
  PROVE  Lost' = Lost
<1>1. Zombies' = Zombies
  BY DEF Deliver, Zombies
<1> QED
  BY <1>1, ZombiesFinite DEF Deliver, Lost, AsNumber

(* ... a child's exit does if its signal merges ...                         *)
LEMMA ExitBalance ==
  ASSUME TypeOK, NEW c \in Children, Exit(c)
  PROVE  Lost' = Lost \/ (Lost' = Lost + 1 /\ pending)
<1>1. CASE parent = "running"
  <2>1. Cardinality(Zombies') = Cardinality(Zombies) + 1
    BY <1>1, OneMore DEF TypeOK, ProcType, Exit
  <2>2. pending' = TRUE /\ handling' = handling
    BY <1>1 DEF Exit
  <2> QED
    BY <2>1, <2>2, ZombiesFinite DEF TypeOK, Lost, AsNumber
<1>2. CASE parent # "running"
  <2>1. Zombies' = Zombies
    BY <1>2, SameZombies DEF TypeOK, ProcType, Exit
  <2> QED
    BY <1>2, <2>1 DEF Exit, Lost
<1> QED
  BY <1>1, <1>2

(* ... the stop of a child if its signal does not ...                       *)
LEMMA StopBalance ==
  ASSUME TypeOK, NEW c \in Children, StopOrContinue(c)
  PROVE  Lost' = IF pending THEN Lost ELSE Lost - 1
<1>1. Zombies' = Zombies
  BY DEF StopOrContinue, Zombies
<1>2. pending' = TRUE /\ handling' = handling
  BY DEF StopOrContinue
<1> QED
  BY <1>1, <1>2, ZombiesFinite DEF TypeOK, Lost, AsNumber

(* ... and a handler run if it finds no zombie.                             *)
LEMMA ReapBalance ==
  ASSUME TypeOK, Reap
  PROVE  Lost' = IF Zombies = {} THEN Lost + 1 ELSE Lost
<1>0. handling /\ handling' = FALSE /\ pending' = pending
  BY DEF Reap
<1>1. CASE Zombies = {}
  <2>1. Zombies' = Zombies
    BY <1>1 DEF Reap, Zombies
  <2> QED
    BY <1>0, <1>1, <2>1, ZombiesFinite DEF TypeOK, Lost, AsNumber
<1>2. CASE Zombies # {}
  <2>1. PICK c \in Zombies : proc' = [proc EXCEPT ![c] = "reaped"]
    BY <1>2 DEF Reap
  <2>2. Cardinality(Zombies') = Cardinality(Zombies) - 1
    BY <2>1, OneLess DEF TypeOK, ProcType
  <2> QED
    BY <1>0, <1>2, <2>2, ZombiesFinite DEF TypeOK, Lost, AsNumber
<1> QED
  BY <1>1, <1>2

(* The parent's end settles it: init collects what there is.                *)
LEMMA EndBalance ==
  ASSUME ParentExit
  PROVE  Lost' = 0
<1>1. Zombies' = {}
  BY DEF ParentExit, Zombies
<1>2. Cardinality(Zombies') = 0
  BY <1>1, FS_EmptySet
<1>3. AsNumber(pending') = 0 /\ AsNumber(handling') = 0
  BY DEF ParentExit, AsNumber
<1> QED
  BY <1>2, <1>3 DEF Lost

(* At the start there is nothing to balance.                                *)
LEMMA InitBalance == ASSUME Init PROVE Lost = 0
<1>1. Zombies = {}
  BY DEF Init, Zombies
<1> QED
  BY <1>1, FS_EmptySet DEF Init, Lost, AsNumber

-----------------------------------------------------------------------------
(* A zombie is lost only by an exit on top of a pending signal, and a loss  *)
(* is made up for only by a SIGCHLD of a stopped or continued child that    *)
(* merges with no other: whatever the children and the order of signals.    *)
THEOREM OnlyMergesLose == Safety => LossesAreMerges
<1>1. TypeOK /\ [Next]_vars
        => \/ parent' = "exited" \/ Lost' = Lost
           \/ /\ Lost' = Lost + 1
              /\ \/ pending /\ \E c \in Children : Exit(c)
                 \/ Reap /\ Zombies = {}
           \/ /\ Lost' = Lost - 1 /\ ~pending
              /\ \E c \in Children : StopOrContinue(c)
  <2> SUFFICES ASSUME TypeOK, [Next]_vars, parent' # "exited", Lost' # Lost
               PROVE  \/ /\ Lost' = Lost + 1
                         /\ \/ pending /\ \E c \in Children : Exit(c)
                            \/ Reap /\ Zombies = {}
                      \/ /\ Lost' = Lost - 1 /\ ~pending
                         /\ \E c \in Children : StopOrContinue(c)
    OBVIOUS
  <2>1. ~UNCHANGED vars
    BY DEF vars, Lost, Zombies
  <2>2. CASE \E c \in Children : Spawn(c)
    BY <2>2, SpawnBalance
  <2>3. CASE \E c \in Children : Exit(c)
    BY <2>3, ExitBalance
  <2>4. CASE \E c \in Children : StopOrContinue(c)
    BY <2>4, StopBalance
  <2>5. CASE Deliver
    BY <2>5, DeliverBalance
  <2>6. CASE Reap
    BY <2>6, ReapBalance
  <2>7. ~ParentExit
    BY DEF ParentExit
  <2> QED
    BY <2>1, <2>2, <2>3, <2>4, <2>5, <2>6, <2>7 DEF Next
<1>2. TypeOK /\ [Next]_vars
        => /\ [parent' = "running" /\ Lost' < Lost =>
                 ~pending /\ Lost' = Lost - 1
                   /\ \E c \in Children : StopOrContinue(c)]_vars
           /\ [parent' = "running" /\ Lost' > Lost =>
                 /\ Lost' = Lost + 1
                 /\ \/ pending /\ \E c \in Children : Exit(c)
                    \/ Reap /\ Zombies = {}]_vars
  BY <1>1, LostIsInt
<1> QED
  BY <1>2, TypeCorrect, PTL
  DEF Safety, LossesAreMerges, OnlyStraysMakeUp, LossNeedsMergedSignal

-----------------------------------------------------------------------------
(* Every signal about has a zombie or a stray to answer for it.             *)
SignalsCovered == strays \in Nat /\ Lost + strays >= 0

(* A behaviour of StraySafety is one of Safety that keeps count.            *)
LEMMA StraysAreHistory == StraySafety => Safety
<1>1. StrayInit => Init
  BY DEF StrayInit
<1>2. [StrayNext]_strayVars => [Next]_vars
  BY DEF StrayNext, Next, strayVars, vars
<1> QED
  BY <1>1, <1>2, PTL DEF StraySafety, Safety

(* The handler comes back empty-handed at most once for each SIGCHLD of a   *)
(* child stopped or continued, and children that end never make it so.      *)
THEOREM EmptyRunsAreStray == StraySafety => []HandlerFindsZombie
<1>1. StrayInit => SignalsCovered
  BY InitBalance DEF StrayInit, SignalsCovered
<1>2. TypeOK /\ SignalsCovered /\ [StrayNext]_strayVars => SignalsCovered'
  <2> SUFFICES ASSUME TypeOK, SignalsCovered, [StrayNext]_strayVars
               PROVE  SignalsCovered'
    OBVIOUS
  <2> USE DEF SignalsCovered
  <2>0. Lost \in Int
    BY LostIsInt
  <2>1. CASE \E c \in Children : Spawn(c) /\ UNCHANGED strays
    BY <2>0, <2>1, SpawnBalance
  <2>2. CASE \E c \in Children : Exit(c) /\ UNCHANGED strays
    BY <2>0, <2>2, ExitBalance
  <2>3. CASE \E c \in Children :
               /\ StopOrContinue(c)
               /\ strays' = IF pending THEN strays ELSE strays + 1
    BY <2>0, <2>3, StopBalance
  <2>4. CASE Deliver /\ UNCHANGED strays
    BY <2>0, <2>4, DeliverBalance
  <2>5. CASE Reap /\ strays' = IF Zombies = {} THEN strays - 1 ELSE strays
    <3>1. CASE Zombies = {}
      \* The run has a signal without a zombie: there is a stray.
      <4>1. handling
        BY <2>5 DEF Reap
      <4>2. Lost < 0 /\ Lost' = Lost + 1 /\ strays' = strays - 1
        BY <2>5, <3>1, <4>1, ReapBalance, LostOfNone
      <4> QED
        BY <2>0, <4>2
    <3>2. CASE Zombies # {}
      BY <2>5, <3>2, ReapBalance
    <3> QED
      BY <3>1, <3>2
  <2>6. CASE ParentExit /\ UNCHANGED strays
    BY <2>6, EndBalance
  <2>7. CASE UNCHANGED strayVars
    BY <2>7 DEF strayVars, vars, Lost, Zombies
  <2> QED
    BY <2>1, <2>2, <2>3, <2>4, <2>5, <2>6, <2>7 DEF StrayNext
<1>3. TypeOK /\ SignalsCovered => HandlerFindsZombie
  BY LostIsInt, LostOfNone DEF SignalsCovered, HandlerFindsZombie
<1> QED
  BY <1>1, <1>2, <1>3, TypeCorrect, StraysAreHistory, PTL DEF StraySafety

(* As long as no child is stopped or continued, the handler never runs      *)
(* without a zombie to collect: line 14 reads a status waitpid() has set.   *)
THEOREM ExitsAloneBringZombies ==
  Safety /\ [][\A c \in Children : ~StopOrContinue(c)]_vars
    => [](handling => Zombies # {})
<1>1. Init => Lost >= 0
  BY InitBalance
<1>2. TypeOK /\ Lost >= 0 /\ [Next]_vars
        /\ [\A c \in Children : ~StopOrContinue(c)]_vars
        => (Lost >= 0)'
  <2> SUFFICES ASSUME TypeOK, Lost >= 0, [Next]_vars,
                      [\A c \in Children : ~StopOrContinue(c)]_vars
               PROVE  Lost' >= 0
    OBVIOUS
  <2>0. Lost \in Int
    BY LostIsInt
  <2>1. CASE UNCHANGED vars
    BY <2>1 DEF vars, Lost, Zombies
  <2>2. CASE \E c \in Children : Spawn(c) \/ Exit(c)
    BY <2>0, <2>2, SpawnBalance, ExitBalance
  <2>3. CASE Deliver \/ Reap \/ ParentExit
    BY <2>0, <2>3, DeliverBalance, ReapBalance, EndBalance
  <2> QED
    BY <2>1, <2>2, <2>3 DEF Next
<1>3. TypeOK /\ Lost >= 0 => (handling => Zombies # {})
  BY LostIsInt, LostOfNone
<1> QED
  BY <1>1, <1>2, <1>3, TypeCorrect, PTL DEF Safety
=============================================================================
