-------------------------- MODULE ThreadPool_proofs --------------------------
(* Theorems about ThreadPool, for any finite set of workers and any bounds.  *)
EXTENDS ThreadPool, FiniteSetTheorems, SequenceTheorems, TLAPS

(* A wakeup moves sleeping workers to the lock and nobody else. *)
LEMMA WakeOneMoves ==
  ASSUME NEW p \in [Workers -> WorkerPC], NEW q \in WakeOne(p)
  PROVE  /\ q \in [Workers -> WorkerPC]
         /\ \A w \in Workers : q[w] = p[w] \/ (p[w] = "asleep" /\ q[w] = "lock")
BY DEF WakeOne, WorkerPC

LEMMA WakeAllMoves ==
  ASSUME NEW p \in [Workers -> WorkerPC]
  PROVE  /\ WakeAll(p) \in [Workers -> WorkerPC]
         /\ \A w \in Workers :
              WakeAll(p)[w] = p[w] \/ (p[w] = "asleep" /\ WakeAll(p)[w] = "lock")
BY DEF WakeAll, WorkerPC

LEMMA RenotifyMoves ==
  ASSUME TypeOK, NEW w \in Workers, Renotify(w)
  PROVE  /\ pc' \in [Workers -> WorkerPC]
         /\ pc[w] = "renotify" /\ pc'[w] = "busyDec"
         /\ \A v \in Workers \ {w} :
              pc'[v] = pc[v] \/ (pc[v] = "asleep" /\ pc'[v] = "lock")
<1> DEFINE p == [pc EXCEPT ![w] = "busyDec"]
<1>1. p \in [Workers -> WorkerPC] /\ pc' \in WakeOne(p)
  BY DEF TypeOK, WorkerPC, Renotify
<1>2. p[w] = "busyDec" /\ \A v \in Workers \ {w} : p[v] = pc[v]
  BY DEF TypeOK
<1> HIDE DEF p
<1>3. /\ pc' \in [Workers -> WorkerPC]
      /\ \A v \in Workers : pc'[v] = p[v] \/ (p[v] = "asleep" /\ pc'[v] = "lock")
  BY <1>1, WakeOneMoves
<1> QED BY <1>2, <1>3 DEF Renotify

(* What the two ways to change the queue do to it. *)
LEMMA AppendShape ==
  ASSUME NEW S, NEW s \in Seq(S), NEW e \in S
  PROVE  /\ Append(s, e) \in Seq(S)
         /\ Len(Append(s, e)) = Len(s) + 1
         /\ \A i \in 1..Len(s) : Append(s, e)[i] = s[i]
         /\ Append(s, e)[Len(s) + 1] = e
         /\ Append(s, e) # <<>>
OBVIOUS

LEMMA TakeShape ==
  ASSUME NEW S, NEW s \in Seq(S), s # <<>>
  PROVE  /\ Tail(s) \in Seq(S)
         /\ Len(Tail(s)) = Len(s) - 1
         /\ \A i \in 1..Len(Tail(s)) : Tail(s)[i] = s[i + 1]
         /\ Len(s) \in Nat \ {0}
         /\ s[Len(s)] \in S
BY HeadTailProperties, EmptySeq, ElementOfSeq

-----------------------------------------------------------------------------
(* Every variable keeps its type: in particular the queue and the workers
   hold only tasks that exist. *)
LEMMA HolderHasTask ==
  ASSUME TypeOK, TasksSubmitted, NEW w \in Workers, pc[w] = "readd"
  PROVE  task[w] \in 1..added
BY DEF TasksSubmitted, HoldsTask

LEMMA TypeStep ==
  ASSUME TypeOK, TasksSubmitted, [Next]_vars
  PROVE  TypeOK' /\ TasksSubmitted'
<1> USE BoundsNat
<1>0. added \in Nat /\ 1..added \subseteq TaskIds
  BY DEF TypeOK, TaskIds
<1>1. CASE StartRound
  <2>1. rounds' \in 0..MaxRounds
    BY <1>1 DEF StartRound, TypeOK
  <2>2. /\ pc' \in [Workers -> WorkerPC]
        /\ \A w \in Workers : pc'[w] \notin HoldsTask
    BY <1>1 DEF StartRound, WorkerPC, HoldsTask
  <2>3. main' \in MainPC /\ joiner' \in JoinerPC /\ finish' \in BOOLEAN
    BY <1>1 DEF StartRound, MainPC, JoinerPC
  <2>4. UNCHANGED <<tasks, lkm, busyThreadCount, task, added, spurious, finished, crowded>>
    BY <1>1 DEF StartRound
  <2> QED BY <2>1, <2>2, <2>3, <2>4 DEF TypeOK, TasksSubmitted
<1>2. ASSUME NEW w \in Workers, Spawn(w) PROVE TypeOK' /\ TasksSubmitted'
  BY <1>2 DEF Spawn, Goto, TypeOK, TasksSubmitted, WorkerPC, MainPC, JoinerPC, HoldsTask
<1>3. CASE LaunchJoin
  BY <1>3 DEF LaunchJoin, TypeOK, TasksSubmitted, MainPC, JoinerPC
<1>4. CASE AddTask
  <2>1. added' = added + 1 /\ added' \in 0..MaxTasks /\ 1..added \subseteq 1..added'
    BY <1>4, <1>0 DEF AddTask
  <2>2. added' \in 1..added' /\ added' \in TaskIds /\ 1..added' \subseteq TaskIds
    BY <2>1, <1>0 DEF TaskIds
  <2>3. tasks' = Append(tasks, added') /\ tasks \in Seq(1..added')
    BY <1>4, <2>1, SeqMonotonic DEF AddTask, Push, TasksSubmitted
  <2>4. tasks' \in Seq(1..added')
    BY <2>2, <2>3, AppendShape
  <2>5. tasks' \in Seq(TaskIds)
    BY <2>2, <2>4, SeqMonotonic
  <2>6. crowded' \in BOOLEAN /\ main' \in MainPC
    BY <1>4 DEF AddTask, Push, TypeOK, MainPC
  <2>7. UNCHANGED <<finish, lkm, busyThreadCount, pc, task, joiner, rounds, spurious, finished>>
    BY <1>4 DEF AddTask
  <2>8. TypeOK'
    BY <2>1, <2>5, <2>6, <2>7 DEF TypeOK
  <2>9. TasksSubmitted'
    BY <2>1, <2>4, <2>7 DEF TasksSubmitted
  <2> QED BY <2>8, <2>9
<1>5. CASE NotifyOne
  BY <1>5, WakeOneMoves DEF NotifyOne, TypeOK, TasksSubmitted, MainPC, HoldsTask
<1>6. CASE Shutdown
  BY <1>6 DEF Shutdown, TypeOK, TasksSubmitted, MainPC
<1>7. CASE Drained
  BY <1>7 DEF Drained, TypeOK, TasksSubmitted, MainPC
<1>8. CASE SetFinish
  BY <1>8 DEF SetFinish, TypeOK, TasksSubmitted, MainPC
<1>9. CASE NotifyAll
  BY <1>9, WakeAllMoves DEF NotifyAll, TypeOK, TasksSubmitted, MainPC, HoldsTask
<1>10. CASE AwaitJoin
  BY <1>10 DEF AwaitJoin, TypeOK, TasksSubmitted, MainPC
<1>11. CASE StoreFinish
  BY <1>11 DEF StoreFinish, TypeOK, TasksSubmitted, MainPC
<1>12. CASE JoinStore
  BY <1>12 DEF JoinStore, TypeOK, TasksSubmitted, JoinerPC
<1>13. CASE JoinThreads
  BY <1>13 DEF JoinThreads, TypeOK, TasksSubmitted, JoinerPC
<1>14. ASSUME NEW w \in Workers, CheckFinish(w) PROVE TypeOK' /\ TasksSubmitted'
  BY <1>14 DEF CheckFinish, Goto, TypeOK, TasksSubmitted, WorkerPC, HoldsTask
<1>15. ASSUME NEW w \in Workers, Lock(w) PROVE TypeOK' /\ TasksSubmitted'
  BY <1>15 DEF Lock, Goto, TypeOK, TasksSubmitted, WorkerPC, HoldsTask
<1>16. ASSUME NEW w \in Workers, PredSize(w) PROVE TypeOK' /\ TasksSubmitted'
  BY <1>16 DEF PredSize, Goto, TypeOK, TasksSubmitted, WorkerPC, HoldsTask
<1>17. ASSUME NEW w \in Workers, PredFinish(w) PROVE TypeOK' /\ TasksSubmitted'
  BY <1>17 DEF PredFinish, Goto, TypeOK, TasksSubmitted, WorkerPC, HoldsTask
<1>18. ASSUME NEW w \in Workers, Doze(w) PROVE TypeOK' /\ TasksSubmitted'
  BY <1>18 DEF Doze, Goto, TypeOK, TasksSubmitted, WorkerPC, HoldsTask
<1>19. ASSUME NEW w \in Workers, SpuriousWakeup(w) PROVE TypeOK' /\ TasksSubmitted'
  BY <1>19 DEF SpuriousWakeup, Goto, TypeOK, TasksSubmitted, WorkerPC, HoldsTask
<1>20. ASSUME NEW w \in Workers, Take(w) PROVE TypeOK' /\ TasksSubmitted'
  <2>1. CASE tasks # <<>>
    <3>1. /\ tasks' \in Seq(1..added) /\ tasks' \in Seq(TaskIds)
          /\ tasks[Len(tasks)] \in 1..added
      BY <1>20, <2>1, <1>0, TakeShape, SeqMonotonic DEF Take, TasksSubmitted
    <3>2. task' = [task EXCEPT ![w] = tasks[Len(tasks)]] /\ Goto(w, "count")
      BY <1>20, <2>1 DEF Take
    <3>3. /\ lkm' = Nobody
          /\ UNCHANGED <<finish, busyThreadCount, main, joiner, added, rounds,
                         spurious, finished, crowded>>
      BY <1>20 DEF Take
    <3>4. tasks[Len(tasks)] \in TaskIds
      BY <3>1, <1>0
    <3>5. TypeOK'
      BY <3>1, <3>2, <3>3, <3>4 DEF TypeOK, Goto, WorkerPC
    <3>6. \A v \in Workers : pc'[v] \in HoldsTask => task'[v] \in 1..added
      BY <3>1, <3>2 DEF TypeOK, TasksSubmitted, Goto
    <3>7. TasksSubmitted'
      BY <3>1, <3>3, <3>6 DEF TasksSubmitted
    <3> QED BY <3>5, <3>7
  <2>2. CASE tasks = <<>>
    BY <1>20, <2>2 DEF Take, Goto, TypeOK, TasksSubmitted, WorkerPC, HoldsTask
  <2> QED BY <2>1, <2>2
<1>21. ASSUME NEW w \in Workers, BusyInc(w) PROVE TypeOK' /\ TasksSubmitted'
  BY <1>21 DEF BusyInc, Goto, TypeOK, TasksSubmitted, WorkerPC, HoldsTask
<1>22. ASSUME NEW w \in Workers, Handle(w) PROVE TypeOK' /\ TasksSubmitted'
  <2>1. task[w] \in 1..added
    BY <1>22 DEF Handle, TasksSubmitted, HoldsTask
  <2> QED
    BY <1>22, <2>1, <1>0 DEF Handle, Goto, TypeOK, TasksSubmitted, WorkerPC, HoldsTask
<1>23. ASSUME NEW w \in Workers, Readd(w) PROVE TypeOK' /\ TasksSubmitted'
  <2>1. task[w] \in 1..added
    BY <1>23, HolderHasTask DEF Readd
  <2>2. tasks' \in Seq(1..added) /\ tasks' \in Seq(TaskIds)
    BY <1>23, <2>1, <1>0, AppendShape, SeqMonotonic DEF Readd, Push, TasksSubmitted
  <2>3. pc' = [pc EXCEPT ![w] = "renotify"] /\ crowded' \in BOOLEAN
    BY <1>23 DEF Readd, Push, Goto, TypeOK
  <2>4. UNCHANGED <<finish, lkm, busyThreadCount, task, main, joiner,
                    added, rounds, spurious, finished>>
    BY <1>23 DEF Readd
  <2>5. TypeOK'
    BY <2>2, <2>3, <2>4 DEF TypeOK, WorkerPC
  <2>6. TasksSubmitted'
    BY <2>2, <2>3, <2>4 DEF TypeOK, TasksSubmitted, HoldsTask
  <2> QED BY <2>5, <2>6
<1>24. ASSUME NEW w \in Workers, Renotify(w) PROVE TypeOK' /\ TasksSubmitted'
  <2>2. /\ pc' \in [Workers -> WorkerPC]
        /\ \A v \in Workers : pc'[v] \in HoldsTask => pc[v] \in HoldsTask
    BY <1>24, RenotifyMoves DEF HoldsTask
  <2>3. UNCHANGED <<tasks, finish, lkm, busyThreadCount, task, main, joiner,
                    added, rounds, spurious, finished, crowded>>
    BY <1>24 DEF Renotify
  <2> QED BY <2>2, <2>3 DEF TypeOK, TasksSubmitted
<1>25. ASSUME NEW w \in Workers, BusyDec(w) PROVE TypeOK' /\ TasksSubmitted'
  BY <1>25 DEF BusyDec, Goto, TypeOK, TasksSubmitted, WorkerPC, HoldsTask
<1>26. CASE UNCHANGED vars
  BY <1>26 DEF vars, TypeOK, TasksSubmitted
<1> QED
  BY <1>1, <1>2, <1>3, <1>4, <1>5, <1>6, <1>7, <1>8, <1>9, <1>10, <1>11, <1>12, <1>13,
     <1>14, <1>15, <1>16, <1>17, <1>18, <1>19, <1>20, <1>21, <1>22, <1>23, <1>24, <1>25,
     <1>26
  DEF Next, MainStep, JoinerStep, WorkerStep

(* The variables of the pool keep their types in every behaviour, and no
   thread ever holds a task that was not submitted. *)
THEOREM TypeCorrect == Spec => [](TypeOK /\ TasksSubmitted)
<1>1. Init => TypeOK /\ TasksSubmitted
  <2> SUFFICES ASSUME Init PROVE TypeOK /\ TasksSubmitted
    OBVIOUS
  <2>1. /\ tasks \in Seq(TaskIds) /\ tasks \in Seq(1..added)
        /\ finished \subseteq TaskIds /\ finished \subseteq 1..added
    BY DEF Init
  <2>2. added \in 0..MaxTasks /\ rounds \in 0..MaxRounds /\ spurious \in 0..MaxSpurious
    BY BoundsNat DEF Init
  <2>3. pc \in [Workers -> WorkerPC] /\ \A w \in Workers : pc[w] \notin HoldsTask
    BY DEF Init, WorkerPC, HoldsTask
  <2>4. finish \in BOOLEAN /\ lkm \in Workers \cup {Nobody}
    BY DEF Init
  <2>7. busyThreadCount \in Int
    BY DEF Init
  <2>5. task \in [Workers -> TaskIds \cup {NoTask}]
    BY DEF Init
  <2>6. main \in MainPC /\ joiner \in JoinerPC /\ crowded \in BOOLEAN
    BY DEF Init, MainPC, JoinerPC
  <2> QED BY <2>1, <2>2, <2>3, <2>4, <2>5, <2>6, <2>7 DEF TypeOK, TasksSubmitted
<1>2. TypeOK /\ TasksSubmitted /\ [Next]_vars => (TypeOK /\ TasksSubmitted)'
  BY TypeStep
<1> QED BY <1>1, <1>2, PTL DEF Spec
-----------------------------------------------------------------------------
(* The threads move through a round together, so that no worker can see finish
   before shutdown has set it, nor take from an empty queue before then. *)
LEMMA ControlStep ==
  ASSUME TypeOK, TasksSubmitted, ControlInv, [Next]_vars
  PROVE  ControlInv'
<1> USE WorkersAssumption
    DEF ControlInv, Phases, LkmOwner, WorkBeforeFinish, TakeReady, ExitOnlyAfterShutdown,
        HoldsLkm, BeforeFinish, TypeOK, WorkerPC, MainPC, JoinerPC
<1>1. CASE StartRound
  BY <1>1 DEF StartRound
<1>2. CASE LaunchJoin
  BY <1>2 DEF LaunchJoin
<1>3. CASE AddTask
  BY <1>3 DEF AddTask, Push
<1>4. CASE NotifyOne
  <2>1. \A w \in Workers : pc'[w] = pc[w] \/ (pc[w] = "asleep" /\ pc'[w] = "lock")
    BY <1>4, WakeOneMoves DEF NotifyOne, TypeOK
  <2> QED
    BY <1>4, <2>1 DEF NotifyOne
<1>5. CASE Shutdown
  BY <1>5 DEF Shutdown
<1>6. CASE Drained
  BY <1>6 DEF Drained
<1>7. CASE SetFinish
  BY <1>7 DEF SetFinish
<1>8. CASE NotifyAll
  <2>1. \A w \in Workers : pc'[w] = pc[w] \/ (pc[w] = "asleep" /\ pc'[w] = "lock")
    BY <1>8, WakeAllMoves DEF NotifyAll, TypeOK
  <2> QED
    BY <1>8, <2>1 DEF NotifyAll
<1>9. CASE AwaitJoin
  BY <1>9 DEF AwaitJoin
<1>10. CASE StoreFinish
  BY <1>10 DEF StoreFinish
<1>11. CASE JoinStore
  BY <1>11 DEF JoinStore
<1>12. CASE JoinThreads
  BY <1>12 DEF JoinThreads
<1>13. ASSUME NEW w \in Workers, Spawn(w) PROVE ControlInv'
  BY <1>13 DEF Spawn, Goto
<1>14. ASSUME NEW w \in Workers, CheckFinish(w) PROVE ControlInv'
  BY <1>14 DEF CheckFinish, Goto
<1>15. ASSUME NEW w \in Workers, Lock(w) PROVE ControlInv'
  BY <1>15 DEF Lock, Goto
<1>16. ASSUME NEW w \in Workers, PredSize(w) PROVE ControlInv'
  BY <1>16 DEF PredSize, Goto
<1>17. ASSUME NEW w \in Workers, PredFinish(w) PROVE ControlInv'
  BY <1>17 DEF PredFinish, Goto
<1>18. ASSUME NEW w \in Workers, Doze(w) PROVE ControlInv'
  BY <1>18 DEF Doze, Goto
<1>19. ASSUME NEW w \in Workers, SpuriousWakeup(w) PROVE ControlInv'
  BY <1>19 DEF SpuriousWakeup, Goto
<1>20. ASSUME NEW w \in Workers, Take(w) PROVE ControlInv'
  BY <1>20 DEF Take, Goto
<1>21. ASSUME NEW w \in Workers, BusyInc(w) PROVE ControlInv'
  BY <1>21 DEF BusyInc, Goto
<1>22. ASSUME NEW w \in Workers, Handle(w) PROVE ControlInv'
  BY <1>22 DEF Handle, Goto
<1>23. ASSUME NEW w \in Workers, Readd(w) PROVE ControlInv'
  BY <1>23 DEF Readd, Goto, Push
<1>24. ASSUME NEW w \in Workers, Renotify(w) PROVE ControlInv'
  <2>1. /\ pc'[w] = "busyDec"
        /\ \A v \in Workers \ {w} : pc'[v] = pc[v] \/ (pc[v] = "asleep" /\ pc'[v] = "lock")
    BY <1>24, RenotifyMoves
  <2> QED
    BY <1>24, <2>1 DEF Renotify
<1>25. ASSUME NEW w \in Workers, BusyDec(w) PROVE ControlInv'
  BY <1>25 DEF BusyDec, Goto
<1>26. CASE UNCHANGED vars
  BY <1>26 DEF vars
<1> QED
  BY <1>1, <1>2, <1>3, <1>4, <1>5, <1>6, <1>7, <1>8, <1>9, <1>10, <1>11, <1>12, <1>13,
     <1>14, <1>15, <1>16, <1>17, <1>18, <1>19, <1>20, <1>21, <1>22, <1>23, <1>24,
     <1>25, <1>26
  DEF Next, MainStep, JoinerStep, WorkerStep

(* The rounds keep their order: what the other theorems build on. *)
THEOREM ControlCorrect == Spec => []ControlInv
<1>1. Init => ControlInv
  BY WorkersAssumption
  DEF Init, ControlInv, Phases, LkmOwner, WorkBeforeFinish, TakeReady,
      ExitOnlyAfterShutdown, HoldsLkm, BeforeFinish
<1>2. TypeOK /\ TasksSubmitted /\ ControlInv /\ [Next]_vars => ControlInv'
  BY ControlStep
<1> QED BY <1>1, <1>2, TypeCorrect, PTL DEF Spec

(* No worker leaves its loop before shutdown has set finish, whatever the
   bounds, the number of workers and the wakeups. *)
THEOREM NoEarlyExit == Spec => []ExitOnlyAfterShutdown
<1>1. ControlInv => ExitOnlyAfterShutdown
  BY DEF ControlInv
<1> QED BY <1>1, ControlCorrect, PTL

-----------------------------------------------------------------------------
(* busyThreadCount counts the workers between its increment and its decrement. *)
LEMMA BusyStep ==
  ASSUME TypeOK, ControlInv, BusyCountExact, [Next]_vars
  PROVE  BusyCountExact'
<1> USE DEF BusyCountExact
<1>0. IsFiniteSet(BusyWorkers)
  BY WorkersAssumption, FS_Subset DEF BusyWorkers
<1>a. SUFFICES ASSUME ~(BusyWorkers' = BusyWorkers /\ busyThreadCount' = busyThreadCount)
               PROVE  BusyCountExact'
  OBVIOUS
<1> USE DEF InHandler, BusyWorkers
<1>1. ASSUME StartRound PROVE FALSE
  BY <1>1, <1>a DEF StartRound, ControlInv, Phases
<1>2. ASSUME NEW w \in Workers, Spawn(w) PROVE FALSE
  BY <1>2, <1>a DEF Spawn, Goto, TypeOK
<1>3. ASSUME NotifyOne PROVE FALSE
  BY <1>3, <1>a, WakeOneMoves DEF NotifyOne, TypeOK
<1>4. ASSUME NotifyAll PROVE FALSE
  BY <1>4, <1>a, WakeAllMoves DEF NotifyAll, TypeOK
<1>5. ASSUME \/ LaunchJoin \/ AddTask \/ Shutdown \/ Drained \/ SetFinish \/ AwaitJoin
             \/ StoreFinish \/ JoinStore \/ JoinThreads \/ UNCHANGED vars
      PROVE  FALSE
  BY <1>5, <1>a
  DEF LaunchJoin, AddTask, Shutdown, Drained, SetFinish, AwaitJoin, StoreFinish,
      JoinStore, JoinThreads, vars
<1>6. ASSUME NEW w \in Workers,
             \/ CheckFinish(w) \/ Lock(w) \/ PredSize(w) \/ PredFinish(w) \/ Doze(w)
             \/ SpuriousWakeup(w) \/ Take(w) \/ Handle(w) \/ Readd(w)
      PROVE  FALSE
  BY <1>6, <1>a
  DEF CheckFinish, Lock, PredSize, PredFinish, Doze, SpuriousWakeup, Take, Handle, Readd,
      Goto, TypeOK
<1>7. ASSUME NEW w \in Workers, Renotify(w) PROVE FALSE
  BY <1>7, <1>a, RenotifyMoves DEF Renotify
<1>8. ASSUME NEW w \in Workers, BusyInc(w) PROVE BusyCountExact'
  <2>1. BusyWorkers' = BusyWorkers \cup {w} /\ w \notin BusyWorkers
    BY <1>8 DEF BusyInc, Goto, TypeOK
  <2>2. Cardinality(BusyWorkers') = Cardinality(BusyWorkers) + 1
    BY <1>0, <2>1, FS_AddElement
  <2> QED BY <1>8, <2>2 DEF BusyInc
<1>9. ASSUME NEW w \in Workers, BusyDec(w) PROVE BusyCountExact'
  <2>1. BusyWorkers' = BusyWorkers \ {w} /\ w \in BusyWorkers
    BY <1>9 DEF BusyDec, Goto, TypeOK
  <2>2. Cardinality(BusyWorkers') = Cardinality(BusyWorkers) - 1
    BY <1>0, <2>1, FS_RemoveElement
  <2> QED BY <1>9, <2>2 DEF BusyDec
<1> QED
  BY <1>1, <1>2, <1>3, <1>4, <1>5, <1>6, <1>7, <1>8, <1>9
  DEF Next, MainStep, JoinerStep, WorkerStep

(* What getBusyThreadCount returns is the number of handlers under way. *)
THEOREM BusyCountCorrect == Spec => []BusyCountExact
<1>1. Init => BusyCountExact
  <2> SUFFICES ASSUME Init PROVE BusyCountExact
    OBVIOUS
  <2>1. BusyWorkers = {}
    BY DEF Init, BusyWorkers, InHandler
  <2> QED BY <2>1, FS_EmptySet DEF Init, BusyCountExact
<1>2. TypeOK /\ ControlInv /\ BusyCountExact /\ [Next]_vars => BusyCountExact'
  BY BusyStep
<1>3. TypeOK /\ TasksSubmitted => TypeOK
  OBVIOUS
<1> QED BY <1>1, <1>2, <1>3, TypeCorrect, ControlCorrect, PTL DEF Spec
-----------------------------------------------------------------------------
(* A step that moves no task between the queue, the workers and the finished
   tasks keeps every task in its one place. *)
MovesNoTask ==
  /\ tasks' = tasks /\ finished' = finished /\ added' = added /\ crowded' = crowded
  /\ \A w \in Workers :
       /\ (pc'[w] \in HoldsTask) = (pc[w] \in HoldsTask)
       /\ pc[w] \in HoldsTask => task'[w] = task[w]

ConservationInv == AtMostOneQueued /\ ConservedUnlessCrowded

LEMMA SamePlaces ==
  ASSUME MovesNoTask, ConservationInv
  PROVE  ConservationInv'
<1>1. ASSUME NEW t PROVE Holders(t)' = Holders(t)
  BY DEF Holders, MovesNoTask
<1>2. ASSUME NEW t, InOnePlace(t) PROVE InOnePlace(t)'
  BY <1>1, <1>2 DEF InOnePlace, Queued, MovesNoTask
<1> QED
  BY <1>2 DEF ConservationInv, AtMostOneQueued, ConservedUnlessCrowded, TasksConserved,
              MovesNoTask

(* With the queue empty, a push of a task that is nowhere else keeps it, and
   every other task, in one place. *)
LEMMA PushedInOnePlace ==
  ASSUME TypeOK, NEW x, tasks = <<>>, tasks' = Append(tasks, x), finished' = finished,
         x \notin finished, Holders(x)' = {},
         NEW t, t # x => InOnePlace(t) /\ Holders(t)' = Holders(t)
  PROVE  InOnePlace(t)'
<1>1. Len(tasks') = 1 /\ tasks'[1] = x
  OBVIOUS
<1>2. CASE t = x
  BY <1>1, <1>2 DEF InOnePlace, Queued
<1>3. CASE t # x
  <2>1. ~Queued(t) /\ ~Queued(t)'
    BY <1>1, <1>3 DEF Queued
  <2>2. \A i, j \in 1..Len(tasks') : i = j
    BY <1>1
  <2>3. InOnePlace(t) /\ Holders(t)' = Holders(t)
    BY <1>3
  <2> QED BY <2>1, <2>2, <2>3 DEF InOnePlace
<1> QED BY <1>2, <1>3

LEMMA ConservationStep ==
  ASSUME TypeOK, TasksSubmitted, ControlInv, ConservationInv, [Next]_vars
  PROVE  ConservationInv'
<1>0. added \in Nat
  BY BoundsNat DEF TypeOK
<1>a. MovesNoTask => ConservationInv'
  BY SamePlaces
<1>b. crowded' => ConservationInv'
  BY DEF ConservationInv, AtMostOneQueued, ConservedUnlessCrowded
<1>1. CASE StartRound
  BY <1>1, <1>a DEF StartRound, MovesNoTask, ControlInv, Phases, HoldsTask
<1>2. ASSUME NEW w \in Workers, Spawn(w) PROVE ConservationInv'
  BY <1>2, <1>a DEF Spawn, Goto, MovesNoTask, TypeOK, HoldsTask
<1>3. CASE NotifyOne
  BY <1>3, <1>a, WakeOneMoves DEF NotifyOne, MovesNoTask, TypeOK, HoldsTask
<1>4. CASE NotifyAll
  BY <1>4, <1>a, WakeAllMoves DEF NotifyAll, MovesNoTask, TypeOK, HoldsTask
<1>5. ASSUME \/ LaunchJoin \/ Shutdown \/ Drained \/ SetFinish \/ AwaitJoin
             \/ StoreFinish \/ JoinStore \/ JoinThreads \/ UNCHANGED vars
      PROVE  ConservationInv'
  BY <1>5, <1>a
  DEF LaunchJoin, Shutdown, Drained, SetFinish, AwaitJoin, StoreFinish, JoinStore,
      JoinThreads, vars, MovesNoTask
<1>6. ASSUME NEW w \in Workers,
             \/ CheckFinish(w) \/ Lock(w) \/ PredSize(w) \/ PredFinish(w) \/ Doze(w)
             \/ SpuriousWakeup(w) \/ BusyInc(w) \/ BusyDec(w)
      PROVE  ConservationInv'
  BY <1>6, <1>a
  DEF CheckFinish, Lock, PredSize, PredFinish, Doze, SpuriousWakeup, BusyInc, BusyDec,
      Goto, MovesNoTask, TypeOK, HoldsTask
<1>7. ASSUME NEW w \in Workers, Renotify(w) PROVE ConservationInv'
  BY <1>7, <1>a, RenotifyMoves DEF Renotify, MovesNoTask, HoldsTask
<1>8. CASE AddTask
  <2> SUFFICES ASSUME ~crowded' PROVE ConservationInv'
    BY <1>b
  <2>1. /\ tasks = <<>> /\ ~crowded /\ tasks' = Append(tasks, added + 1)
        /\ finished' = finished /\ added' = added + 1 /\ pc' = pc /\ task' = task
    BY <1>8 DEF AddTask, Push, TypeOK
  <2>2. \A t : Holders(t)' = Holders(t)
    BY <2>1 DEF Holders
  <2>3. added + 1 \notin finished /\ Holders(added + 1) = {}
    BY <1>0 DEF TasksSubmitted, Holders
  <2>4. \A t \in 1..added : InOnePlace(t)
    BY <2>1 DEF ConservationInv, ConservedUnlessCrowded, TasksConserved
  <2>5. ASSUME NEW t \in 1..added' PROVE InOnePlace(t)'
    <3>1. t # added + 1 => t \in 1..added
      BY <1>0, <2>1
    <3> QED BY <2>1, <2>2, <2>3, <2>4, <3>1, PushedInOnePlace
  <2>6. Len(tasks') = 1
    BY <2>1
  <2> QED
    BY <2>5, <2>6
    DEF ConservationInv, AtMostOneQueued, ConservedUnlessCrowded, TasksConserved
<1>9. ASSUME NEW w \in Workers, Readd(w) PROVE ConservationInv'
  <2> SUFFICES ASSUME ~crowded' PROVE ConservationInv'
    BY <1>b
  <2>0. PICK x : x = task[w]
    OBVIOUS
  <2>1. /\ tasks = <<>> /\ ~crowded /\ tasks' = Append(tasks, x)
        /\ finished' = finished /\ added' = added /\ task' = task
        /\ pc[w] = "readd" /\ pc' = [pc EXCEPT ![w] = "renotify"]
    BY <1>9, <2>0 DEF Readd, Push, Goto, TypeOK
  <2>2. x \in 1..added /\ w \in Holders(x)
    BY <2>0, <2>1, HolderHasTask DEF Holders, HoldsTask
  <2>3. \A t \in 1..added : InOnePlace(t)
    BY <2>1 DEF ConservationInv, ConservedUnlessCrowded, TasksConserved
  <2>4. Holders(x) = {w} /\ x \notin finished
    BY <2>2, <2>3 DEF InOnePlace
  <2>5. Holders(x)' = {}
    BY <2>1, <2>4 DEF Holders, HoldsTask, TypeOK
  <2>6. \A t : t # x => Holders(t)' = Holders(t)
    BY <2>0, <2>1 DEF Holders, HoldsTask, TypeOK
  <2>7. \A t \in 1..added : InOnePlace(t)'
    <3> QED BY <2>1, <2>3, <2>4, <2>5, <2>6, PushedInOnePlace
  <2>8. Len(tasks') = 1
    BY <2>1
  <2> QED
    BY <2>1, <2>7, <2>8
    DEF ConservationInv, AtMostOneQueued, ConservedUnlessCrowded, TasksConserved
<1>10. ASSUME NEW w \in Workers, Take(w) PROVE ConservationInv'
  <2>1. CASE tasks = <<>>
    BY <1>10, <2>1, <1>a DEF Take, Goto, MovesNoTask, TypeOK, HoldsTask
  <2>2. CASE tasks # <<>> /\ ~crowded
    <3>0. PICK x : x = tasks[Len(tasks)]
      OBVIOUS
    <3>1. Len(tasks) = 1 /\ x = tasks[1] /\ x \in 1..added
      <4>1. Len(tasks) \in Nat \ {0} /\ tasks[Len(tasks)] \in 1..added
        BY <2>2, TakeShape DEF TasksSubmitted
      <4>2. Len(tasks) <= 1
        BY <2>2 DEF ConservationInv, AtMostOneQueued
      <4>3. Len(tasks) = 1
        BY <4>1, <4>2
      <4> QED BY <3>0, <4>1, <4>3
    <3>2. tasks' = Tail(tasks) /\ Len(tasks') = 0
      BY <1>10, <2>2, <3>1, TakeShape DEF Take, TasksSubmitted
    <3>3. /\ finished' = finished /\ added' = added /\ crowded' = crowded
          /\ pc[w] = "take" /\ pc' = [pc EXCEPT ![w] = "count"]
          /\ task' = [task EXCEPT ![w] = x]
      BY <1>10, <2>2, <3>0 DEF Take, Goto
    <3>4. \A t \in 1..added : InOnePlace(t)
      BY <2>2 DEF ConservationInv, ConservedUnlessCrowded, TasksConserved
    <3>5. Queued(x) /\ \A t : t # x => ~Queued(t)
      BY <3>1 DEF Queued
    <3>6. Holders(x) = {} /\ x \notin finished
      BY <3>1, <3>4, <3>5 DEF InOnePlace
    <3>7. Holders(x)' = {w}
      BY <3>3, <3>6 DEF Holders, HoldsTask, TypeOK
    <3>8. \A t : t # x => Holders(t)' = Holders(t)
      BY <3>3 DEF Holders, HoldsTask, TypeOK
    <3>9. \A t : ~Queued(t)'
      BY <3>2 DEF Queued
    <3>10. ASSUME NEW t \in 1..added PROVE InOnePlace(t)'
      <4>1. \A i, j \in 1..Len(tasks') : i = j
        BY <3>2
      <4>2. CASE t = x
        BY <3>3, <3>6, <3>7, <3>9, <4>1, <4>2 DEF InOnePlace
      <4>3. CASE t # x
        BY <3>3, <3>4, <3>5, <3>8, <3>9, <4>1, <4>3 DEF InOnePlace
      <4> QED BY <4>2, <4>3
    <3> QED
      BY <3>2, <3>3, <3>10
      DEF ConservationInv, AtMostOneQueued, ConservedUnlessCrowded, TasksConserved
  <2>3. CASE crowded
    BY <1>10, <2>3, <1>b DEF Take
  <2> QED BY <2>1, <2>2, <2>3 DEF TypeOK
<1>11. ASSUME NEW w \in Workers, Handle(w) PROVE ConservationInv'
  <2>0. PICK x : x = task[w]
    OBVIOUS
  <2>1. /\ tasks' = tasks /\ added' = added /\ crowded' = crowded /\ task' = task
        /\ pc[w] = "handle"
    BY <1>11 DEF Handle
  <2>2. CASE pc' = [pc EXCEPT ![w] = "readd"] /\ finished' = finished
    BY <2>1, <2>2, <1>a DEF MovesNoTask, TypeOK, HoldsTask
  <2>3. CASE /\ pc' = [pc EXCEPT ![w] = "busyDec"]
             /\ finished' = finished \cup {x}
    <3> SUFFICES ASSUME ~crowded PROVE ConservationInv'
      BY <1>b, <2>1
    <3>1. x \in 1..added /\ w \in Holders(x)
      BY <2>0, <2>1 DEF TasksSubmitted, Holders, HoldsTask
    <3>2. \A t \in 1..added : InOnePlace(t)
      BY DEF ConservationInv, ConservedUnlessCrowded, TasksConserved
    <3>3. Holders(x) = {w} /\ ~Queued(x)
      BY <3>1, <3>2 DEF InOnePlace
    <3>4. \A t : Queued(t)' = Queued(t)
      BY <2>1 DEF Queued
    <3>5. Holders(x)' = {}
      BY <2>1, <2>3, <3>3 DEF Holders, HoldsTask, TypeOK
    <3>6. \A t : t # x => Holders(t)' = Holders(t)
      BY <2>0, <2>1, <2>3 DEF Holders, HoldsTask, TypeOK
    <3>7. ASSUME NEW t \in 1..added PROVE InOnePlace(t)'
      <4>1. CASE t = x
        BY <2>1, <2>3, <3>2, <3>3, <3>4, <3>5, <4>1 DEF InOnePlace
      <4>2. CASE t # x
        <5>1. Holders(t)' = Holders(t) /\ Queued(t)' = Queued(t) /\ InOnePlace(t)
          BY <3>2, <3>4, <3>6, <4>2
        <5>2. (t \in finished') = (t \in finished)
          BY <2>3, <4>2
        <5> QED BY <2>1, <5>1, <5>2 DEF InOnePlace
      <4> QED BY <4>1, <4>2
    <3> QED
      BY <2>1, <3>7
      DEF ConservationInv, AtMostOneQueued, ConservedUnlessCrowded, TasksConserved
  <2> QED BY <1>11, <2>0, <2>2, <2>3 DEF Handle, Goto
<1> QED
  BY <1>1, <1>2, <1>3, <1>4, <1>5, <1>6, <1>7, <1>8, <1>9, <1>10, <1>11
  DEF Next, MainStep, JoinerStep, WorkerStep

(* Conservation and what makes it inductive: at most one task is queued. *)
LEMMA Conserved == Spec => []ConservationInv
<1>1. Init => ConservationInv
  BY DEF Init, ConservationInv, AtMostOneQueued, ConservedUnlessCrowded, TasksConserved
<1>2. TypeOK /\ TasksSubmitted /\ ControlInv /\ ConservationInv /\ [Next]_vars
        => ConservationInv'
  BY ConservationStep
<1> QED BY <1>1, <1>2, TypeCorrect, ControlCorrect, PTL DEF Spec

(* While two tasks never stand in the queue at once, every submitted task is
   in the queue, with exactly one worker, or finished, and only one of these. *)
THEOREM Conservation == Spec => []ConservedUnlessCrowded
<1>1. ConservationInv => ConservedUnlessCrowded
  BY DEF ConservationInv
<1> QED BY <1>1, Conserved, PTL

-----------------------------------------------------------------------------
(* The refinement of WorkQueue.  A step WorkQueue allows: one of its own, or none. *)
PromiseKept == [Promise!Next]_(Promise!vars)

(* A step that moves no task is none to WorkQueue. *)
LEMMA UnseenStep ==
  ASSUME MovesNoTask
  PROVE  PromiseKept
<1>1. Held' = Held
  BY DEF Held, MovesNoTask
<1>2. Pending' = Pending /\ Done' = Done /\ crowded' = crowded
  BY DEF Pending, Done, MovesNoTask
<1> QED BY <1>1, <1>2 DEF PromiseKept, Promise!vars

(* After the second task in the queue nothing is seen any more. *)
LEMMA VoidStep ==
  ASSUME TypeOK, crowded', crowded \/ tasks # <<>>
  PROVE  PromiseKept
<1>1. /\ Pending' = {} /\ Done' = {}
      /\ Held' = [w \in Workers |-> NoTask]
  BY DEF Pending, Held, Done
<1>2. CASE crowded
  <2>1. /\ Pending = {} /\ Done = {}
        /\ Held = [w \in Workers |-> NoTask] /\ crowded' = crowded
    BY <1>2 DEF Pending, Held, Done, TypeOK
  <2> QED BY <1>1, <2>1 DEF PromiseKept, Promise!vars
<1>3. CASE ~crowded
  <2>1. Len(tasks) \in Nat \ {0}
    BY <1>3, TakeShape DEF TypeOK
  <2>2. tasks[1] \in Pending
    BY <1>3, <2>1 DEF Pending
  <2>3. Promise!Crowd
    BY <1>1, <1>3, <2>2 DEF Promise!Crowd, Promise!Idle
  <2> QED BY <2>3 DEF PromiseKept, Promise!Next
<1> QED BY <1>2, <1>3

(* Every step of a pool that keeps its tasks in one place is one WorkQueue allows. *)
LEMMA PromiseStep ==
  ASSUME TypeOK, TasksSubmitted, ControlInv, ConservationInv, [Next]_vars
  PROVE  PromiseKept
<1>0. added \in Nat /\ 1..added \subseteq TaskIds /\ NoTask \notin TaskIds
  BY BoundsNat DEF TypeOK, TaskIds, NoTask
<1>a. MovesNoTask => PromiseKept
  BY UnseenStep
<1>b. crowded' /\ (crowded \/ tasks # <<>>) => PromiseKept
  BY VoidStep
<1>1. CASE StartRound
  BY <1>1, <1>a DEF StartRound, MovesNoTask, ControlInv, Phases, HoldsTask
<1>2. ASSUME NEW w \in Workers, Spawn(w) PROVE PromiseKept
  BY <1>2, <1>a DEF Spawn, Goto, MovesNoTask, TypeOK, HoldsTask
<1>3. CASE NotifyOne
  BY <1>3, <1>a, WakeOneMoves DEF NotifyOne, MovesNoTask, TypeOK, HoldsTask
<1>4. CASE NotifyAll
  BY <1>4, <1>a, WakeAllMoves DEF NotifyAll, MovesNoTask, TypeOK, HoldsTask
<1>5. ASSUME \/ LaunchJoin \/ Shutdown \/ Drained \/ SetFinish \/ AwaitJoin
             \/ StoreFinish \/ JoinStore \/ JoinThreads \/ UNCHANGED vars
      PROVE  PromiseKept
  BY <1>5, <1>a
  DEF LaunchJoin, Shutdown, Drained, SetFinish, AwaitJoin, StoreFinish, JoinStore,
      JoinThreads, vars, MovesNoTask
<1>6. ASSUME NEW w \in Workers,
             \/ CheckFinish(w) \/ Lock(w) \/ PredSize(w) \/ PredFinish(w) \/ Doze(w)
             \/ SpuriousWakeup(w) \/ BusyInc(w) \/ BusyDec(w)
      PROVE  PromiseKept
  BY <1>6, <1>a
  DEF CheckFinish, Lock, PredSize, PredFinish, Doze, SpuriousWakeup, BusyInc, BusyDec,
      Goto, MovesNoTask, TypeOK, HoldsTask
<1>7. ASSUME NEW w \in Workers, Renotify(w) PROVE PromiseKept
  <2>1. /\ pc[w] = "renotify" /\ pc'[w] = "busyDec"
        /\ \A v \in Workers \ {w} : pc'[v] = pc[v] \/ (pc[v] = "asleep" /\ pc'[v] = "lock")
    BY <1>7, RenotifyMoves
  <2>2. MovesNoTask
    BY <1>7, <2>1 DEF Renotify, MovesNoTask, HoldsTask
  <2> QED BY <2>2, <1>a
<1>8. CASE AddTask
  <2>0. /\ tasks' = Append(tasks, added + 1) /\ crowded' = (crowded \/ tasks # <<>>)
        /\ finished' = finished /\ pc' = pc /\ task' = task /\ added + 1 \in TaskIds
    BY <1>8, <1>0, BoundsNat DEF AddTask, Push, TaskIds, TypeOK
  <2>1. CASE crowded'
    BY <2>0, <2>1, <1>b
  <2>2. CASE ~crowded'
    <3>1. tasks = <<>> /\ ~crowded
      BY <2>0, <2>2
    <3>2. Pending = {} /\ Pending' = {added + 1}
      <4>1. Len(tasks) = 0 /\ Len(tasks') = 1 /\ tasks'[1] = added + 1
        BY <2>0, <3>1
      <4> QED BY <2>2, <3>1, <4>1 DEF Pending
    <3>3. Held' = Held /\ Done' = Done /\ crowded' = crowded
      BY <2>0, <2>2, <3>1 DEF Held, Done, TypeOK
    <3>4. added + 1 \notin Done
      BY <1>0, <3>1 DEF Done, TasksSubmitted
    <3>5. \A w \in Workers : Held[w] # added + 1
      BY <1>0, <3>1 DEF Held, TasksSubmitted, NoTask
    <3>6. Promise!Submit(added + 1)
      BY <3>2, <3>3, <3>4, <3>5 DEF Promise!Submit
    <3> QED BY <2>0, <3>6 DEF PromiseKept, Promise!Next
  <2> QED BY <2>1, <2>2
<1>9. ASSUME NEW w \in Workers, Readd(w) PROVE PromiseKept
  <2>0. /\ tasks' = Append(tasks, task[w]) /\ crowded' = (crowded \/ tasks # <<>>)
        /\ finished' = finished /\ pc[w] = "readd" /\ pc' = [pc EXCEPT ![w] = "renotify"]
        /\ task' = task
    BY <1>9 DEF Readd, Push, Goto
  <2>1. CASE crowded'
    BY <2>0, <2>1, <1>b
  <2>2. CASE ~crowded'
    <3>1. tasks = <<>> /\ ~crowded
      BY <2>0, <2>2
    <3>2. Held[w] = task[w] /\ task[w] \in TaskIds
      BY <1>0, <2>0, <3>1, HolderHasTask DEF Held, HoldsTask
    <3>3. Pending = {} /\ Pending' = {Held[w]}
      <4>1. Len(tasks) = 0 /\ Len(tasks') = 1 /\ tasks'[1] = task[w]
        BY <2>0, <3>1
      <4> QED BY <2>2, <3>1, <3>2, <4>1 DEF Pending
    <3>4. Held' = [Held EXCEPT ![w] = NoTask]
      BY <2>0, <2>2, <3>1 DEF Held, HoldsTask, TypeOK
    <3>5. Done' = Done /\ crowded' = crowded
      BY <2>0, <2>2, <3>1 DEF Done, TypeOK
    <3>6. Promise!GiveBack(w)
      BY <1>0, <3>2, <3>3, <3>4, <3>5 DEF Promise!GiveBack
    <3> QED BY <3>6 DEF PromiseKept, Promise!Next
  <2> QED BY <2>1, <2>2
<1>10. ASSUME NEW w \in Workers, Take(w) PROVE PromiseKept
  <2>1. CASE tasks = <<>>
    BY <1>10, <2>1, <1>a DEF Take, Goto, MovesNoTask, TypeOK, HoldsTask
  <2>2. CASE tasks # <<>> /\ ~crowded
    <3>0. PICK x : x = tasks[Len(tasks)]
      OBVIOUS
    <3>1. Len(tasks) = 1 /\ x = tasks[1] /\ x \in TaskIds
      <4>1. Len(tasks) \in Nat \ {0} /\ tasks[Len(tasks)] \in 1..added
        BY <2>2, TakeShape DEF TasksSubmitted
      <4>2. Len(tasks) <= 1
        BY <2>2 DEF ConservationInv, AtMostOneQueued
      <4>3. Len(tasks) = 1
        BY <4>1, <4>2
      <4> QED BY <1>0, <3>0, <4>1, <4>3
    <3>2. tasks' = Tail(tasks) /\ Len(tasks') = 0
      BY <1>10, <2>2, <3>1, TakeShape DEF Take, TypeOK
    <3>3. /\ finished' = finished /\ crowded' = crowded
          /\ pc[w] = "take" /\ pc' = [pc EXCEPT ![w] = "count"]
          /\ task' = [task EXCEPT ![w] = x]
      BY <1>10, <2>2, <3>0 DEF Take, Goto
    <3>4. Pending = {x} /\ Pending' = {}
      <4>1. Pending = {tasks[i] : i \in 1..1}
        BY <2>2, <3>1 DEF Pending
      <4>2. ~crowded' => Pending' = {tasks'[i] : i \in 1..0}
        BY <3>2 DEF Pending
      <4> QED BY <2>2, <3>1, <3>3, <4>1, <4>2
    <3>5. Held[w] = NoTask /\ Held' = [Held EXCEPT ![w] = x]
      BY <2>2, <3>3 DEF Held, HoldsTask, TypeOK
    <3>6. Done' = Done
      BY <3>3 DEF Done
    <3>7. Promise!Claim(w, x)
      BY <3>3, <3>4, <3>5, <3>6 DEF Promise!Claim
    <3> QED BY <3>1, <3>7 DEF PromiseKept, Promise!Next
  <2>3. CASE crowded
    BY <1>10, <2>3, <1>b DEF Take
  <2> QED BY <2>1, <2>2, <2>3 DEF TypeOK
<1>11. ASSUME NEW w \in Workers, Handle(w) PROVE PromiseKept
  <2>1. /\ tasks' = tasks /\ crowded' = crowded /\ task' = task /\ added' = added
        /\ pc[w] = "handle"
    BY <1>11 DEF Handle
  <2>2. CASE crowded
    BY <2>1, <2>2, <1>b
  <2>3. CASE pc' = [pc EXCEPT ![w] = "readd"] /\ finished' = finished
    BY <2>1, <2>3, <1>a DEF MovesNoTask, TypeOK, HoldsTask
  <2>4. CASE ~crowded /\ pc' = [pc EXCEPT ![w] = "busyDec"] /\ finished' = finished \cup {task[w]}
    <3>1. Held[w] = task[w] /\ task[w] \in TaskIds
      BY <1>0, <2>1, <2>4 DEF Held, HoldsTask, TasksSubmitted
    <3>2. Held' = [Held EXCEPT ![w] = NoTask]
      BY <2>1, <2>4 DEF Held, HoldsTask, TypeOK
    <3>3. Pending' = Pending
      BY <2>1 DEF Pending
    <3>4. Done' = Done \cup {Held[w]}
      BY <2>1, <2>4, <3>1 DEF Done
    <3>5. Promise!Finish(w)
      BY <1>0, <2>1, <3>1, <3>2, <3>3, <3>4 DEF Promise!Finish
    <3> QED BY <3>5 DEF PromiseKept, Promise!Next
  <2> QED BY <1>11, <2>2, <2>3, <2>4 DEF Handle, Goto
<1> QED
  BY <1>1, <1>2, <1>3, <1>4, <1>5, <1>6, <1>7, <1>8, <1>9, <1>10, <1>11
  DEF Next, MainStep, JoinerStep, WorkerStep

(* The pool implements WorkQueue: whatever its threads, wakeups and rounds do, a
   task goes from the queue to one worker and from there to the finished tasks or
   back to the queue, until two tasks stand in the queue at once. *)
THEOREM PoolKeeps == Spec => KeepsPromise
<1>1. Init => Promise!Init
  <2> SUFFICES ASSUME Init PROVE Promise!Init
    OBVIOUS
  <2>1. Pending = {} /\ Done = {} /\ crowded = FALSE
    BY DEF Init, Pending, Done
  <2>2. Held = Promise!Idle
    BY DEF Init, Held, HoldsTask, Promise!Idle
  <2> QED BY <2>1, <2>2 DEF Promise!Init
<1>2. TypeOK /\ TasksSubmitted /\ ControlInv /\ ConservationInv /\ [Next]_vars
        => [Promise!Next]_(Promise!vars)
  BY PromiseStep DEF PromiseKept
<1> QED
  BY <1>1, <1>2, TypeCorrect, ControlCorrect, Conserved, PTL
  DEF Spec, KeepsPromise, Promise!Spec

-----------------------------------------------------------------------------
(* With handlers that never return -1, the queue stays empty once shutdown has
   found it empty. *)
LEMMA DrainedStep ==
  ASSUME TypeOK, DrainedStays, [Next]_vars
  PROVE  DrainedStays'
<1> SUFFICES ASSUME ~HandlerReadds PROVE DrainedStays'
  BY DEF DrainedStays
<1> USE DEF DrainedStays, AfterDrain
<1>1. ASSUME \/ StartRound \/ LaunchJoin \/ AddTask \/ Shutdown \/ Drained \/ SetFinish
             \/ AwaitJoin \/ StoreFinish \/ JoinStore \/ JoinThreads \/ UNCHANGED vars
      PROVE  DrainedStays'
  BY <1>1
  DEF StartRound, LaunchJoin, AddTask, Shutdown, Drained, SetFinish, AwaitJoin,
      StoreFinish, JoinStore, JoinThreads, vars
<1>2. CASE NotifyOne
  BY <1>2, WakeOneMoves DEF NotifyOne, TypeOK
<1>3. CASE NotifyAll
  BY <1>3, WakeAllMoves DEF NotifyAll, TypeOK
<1>4. ASSUME NEW w \in Workers,
             \/ Spawn(w) \/ CheckFinish(w) \/ Lock(w) \/ PredSize(w) \/ PredFinish(w)
             \/ Doze(w) \/ SpuriousWakeup(w) \/ BusyInc(w) \/ BusyDec(w)
      PROVE  DrainedStays'
  BY <1>4
  DEF Spawn, CheckFinish, Lock, PredSize, PredFinish, Doze, SpuriousWakeup, BusyInc,
      BusyDec, Goto, TypeOK
<1>5. ASSUME NEW w \in Workers, Take(w) PROVE DrainedStays'
  BY <1>5 DEF Take, Goto, TypeOK
<1>6. ASSUME NEW w \in Workers, Handle(w) PROVE DrainedStays'
  BY <1>6 DEF Handle, Goto, TypeOK
<1>7. ASSUME NEW w \in Workers, Readd(w) \/ Renotify(w) PROVE DrainedStays'
  BY <1>7 DEF Readd, Renotify
<1> QED
  BY <1>1, <1>2, <1>3, <1>4, <1>5, <1>6, <1>7
  DEF Next, MainStep, JoinerStep, WorkerStep

(* When joinAll has returned, shutdown has left no task behind: none in the
   queue, none with a worker and, unless two stood in the queue at once, none
   unhandled. *)
THEOREM ShutdownClean == Spec => []ShutdownLeavesNothing
<1>1. Init => DrainedStays
  BY DEF Init, DrainedStays, AfterDrain
<1>2. TypeOK /\ DrainedStays /\ [Next]_vars => DrainedStays'
  BY DrainedStep
<1>3. ControlInv /\ DrainedStays /\ ConservedUnlessCrowded => ShutdownLeavesNothing
  <2> SUFFICES ASSUME ControlInv, DrainedStays, ConservedUnlessCrowded,
                      ~HandlerReadds, main = "storeFinish"
               PROVE  /\ tasks = <<>>
                      /\ \A w \in Workers : pc[w] \notin HoldsTask
                      /\ crowded \/ 1..added \subseteq finished
    BY DEF ShutdownLeavesNothing
  <2>1. tasks = <<>>
    BY DEF DrainedStays, AfterDrain
  <2>2. \A w \in Workers : pc[w] \notin HoldsTask
    BY DEF ControlInv, Phases, HoldsTask
  <2>3. \A t : ~Queued(t) /\ Holders(t) = {}
    BY <2>1, <2>2 DEF Queued, Holders
  <2>4. crowded \/ 1..added \subseteq finished
    BY <2>3 DEF ConservedUnlessCrowded, TasksConserved, InOnePlace
  <2> QED BY <2>1, <2>2, <2>4
<1>4. TypeOK /\ TasksSubmitted => TypeOK
  OBVIOUS
<1> QED
  BY <1>1, <1>2, <1>3, <1>4, TypeCorrect, ControlCorrect, Conservation, PTL DEF Spec

=============================================================================
