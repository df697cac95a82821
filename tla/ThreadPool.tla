------------------------------ MODULE ThreadPool ------------------------------
(***************************************************************************)
(* The thread pool of src/IndexServer/ThreadPool.h, driven the way          *)
(* Server::loop, Server::test and Server::interact drive it.                *)
(*                                                                         *)
(* Three kinds of thread run here: the server thread ("main"), one worker   *)
(* per element of Workers (workFunction), and the std::async thread that    *)
(* runs joinAll.  A step is one access to state another thread can see: a   *)
(* critical section of taskQueueMutex, mfinish or busyThreadCountMutex is   *)
(* one step, for nothing inside one blocks, whereas lkm is held over         *)
(* several steps and is therefore modelled with its holder.                 *)
(***************************************************************************)
EXTENDS Integers, Sequences, FiniteSets

CONSTANTS
  Workers,          \* the worker threads, threadCount of them
  Nobody,           \* lkm when it is free
  MaxTasks,         \* bound: tasks submitted over a behaviour
  MaxRounds,        \* bound: server runs over the same pool (Main.cpp runs six)
  MaxSpurious,      \* bound: spurious wakeups of task_added
  HandlerReadds     \* may taskHandler return -1, which re-adds its task?

ASSUME WorkersAssumption ==
  IsFiniteSet(Workers) /\ Workers # {} /\ Nobody \notin Workers
ASSUME BoundsNat == MaxTasks \in Nat /\ MaxRounds \in Nat /\ MaxSpurious \in Nat
ASSUME HandlerAssumption == HandlerReadds \in BOOLEAN

VARIABLES
  tasks,            \* the queue, oldest task first
  finish,           \* TRUE is FINISH, FALSE is WORK
  lkm,              \* holder of the mutex of the condition variable
  busyThreadCount,
  pc,               \* pc[w]: where worker w stands in workFunction
  task,             \* task[w]: the local variable of workFunction
  main,             \* where the server thread stands
  joiner,           \* where the thread running joinAll stands
  added,            \* tasks submitted so far: they are numbered 1, 2, ...
  rounds,           \* server runs started so far
  spurious,         \* spurious wakeups so far
  finished,         \* history: tasks whose handler returned 0
  crowded           \* history: two tasks have stood in the queue at once

vars == <<tasks, finish, lkm, busyThreadCount, pc, task, main, joiner,
          added, rounds, spurious, finished, crowded>>

NoTask == 0         \* a default Task: its index is nullptr
TaskIds == 1..MaxTasks

WorkerPC == {"idle", "check", "lock", "predSize", "predFinish", "doze", "asleep",
             "take", "count", "handle", "readd", "renotify", "busyDec", "done"}
MainPC == {"start", "spawn", "serve", "notify", "drain", "setFinish",
           "notifyAll", "join", "storeFinish"}
JoinerPC == {"idle", "store", "join", "done"}

HoldsLkm   == {"predSize", "predFinish", "doze", "take"}
HoldsTask  == {"count", "handle", "readd"}
InHandler  == {"handle", "readd", "renotify", "busyDec"}

-----------------------------------------------------------------------------
Init ==
  /\ tasks = <<>>
  /\ finish = FALSE
  /\ lkm = Nobody
  /\ busyThreadCount = 0
  /\ pc = [w \in Workers |-> "idle"]
  /\ task = [w \in Workers |-> NoTask]
  /\ main = "start"
  /\ joiner = "idle"
  /\ added = 0
  /\ rounds = 0
  /\ spurious = 0
  /\ finished = {}
  /\ crowded = FALSE

(* addTask, first half: tasks.push under taskQueueMutex. *)
Push(t) ==
  /\ tasks' = Append(tasks, t)
  /\ crowded' = (crowded \/ tasks # <<>>)

(* The wakeups of task_added: a sleeping worker goes back to lock lkm.
   Neither notify is made with lkm held. *)
WakeOne(p) ==
  LET sleepers == {w \in Workers : p[w] = "asleep"}
  IN  IF sleepers = {} THEN {p} ELSE {[p EXCEPT ![w] = "lock"] : w \in sleepers}

WakeAll(p) == [w \in Workers |-> IF p[w] = "asleep" THEN "lock" ELSE p[w]]

Goto(w, l) == pc' = [pc EXCEPT ![w] = l]

-----------------------------------------------------------------------------
(* The server thread. *)

(* A slip: the round starts with finish as the last one left it. *)
StartRound_KeepsFinish ==
  /\ main = "start" /\ rounds < MaxRounds
  /\ rounds' = rounds + 1
  /\ pc' = [w \in Workers |-> "idle"]
  /\ joiner' = "idle"
  /\ main' = "spawn"
  /\ UNCHANGED <<tasks, finish, lkm, busyThreadCount, task, added, spurious, finished, crowded>>

(* finish.store(WORK), then initThreads clears the vector of old threads. *)
StartRound ==
  /\ main = "start" /\ rounds < MaxRounds
  /\ rounds' = rounds + 1
  /\ finish' = FALSE
  /\ pc' = [w \in Workers |-> "idle"]
  /\ joiner' = "idle"
  /\ main' = "spawn"
  /\ UNCHANGED <<tasks, lkm, busyThreadCount, task, added, spurious, finished, crowded>>

(* One turn of the loop of initThreads: the new thread runs at once. *)
Spawn(w) ==
  /\ main = "spawn" /\ pc[w] = "idle"
  /\ Goto(w, "check")
  /\ UNCHANGED <<tasks, finish, lkm, busyThreadCount, task, main, joiner,
                 added, rounds, spurious, finished, crowded>>

(* std::async starts joinAll on a thread of its own. *)
LaunchJoin ==
  /\ main = "spawn"
  /\ \A w \in Workers : pc[w] # "idle"
  /\ joiner' = "store"
  /\ main' = "serve"
  /\ UNCHANGED <<tasks, finish, lkm, busyThreadCount, pc, task,
                 added, rounds, spurious, finished, crowded>>

AddTask ==
  /\ main = "serve" /\ added < MaxTasks
  /\ added' = added + 1
  /\ Push(added + 1)
  /\ main' = "notify"
  /\ UNCHANGED <<finish, lkm, busyThreadCount, pc, task, joiner,
                 rounds, spurious, finished>>

NotifyOne ==
  /\ main = "notify"
  /\ pc' \in WakeOne(pc)
  /\ main' = "serve"
  /\ UNCHANGED <<tasks, finish, lkm, busyThreadCount, task, joiner,
                 added, rounds, spurious, finished, crowded>>

(* shutdown(false, d), as every caller has it: it polls the queue until it
   is empty, without a lock. *)
Shutdown ==
  /\ main = "serve"
  /\ main' = "drain"
  /\ UNCHANGED <<tasks, finish, lkm, busyThreadCount, pc, task, joiner,
                 added, rounds, spurious, finished, crowded>>

(* A slip: shutdown(true, d), which does not wait for the queue. *)
Drained_NotWaiting ==
  /\ main = "drain"
  /\ main' = "setFinish"
  /\ UNCHANGED <<tasks, finish, lkm, busyThreadCount, pc, task, joiner,
                 added, rounds, spurious, finished, crowded>>

Drained ==
  /\ main = "drain" /\ tasks = <<>>
  /\ main' = "setFinish"
  /\ UNCHANGED <<tasks, finish, lkm, busyThreadCount, pc, task, joiner,
                 added, rounds, spurious, finished, crowded>>

SetFinish ==
  /\ main = "setFinish"
  /\ finish' = TRUE
  /\ main' = "notifyAll"
  /\ UNCHANGED <<tasks, lkm, busyThreadCount, pc, task, joiner,
                 added, rounds, spurious, finished, crowded>>

NotifyAll ==
  /\ main = "notifyAll"
  /\ pc' = WakeAll(pc)
  /\ main' = "join"
  /\ UNCHANGED <<tasks, finish, lkm, busyThreadCount, task, joiner,
                 added, rounds, spurious, finished, crowded>>

(* asyncJoin.get() *)
AwaitJoin ==
  /\ main = "join" /\ joiner = "done"
  /\ main' = "storeFinish"
  /\ UNCHANGED <<tasks, finish, lkm, busyThreadCount, pc, task, joiner,
                 added, rounds, spurious, finished, crowded>>

StoreFinish ==
  /\ main = "storeFinish"
  /\ finish' = TRUE
  /\ main' = "start"
  /\ UNCHANGED <<tasks, lkm, busyThreadCount, pc, task, joiner,
                 added, rounds, spurious, finished, crowded>>

-----------------------------------------------------------------------------
(* The thread of joinAll. *)

JoinStore ==
  /\ joiner = "store"
  /\ finish' = FALSE
  /\ joiner' = "join"
  /\ UNCHANGED <<tasks, lkm, busyThreadCount, pc, task, main,
                 added, rounds, spurious, finished, crowded>>

JoinThreads ==
  /\ joiner = "join"
  /\ \A w \in Workers : pc[w] = "done"
  /\ joiner' = "done"
  /\ UNCHANGED <<tasks, finish, lkm, busyThreadCount, pc, task, main,
                 added, rounds, spurious, finished, crowded>>

-----------------------------------------------------------------------------
(* A worker: workFunction, and removeTask and addTask called from it. *)

CheckFinish(w) ==
  /\ pc[w] = "check"
  /\ Goto(w, IF finish THEN "done" ELSE "lock")
  /\ UNCHANGED <<tasks, finish, lkm, busyThreadCount, task, main, joiner,
                 added, rounds, spurious, finished, crowded>>

(* unique_lock at the entry of removeTask, and wait taking lkm again. *)
Lock(w) ==
  /\ pc[w] = "lock" /\ lkm = Nobody
  /\ lkm' = w
  /\ Goto(w, "predSize")
  /\ UNCHANGED <<tasks, finish, busyThreadCount, task, main, joiner,
                 added, rounds, spurious, finished, crowded>>

(* The predicate reads the queue's size and then finish: by the time it
   yields false either may have changed.  With a task in the queue it is
   true whatever finish is. *)
PredSize(w) ==
  /\ pc[w] = "predSize"
  /\ Goto(w, IF tasks # <<>> THEN "take" ELSE "predFinish")
  /\ UNCHANGED <<tasks, finish, lkm, busyThreadCount, task, main, joiner,
                 added, rounds, spurious, finished, crowded>>

(* A slip: the predicate is tested again at once, without waiting. *)
PredFinish_Spins(w) ==
  /\ pc[w] = "predFinish"
  /\ Goto(w, IF finish THEN "take" ELSE "predSize")
  /\ UNCHANGED <<tasks, finish, lkm, busyThreadCount, task, main, joiner,
                 added, rounds, spurious, finished, crowded>>

PredFinish(w) ==
  /\ pc[w] = "predFinish"
  /\ Goto(w, IF finish THEN "take" ELSE "doze")
  /\ UNCHANGED <<tasks, finish, lkm, busyThreadCount, task, main, joiner,
                 added, rounds, spurious, finished, crowded>>

(* A slip: the worker sleeps with lkm held. *)
Doze_KeepsLkm(w) ==
  /\ pc[w] = "doze"
  /\ Goto(w, "asleep")
  /\ UNCHANGED <<tasks, finish, lkm, busyThreadCount, task, main, joiner,
                 added, rounds, spurious, finished, crowded>>

(* wait blocks and releases lkm in one step; no notify reached it before. *)
Doze(w) ==
  /\ pc[w] = "doze"
  /\ lkm' = Nobody
  /\ Goto(w, "asleep")
  /\ UNCHANGED <<tasks, finish, busyThreadCount, task, main, joiner,
                 added, rounds, spurious, finished, crowded>>

SpuriousWakeup(w) ==
  /\ pc[w] = "asleep" /\ spurious < MaxSpurious
  /\ spurious' = spurious + 1
  /\ Goto(w, "lock")
  /\ UNCHANGED <<tasks, finish, lkm, busyThreadCount, task, main, joiner,
                 added, rounds, finished, crowded>>

(* A slip: the task is returned and left in the queue. *)
Take_NotPopped(w) ==
  /\ pc[w] = "take"
  /\ task' = [task EXCEPT ![w] = IF tasks = <<>> THEN NoTask ELSE tasks[Len(tasks)]]
  /\ Goto(w, IF tasks = <<>> THEN "done" ELSE "count")
  /\ lkm' = Nobody
  /\ UNCHANGED <<tasks, finish, busyThreadCount, main, joiner,
                 added, rounds, spurious, finished, crowded>>

(* tasks.back() is returned and tasks.pop() drops the front; with an empty
   queue a default task is returned, and workFunction leaves its loop. *)
Take(w) ==
  /\ pc[w] = "take"
  /\ \/ /\ tasks # <<>>
        /\ task' = [task EXCEPT ![w] = tasks[Len(tasks)]]
        /\ tasks' = Tail(tasks)
        /\ Goto(w, "count")
     \/ /\ tasks = <<>>
        /\ task' = [task EXCEPT ![w] = NoTask]
        /\ tasks' = tasks
        /\ Goto(w, "done")
  /\ lkm' = Nobody
  /\ UNCHANGED <<finish, busyThreadCount, main, joiner,
                 added, rounds, spurious, finished, crowded>>

BusyInc(w) ==
  /\ pc[w] = "count"
  /\ busyThreadCount' = busyThreadCount + 1
  /\ Goto(w, "handle")
  /\ UNCHANGED <<tasks, finish, lkm, task, main, joiner,
                 added, rounds, spurious, finished, crowded>>

(* A slip: the handler's -1 is not looked at. *)
Handle_IgnoresResult(w) ==
  /\ pc[w] = "handle"
  /\ Goto(w, "busyDec")
  /\ \/ finished' = finished \cup {task[w]}
     \/ HandlerReadds /\ finished' = finished
  /\ UNCHANGED <<tasks, finish, lkm, busyThreadCount, task, main, joiner,
                 added, rounds, spurious, crowded>>

Handle(w) ==
  /\ pc[w] = "handle"
  /\ \/ /\ finished' = finished \cup {task[w]}
        /\ Goto(w, "busyDec")
     \/ /\ HandlerReadds
        /\ finished' = finished
        /\ Goto(w, "readd")
  /\ UNCHANGED <<tasks, finish, lkm, busyThreadCount, task, main, joiner,
                 added, rounds, spurious, crowded>>

(* A slip: a task that was moved from is pushed. *)
Readd_Default(w) ==
  /\ pc[w] = "readd"
  /\ Push(NoTask)
  /\ Goto(w, "renotify")
  /\ UNCHANGED <<finish, lkm, busyThreadCount, task, main, joiner,
                 added, rounds, spurious, finished>>

Readd(w) ==
  /\ pc[w] = "readd"
  /\ Push(task[w])
  /\ Goto(w, "renotify")
  /\ UNCHANGED <<finish, lkm, busyThreadCount, task, main, joiner,
                 added, rounds, spurious, finished>>

(* A slip: the loop continues before the decrement. *)
Renotify_Continues(w) ==
  /\ pc[w] = "renotify"
  /\ pc' \in WakeOne([pc EXCEPT ![w] = "check"])
  /\ UNCHANGED <<tasks, finish, lkm, busyThreadCount, task, main, joiner,
                 added, rounds, spurious, finished, crowded>>

Renotify(w) ==
  /\ pc[w] = "renotify"
  /\ pc' \in WakeOne([pc EXCEPT ![w] = "busyDec"])
  /\ UNCHANGED <<tasks, finish, lkm, busyThreadCount, task, main, joiner,
                 added, rounds, spurious, finished, crowded>>

(* The local task is overwritten before it is read again; it is reset here. *)
BusyDec(w) ==
  /\ pc[w] = "busyDec"
  /\ busyThreadCount' = busyThreadCount - 1
  /\ task' = [task EXCEPT ![w] = NoTask]
  /\ Goto(w, "check")
  /\ UNCHANGED <<tasks, finish, lkm, main, joiner,
                 added, rounds, spurious, finished, crowded>>

-----------------------------------------------------------------------------
WorkerStep(w) ==
  \/ CheckFinish(w) \/ Lock(w) \/ PredSize(w) \/ PredFinish(w) \/ Doze(w)
  \/ Take(w) \/ BusyInc(w) \/ Handle(w) \/ Readd(w) \/ Renotify(w) \/ BusyDec(w)

JoinerStep == JoinStore \/ JoinThreads

(* What the server thread does by itself; AddTask and Shutdown wait for a
   client, a console line or the end of the queries. *)
MainStep ==
  \/ (\E w \in Workers : Spawn(w)) \/ LaunchJoin \/ NotifyOne
  \/ Drained \/ SetFinish \/ NotifyAll \/ AwaitJoin \/ StoreFinish

Next ==
  \/ MainStep \/ StartRound \/ AddTask \/ Shutdown
  \/ JoinerStep
  \/ \E w \in Workers : WorkerStep(w) \/ SpuriousWakeup(w)

Spec == Init /\ [][Next]_vars

(* The operating system runs every runnable thread.  Nothing obliges lkm to
   be fair, a client to connect or a wakeup to be spurious. *)
Fairness ==
  /\ WF_vars(MainStep)
  /\ WF_vars(JoinerStep)
  /\ \A w \in Workers : WF_vars(WorkerStep(w))

FairSpec == Spec /\ Fairness
-----------------------------------------------------------------------------
(* Properties. *)

(* The types of the members and of the locals: a default task may be taken,
   but none is ever queued or finished. *)
TypeOK ==
  /\ tasks \in Seq(TaskIds)
  /\ finish \in BOOLEAN
  /\ lkm \in Workers \cup {Nobody}
  /\ busyThreadCount \in Int
  /\ pc \in [Workers -> WorkerPC]
  /\ task \in [Workers -> TaskIds \cup {NoTask}]
  /\ main \in MainPC
  /\ joiner \in JoinerPC
  /\ added \in 0..MaxTasks
  /\ rounds \in 0..MaxRounds
  /\ spurious \in 0..MaxSpurious
  /\ finished \subseteq TaskIds
  /\ crowded \in BOOLEAN

(* getBusyThreadCount tells Server::test and Server::loop how many handlers
   are under way: the counter is the number of workers between the increment
   and the decrement of workFunction, over all rounds, whether or not the
   handler asks for its task to be added again. *)
BusyWorkers == {w \in Workers : pc[w] \in InHandler}
BusyCountExact == busyThreadCount = Cardinality(BusyWorkers)

(* No worker leaves workFunction before shutdown has set finish, neither by
   finish left over from the round before nor by a default task taken from an
   empty queue after a wakeup (spurious, or stolen by another worker). *)
BeforeFinish == {"spawn", "serve", "notify", "drain", "setFinish"}
ExitOnlyAfterShutdown ==
  main \in BeforeFinish => \A w \in Workers : pc[w] # "done"

(* Where a submitted task may be: in the queue, with a worker, or done. *)
Queued(t)  == \E i \in 1..Len(tasks) : tasks[i] = t
Holders(t) == {w \in Workers : pc[w] \in HoldsTask /\ task[w] = t}

InOnePlace(t) ==
  /\ Queued(t) \/ Holders(t) # {} \/ t \in finished
  /\ \A i, j \in 1..Len(tasks) : tasks[i] = t /\ tasks[j] = t => i = j
  /\ \A v, w \in Holders(t) : v = w
  /\ Queued(t) => Holders(t) = {} /\ t \notin finished
  /\ Holders(t) # {} => t \notin finished

(* addTask and removeTask neither lose a task nor hand one to two workers. *)
TasksConserved == \A t \in 1..added : InOnePlace(t)

(* As removeTask is written (back() is returned, the front is popped) this is
   so as long as two tasks never stand in the queue at once, whatever the
   workers, the spurious wakeups and the re-added tasks do. *)
ConservedUnlessCrowded == crowded \/ TasksConserved

(* shutdown(false, _) is for a queue that is worked off first: once joinAll
   has returned, no task is left in the queue or with a worker and, unless
   two stood in the queue at once, each was handled.  For handlers that never
   return -1, as both of Server.cpp's: a task re-added after finish is left. *)
ShutdownLeavesNothing ==
  (~HandlerReadds /\ main = "storeFinish") =>
    /\ tasks = <<>>
    /\ \A w \in Workers : pc[w] \notin HoldsTask
    /\ crowded \/ 1..added \subseteq finished

(* The one way a task stays in the queue for ever: every worker went to sleep,
   its wakeup having come before it slept (addTask notifies without lkm). *)
AllAsleep == \A w \in Workers : pc[w] = "asleep"
StrandedOnlyAsleep == <>[](tasks # <<>>) => <>[]AllAsleep

(* The one way the server thread waits for ever in asyncJoin.get(): some
   worker sleeps, because notify_all came before it slept or because joinAll
   stored WORK over FINISH.  Nobody waits for lkm and no handler is blocked. *)
SomeAsleep == \E w \in Workers : pc[w] = "asleep"
ShutdownStallsOnlyAsleep == <>[](main = "join") => <>[]SomeAsleep

(* ThreadPool.h: shutdown changes finish, "which will notify all threads to
   finish their work". *)
AllDone == \A w \in Workers : pc[w] = "done"
ShutdownEndsWorkers == (main = "notifyAll") ~> AllDone

(* Who holds which task, as WorkQueue sees it until two stand in the queue. *)
Pending == IF crowded THEN {} ELSE {tasks[i] : i \in 1..Len(tasks)}
Held == [w \in Workers |-> IF ~crowded /\ pc[w] \in HoldsTask THEN task[w] ELSE NoTask]
Done == IF crowded THEN {} ELSE finished

Promise == INSTANCE WorkQueue WITH
  Tasks <- TaskIds, pending <- Pending, held <- Held, done <- Done, void <- crowded

(* The pool keeps the promise of WorkQueue: seen from outside, every step of its
   threads submits a task, claims it for one worker, finishes it, gives it back
   (addTask from workFunction), or changes nothing. *)
KeepsPromise == Promise!Spec

-----------------------------------------------------------------------------
(* What the proofs of ThreadPool_proofs need above the properties. *)

(* The three kinds of thread move through a round together. *)
Phases ==
  /\ main \in {"start", "spawn"} => joiner \in {"idle", "done"}
  /\ main = "start" => \A w \in Workers : pc[w] \in {"idle", "done"}
  /\ main = "storeFinish" => joiner = "done"
  /\ joiner = "done" /\ main # "start" => main \in {"notifyAll", "join", "storeFinish"}
  /\ joiner = "done" => \A w \in Workers : pc[w] = "done"

LkmOwner == \A w \in Workers : pc[w] \in HoldsLkm => lkm = w

WorkBeforeFinish == main \in BeforeFinish => ~finish

(* The predicate of the wait still holds when its worker takes: lkm keeps the
   other takers out, and nobody else shortens the queue. *)
TakeReady ==
  \A w \in Workers : pc[w] = "take" /\ main \in BeforeFinish => tasks # <<>>

ControlInv ==
  /\ Phases /\ LkmOwner /\ WorkBeforeFinish /\ TakeReady /\ ExitOnlyAfterShutdown

(* Every task anybody knows of was submitted. *)
TasksSubmitted ==
  /\ tasks \in Seq(1..added)
  /\ \A w \in Workers : pc[w] \in HoldsTask => task[w] \in 1..added
  /\ finished \subseteq 1..added

AtMostOneQueued == crowded \/ Len(tasks) <= 1

AfterDrain == {"setFinish", "notifyAll", "join", "storeFinish"}
DrainedStays ==
  ~HandlerReadds =>
    /\ \A w \in Workers : pc[w] \notin {"readd", "renotify"}
    /\ main \in AfterDrain => tasks = <<>>

=============================================================================
