------------------------------ MODULE WorkQueue ------------------------------
(***************************************************************************)
(* What ThreadPool.h promises those who add tasks, without threads, locks  *)
(* and wakeups: a task waits, one worker at a time holds it, and it is     *)
(* done, once, or given back by the worker that holds it.                  *)
(*                                                                         *)
(* The promise is made for a queue of at most one task (removeTask returns *)
(* the newest and drops the oldest): it is void once a second task comes.  *)
(***************************************************************************)
CONSTANTS
  Workers,
  Tasks,
  NoTask        \* what a worker without a task holds

VARIABLES
  pending,      \* the tasks that wait
  held,         \* held[w]: the task worker w holds
  done,         \* the tasks that are done
  void          \* whether the promise is void

vars == <<pending, held, done, void>>

Idle == [w \in Workers |-> NoTask]

Init == pending = {} /\ held = Idle /\ done = {} /\ void = FALSE

\* A new task comes to an empty queue.
Submit(t) == /\ pending = {} /\ t \notin done /\ \A w \in Workers : held[w] # t
             /\ pending' = {t}
             /\ UNCHANGED <<held, done, void>>

Claim(w, t) == /\ t \in pending /\ held[w] = NoTask
               /\ pending' = pending \ {t}
               /\ held' = [held EXCEPT ![w] = t]
               /\ UNCHANGED <<done, void>>

Finish(w) == /\ held[w] # NoTask
             /\ done' = done \cup {held[w]}
             /\ held' = [held EXCEPT ![w] = NoTask]
             /\ UNCHANGED <<pending, void>>

\* The handler returned -1: its task waits again.
GiveBack(w) == /\ held[w] # NoTask /\ pending = {}
               /\ pending' = {held[w]}
               /\ held' = [held EXCEPT ![w] = NoTask]
               /\ UNCHANGED <<done, void>>

\* A task comes, new or given back, where one waits: nothing is promised any more.
Crowd == /\ pending # {} /\ ~void
         /\ pending' = {} /\ held' = Idle /\ done' = {} /\ void' = TRUE

Next == \/ \E t \in Tasks : Submit(t)
        \/ \E w \in Workers : Finish(w) \/ GiveBack(w) \/ \E t \in Tasks : Claim(w, t)
        \/ Crowd

Spec == Init /\ [][Next]_vars
=============================================================================
