---------------------------- MODULE InvertedIndex ----------------------------
(***************************************************************************)
(* The index of src/IndexServer/InvertedIndex.{h,cpp}: add, called by the   *)
(* pool's workers (Callers), and the service thread that handles what the   *)
(* two tables refuse, started and shut down as Server::test (with           *)
(* evenNonEmptyQueue) or Server::loop and interact (without) do.            *)
(*                                                                         *)
(* The two hash tables are seen through the codes of their operations: add  *)
(* stores and returns 0, or stores nothing and returns 1 (only for a key    *)
(* that has no value) or 2; increaseTable returns 1 having done nothing, or *)
(* 0 having lost any of its keys.  Keys are taken not to collide: what      *)
(* collisions do is the subject of HashTable.                               *)
(***************************************************************************)
EXTENDS Integers, Sequences, FiniteSets

CONSTANTS
  Callers,          \* threads that call add
  Words,            \* the words of queries
  Queries,          \* the queries, already split into words
  MaxCalls,         \* bound: calls of add
  MaxRounds,        \* bound: server runs (Main.cpp makes six of test)
  MaxSpurious,      \* bound: spurious wakeups of the service thread
  MaxExceptions     \* bound: nothing is refused once so many were raised

ASSUME CallersAssumption == IsFiniteSet(Callers)
ASSUME QueriesAssumption == Queries \subseteq Seq(Words)
ASSUME IndexBounds == 
  /\ MaxCalls \in Nat /\ MaxRounds \in Nat /\ MaxSpurious \in Nat /\ MaxExceptions \in Nat

VARIABLES
  dictionary,       \* dictionary[word]: the ids stored, <<>> if there are none
  table,            \* the ids that have sources
  dictIdCounter,
  exceptionQueue,   \* oldest first: a kind, and a number for the history
  serviceFinish,    \* TRUE is FINISH, FALSE is WORK
  service,          \* where the service thread stands in serviceLoop
  e,                \* its local variable: the exception under way
  main,             \* where the server thread stands
  evenNonEmptyQueue,
  pc, todo, id,     \* of each caller: its place in add, words left, id of the word
  calls,            \* calls of add, server runs and spurious wakeups so far
  raised,           \* history: exceptions raised so far, numbered 1, 2, ...
  handled, again,   \* history: numbers handled; has one been handled twice?
  crowded,          \* history: add raised an exception while another was queued
  raced             \* history: two adds have been giving out ids at once

index   == <<dictionary, table, dictIdCounter>>
queue   == <<exceptionQueue, raised, crowded>>
control == <<serviceFinish, main, evenNonEmptyQueue>>
caller  == <<pc, todo, id>>
history == <<handled, again>>
vars    == <<index, queue, control, service, e, caller, calls, history, raced>>

Kinds == {"FULL_TABLE", "FULL_DICT", "MAX_TABLE", "MAX_DICT", "MAX_MEMORY"}
CallerPC == {"idle", "word", "readId", "dictAdd", "count", "tableAdd", "notify"} \cup Kinds
NoException == [kind |-> "OK", n |-> 0]

Init ==
  /\ dictionary = [w \in Words |-> <<>>]
  /\ table = {}
  /\ dictIdCounter = 1
  /\ exceptionQueue = <<>>
  /\ serviceFinish = FALSE
  /\ service = "idle"
  /\ e = NoException
  /\ main = "start"
  /\ evenNonEmptyQueue \in BOOLEAN
  /\ pc = [c \in Callers |-> "idle"]
  /\ todo = [c \in Callers |-> <<>>]
  /\ id = [c \in Callers |-> 0]
  /\ calls = [add |-> 0, run |-> 0, spurious |-> 0] /\ raised = 0
  /\ handled = {} /\ again = FALSE /\ crowded = FALSE /\ raced = FALSE

MayRaise == raised < MaxExceptions

Raise(kind) ==
  /\ exceptionQueue' = Append(exceptionQueue, [kind |-> kind, n |-> raised + 1])
  /\ raised' = raised + 1

(* exception.notify_one(): only the service thread waits for it. *)
Wake == service' = IF service = "asleep" THEN "predSize" ELSE service

Goto(c, from, to) == pc[c] = from /\ pc' = [pc EXCEPT ![c] = to]

-----------------------------------------------------------------------------
(* add, for each word of the query.  A refusal raises an exception and ends
   the call: the words after it are not added. *)

CallAdd(c, query) ==
  /\ main = "serve" /\ calls.add < MaxCalls
  /\ Goto(c, "idle", "word")
  /\ todo' = [todo EXCEPT ![c] = query]
  /\ calls' = [calls EXCEPT !.add = calls.add + 1]
  /\ UNCHANGED <<index, queue, control, service, e, id, history, raced>>

(* Between finding a word unknown and counting its id. *)
GivingId == {"readId", "dictAdd", "count"}

(* wordId = dictionary.get(word), or the end of the words. *)
DictGet(c) ==
  /\ \/ /\ todo[c] = <<>>
        /\ Goto(c, "word", "idle")
        /\ UNCHANGED <<id, raced>>
     \/ /\ todo[c] # <<>> /\ dictionary[todo[c][1]] # <<>>
        /\ Goto(c, "word", "tableAdd")
        /\ id' = [id EXCEPT ![c] = dictionary[todo[c][1]][1]]
        /\ UNCHANGED raced
     \/ /\ todo[c] # <<>> /\ dictionary[todo[c][1]] = <<>>
        /\ Goto(c, "word", "readId")
        /\ raced' = (raced \/ \E d \in Callers \ {c} : pc[d] \in GivingId)
        /\ UNCHANGED id
  /\ UNCHANGED <<index, queue, control, service, e, todo, calls, history>>

(* A slip: ids from 0, the section files' mark of an empty cell. *)
ReadId_FromZero(c) ==
  /\ Goto(c, "readId", "dictAdd")
  /\ id' = [id EXCEPT ![c] = dictIdCounter - 1]
  /\ UNCHANGED <<index, queue, control, service, e, todo, calls, history, raced>>

ReadId(c) ==
  /\ Goto(c, "readId", "dictAdd")
  /\ id' = [id EXCEPT ![c] = dictIdCounter]
  /\ UNCHANGED <<index, queue, control, service, e, todo, calls, history, raced>>

(* dictionary.add: a word that another caller has added meanwhile gets a
   second id behind the first. *)
DictAdd(c) ==
  LET word == todo[c][1]
  IN  /\ \/ /\ Goto(c, "dictAdd", "count")
            /\ dictionary' = [dictionary EXCEPT ![word] = Append(@, id[c])]
         \/ /\ Goto(c, "dictAdd", "FULL_DICT")
            /\ MayRaise /\ dictionary[word] = <<>>
            /\ UNCHANGED dictionary
         \/ /\ MayRaise
            /\ Goto(c, "dictAdd", "MAX_DICT")
            /\ UNCHANGED dictionary
      /\ UNCHANGED <<table, dictIdCounter, queue, control, service, e, todo, id, calls,
                     history, raced>>

(* A slip: the id is not counted. *)
Count_Forgets(c) ==
  /\ Goto(c, "count", "tableAdd")
  /\ UNCHANGED <<index, queue, control, service, e, todo, id, calls, history, raced>>

Count(c) ==
  /\ Goto(c, "count", "tableAdd")
  /\ dictIdCounter' = dictIdCounter + 1
  /\ UNCHANGED <<dictionary, table, queue, control, service, e, todo, id, calls,
                 history, raced>>

TableAdd(c) ==
  /\ \/ /\ Goto(c, "tableAdd", "word")
        /\ table' = table \cup {id[c]}
        /\ todo' = [todo EXCEPT ![c] = Tail(@)] /\ id' = [id EXCEPT ![c] = 0]
     \/ /\ MayRaise /\ id[c] \notin table
        /\ Goto(c, "tableAdd", "FULL_TABLE")
        /\ UNCHANGED <<table, todo, id>>
     \/ /\ MayRaise
        /\ Goto(c, "tableAdd", "MAX_TABLE")
        /\ UNCHANGED <<table, todo, id>>
  /\ UNCHANGED <<dictionary, dictIdCounter, queue, control, service, e, calls,
                 history, raced>>

(* exceptionQueue.push under its mutex; the notification comes after it. *)
RaiseRefusal(c) ==
  /\ pc[c] \in Kinds
  /\ Raise(pc[c])
  /\ crowded' = (crowded \/ exceptionQueue # <<>>)
  /\ pc' = [pc EXCEPT ![c] = "notify"]
  /\ UNCHANGED <<index, control, service, e, todo, id, calls, history, raced>>

Notify(c) ==
  /\ Goto(c, "notify", "idle")
  /\ Wake
  /\ todo' = [todo EXCEPT ![c] = <<>>] /\ id' = [id EXCEPT ![c] = 0]
  /\ UNCHANGED <<index, queue, control, e, calls, history, raced>>

-----------------------------------------------------------------------------
(* serviceLoop.  Only one runs at a time, so that its try_lock succeeds and
   lkm, which nobody else takes, is left out. *)

At(from, to) == service = from /\ service' = to

(* A slip: the loop starts with serviceFinish as the last run left it. *)
Enter_KeepsFinish ==
  /\ At("enter", "check")
  /\ UNCHANGED <<index, queue, control, e, caller, calls, history, raced>>

Enter ==
  /\ At("enter", "check")
  /\ serviceFinish' = FALSE
  /\ UNCHANGED <<index, queue, main, evenNonEmptyQueue, e, caller, calls, history, raced>>

CheckFinish ==
  /\ At("check", IF serviceFinish THEN "done" ELSE "predSize")
  /\ UNCHANGED <<index, queue, control, e, caller, calls, history, raced>>

PredSize ==
  /\ At("predSize", IF exceptionQueue # <<>> THEN "readSize" ELSE "predFinish")
  /\ UNCHANGED <<index, queue, control, e, caller, calls, history, raced>>

PredFinish ==
  /\ At("predFinish", IF serviceFinish THEN "readSize" ELSE "doze")
  /\ UNCHANGED <<index, queue, control, e, caller, calls, history, raced>>

Doze ==
  /\ At("doze", "asleep")
  /\ UNCHANGED <<index, queue, control, e, caller, calls, history, raced>>

ReadSize ==
  /\ At("readSize", IF exceptionQueue # <<>> THEN "back" ELSE "check")
  /\ UNCHANGED <<index, queue, control, e, caller, calls, history, raced>>

(* e = exceptionQueue.back(): the newest. *)
Back ==
  /\ At("back", "handle")
  /\ e' = exceptionQueue[Len(exceptionQueue)]
  /\ handled' = handled \cup {e'.n}
  /\ again' = (again \/ e'.n \in handled)
  /\ UNCHANGED <<index, queue, control, caller, calls, raced>>

(* increaseTable and increaseDictionary; of what the table held, some is lost. *)
Grow ==
  /\ \/ /\ e.kind = "FULL_TABLE"
        /\ table' \in SUBSET table
        /\ UNCHANGED dictionary
     \/ /\ e.kind = "FULL_DICT"
        /\ \E kept \in SUBSET Words :
             dictionary' = [w \in Words |-> IF w \in kept THEN dictionary[w] ELSE <<>>]
        /\ UNCHANGED table
  /\ At("handle", "pop")
  /\ UNCHANGED <<dictIdCounter, queue, control, e, caller, calls, history, raced>>

(* The same when the table is too large to grow. *)
GrowRefused ==
  /\ e.kind \in {"FULL_TABLE", "FULL_DICT"} /\ MayRaise
  /\ At("handle", "pop")
  /\ Raise(IF e.kind = "FULL_TABLE" THEN "MAX_TABLE" ELSE "MAX_DICT")
  /\ UNCHANGED <<index, crowded, control, e, caller, calls, history, raced>>

(* saveTable: with too much stored it raises an exception; it saves and clears
   the table in any case. *)
SaveTable ==
  /\ e.kind = "MAX_TABLE"
  /\ At("handle", "clearTable")
  /\ \/ UNCHANGED queue
     \/ MayRaise /\ Raise("MAX_MEMORY") /\ UNCHANGED crowded
  /\ UNCHANGED <<index, control, e, caller, calls, history, raced>>

(* fullMemoryClear and decreaseData: what they do to the files comes first. *)
ChangeFiles ==
  /\ \/ e.kind = "MAX_DICT" /\ At("handle", "clearTable")
     \/ e.kind = "MAX_MEMORY" /\ At("handle", "pop")
  /\ UNCHANGED <<index, queue, control, e, caller, calls, history, raced>>

ClearTable ==
  /\ At("clearTable", IF e.kind = "MAX_DICT" THEN "clearDict" ELSE "pop")
  /\ table' = {}
  /\ UNCHANGED <<dictionary, dictIdCounter, queue, control, e, caller, calls, history, raced>>

ClearDictionary ==
  /\ At("clearDict", "pop")
  /\ dictionary' = [w \in Words |-> <<>>]
  /\ UNCHANGED <<table, dictIdCounter, queue, control, e, caller, calls, history, raced>>

(* Slips: the newest is popped, the one a handler has just raised included; or
   nothing is. *)
Pop_Newest ==
  /\ At("pop", IF Len(exceptionQueue) > 1 THEN "back" ELSE "check")
  /\ exceptionQueue' = SubSeq(exceptionQueue, 1, Len(exceptionQueue) - 1)
  /\ e' = NoException
  /\ UNCHANGED <<index, raised, crowded, control, caller, calls, history, raced>>

Pop_Forgets ==
  /\ At("pop", "back")
  /\ e' = NoException
  /\ UNCHANGED <<index, queue, control, caller, calls, history, raced>>

(* exceptionQueue.pop(): the oldest goes, and the size is read again. *)
Pop ==
  /\ At("pop", IF Len(exceptionQueue) > 1 THEN "back" ELSE "check")
  /\ exceptionQueue' = Tail(exceptionQueue)
  /\ e' = NoException
  /\ UNCHANGED <<index, raised, crowded, control, caller, calls, history, raced>>

ServiceStep ==
  \/ Enter \/ CheckFinish \/ PredSize \/ PredFinish \/ Doze \/ ReadSize \/ Back
  \/ Grow \/ GrowRefused \/ SaveTable \/ ChangeFiles \/ ClearTable \/ ClearDictionary \/ Pop

SpuriousWakeup ==
  /\ At("asleep", "predSize") /\ calls.spurious < MaxSpurious
  /\ calls' = [calls EXCEPT !.spurious = calls.spurious + 1]
  /\ UNCHANGED <<index, queue, control, e, caller, history, raced>>

-----------------------------------------------------------------------------
(* The server thread: one run of loop or interact, or several of test. *)

StartRun ==
  /\ main = "start" /\ calls.run < IF evenNonEmptyQueue THEN MaxRounds ELSE 1
  /\ main' = "serve"
  /\ calls' = [calls EXCEPT !.run = calls.run + 1]
  /\ service' = "enter"
  /\ UNCHANGED <<index, queue, serviceFinish, evenNonEmptyQueue, e, caller, history, raced>>

(* The pool has been joined: nobody is inside add.  Then shutdownService. *)
PoolJoined ==
  /\ main = "serve" /\ \A c \in Callers : pc[c] = "idle"
  /\ main' = IF evenNonEmptyQueue THEN "setFinish" ELSE "drain"
  /\ UNCHANGED <<index, queue, serviceFinish, evenNonEmptyQueue, service, e, caller,
                 calls, history, raced>>

(* A slip: the queue is not waited for. *)
Drained_NotWaiting ==
  /\ main = "drain"
  /\ main' = "setFinish"
  /\ UNCHANGED <<index, queue, serviceFinish, evenNonEmptyQueue, service, e, caller,
                 calls, history, raced>>

Drained ==
  /\ main = "drain" /\ exceptionQueue = <<>>
  /\ main' = "setFinish"
  /\ UNCHANGED <<index, queue, serviceFinish, evenNonEmptyQueue, service, e, caller,
                 calls, history, raced>>

SetFinish ==
  /\ main = "setFinish"
  /\ main' = "notifyService"
  /\ serviceFinish' = TRUE
  /\ UNCHANGED <<index, queue, evenNonEmptyQueue, service, e, caller, calls, history, raced>>

NotifyService ==
  /\ main = "notifyService"
  /\ main' = "join"
  /\ Wake
  /\ UNCHANGED <<index, queue, serviceFinish, evenNonEmptyQueue, e, caller,
                 calls, history, raced>>

(* serviceThread.get(), after which test clears both tables. *)
ServiceJoined ==
  /\ main = "join" /\ service = "done"
  /\ main' = "start"
  /\ IF evenNonEmptyQueue
       THEN table' = {} /\ dictionary' = [w \in Words |-> <<>>]
       ELSE UNCHANGED <<table, dictionary>>
  /\ UNCHANGED <<dictIdCounter, queue, serviceFinish, evenNonEmptyQueue, service, e,
                 caller, calls, history, raced>>

MainStep == Drained \/ SetFinish \/ NotifyService \/ ServiceJoined

-----------------------------------------------------------------------------
CallerStep(c) ==
  \/ DictGet(c) \/ ReadId(c) \/ DictAdd(c) \/ Count(c) \/ TableAdd(c)
  \/ RaiseRefusal(c) \/ Notify(c)

Next ==
  \/ \E c \in Callers : CallerStep(c) \/ \E query \in Queries : CallAdd(c, query)
  \/ ServiceStep \/ SpuriousWakeup
  \/ MainStep \/ StartRun \/ PoolJoined

Spec == Init /\ [][Next]_vars

(* Threads run; nobody has to call add or end the run, and no wakeup has to be
   spurious. *)
FairSpec ==
  /\ Spec
  /\ \A c \in Callers : WF_vars(CallerStep(c))
  /\ WF_vars(ServiceStep)
  /\ WF_vars(MainStep)

-----------------------------------------------------------------------------
(* Properties. *)

Exceptions == [kind : Kinds, n : 1..raised]

(* The types of the members and of the locals: ids count from 1. *)
TypeOK ==
  /\ dictionary \in [Words -> Seq(Nat \ {0})]
  /\ table \subseteq Nat \ {0}
  /\ dictIdCounter \in Nat \ {0}
  /\ exceptionQueue \in Seq(Exceptions)
  /\ e \in Exceptions \cup {NoException}
  /\ serviceFinish \in BOOLEAN /\ evenNonEmptyQueue \in BOOLEAN
  /\ pc \in [Callers -> CallerPC]
  /\ todo \in [Callers -> Seq(Words)] /\ id \in [Callers -> Nat]
  /\ handled \subseteq 1..raised

(* Every exception raised is queued or has been handled, and none is handled
   twice, the ones that handlers raise while theirs is still at the front
   included; as long as add never raised one while another was queued, for
   serviceLoop handles the newest and pops the oldest. *)
QueuedNumbers == {exceptionQueue[i].n : i \in DOMAIN exceptionQueue}
HandledUnlessCrowded == crowded \/ (1..raised = QueuedNumbers \cup handled /\ ~again)

(* A word has one id and no other word has it, whatever add leaves half done,
   tables grown, lost or cleared; as long as two adds never were between
   finding a word unknown and counting its id. *)
IdsOf(w) == {dictionary[w][i] : i \in DOMAIN dictionary[w]}
WordIdsSound ==
  raced \/ \A w \in Words :
             /\ Len(dictionary[w]) <= 1
             /\ \A v \in Words \ {w} : IdsOf(v) \cap IdsOf(w) = {}

(* The service of a run does not end before that run has shut it down, by the
   FINISH of the run before. *)
ServesUntilShutdown ==
  main \in {"serve", "drain", "setFinish"} => service # "done"

(* shutdownService(false, _) leaves no exception behind: nor does a handler
   raise one after the queue was seen empty. *)
ShutdownEmptiesQueue ==
  main = "join" /\ service = "done" /\ ~evenNonEmptyQueue => exceptionQueue = <<>>

(* The server thread waits for the service for ever only if that sleeps: a
   notification came before it slept (no notify is made with lkm held), or
   serviceLoop stored WORK over FINISH.  No chain of handlers keeps it busy. *)
StallsOnlyAsleep == <>[](main \in {"drain", "join"}) => <>[](service = "asleep")

-----------------------------------------------------------------------------
(* What the proofs of InvertedIndex_proofs need above the properties. *)

IdsTyped ==
  /\ dictionary \in [Words -> Seq(Nat \ {0})]
  /\ dictIdCounter \in Nat \ {0}
  /\ pc \in [Callers -> CallerPC]
  /\ todo \in [Callers -> Seq(Words)]
  /\ id \in [Callers -> Nat]
  /\ raced \in BOOLEAN
  /\ \A c \in Callers : pc[c] \in GivingId \cup {"tableAdd"} => todo[c] # <<>>
  /\ \A c \in Callers : pc[c] = "dictAdd" => id[c] # 0

OneGiver == \A c, d \in Callers : pc[c] \in GivingId /\ pc[d] \in GivingId => c = d

(* Until its id is stored a word stays unknown, and the id is the next one. *)
UnknownUntilAdded ==
  \A c \in Callers :
    /\ pc[c] \in {"readId", "dictAdd"} => dictionary[todo[c][1]] = <<>>
    /\ pc[c] = "dictAdd" => id[c] = dictIdCounter

(* Only an id whose caller has yet to count it has reached the counter. *)
IdsCounted ==
  \A w \in Words : \A n \in IdsOf(w) :
    n < dictIdCounter \/ (n = dictIdCounter /\ \E c \in Callers : pc[c] = "count")

IdInv ==
  /\ IdsTyped
  /\ raced \/ (OneGiver /\ UnknownUntilAdded /\ IdsCounted)
  /\ WordIdsSound
=============================================================================
