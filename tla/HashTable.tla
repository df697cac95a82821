------------------------------ MODULE HashTable ------------------------------
(***************************************************************************)
(* The hash table of src/IndexServer/HashTable.{h,cpp}: add and get called  *)
(* by the pool's workers (Callers), increaseTable and the assignment that   *)
(* clears the table called by the index's service thread (Service).         *)
(*                                                                         *)
(* A step is one access to shared state.  A critical section of             *)
(* itemsMutexes, colisionsMutex or sizeMutex holds a single access and is   *)
(* one step; increaseInProcessMutex is held over several steps and has a    *)
(* holder.  A key is known by its hash, a source is a model value, an       *)
(* index starts at 1 (0 is the code's -1), a source counts one byte.        *)
(***************************************************************************)
EXTENDS Integers, Sequences, FiniteSets

CONSTANTS
  Callers,          \* threads that call add and get
  Service,          \* the thread of InvertedIndex::serviceLoop
  Keys, NoKey,      \* keys, among them perhaps L"", the key of an empty cell
  Hash,             \* Hash[k]: abs(hash) of hashFunction before the modulus
  Sources, Values,  \* sources, and the sequences of them that callers add
  StartSize,        \* size of a new table
  Overhead,         \* bytes of an item beside its sources
  MaxCapacity,      \* maxCapacity, compared with bytes and with cells
  UIntMod,          \* unsigned int wraps here
  MaxOps,           \* bound: calls of add and get
  MaxService,       \* bound: calls of increaseTable and assignments, together
  Clears,           \* may the table be replaced by a new one?
  MaxBusy,          \* bound: calls of setBusyThreadCount
  Serial            \* TRUE: no two operations overlap, as in the unit tests

NoNext == 0
Threads == Callers \cup {Service}

ASSUME ThreadsAssumption == IsFiniteSet(Callers) /\ Service \notin Callers
ASSUME HashAssumption == Hash \in [Keys \cup {NoKey} -> Nat]
ASSUME ValuesAssumption == Values \subseteq Seq(Sources)
ASSUME SizesAssumption ==
  /\ StartSize \in Nat \ {0} /\ Overhead \in Nat /\ MaxCapacity \in Nat
  /\ UIntMod \in Nat /\ Cardinality(Callers) + 1 < UIntMod
ASSUME BoundsAssumption ==
  /\ MaxOps \in Nat /\ MaxService \in Nat /\ MaxBusy \in Nat
  /\ Serial \in BOOLEAN /\ Clears \in BOOLEAN

VARIABLES
  items, colisions, size, count, currentCapacity,
  increaseInProcess, increaseMutex, currentStopedThreadCount, busyThreadCount,
  pc,               \* pc[t]: where thread t stands
  loc,              \* loc[t]: its local variables in add, get, handleCollision
  sv,               \* the local variables of increaseTable
  calls             \* calls of each kind so far; cleared: the table was replaced

table == <<items, colisions, size, count, currentCapacity>>
stop  == <<increaseInProcess, increaseMutex, currentStopedThreadCount, busyThreadCount>>
vars  == <<table, stop, pc, loc, sv, calls>>

EmptyItem == [key |-> NoKey, value |-> <<>>, next |-> NoNext]
createNewVector(s) == [i \in 1..s |-> EmptyItem]

(* hashFunction, and the capacity getItemCapacity gives an item. *)
Cell(k, s) == (Hash[k] % s) + 1
ItemCapacity(v) == Overhead + Len(v)
Threshold(s) == (3 * s) \div 4

Idle == [key |-> NoKey, val |-> <<>>, idx |-> 0, cur |-> EmptyItem, reg |-> 0, pos |-> 0,
         ret |-> "idle", code |-> -1, before |-> <<>>]
NoIncrease == [new |-> <<>>, tmp |-> <<>>, i |-> 0, n |-> 0]

Init ==
  /\ items = createNewVector(StartSize)
  /\ colisions = <<>>
  /\ size = StartSize
  /\ count = 0
  /\ currentCapacity = 0
  /\ increaseInProcess = FALSE
  /\ increaseMutex = "free"
  /\ currentStopedThreadCount = 0
  /\ busyThreadCount = 0
  /\ pc = [t \in Threads |-> "idle"]
  /\ loc = [t \in Threads |-> Idle]
  /\ sv = NoIncrease
  /\ calls = [op |-> 0, service |-> 0, busy |-> 0, cleared |-> FALSE]

-----------------------------------------------------------------------------
(* What get finds for a key when nothing else runs: the head's own value, or
   the value of the one collision its next names (a collision's next is -1).
   size is then the length of items; the two are replaced one after the other. *)
Chain(h) == {h} \cup {colisions[n] : n \in {h.next} \cap (1..Len(colisions))}
HeadOf(k) == items[Cell(k, Len(items))]
Reached(k) == {it \in Chain(HeadOf(k)) : HeadOf(k).value # <<>> /\ it.key = k}
Lookup(k) ==
  IF Reached(k) = {} THEN <<>>
  ELSE IF HeadOf(k).key = k THEN HeadOf(k).value
  ELSE (CHOOSE it \in Reached(k) : TRUE).value

Step(t, from, to) == pc[t] = from /\ pc' = [pc EXCEPT ![t] = to]

(* checkIncreaseProcess is called at this point, and ret comes after it. *)
StepChecked(t, from) == Step(t, from, "check")

InItems(t) == loc[t].idx <= Len(items)
NextInColisions(t) == loc[t].cur.next <= Len(colisions)

-----------------------------------------------------------------------------
(* checkIncreaseProcess.  The counter is loaded and stored in two steps. *)

CheckFlag(t) ==
  /\ Step(t, "check", IF increaseInProcess THEN "stopLoad" ELSE loc[t].ret)
  /\ UNCHANGED <<table, stop, loc, sv, calls>>

LoadStopped(t) ==
  /\ \/ Step(t, "stopLoad", "stopInc")
     \/ Step(t, "goLoad", "goDec")
  /\ loc' = [loc EXCEPT ![t].reg = currentStopedThreadCount]
  /\ UNCHANGED <<table, stop, sv, calls>>

StoreStopped(t) ==
  /\ \/ /\ Step(t, "stopInc", "stopped")
        /\ currentStopedThreadCount' = (loc[t].reg + 1) % UIntMod
     \/ /\ Step(t, "goDec", loc[t].ret)
        /\ currentStopedThreadCount' = (loc[t].reg - 1) % UIntMod
  /\ loc' = [loc EXCEPT ![t].reg = 0]
  /\ UNCHANGED <<table, increaseInProcess, increaseMutex, busyThreadCount, sv, calls>>

(* The mutex is locked and at once unlocked. *)
PassMutex(t) ==
  /\ Step(t, "stopped", "goLoad")
  /\ increaseMutex = "free"
  /\ UNCHANGED <<table, stop, loc, sv, calls>>

-----------------------------------------------------------------------------
(* add *)

(* The size is read before checkIncreaseProcess and never again: the index is
   stale when the table grows while this thread is stopped. *)
AddSize(t) ==
  /\ StepChecked(t, "addSize")
  /\ loc' = [loc EXCEPT ![t].idx = Cell(loc[t].key, size), ![t].ret = "addRead"]
  /\ UNCHANGED <<table, stop, sv, calls>>

AddRead(t) ==
  /\ Step(t, "addRead", "addDecide") /\ InItems(t)
  /\ loc' = [loc EXCEPT ![t].cur = items[loc[t].idx]]
  /\ UNCHANGED <<table, stop, sv, calls>>

(* The tests of add, on the item read and on the three counters. *)
AddDecide(t) ==
  LET cur == loc[t].cur
      outcome ==
        IF currentCapacity + ItemCapacity(loc[t].val) >= MaxCapacity THEN <<"return", 2>>
        ELSE IF cur.value = <<>>
          THEN IF count >= Threshold(size) THEN <<"return", 1>> ELSE <<"addStore", 0>>
        ELSE IF cur.key = loc[t].key THEN <<"addAppend", 0>>
        ELSE <<"check", 0>>
  IN  /\ Step(t, "addDecide", outcome[1])
      /\ loc' = [loc EXCEPT ![t].code = outcome[2], ![t].ret = "colRead"]
      /\ UNCHANGED <<table, stop, sv, calls>>

AddStore(t) ==
  /\ Step(t, "addStore", "countLoad") /\ InItems(t)
  /\ items' = [items EXCEPT ![loc[t].idx] =
                 [key |-> loc[t].key, value |-> loc[t].val, next |-> NoNext]]
  /\ UNCHANGED <<colisions, size, count, currentCapacity, stop, loc, sv, calls>>

(* A slip: the key's sources are replaced. *)
AddAppend_Replaces(t) ==
  /\ Step(t, "addAppend", "capLoad") /\ InItems(t)
  /\ items' = [items EXCEPT ![loc[t].idx].value = loc[t].val]
  /\ UNCHANGED <<colisions, size, count, currentCapacity, stop, loc, sv, calls>>

(* The value written is what was read, extended: a value another thread has
   appended since is lost. *)
AddAppend(t) ==
  /\ Step(t, "addAppend", "capLoad") /\ InItems(t)
  /\ items' = [items EXCEPT ![loc[t].idx].value = loc[t].cur.value \o loc[t].val]
  /\ UNCHANGED <<colisions, size, count, currentCapacity, stop, loc, sv, calls>>

LoadCounter(t) ==
  /\ \/ Step(t, "countLoad", "countStore") /\ loc' = [loc EXCEPT ![t].reg = count]
     \/ Step(t, "capLoad", "capStore") /\ loc' = [loc EXCEPT ![t].reg = currentCapacity]
  /\ UNCHANGED <<table, stop, sv, calls>>

StoreCounter(t) ==
  /\ \/ /\ Step(t, "countStore", "capLoad")
        /\ count' = loc[t].reg + 1
        /\ UNCHANGED currentCapacity
     \/ /\ Step(t, "capStore", "return")
        /\ currentCapacity' = loc[t].reg + ItemCapacity(loc[t].val)
        /\ UNCHANGED count
  /\ UNCHANGED <<items, colisions, size, stop, loc, sv, calls>>

-----------------------------------------------------------------------------
(* handleCollision.  Its loop looks at the current item: the key's own, the
   last of the chain, or one to hop from.  A match anywhere in the chain
   writes to the head, after another check. *)
AfterLook(t, from, cur) ==
  /\ Step(t, from, IF cur.key = loc[t].key THEN "check"
                   ELSE IF cur.next = NoNext THEN "colPush" ELSE "colHop")
  /\ loc' = [loc EXCEPT ![t].cur = cur, ![t].ret = "colAppend"]

ColRead(t) ==
  /\ pc[t] = "colRead" /\ InItems(t)
  /\ AfterLook(t, "colRead", items[loc[t].idx])
  /\ UNCHANGED <<table, stop, sv, calls>>

ColHop(t) ==
  /\ Step(t, "colHop", "colCount") /\ NextInColisions(t)
  /\ loc' = [loc EXCEPT ![t].cur = colisions[loc[t].cur.next]]
  /\ UNCHANGED <<table, stop, sv, calls>>

(* Slips: a hop counts nothing, or takes one away. *)
ColCount_Capacity(t) ==
  /\ AfterLook(t, "colCount", loc[t].cur)
  /\ currentCapacity' = currentCapacity + ItemCapacity(loc[t].val)
  /\ UNCHANGED <<items, colisions, size, count, stop, sv, calls>>

ColCount_Down(t) ==
  /\ AfterLook(t, "colCount", loc[t].cur)
  /\ count' = count - 1
  /\ currentCapacity' = currentCapacity + ItemCapacity(loc[t].val)
  /\ UNCHANGED <<items, colisions, size, stop, sv, calls>>

(* A hop counts an item and its capacity, whatever comes of it. *)
ColCount(t) ==
  /\ AfterLook(t, "colCount", loc[t].cur)
  /\ count' = count + 1
  /\ currentCapacity' = currentCapacity + ItemCapacity(loc[t].val)
  /\ UNCHANGED <<items, colisions, size, stop, sv, calls>>

ColAppend(t) ==
  /\ Step(t, "colAppend", "colCap") /\ InItems(t)
  /\ items' = [items EXCEPT ![loc[t].idx].value = loc[t].cur.value \o loc[t].val]
  /\ UNCHANGED <<colisions, size, count, currentCapacity, stop, loc, sv, calls>>

ColCap(t) ==
  /\ Step(t, "colCap", "return")
  /\ currentCapacity' = currentCapacity + Len(loc[t].val)
  /\ UNCHANGED <<items, colisions, size, count, stop, loc, sv, calls>>

ColPush(t) ==
  /\ StepChecked(t, "colPush")
  /\ colisions' = Append(colisions, [key |-> loc[t].key, value |-> loc[t].val, next |-> NoNext])
  /\ loc' = [loc EXCEPT ![t].pos = Len(colisions'), ![t].ret = "colLink"]
  /\ UNCHANGED <<items, size, count, currentCapacity, stop, sv, calls>>

(* A slip: an index too low by one. *)
ColLink_Previous(t) ==
  /\ Step(t, "colLink", "return") /\ InItems(t)
  /\ items' = [items EXCEPT ![loc[t].idx].next = loc[t].pos - 1]
  /\ UNCHANGED <<colisions, size, count, currentCapacity, stop, loc, sv, calls>>

(* The head, not the end of the chain, is linked to the new collision. *)
ColLink(t) ==
  /\ Step(t, "colLink", "return") /\ InItems(t)
  /\ items' = [items EXCEPT ![loc[t].idx].next = loc[t].pos]
  /\ UNCHANGED <<colisions, size, count, currentCapacity, stop, loc, sv, calls>>

-----------------------------------------------------------------------------
(* get *)

GetSize(t) ==
  /\ StepChecked(t, "getSize")
  /\ loc' = [loc EXCEPT ![t].idx = Cell(loc[t].key, size), ![t].ret = "getRead"]
  /\ UNCHANGED <<table, stop, sv, calls>>

(* An item of the chain: its value is the result, or the search goes on. *)
GetLook(t, from, cur) ==
  LET found == cur.key = loc[t].key
  IN  /\ Step(t, from, IF found \/ cur.next = NoNext THEN "return" ELSE "getHop")
      /\ loc' = [loc EXCEPT ![t].cur = cur, ![t].val = IF found THEN cur.value ELSE <<>>]

GetRead(t) ==
  /\ pc[t] = "getRead" /\ InItems(t)
  /\ LET cur == items[loc[t].idx]
     IN  IF cur.value = <<>> THEN Step(t, "getRead", "return") /\ UNCHANGED loc
                             ELSE GetLook(t, "getRead", cur)
  /\ UNCHANGED <<table, stop, sv, calls>>

(* colisions is read without colisionsMutex. *)
GetHop(t) ==
  /\ pc[t] = "getHop" /\ NextInColisions(t)
  /\ GetLook(t, "getHop", colisions[loc[t].cur.next])
  /\ UNCHANGED <<table, stop, sv, calls>>

(* operator[] past the end of a vector is undefined: the thread is followed no
   further than to the access. *)
TouchesItem == {"addRead", "addStore", "addAppend", "colRead", "colAppend", "colLink", "getRead"}
ReadsColision == {"colHop", "getHop"}
PastTheEnd(t) == \/ pc[t] \in TouchesItem /\ ~InItems(t)
                 \/ pc[t] \in ReadsColision /\ ~NextInColisions(t)

-----------------------------------------------------------------------------
(* increaseTable.  Its own calls of checkIncreaseProcess see FALSE: only this
   thread sets increaseInProcess, and not before the copying is over. *)

newSize == Len(sv.new)

(* A slip: the cell is computed with the old size. *)
PlaceItem_OldSize(it) ==
  LET c == Cell(it.key, size)
  IN  IF sv.new[c].value = <<>> THEN [sv EXCEPT !.new[c] = it]
      ELSE [sv EXCEPT !.tmp = Append(sv.tmp, it)]

(* The item goes to its cell of the new vector if that is free. *)
PlaceItem(it) ==
  LET c == Cell(it.key, newSize)
      cur == sv.new[c]
  IN  IF cur.value = <<>> THEN [sv EXCEPT !.new[c] = it]
      ELSE IF cur.key # it.key THEN [sv EXCEPT !.tmp = Append(sv.tmp, it)]
      ELSE [sv EXCEPT !.new[c].value = cur.value \o it.value]

(* Code 1: the table would have too many cells. *)
IncRefuse ==
  /\ Step(Service, "increase", "idle") /\ 2 * size >= MaxCapacity
  /\ UNCHANGED <<table, stop, loc, sv, calls>>

(* A slip: the table grows by one cell. *)
IncStart_ByOne ==
  /\ Step(Service, "increase", "copyItem") /\ size + 1 < MaxCapacity
  /\ sv' = [NoIncrease EXCEPT !.new = createNewVector(size + 1), !.i = 1, !.n = size]
  /\ UNCHANGED <<table, stop, loc, calls>>

IncStart ==
  /\ Step(Service, "increase", "copyItem") /\ 2 * size < MaxCapacity
  /\ sv' = [new |-> createNewVector(2 * size), tmp |-> <<>>, i |-> 1, n |-> size]
  /\ UNCHANGED <<table, stop, loc, calls>>

(* A slip: the valued items are copied as they are, next included. *)
CopyItem_KeepsNext ==
  /\ pc[Service] = "copyItem" /\ sv.i <= sv.n
  /\ LET it == items[sv.i]
     IN  sv' = [IF it.value = <<>> THEN sv ELSE PlaceItem(it) EXCEPT !.i = sv.i + 1]
  /\ UNCHANGED <<table, stop, pc, loc, calls>>

(* An item that has a value is skipped. *)
CopyItem ==
  /\ pc[Service] = "copyItem" /\ sv.i <= sv.n
  /\ LET it == items[sv.i]
     IN  sv' = [IF it.value # <<>> THEN sv ELSE PlaceItem(it) EXCEPT !.i = sv.i + 1]
  /\ UNCHANGED <<table, stop, pc, loc, calls>>

CountColisions ==
  /\ Step(Service, "copyItem", "copyColision") /\ sv.i > sv.n
  /\ sv' = [sv EXCEPT !.i = 1, !.n = Len(colisions)]
  /\ UNCHANGED <<table, stop, loc, calls>>

CopyColision ==
  /\ pc[Service] = "copyColision" /\ sv.i <= sv.n
  /\ LET it == [colisions[sv.i] EXCEPT !.next = NoNext]
     IN  sv' = [PlaceItem(it) EXCEPT !.i = sv.i + 1]
  /\ UNCHANGED <<table, stop, pc, loc, calls>>

(* A slip: the new size is published before the callers are stopped. *)
LockIncrease_StoresSize ==
  /\ Step(Service, "copyColision", "setFlag") /\ sv.i > sv.n
  /\ increaseMutex = "free"
  /\ increaseMutex' = "held"
  /\ size' = newSize
  /\ UNCHANGED <<items, colisions, count, currentCapacity, increaseInProcess,
                 currentStopedThreadCount, busyThreadCount, loc, sv, calls>>

LockIncrease ==
  /\ Step(Service, "copyColision", "setFlag") /\ sv.i > sv.n
  /\ increaseMutex = "free"
  /\ increaseMutex' = "held"
  /\ UNCHANGED <<table, increaseInProcess, currentStopedThreadCount, busyThreadCount,
                 loc, sv, calls>>

SetFlag ==
  /\ Step(Service, "setFlag", "rendezvous")
  /\ increaseInProcess' = TRUE
  /\ UNCHANGED <<table, increaseMutex, currentStopedThreadCount, busyThreadCount,
                 loc, sv, calls>>

(* The loop that sleeps until enough threads have stopped. *)
Rendezvous ==
  /\ Step(Service, "rendezvous", "swapItems")
  /\ currentStopedThreadCount >= busyThreadCount
  /\ UNCHANGED <<table, stop, loc, sv, calls>>

SwapItems ==
  /\ Step(Service, "swapItems", "storeSize")
  /\ items' = sv.new
  /\ UNCHANGED <<colisions, size, count, currentCapacity, stop, loc, sv, calls>>

StoreSize ==
  /\ Step(Service, "storeSize", "clearFlag")
  /\ size' = newSize
  /\ UNCHANGED <<items, colisions, count, currentCapacity, stop, loc, sv, calls>>

ClearFlag ==
  /\ Step(Service, "clearFlag", "unlock")
  /\ increaseInProcess' = FALSE
  /\ UNCHANGED <<table, increaseMutex, currentStopedThreadCount, busyThreadCount,
                 loc, sv, calls>>

(* A slip: the mutex is not unlocked. *)
UnlockIncrease_Forgets ==
  /\ Step(Service, "unlock", "resetColisions")
  /\ UNCHANGED <<table, stop, loc, sv, calls>>

UnlockIncrease ==
  /\ Step(Service, "unlock", "resetColisions")
  /\ increaseMutex' = "free"
  /\ UNCHANGED <<table, increaseInProcess, currentStopedThreadCount, busyThreadCount,
                 loc, sv, calls>>

ResetColisions ==
  /\ Step(Service, "resetColisions", "readd")
  /\ colisions' = <<>>
  /\ UNCHANGED <<items, size, count, currentCapacity, stop, loc, sv, calls>>

(* add(hi.key, hi.value) for what found its cell taken; its code is ignored. *)
Readd ==
  /\ Step(Service, "readd", "addSize") /\ sv.tmp # <<>>
  /\ loc' = [loc EXCEPT ![Service] =
               [Idle EXCEPT !.key = sv.tmp[1].key, !.val = sv.tmp[1].value]]
  /\ sv' = [sv EXCEPT !.tmp = Tail(sv.tmp)]
  /\ UNCHANGED <<table, stop, calls>>

IncDone ==
  /\ Step(Service, "readd", "increased") /\ sv.tmp = <<>>
  /\ UNCHANGED <<table, stop, loc, sv, calls>>

-----------------------------------------------------------------------------
(* *ht = HashTable(startSize), the assignment InvertedIndex::clear makes. *)
Assign ==
  \/ /\ Step(Service, "asgSize", "asgCount")
     /\ size' = StartSize
     /\ UNCHANGED <<items, colisions, count, currentCapacity, stop, loc, sv, calls>>
  \/ /\ Step(Service, "asgCount", "asgCapacity")
     /\ count' = 0
     /\ UNCHANGED <<items, colisions, size, currentCapacity, stop, loc, sv, calls>>
  \/ /\ Step(Service, "asgCapacity", "asgItems")
     /\ currentCapacity' = 0
     /\ UNCHANGED <<items, colisions, size, count, stop, loc, sv, calls>>
  \/ /\ Step(Service, "asgItems", "asgColisions")
     /\ items' = createNewVector(StartSize)
     /\ UNCHANGED <<colisions, size, count, currentCapacity, stop, loc, sv, calls>>
  \/ /\ Step(Service, "asgColisions", "asgBusy")
     /\ colisions' = <<>>
     /\ UNCHANGED <<items, size, count, currentCapacity, stop, loc, sv, calls>>
  \/ /\ Step(Service, "asgBusy", "idle")
     /\ busyThreadCount' = 0
     /\ UNCHANGED <<table, increaseInProcess, increaseMutex, currentStopedThreadCount,
                    loc, sv, calls>>

-----------------------------------------------------------------------------
(* Calls and returns. *)

MayStart == Serial => \A t \in Threads : pc[t] = "idle"

CallAdd(t, k, v) ==
  /\ Step(t, "idle", "addSize") /\ MayStart /\ calls.op < MaxOps
  /\ loc' = [loc EXCEPT ![t] = [Idle EXCEPT !.key = k, !.val = v,
                                            !.before = IF Serial THEN Lookup(k) ELSE <<>>]]
  /\ calls' = [calls EXCEPT !.op = calls.op + 1]
  /\ UNCHANGED <<table, stop, sv>>

CallGet(t, k) ==
  /\ Step(t, "idle", "getSize") /\ MayStart /\ calls.op < MaxOps
  /\ loc' = [loc EXCEPT ![t] = [Idle EXCEPT !.key = k]]
  /\ calls' = [calls EXCEPT !.op = calls.op + 1]
  /\ UNCHANGED <<table, stop, sv>>

CallIncrease ==
  /\ Step(Service, "idle", "increase") /\ MayStart /\ calls.service < MaxService
  /\ calls' = [calls EXCEPT !.service = calls.service + 1]
  /\ UNCHANGED <<table, stop, loc, sv>>

CallAssign ==
  /\ Step(Service, "idle", "asgSize") /\ MayStart /\ Clears /\ calls.service < MaxService
  /\ calls' = [calls EXCEPT !.service = calls.service + 1, !.cleared = TRUE]
  /\ UNCHANGED <<table, stop, loc, sv>>

Return(t) ==
  /\ \/ Step(t, "return", IF t = Service THEN "readd" ELSE "idle") /\ UNCHANGED sv
     \/ Step(t, "increased", "idle") /\ sv' = NoIncrease
  /\ loc' = [loc EXCEPT ![t] = Idle]
  /\ UNCHANGED <<table, stop, calls>>

(* The server thread passes on what the pool's counter was some time ago. *)
SetBusyThreadCount(n) ==
  /\ calls.busy < MaxBusy /\ n # busyThreadCount
  /\ busyThreadCount' = n
  /\ calls' = [calls EXCEPT !.busy = calls.busy + 1]
  /\ UNCHANGED <<table, increaseInProcess, increaseMutex, currentStopedThreadCount,
                 pc, loc, sv>>

-----------------------------------------------------------------------------
ThreadStep(t) ==
  \/ CheckFlag(t) \/ LoadStopped(t) \/ StoreStopped(t) \/ PassMutex(t)
  \/ AddSize(t) \/ AddRead(t) \/ AddDecide(t) \/ AddStore(t) \/ AddAppend(t)
  \/ LoadCounter(t) \/ StoreCounter(t)
  \/ ColRead(t) \/ ColHop(t) \/ ColCount(t) \/ ColAppend(t) \/ ColCap(t) \/ ColPush(t)
  \/ ColLink(t) \/ GetSize(t) \/ GetRead(t) \/ GetHop(t) \/ Return(t)

ServiceStep ==
  \/ IncRefuse \/ IncStart \/ CopyItem \/ CountColisions \/ CopyColision \/ LockIncrease
  \/ SetFlag \/ Rendezvous \/ SwapItems \/ StoreSize \/ ClearFlag \/ UnlockIncrease
  \/ ResetColisions \/ Readd \/ IncDone \/ Assign

Next ==
  \/ \E t \in Threads : ThreadStep(t)
  \/ ServiceStep \/ CallIncrease \/ CallAssign
  \/ \E t \in Callers, k \in Keys : CallGet(t, k) \/ \E v \in Values : CallAdd(t, k, v)
  \/ \E n \in 0..Cardinality(Callers) : SetBusyThreadCount(n)

Spec == Init /\ [][Next]_vars

(* Threads run; mutexes are not fair and nobody has to call anything. *)
FairSpec ==
  /\ Spec
  /\ \A t \in Threads : WF_vars(ThreadStep(t))
  /\ WF_vars(ServiceStep)

-----------------------------------------------------------------------------
(* The promise, as SourceMap states it: a thread that has been stopped by
   checkIncreaseProcess is where it goes on at. *)
CheckPlaces == {"check", "stopLoad", "stopInc", "stopped", "goLoad", "goDec"}
Onward(p, l) == IF p \in CheckPlaces THEN l.ret ELSE p

Adding == {"addSize", "addRead", "addDecide", "addStore", "addAppend",
           "colRead", "colHop", "colCount", "colAppend", "colPush", "colLink"}
Getting == {"getSize", "getRead", "getHop"}
Ending == {"countLoad", "countStore", "capLoad", "capStore", "colCap", "return"}

Operation(p, l) ==
  CASE p \in Adding -> [at |-> "add", key |-> l.key, val |-> l.val]
    [] p \in Getting -> [at |-> "get", key |-> l.key]
    [] p \in Ending /\ l.code = -1 -> [at |-> "got", val |-> l.val]
    [] p \in Ending /\ l.code # -1 -> [at |-> "added", code |-> l.code]
    [] OTHER -> [at |-> "none"]

(* The vectors swapped or emptied, and colisions not yet. *)
Unlinking == {"storeSize", "clearFlag", "unlock", "resetColisions", "asgColisions"}

Keyed == Keys \cup {NoKey}
Stored == [k \in Keyed |-> Lookup(k)]
Aside == IF pc[Service] \in Unlinking THEN {} ELSE {colisions[n].key : n \in 1..Len(colisions)}
Ops == [t \in Threads |-> Operation(Onward(pc[t], loc[t]), loc[t])]
Class == [k \in Keyed |-> {l \in Keyed : Hash[l] % StartSize = Hash[k] % StartSize}]

Map == INSTANCE SourceMap WITH Keys <- Keyed, stored <- Stored, aside <- Aside, op <- Ops

-----------------------------------------------------------------------------
(* Properties. *)

Item == [key : Keys \cup {NoKey}, value : Seq(Sources), next : Nat]

(* The types of the members and of the locals; the stopped-thread counter is
   an unsigned int that wraps. *)
TypeOK ==
  /\ items \in Seq(Item) /\ colisions \in Seq(Item)
  /\ size \in Nat \ {0} /\ count \in Nat /\ currentCapacity \in Nat
  /\ increaseInProcess \in BOOLEAN /\ increaseMutex \in {"free", "held"}
  /\ currentStopedThreadCount \in 0..(UIntMod - 1)
  /\ busyThreadCount \in 0..Cardinality(Callers)
  /\ \A t \in Threads : loc[t].cur \in Item /\ loc[t].val \in Seq(Sources)

Quiet == \A t \in Threads : pc[t] = "idle"
Occupied == {b \in 1..Len(items) : items[b].value # <<>>}

(* hashFunction decides where get looks: every item on the chain of an
   occupied cell belongs to that cell, also after the table has grown, after
   collisions were placed anew and after the table was replaced. *)
Placement ==
  \A b \in Occupied : \A it \in Chain(items[b]) : Cell(it.key, Len(items)) = b

(* count, which add and isOverflowed compare with the threshold, never falls
   below the number of occupied cells, though a collision counts nothing when
   it is the first of its cell, one per hop otherwise, and increaseTable does
   not touch it while it moves collisions to cells of their own. *)
CountCoversOccupied == Quiet => count >= Cardinality(Occupied)

(* HashTable.h: next is the index of the following item in colisions. *)
NextNamesColision == \A b \in Occupied : items[b].next <= Len(colisions)

(* After an add that returned 0, get reaches the key, whichever of the five
   ways through add and handleCollision was taken. *)
FoundAfterAdd ==
  \A t \in Callers :
    pc[t] = "return" /\ loc[t].code = 0 /\ loc[t].val # <<>> => Reached(loc[t].key) # {}

(* HashTable.h: "if the key exists and is the same, the new value is added to
   the existing one". *)
AddAppends ==
  \A t \in Callers :
    pc[t] = "return" /\ loc[t].code = 0 /\ loc[t].before # <<>>
      => Lookup(loc[t].key) = loc[t].before \o loc[t].val

(* An index computed from a size read before the table grew stays below the
   length of items, whatever the callers and increaseTable interleave; only
   replacing the table under a caller (InvertedIndex::clear) breaks this. *)
IndexInRange ==
  calls.cleared \/ \A t \in Threads : pc[t] \in TouchesItem => InItems(t)

(* Sizes are the start size doubled, so even a stale index, be it from before
   the table grew or before it was replaced, keeps a key in its class of cells
   modulo the start size. *)
HeadInClass ==
  \A b \in 1..Len(items) :
    items[b].key # NoKey => Hash[items[b].key] % StartSize = (b - 1) % StartSize

(* One operation after another, the table is a map from keys to sources, but for keys
   in one another's way and for what growth loses (add, get, increaseTable). *)
KeepsMap == Map!Spec

(* If no worker is reported busy, increaseTable does not wait for any: then
   every add and get that was called returns, the ones it stopped included. *)
OperationsEnd ==
  <>[](busyThreadCount = 0) =>
    \A t \in Callers : []<>(pc[t] = "idle" \/ PastTheEnd(t))
=============================================================================
