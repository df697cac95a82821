------------------------------ MODULE ServerRun ------------------------------
(***************************************************************************)
(* The server in its client mode (Server::loop): connections, the request  *)
(* handlers clientTaskHandler runs on the pool's threads, the framing of    *)
(* Client, and the stored sections (SectionStore), over crashes and         *)
(* restarts of the process.                                                *)
(*                                                                         *)
(* A connection carries one request: a length of LengthSize bytes and then *)
(* blocks of BlockSize, as send_ writes them; the peer speaks the same     *)
(* protocol and may stop half-way or reset the connection.  Which accepted *)
(* connection a thread gets is the pool's affair (module ThreadPool), what *)
(* happens inside the tables that of HashTable and InvertedIndex: here a   *)
(* word is known to the dictionary or not, and an add may raise what the   *)
(* service then handles.  Of the words of a request one is followed.       *)
(***************************************************************************)
EXTENDS SectionStore

CONSTANTS
  Threads,         \* the pool's threads
  Words,           \* what a request may ask for
  LengthSize, BlockSize, MaxBlocks,
  MaxConnections,  \* bound on the number of connections
  MaxRestarts      \* bound on the number of restarts

ASSUME FrameAssumption ==
  LengthSize \in Nat \ {0} /\ BlockSize \in Nat \ {0} /\ MaxBlocks \in Nat

VARIABLES
  running,      \* whether the process runs
  known,        \* the words the dictionary has an id for
  handler,      \* handler[t]: thread t's place in clientTaskHandler, and its locals
  wire,         \* wire[t]: the connection thread t serves, as its peer and the network left it
  connections, restarts  \* count against the bounds

runVars == <<running, known, handler, wire, connections, restarts>>
vars == <<disk, sections, capacity, clearInProcess, service, fileName, found, raised, saves,
          running, known, handler, wire, connections, restarts>>

\* todo: blocks receive still asks for; short: a recv returned less than asked for;
\* copy: the names in the list getSections returned.
Free == [at |-> "free", todo |-> 0, short |-> FALSE, badLength |-> FALSE, copy |-> {}]

\* left: bytes sent and not received; peer: "waiting" for the answer, "shut", "reset".
NoWire == [blocks |-> 0, left |-> 0, peer |-> "shut", word |-> CHOOSE w \in Words : TRUE]

Init == /\ StoreInit
        /\ running = TRUE
        /\ known = {}
        /\ handler = [t \in Threads |-> Free]
        /\ wire = [t \in Threads |-> NoWire]
        /\ connections = 0
        /\ restarts = 0

At(t, place) == running /\ handler[t].at = place
Goes(t, place) == handler' = [handler EXCEPT ![t].at = place]

\* An exception that leaves a thread's function ends the process, and with it every
\* connection and all that is not on the disk.
Terminate == /\ running' = FALSE
             /\ known' = {}
             /\ handler' = [t \in Threads |-> Free]
             /\ wire' = [t \in Threads |-> NoWire]
             /\ StoreEnds
             /\ UNCHANGED <<sections, capacity, connections, restarts>>

Restart == /\ ~running /\ restarts < MaxRestarts
           /\ running' = TRUE
           /\ restarts' = restarts + 1
           /\ StoreRestarts
           /\ UNCHANGED <<clearInProcess, service, fileName, found, raised, saves,
                          known, handler, wire, connections>>

(***************************************************************************)
(* Connections.                                                            *)
(***************************************************************************)
\* handleConnection, addTask, and a thread that takes the task.
Accept(t) == /\ At(t, "free") /\ connections < MaxConnections
             /\ connections' = connections + 1
             /\ \E word \in Words, n \in 1 .. MaxBlocks :
                  wire' = [wire EXCEPT ![t] = [blocks |-> n, left |-> LengthSize + n * BlockSize,
                                               peer |-> "waiting", word |-> word]]
             /\ Goes(t, "length")
             /\ UNCHANGED <<storeVars, running, known, restarts>>

\* The peer stops half-way or goes away while it is being read.
PeerFails(t) == /\ handler[t].at \in {"length", "blocks"}
                /\ wire[t].peer = "waiting"
                /\ wire' \in {[wire EXCEPT ![t].peer = "reset"]} \cup
                             {[wire EXCEPT ![t].peer = "shut", ![t].left = n] :
                                n \in 0 .. wire[t].left}
                /\ UNCHANGED <<storeVars, running, known, handler, connections, restarts>>

(***************************************************************************)
(* Client::receive.                                                        *)
(***************************************************************************)
\* Slip: recv is taken to return all it was asked for.
Received_All(t, n) ==
  IF wire[t].left > 0 THEN {n} ELSE IF wire[t].peer = "shut" THEN {0} ELSE {}

\* What recv may return when asked for n bytes: some of them as soon as there are
\* any, 0 at the end of a stream that is shut; it waits on an empty one.
Received(t, n) ==
  IF wire[t].left > 0 THEN {k \in 1 .. n : k <= wire[t].left}
  ELSE IF wire[t].peer = "shut" THEN {0} ELSE {}

Reset(t) == wire[t].peer = "reset"

\* A length that came short has bytes nobody has written: it may be any; here the
\* right one, zero, or one that asks for more than there is.
ReceiveLength(t) ==
  /\ At(t, "length") /\ ~Reset(t)
  /\ \E got \in Received(t, LengthSize) :
       /\ wire' = [wire EXCEPT ![t].left = @ - got]
       /\ \E todo \in {wire[t].blocks} \cup IF got < LengthSize THEN {0, MaxBlocks + LengthSize} ELSE {} :
            handler' = [handler EXCEPT ![t].at = "blocks", ![t].todo = todo,
                                       ![t].short = got < LengthSize,
                                       ![t].badLength = got < LengthSize]
  /\ UNCHANGED <<storeVars, running, known, connections, restarts>>

\* ... and resize throws if it is negative or too large.
LengthThrows(t) == /\ At(t, "length") /\ ~Reset(t)
                   /\ \E got \in Received(t, LengthSize) : got < LengthSize
                   /\ Terminate

\* Slip: a block that came short is asked for again.
ReceiveBlock_Again(t) ==
  /\ At(t, "blocks") /\ ~Reset(t) /\ handler[t].todo > 0
  /\ \E got \in Received(t, BlockSize) :
       /\ wire' = [wire EXCEPT ![t].left = @ - got]
       /\ handler' = [handler EXCEPT ![t].todo = IF got = BlockSize THEN @ - 1 ELSE @,
                                     ![t].short = @ \/ got < BlockSize]
  /\ UNCHANGED <<storeVars, running, known, connections, restarts>>

\* Every recv counts as a whole block.
ReceiveBlock(t) ==
  /\ At(t, "blocks") /\ ~Reset(t) /\ handler[t].todo > 0
  /\ \E got \in Received(t, BlockSize) :
       /\ wire' = [wire EXCEPT ![t].left = @ - got]
       /\ handler' = [handler EXCEPT ![t].todo = @ - 1, ![t].short = @ \/ got < BlockSize]
  /\ UNCHANGED <<storeVars, running, known, connections, restarts>>

\* recv returns -1, receive does, and check_net_error throws.
ReceiveError(t) == /\ handler[t].at \in {"length", "blocks"} /\ running
                   /\ Reset(t)
                   /\ handler[t].todo > 0 \/ handler[t].at = "length"
                   /\ Terminate

\* The request is parsed: of the connection only its word matters from here on.  Bytes
\* that came short leave any word, or none at all.
Parse(t) == /\ At(t, "blocks") /\ handler[t].todo = 0
            /\ \E w \in IF handler[t].short THEN Words ELSE {wire[t].word} :
                 wire' = [wire EXCEPT ![t] = [NoWire EXCEPT !.word = w]]
            /\ handler' = [handler EXCEPT ![t] = [Free EXCEPT !.at = "get"]]
            /\ UNCHANGED <<storeVars, running, known, connections, restarts>>

\* ... JSON that is no object throws.
ParseThrows(t) == /\ At(t, "blocks") /\ handler[t].todo = 0 /\ handler[t].short
                  /\ Terminate

(***************************************************************************)
(* InvertedIndex::get, add, and the answer.                                *)
(***************************************************************************)
Get(t) == /\ At(t, "get")
          /\ Goes(t, IF wire[t].word \in known THEN "flag" ELSE "add")
          /\ UNCHANGED <<storeVars, running, known, wire, connections, restarts>>

TestFlag(t) == /\ At(t, "flag")
               /\ \E place \in IF clearInProcess THEN {"add", "send"} ELSE {"copy"} : Goes(t, place)
               /\ UNCHANGED <<storeVars, running, known, wire, connections, restarts>>

CopySections(t) == /\ At(t, "copy")
                   /\ \E copy \in Copies :
                        handler' = [handler EXCEPT ![t].at = "load", ![t].copy = copy]
                   /\ UNCHANGED <<storeVars, running, known, wire, connections, restarts>>

\* A list that changes while it is copied may also end the process.
CopyBreaks(t) == At(t, "copy") /\ Changing /\ Terminate

\* There may be enough results without a search, as after TestFlag.
Load(t) == /\ At(t, "load") /\ ~LoadThrows(handler[t].copy)
           /\ \E place \in {"add", "send"} :
                handler' = [handler EXCEPT ![t].at = place, ![t].copy = {}]
           /\ UNCHANGED <<storeVars, running, known, wire, connections, restarts>>

LoadBreaks(t) == At(t, "load") /\ LoadThrows(handler[t].copy) /\ Terminate

\* The word gets an id unless it, or one before it in the request, is refused; then it
\* gets sources, and the words behind it have their turn.  What is full and cannot grow is
\* raised, here at once (module InvertedIndex has the service try to grow it first).
Add(t) == /\ At(t, "add")
          /\ known' \in {known, known \cup {wire[t].word}}
          /\ raised' \in {raised, raised \cup {"MAX_TABLE"}, raised \cup {"MAX_DICT"}}
          /\ Goes(t, "send")
          /\ UNCHANGED <<disk, sections, capacity, clearInProcess, service, fileName, found,
                         saves, running, wire, connections, restarts>>

\* What send_ returns is ignored; the connection is closed.
Send(t) == /\ At(t, "send")
           /\ handler' = [handler EXCEPT ![t] = Free]
           /\ wire' = [wire EXCEPT ![t] = NoWire]
           /\ UNCHANGED <<storeVars, running, known, connections, restarts>>

(***************************************************************************)
(* The service thread; the handlers that clear tables do so last.          *)
(***************************************************************************)
ServiceStep == running /\ StoreStep /\ UNCHANGED runVars

SortBreaks == running /\ service = "sort" /\ SortUndefined /\ Terminate

\* fullMemoryClear clears both tables, saveTable only the one with the sources.
ClearTables == /\ running /\ service \in {"clear", "cleartable"}
               /\ service' = "idle"
               /\ known' = IF service = "clear" THEN {} ELSE known
               /\ UNCHANGED <<disk, sections, capacity, clearInProcess, fileName, found, raised,
                              saves, running, handler, wire, connections, restarts>>

Reads(t)   == ReceiveLength(t) \/ LengthThrows(t) \/ ReceiveBlock(t) \/ ReceiveError(t)
Handles(t) == Parse(t) \/ ParseThrows(t) \/ Get(t) \/ TestFlag(t) \/ CopySections(t)
              \/ CopyBreaks(t) \/ Load(t) \/ LoadBreaks(t) \/ Add(t) \/ Send(t)
Thread(t)  == Reads(t) \/ Handles(t)
Service    == ServiceStep \/ SortBreaks \/ ClearTables

Next == \/ \E t \in Threads : Accept(t) \/ PeerFails(t) \/ Thread(t)
        \/ Service
        \/ Restart

Spec == Init /\ [][Next]_vars

(***************************************************************************)
(* Properties.                                                             *)
(***************************************************************************)
Names == OtherFiles \cup {Directory} \cup {InStore(SectionName(n)) : n \in 0 .. MaxSaves}

\* The type of every variable.
TypeOK ==
  /\ DOMAIN disk \subseteq Names /\ DOMAIN sections \subseteq Names \ {Directory}
  /\ \A f \in {disk, sections, found} : \A n \in DOMAIN f : f[n] \in {0, 1} \cup Sizes
  /\ capacity \in Nat /\ clearInProcess \in BOOLEAN
  /\ raised \subseteq {"MAX_TABLE", "MAX_DICT", "MAX_MEMORY"}
  /\ running \in BOOLEAN /\ known \subseteq Words
  /\ \A t \in Threads : /\ handler[t].todo \in 0 .. MaxBlocks + LengthSize
                        /\ wire[t].left \in 0 .. LengthSize + MaxBlocks * BlockSize
                        /\ wire[t].peer \in {"waiting", "shut", "reset"}

\* Whenever the service is between two exceptions, the list is all there is beside the
\* directory, except that a lone file is not listed (readSectionsInfo), and the capacity is
\* its sum, whatever was saved, cleared, shrunk, killed half-way or restarted (setSections
\* after every change, readSectionsInfo at the start).
ListsAllButLone ==
  running /\ service \in {"idle", "MAX_TABLE", "MAX_DICT", "MAX_MEMORY", "create"}
    => /\ sections = IF Cardinality(DOMAIN Beside) = 1 THEN NoFiles ELSE Beside
       /\ capacity = Total(sections)

\* A thread copies the list while it is assigned or sorted.
CopiedInChange == service \in {"torn", "sort"} /\ \E t \in Threads : handler[t].at = "copy"

\* What ends the process: a connection that fails, a recv that came short, a list copied
\* while it was assigned or sorted (never one shrunk: nothing is erased), a sort of two
\* files of one size, or a known word looked up with a copied list that names a section on
\* the disk.
Terminates ==
  [][running /\ ~running' =>
       \/ \E t \in Threads : handler[t].at \in {"length", "blocks"}
                               /\ (Reset(t) \/ handler[t].short \/ handler[t].at = "length")
       \/ CopiedInChange
       \/ service = "sort" /\ SortUndefined
       \/ \E t \in Threads : /\ handler[t].at = "load"
                            /\ \E n \in SectionsOnDisk :
                                 InStore(SectionName(n)) \in handler[t].copy]_vars

\* A thread waits in recv for a peer that itself waits for its answer only if the length
\* came short: blocks that come short leave more to read, never less (receive).
WaitsOnlyOnBadLength ==
  \A t \in Threads :
    At(t, "blocks") /\ handler[t].todo > 0 /\ wire[t].left = 0 /\ wire[t].peer = "waiting"
      => handler[t].badLength
=============================================================================
