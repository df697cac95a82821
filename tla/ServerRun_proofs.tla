--------------------------- MODULE ServerRun_proofs ---------------------------
(***************************************************************************)
(* Theorems about ServerRun, for any threads, words, files, sizes and       *)
(* bounds: what a thread waits for, and what the list of sections says.     *)
(***************************************************************************)
EXTENDS ServerRun, SequenceTheorems, FiniteSetTheorems, WellFoundedInduction, TLAPS

(***************************************************************************)
(* Framing.  As long as the length came whole, a peer that waits for its    *)
(* answer has sent at least the blocks that are still asked for.            *)
(***************************************************************************)
\* The fields of a thread's locals and of a connection that framing is about.
Locals(h) == {"at", "todo", "short", "badLength", "copy"} \subseteq DOMAIN h /\ h.todo \in Nat
Connected(w) == /\ {"blocks", "left", "peer", "word"} \subseteq DOMAIN w
                /\ w.blocks \in Nat /\ w.left \in Nat

Sent(h, w) ==
  w.peer = "waiting" =>
    /\ h.at = "length" => w.left = LengthSize + w.blocks * BlockSize
    /\ h.at = "blocks" /\ ~h.badLength => w.left >= h.todo * BlockSize

Framed(h, w) == Locals(h) /\ Connected(w) /\ Sent(h, w)

FrameInv == /\ handler = [t \in Threads |-> handler[t]]
            /\ wire = [t \in Threads |-> wire[t]]
            /\ \A t \in Threads : Framed(handler[t], wire[t])

LEMMA Products ==
  ASSUME NEW m \in Nat, NEW n \in Nat
  PROVE  /\ m * n \in Nat
         /\ m > 0 => (m - 1) * n = m * n - n
         /\ m > 0 /\ n > 0 => m * n > 0
OBVIOUS

LEMMA FreeFramed ==
  /\ Locals(Free) /\ Free.at = "free" /\ Free.todo = 0
  /\ Connected(NoWire) /\ NoWire.peer = "shut"
  /\ Framed(Free, NoWire)
<1>1. Locals(Free) /\ Free.at = "free" /\ Free.todo = 0
  BY DEF Free, Locals
<1>2. Connected(NoWire) /\ NoWire.peer = "shut"
  BY DEF NoWire, Connected
<1> QED BY <1>1, <1>2 DEF Framed, Sent

(* A thread that has read its request waits for nothing. *)
LEMMA MovesFramed ==
  ASSUME NEW h, Locals(h), NEW w, Connected(w), NEW place,
         place \notin {"length", "blocks"}, NEW list
  PROVE  /\ Framed([h EXCEPT !.at = place], w)
         /\ Framed([h EXCEPT !.at = place, !.copy = list], w)
<1> DEFINE g == [h EXCEPT !.at = place]
           k == [h EXCEPT !.at = place, !.copy = list]
<1>1. DOMAIN g = DOMAIN h /\ DOMAIN k = DOMAIN h
  BY Zenon
<1>2. g.at = place /\ k.at = place
  BY Zenon DEF Locals
<1>3. g.todo = h.todo /\ k.todo = h.todo
  BY Zenon DEF Locals
<1> HIDE DEF g, k
<1>4. Framed(g, w) /\ Framed(k, w)
  BY <1>1, <1>2, <1>3 DEF Framed, Locals, Sent
<1> QED BY <1>4 DEF g, k

(* A step of one thread, on its own locals and connection. *)
LEMMA OneThread ==
  ASSUME FrameInv, NEW t \in Threads, NEW h, NEW w, Framed(h, w),
         handler' = [handler EXCEPT ![t] = h], wire' = [wire EXCEPT ![t] = w]
  PROVE  FrameInv'
BY DEF FrameInv

LEMMA ReadsFramed ==
  ASSUME FrameInv, NEW t \in Threads, ReceiveLength(t) \/ ReceiveBlock(t)
  PROVE  FrameInv'
<1> DEFINE h == handler[t]
           w == wire[t]
<1>1. /\ Locals(h) /\ Connected(w) /\ Sent(h, w) /\ h.todo \in Nat
      /\ handler = [u \in Threads |-> handler[u]] /\ wire = [u \in Threads |-> wire[u]]
  BY DEF FrameInv, Framed, Locals
<1>2. w.left \in Nat /\ w.blocks \in Nat /\ LengthSize \in Nat /\ BlockSize \in Nat /\ MaxBlocks \in Nat
  BY <1>1, FrameAssumption DEF Connected
<1>3. ASSUME NEW n \in Nat, NEW got \in Received(t, n)
      PROVE  /\ got \in 0 .. n /\ w.left - got \in Nat
             /\ w.peer = "waiting" => got > 0
  BY <1>2, <1>3 DEF Received
<1>4. CASE ReceiveLength(t)
  <2>1. PICK got \in Received(t, LengthSize) :
          /\ wire' = [wire EXCEPT ![t].left = @ - got]
          /\ \E todo \in {wire[t].blocks} \cup
                         IF got < LengthSize THEN {0, MaxBlocks + LengthSize} ELSE {} :
               handler' = [handler EXCEPT ![t].at = "blocks", ![t].todo = todo,
                                          ![t].short = got < LengthSize,
                                          ![t].badLength = got < LengthSize]
    BY <1>4 DEF ReceiveLength
  <2>2. PICK todo \in {w.blocks} \cup
                      IF got < LengthSize THEN {0, MaxBlocks + LengthSize} ELSE {} :
          handler' = [handler EXCEPT ![t].at = "blocks", ![t].todo = todo,
                                     ![t].short = got < LengthSize,
                                     ![t].badLength = got < LengthSize]
    BY <2>1
  <2>3. h.at = "length"
    BY <1>4 DEF ReceiveLength, At
  <2> DEFINE less == got < LengthSize
             hh == [h EXCEPT !.at = "blocks", !.todo = todo, !.short = less,
                             !.badLength = less]
             ww == [w EXCEPT !.left = w.left - got]
  <2>4. todo \in Nat /\ (~less => todo = w.blocks /\ got = LengthSize)
    BY <1>2, <1>3, <2>2
  <2>5. handler' = [handler EXCEPT ![t] = hh]
    BY <1>1, <2>2
  <2>6. wire' = [wire EXCEPT ![t] = ww]
    BY <1>1, <2>1
  <2>7. Connected(ww) /\ ww.left = w.left - got /\ ww.peer = w.peer
    <3>1. DOMAIN ww = DOMAIN w
      BY Zenon
    <3>2. ww.left = w.left - got
      BY <1>1, Zenon DEF Connected
    <3>3. ww.peer = w.peer /\ ww.blocks = w.blocks
      BY <1>1, Zenon DEF Connected
    <3>4. w.left - got \in Nat
      BY <1>2, <1>3
    <3> HIDE DEF ww
    <3> QED BY <1>1, <3>1, <3>2, <3>3, <3>4, Zenon DEF Connected
  <2>8. w.peer = "waiting" => w.left = LengthSize + w.blocks * BlockSize
    BY <1>1, <2>3 DEF Sent
  <2>9. w.peer = "waiting" /\ ~less => w.left - got >= todo * BlockSize
    BY <1>2, <2>4, <2>8, Products
  <2>10. Locals(hh) /\ hh.at = "blocks" /\ hh.todo = todo /\ hh.badLength = less
    <3>1. DOMAIN hh = DOMAIN h
      BY Zenon
    <3>2. hh.at = "blocks"
      BY <1>1, Zenon DEF Locals
    <3>3. hh.todo = todo
      BY <1>1, Zenon DEF Locals
    <3>4. hh.badLength = less
      BY <1>1, Zenon DEF Locals
    <3> HIDE DEF hh, less
    <3> QED BY <1>1, <2>4, <3>1, <3>2, <3>3, <3>4, Zenon DEF Locals
  <2> HIDE DEF hh, ww, less
  <2>11. Sent(hh, ww)
    BY <2>7, <2>9, <2>10 DEF Sent
  <2> QED BY <2>5, <2>6, <2>7, <2>10, <2>11, OneThread DEF Framed
<1>5. CASE ReceiveBlock(t)
  <2>1. PICK got \in Received(t, BlockSize) :
          /\ wire' = [wire EXCEPT ![t].left = @ - got]
          /\ handler' = [handler EXCEPT ![t].todo = @ - 1, ![t].short = @ \/ got < BlockSize]
    BY <1>5 DEF ReceiveBlock
  <2>2. h.at = "blocks" /\ h.todo > 0
    BY <1>5 DEF ReceiveBlock, At
  <2> DEFINE hh == [h EXCEPT !.todo = h.todo - 1, !.short = h.short \/ got < BlockSize]
             ww == [w EXCEPT !.left = w.left - got]
  <2>3. handler' = [handler EXCEPT ![t] = hh]
    BY <1>1, <2>1
  <2>4. wire' = [wire EXCEPT ![t] = ww]
    BY <1>1, <2>1
  <2>5. Connected(ww) /\ ww.left = w.left - got /\ ww.peer = w.peer
    <3>1. DOMAIN ww = DOMAIN w
      BY Zenon
    <3>2. ww.left = w.left - got
      BY <1>1, Zenon DEF Connected
    <3>3. ww.peer = w.peer /\ ww.blocks = w.blocks
      BY <1>1, Zenon DEF Connected
    <3>4. w.left - got \in Nat
      BY <1>2, <1>3
    <3> HIDE DEF ww
    <3> QED BY <1>1, <3>1, <3>2, <3>3, <3>4, Zenon DEF Connected
  <2>6. h.todo - 1 \in Nat
    BY <1>1, <2>2
  <2>7. Locals(hh) /\ hh.at = "blocks" /\ hh.todo = h.todo - 1 /\ hh.badLength = h.badLength
    <3>1. DOMAIN hh = DOMAIN h
      BY Zenon
    <3>2. hh.at = h.at /\ hh.badLength = h.badLength
      BY <1>1, Zenon DEF Locals
    <3>3. hh.todo = h.todo - 1
      BY <1>1, Zenon DEF Locals
    <3> HIDE DEF hh
    <3> QED BY <1>1, <2>2, <2>6, <3>1, <3>2, <3>3, Zenon DEF Locals
  <2>8. w.peer = "waiting" /\ ~h.badLength => w.left >= h.todo * BlockSize
    BY <1>1, <2>2 DEF Sent
  <2>9. w.peer = "waiting" /\ ~h.badLength => w.left - got >= (h.todo - 1) * BlockSize
    <3>1. (h.todo - 1) * BlockSize = h.todo * BlockSize - BlockSize /\ h.todo * BlockSize \in Nat
      BY <1>1, <1>2, <2>2, Products
    <3>2. got \in 0 .. BlockSize
      BY <1>2, <1>3
    <3> QED BY <1>2, <2>8, <3>1, <3>2
  <2> HIDE DEF hh, ww
  <2>10. Sent(hh, ww)
    BY <2>5, <2>7, <2>9 DEF Sent
  <2> QED BY <2>3, <2>4, <2>5, <2>7, <2>10, OneThread DEF Framed
<1> QED BY <1>4, <1>5

LEMMA ConnectionsFramed ==
  ASSUME FrameInv, NEW t \in Threads, Accept(t) \/ PeerFails(t)
  PROVE  FrameInv'
<1> DEFINE h == handler[t]
           w == wire[t]
<1>1. /\ Locals(h) /\ Connected(w) /\ Sent(h, w)
      /\ handler = [u \in Threads |-> handler[u]] /\ wire = [u \in Threads |-> wire[u]]
  BY DEF FrameInv, Framed
<1>2. LengthSize \in Nat /\ BlockSize \in Nat /\ MaxBlocks \in Nat
  BY FrameAssumption
<1>3. CASE Accept(t)
  <2>1. PICK word \in Words, n \in 1 .. MaxBlocks :
          wire' = [wire EXCEPT ![t] = [blocks |-> n, left |-> LengthSize + n * BlockSize,
                                       peer |-> "waiting", word |-> word]]
    BY <1>3 DEF Accept
  <2> DEFINE hh == [h EXCEPT !.at = "length"]
             ww == [blocks |-> n, left |-> LengthSize + n * BlockSize,
                    peer |-> "waiting", word |-> word]
  <2>2. handler' = [handler EXCEPT ![t] = hh]
    BY <1>1, <1>3 DEF Accept, Goes
  <2>3. n * BlockSize \in Nat /\ n \in Nat
    BY <1>2, Products
  <2>4. Connected(ww) /\ ww.blocks = n /\ ww.left = LengthSize + n * BlockSize
    BY <1>2, <2>3 DEF Connected
  <2>5. Locals(hh) /\ hh.at = "length"
    <3>1. DOMAIN hh = DOMAIN h
      BY Zenon
    <3>2. hh.at = "length" /\ hh.todo = h.todo
      BY <1>1, Zenon DEF Locals
    <3> HIDE DEF hh
    <3> QED BY <1>1, <3>1, <3>2, Zenon DEF Locals
  <2> HIDE DEF hh, ww
  <2>6. Framed(hh, ww)
    BY <2>4, <2>5 DEF Framed, Sent
  <2>7. wire' = [wire EXCEPT ![t] = ww]
    BY <2>1 DEF ww
  <2> QED BY <2>2, <2>6, <2>7, OneThread
<1>4. CASE PeerFails(t)
  <2>1. w.left \in Nat
    BY <1>1 DEF Connected
  <2>2. PICK n \in 0 .. w.left :
          \/ wire' = [wire EXCEPT ![t].peer = "reset"]
          \/ wire' = [wire EXCEPT ![t].peer = "shut", ![t].left = n]
    BY <1>4, <2>1 DEF PeerFails
  <2> DEFINE ww == [w EXCEPT !.peer = "reset"]
             vv == [w EXCEPT !.peer = "shut", !.left = n]
  <2>3. wire' = [wire EXCEPT ![t] = ww] \/ wire' = [wire EXCEPT ![t] = vv]
    BY <1>1, <2>2
  <2>4. handler' = [handler EXCEPT ![t] = h]
    BY <1>1, <1>4 DEF PeerFails
  <2>5. DOMAIN ww = DOMAIN w /\ DOMAIN vv = DOMAIN w
    BY Zenon
  <2>6. ww.peer = "reset" /\ ww.left = w.left /\ ww.blocks = w.blocks
    BY <1>1, Zenon DEF Connected
  <2>7. vv.peer = "shut" /\ vv.left = n /\ vv.blocks = w.blocks
    BY <1>1, Zenon DEF Connected
  <2>8. n \in Nat
    BY <2>1
  <2> HIDE DEF ww, vv
  <2>9. Connected(ww) /\ Connected(vv)
    BY <1>1, <2>5, <2>6, <2>7, <2>8, Zenon DEF Connected
  <2>10. Framed(h, ww) /\ Framed(h, vv)
    BY <1>1, <2>6, <2>7, <2>9 DEF Framed, Sent
  <2> QED BY <2>3, <2>4, <2>10, OneThread
<1> QED BY <1>3, <1>4

LEMMA EndsFramed ==
  ASSUME Terminate
  PROVE  FrameInv'
BY FreeFramed DEF Terminate, FrameInv

LEMMA HandlesFramed ==
  ASSUME FrameInv, NEW t \in Threads, Handles(t)
  PROVE  FrameInv'
<1> DEFINE h == handler[t]
           w == wire[t]
<1>1. /\ Locals(h) /\ Connected(w)
      /\ handler = [u \in Threads |-> handler[u]] /\ wire = [u \in Threads |-> wire[u]]
  BY DEF FrameInv, Framed
<1>2. wire' = wire => wire' = [wire EXCEPT ![t] = w]
  BY <1>1
<1>3. ASSUME NEW place, place \notin {"length", "blocks"}, wire' = wire,
             Goes(t, place)
      PROVE  FrameInv'
  <2>1. handler' = [handler EXCEPT ![t] = [h EXCEPT !.at = place]]
    BY <1>1, <1>3 DEF Goes
  <2>2. Framed([h EXCEPT !.at = place], w)
    BY <1>1, <1>3, MovesFramed
  <2> QED BY <1>2, <1>3, <2>1, <2>2, OneThread
<1>4. ASSUME NEW place, place \notin {"length", "blocks"}, NEW list, wire' = wire,
             handler' = [handler EXCEPT ![t].at = place, ![t].copy = list]
      PROVE  FrameInv'
  <2>1. handler' = [handler EXCEPT ![t] = [h EXCEPT !.at = place, !.copy = list]]
    BY <1>1, <1>4
  <2>2. Framed([h EXCEPT !.at = place, !.copy = list], w)
    BY <1>1, <1>4, MovesFramed
  <2> QED BY <1>2, <1>4, <2>1, <2>2, OneThread
<1>5. CASE Parse(t)
  <2>1. PICK v \in IF h.short THEN Words ELSE {w.word} :
          wire' = [wire EXCEPT ![t] = [NoWire EXCEPT !.word = v]]
    BY <1>5 DEF Parse
  <2>2. handler' = [handler EXCEPT ![t] = [Free EXCEPT !.at = "get"]]
    BY <1>5 DEF Parse
  <2> DEFINE ww == [NoWire EXCEPT !.word = v]
  <2>3. DOMAIN ww = DOMAIN NoWire
    BY Zenon
  <2>4. ww.blocks = NoWire.blocks /\ ww.left = NoWire.left
    BY FreeFramed, Zenon DEF Connected
  <2> HIDE DEF ww
  <2>5. Connected(ww)
    BY <2>3, <2>4, FreeFramed, Zenon DEF Connected
  <2>6. Framed([Free EXCEPT !.at = "get"], ww)
    BY <2>5, FreeFramed, MovesFramed
  <2> QED BY <2>1, <2>2, <2>6, OneThread DEF ww
<1>6. CASE Get(t)
  BY <1>3, <1>6 DEF Get
<1>7. CASE TestFlag(t)
  BY <1>3, <1>7 DEF TestFlag
<1>8. CASE CopySections(t)
  BY <1>4, <1>8 DEF CopySections
<1>9. CASE Load(t)
  BY <1>4, <1>9 DEF Load
<1>10. CASE Add(t)
  BY <1>3, <1>10 DEF Add
<1>11. CASE Send(t)
  BY <1>11, FreeFramed, OneThread DEF Send
<1>12. CASE ParseThrows(t) \/ CopyBreaks(t) \/ LoadBreaks(t)
  BY <1>12, EndsFramed DEF ParseThrows, CopyBreaks, LoadBreaks
<1> QED BY <1>5, <1>6, <1>7, <1>8, <1>9, <1>10, <1>11, <1>12 DEF Handles

LEMMA FrameStep ==
  ASSUME FrameInv, [Next]_vars
  PROVE  FrameInv'
<1>1. ASSUME NEW t \in Threads, Accept(t) \/ PeerFails(t) PROVE FrameInv'
  BY <1>1, ConnectionsFramed
<1>2. ASSUME NEW t \in Threads, Reads(t) PROVE FrameInv'
  BY <1>2, ReadsFramed, EndsFramed DEF Reads, LengthThrows, ReceiveError
<1>3. ASSUME NEW t \in Threads, Handles(t) PROVE FrameInv'
  BY <1>3, HandlesFramed
<1>4. CASE UNCHANGED <<handler, wire>>
  BY <1>4 DEF FrameInv
<1>5. CASE Service
  <2>1. CASE ServiceStep \/ ClearTables
    BY <1>4, <2>1 DEF ServiceStep, ClearTables, runVars
  <2>2. CASE SortBreaks
    BY <2>2, EndsFramed DEF SortBreaks
  <2> QED BY <1>5, <2>1, <2>2 DEF Service
<1>6. CASE Restart \/ UNCHANGED vars
  BY <1>4, <1>6 DEF Restart, vars
<1> QED BY <1>1, <1>2, <1>3, <1>5, <1>6 DEF Next, Thread

LEMMA FrameHolds == Spec => []FrameInv
<1>1. Init => FrameInv
  BY FreeFramed DEF Init, FrameInv
<1> QED BY <1>1, FrameStep, PTL DEF Spec

(* WaitsOnlyOnBadLength, for any sizes and numbers of blocks: a thread blocked in recv *)
(* on a peer that waits for its answer has read a length that came short               *)
(* (Client::receive).                                                                  *)
THEOREM NoMutualWait == Spec => []WaitsOnlyOnBadLength
<1>1. FrameInv => WaitsOnlyOnBadLength
  <2> SUFFICES ASSUME FrameInv, NEW t \in Threads,
                      At(t, "blocks"), handler[t].todo > 0, wire[t].left = 0,
                      wire[t].peer = "waiting", ~handler[t].badLength
               PROVE  FALSE
    BY Zenon DEF WaitsOnlyOnBadLength
  <2>1. Framed(handler[t], wire[t]) /\ handler[t].at = "blocks"
    BY DEF FrameInv, At
  <2>2. wire[t].left >= handler[t].todo * BlockSize /\ handler[t].todo \in Nat
    BY <2>1 DEF Framed, Sent, Locals
  <2>3. handler[t].todo * BlockSize > 0 /\ handler[t].todo * BlockSize \in Nat
    BY <2>2, FrameAssumption, Products
  <2> QED BY <2>2, <2>3
<1> QED BY <1>1, FrameHolds, PTL

(***************************************************************************)
(* The list of sections.  Every name on the disk begins with that of the    *)
(* directory, so that no file is of type "Section" and decreaseStoredData   *)
(* drops none; the other handlers read the directory after they change it.  *)
(***************************************************************************)
Untyped(n) == TypeOf(n) # <<"Section">>

Settled == {"idle", "MAX_TABLE", "MAX_DICT", "MAX_MEMORY", "create", "remove", "sort",
            "decrease", "decreased", "clear", "cleartable"}

NamesUntyped == /\ \A f \in {disk, sections, found} : \A n \in DOMAIN f : Untyped(n)
                /\ service \in {"create", "write"} => Untyped(fileName)
ListRead == /\ running /\ service \in Settled => sections = Listed(disk) /\ capacity = Total(sections)
            /\ service \in {"set", "torn"} => found = Listed(disk) /\ capacity = Total(found)
RaisedKnown == raised \subseteq {"MAX_TABLE", "MAX_DICT", "MAX_MEMORY"}

CurrentInv == NamesUntyped /\ ListRead /\ RaisedKnown

LEMMA NamesOfStore ==
  /\ Untyped(Directory)
  /\ \A k : Untyped(InStore(SectionName(k)))
  /\ \A n \in OtherFiles : Untyped(n)
<1>1. Untyped(Directory)
  BY DEF Untyped, TypeOf, Directory
<1>2. ASSUME NEW k PROVE Untyped(InStore(SectionName(k)))
  <2> DEFINE n == InStore(SectionName(k))
             S == {"cache", "Section", k}
  <2>1. <<"cache">> \in Seq(S) /\ <<"Section", k>> \in Seq(S)
        /\ Len(<<"cache">>) = 1 /\ Len(<<"Section", k>>) = 2
    OBVIOUS
  <2>2. n \in Seq(S) /\ Len(n) = 3
    BY <2>1, ConcatProperties DEF InStore, SectionName, Directory
  <2> HIDE DEF n, S
  <2>3. Len(SubSeq(n, 1, 2)) = 2
    BY <2>2, SubSeqProperties
  <2>4. Len(<<"Section">>) = 1
    OBVIOUS
  <2>5. TypeOf(n) = SubSeq(n, 1, 2)
    BY <2>2 DEF TypeOf
  <2> QED BY <2>3, <2>4, <2>5 DEF Untyped, n
<1>3. ASSUME NEW n \in OtherFiles PROVE Untyped(n)
  <2> DEFINE S == {n[i] : i \in 1 .. Len(n)}
  <2>0. /\ n = [i \in 1 .. Len(n) |-> n[i]] /\ Len(n) \in Nat
        /\ \A i \in 1 .. Len(n) : n[i] \in S
    BY OtherFilesAssumption
  <2>1. n \in Seq(S) /\ Len(n) >= 2 /\ n[1] = "cache"
    <3>1. Len(n) >= 2 /\ n[1] = "cache"
      BY OtherFilesAssumption
    <3> HIDE DEF S
    <3>2. [i \in 1 .. Len(n) |-> n[i]] \in Seq(S)
      BY <2>0
    <3> QED BY <2>0, <3>1, <3>2
  <2> HIDE DEF S
  <2>2. SubSeq(n, 1, Len(n) - 1)[1] = n[1]
    BY <2>1, SubSeqProperties
  <2>3. <<"Section">>[1] = "Section"
    OBVIOUS
  <2>4. TypeOf(n)[1] = "cache"
    BY <2>1, <2>2 DEF TypeOf
  <2> QED BY <2>3, <2>4 DEF Untyped
<1> QED BY <1>1, <1>2, <1>3

LEMMA ListedNames ==
  ASSUME NEW f, \A n \in DOMAIN f : Untyped(n)
  PROVE  /\ \A n \in DOMAIN Listed(f) : Untyped(n)
         /\ Restrict(Listed(f), DOMAIN Listed(f)) = Listed(f)
BY DEF Listed, NoFiles, Restrict

(* Nothing is ever erased from the list. *)
LEMMA NothingDeletable == CurrentInv => Deletable = {}
BY DEF CurrentInv, NamesUntyped, Deletable, Untyped

LEMMA StoreRead ==
  ASSUME CurrentInv, running, UNCHANGED running, StoreStep
  PROVE  CurrentInv'
<1> USE DEF Settled
<1> DEFINE Same == UNCHANGED <<disk, sections, capacity, found>>
<1>1. ASSUME Same, service' \in Settled => service \in Settled,
             service' \in {"set", "torn"} => service \in {"set", "torn"}
      PROVE  ListRead'
  BY <1>1 DEF CurrentInv, ListRead
<1>2. CASE Take
  <2>1. service = "idle" /\ service' \in {"MAX_TABLE", "MAX_DICT", "MAX_MEMORY"}
    BY <1>2 DEF Take, CurrentInv, RaisedKnown
  <2>2. NamesUntyped' /\ RaisedKnown'
    BY <1>2, <2>1 DEF Take, CurrentInv, NamesUntyped, RaisedKnown
  <2>3. ListRead'
    BY <1>1, <1>2, <2>1 DEF Take
  <2> QED BY <2>2, <2>3 DEF CurrentInv
<1>3. CASE NameFile
  <2>1. NamesUntyped'
    BY <1>3, NamesOfStore DEF NameFile, CurrentInv, NamesUntyped, getUnicName
  <2>2. RaisedKnown'
    BY <1>3 DEF NameFile, CurrentInv, RaisedKnown
  <2>3. ListRead'
    BY <1>1, <1>3 DEF NameFile
  <2> QED BY <2>1, <2>2, <2>3 DEF CurrentInv
<1>4. CASE CreateFile
  <2>1. \A n \in DOMAIN disk' : n \in DOMAIN disk \/ n = fileName
    BY <1>4 DEF CreateFile
  <2>2. NamesUntyped'
    BY <1>4, <2>1 DEF CreateFile, CurrentInv, NamesUntyped
  <2> QED BY <1>4, <2>2 DEF CreateFile, CurrentInv, ListRead, RaisedKnown
<1>5. CASE WriteFile
  <2>1. DOMAIN disk' = DOMAIN disk
    BY <1>5 DEF WriteFile
  <2>2. NamesUntyped'
    BY <1>5, <2>1 DEF WriteFile, CurrentInv, NamesUntyped
  <2> QED BY <1>5, <2>2 DEF WriteFile, CurrentInv, ListRead, RaisedKnown
<1>6. CASE readSectionsInfo
  <2>1. \A n \in DOMAIN Listed(disk) : Untyped(n)
    BY ListedNames DEF CurrentInv, NamesUntyped
  <2>2. NamesUntyped'
    BY <1>6, <2>1 DEF readSectionsInfo, CurrentInv, NamesUntyped
  <2>3. ListRead' /\ RaisedKnown'
    BY <1>6 DEF readSectionsInfo, CurrentInv, ListRead, RaisedKnown
  <2> QED BY <2>2, <2>3 DEF CurrentInv
<1>7. CASE SetSections
  <2>1. NamesUntyped'
    BY <1>7 DEF SetSections, CurrentInv, NamesUntyped
  <2> QED BY <1>1, <1>7, <2>1 DEF SetSections, CurrentInv, RaisedKnown
<1>8. CASE SectionsSet
  <2>1. NamesUntyped'
    BY <1>8 DEF SectionsSet, CurrentInv, NamesUntyped, NoFiles
  <2>2. ListRead' /\ RaisedKnown'
    BY <1>8 DEF SectionsSet, CurrentInv, ListRead, RaisedKnown
  <2> QED BY <2>1, <2>2 DEF CurrentInv
<1>9. CASE SetFlag
  <2>1. NamesUntyped'
    BY <1>9 DEF SetFlag, CurrentInv, NamesUntyped
  <2> QED BY <1>1, <1>9, <2>1 DEF SetFlag, CurrentInv, RaisedKnown
<1>10. CASE RemoveListed
  <2>1. DOMAIN disk' \subseteq DOMAIN disk
    BY <1>10 DEF RemoveListed, Restrict
  <2>2. NamesUntyped'
    BY <1>10, <2>1 DEF RemoveListed, CurrentInv, NamesUntyped
  <2> QED BY <1>10, <2>2 DEF RemoveListed, CurrentInv, ListRead, RaisedKnown
<1>11. CASE SortSections
  <2>1. NamesUntyped'
    BY <1>11 DEF SortSections, CurrentInv, NamesUntyped
  <2> QED BY <1>1, <1>11, <2>1 DEF SortSections, CurrentInv, RaisedKnown
<1>12. CASE DecreaseStored
  <2>1. sections = Listed(disk) /\ \A n \in DOMAIN disk : Untyped(n)
    BY <1>12 DEF DecreaseStored, CurrentInv, ListRead, NamesUntyped
  <2>2. /\ \A n \in DOMAIN sections : Untyped(n)
        /\ Restrict(sections, DOMAIN sections) = sections
    BY <2>1, ListedNames
  <2>3. Deletable = {}
    BY <2>2 DEF Deletable, Untyped
  <2>4. sections' = sections
    BY <1>12, <2>2, <2>3 DEF DecreaseStored
  <2>5. NamesUntyped'
    BY <1>12, <2>4 DEF DecreaseStored, CurrentInv, NamesUntyped
  <2> QED BY <1>1, <1>12, <2>4, <2>5 DEF DecreaseStored, CurrentInv, RaisedKnown
<1>13. CASE ResetFlag
  <2>1. NamesUntyped'
    BY <1>13 DEF ResetFlag, CurrentInv, NamesUntyped
  <2> QED BY <1>1, <1>13, <2>1 DEF ResetFlag, CurrentInv, RaisedKnown
<1> QED
  BY <1>2, <1>3, <1>4, <1>5, <1>6, <1>7, <1>8, <1>9, <1>10, <1>11, <1>12, <1>13
  DEF StoreStep

LEMMA StoreKept ==
  ASSUME CurrentInv, UNCHANGED <<disk, sections, capacity, service, fileName, found, raised>>,
         running' => running
  PROVE  CurrentInv'
BY DEF CurrentInv, NamesUntyped, ListRead, RaisedKnown

LEMMA EndsCurrent ==
  ASSUME CurrentInv, Terminate
  PROVE  CurrentInv'
<1>1. NamesUntyped'
  BY DEF Terminate, StoreEnds, CurrentInv, NamesUntyped, NoFiles
<1> QED BY <1>1 DEF Terminate, StoreEnds, CurrentInv, ListRead, RaisedKnown

LEMMA ThreadsCurrent ==
  ASSUME CurrentInv, NEW t \in Threads, Accept(t) \/ PeerFails(t) \/ Thread(t)
  PROVE  CurrentInv'
<1>1. CASE Add(t)
  BY <1>1 DEF Add, CurrentInv, NamesUntyped, ListRead, RaisedKnown
<1>2. CASE \/ Accept(t) \/ PeerFails(t) \/ ReceiveLength(t) \/ ReceiveBlock(t) \/ Parse(t)
           \/ Get(t) \/ TestFlag(t) \/ CopySections(t) \/ Load(t) \/ Send(t)
  <2>1. UNCHANGED storeVars /\ running' = running
    BY <1>2, Zenon DEF Accept, PeerFails, ReceiveLength, ReceiveBlock, Parse, Get, TestFlag,
                       CopySections, Load, Send
  <2> QED BY <2>1, StoreKept DEF storeVars
<1>3. CASE \/ LengthThrows(t) \/ ReceiveError(t) \/ ParseThrows(t) \/ CopyBreaks(t)
           \/ LoadBreaks(t)
  BY <1>3, EndsCurrent DEF LengthThrows, ReceiveError, ParseThrows, CopyBreaks, LoadBreaks
<1> QED BY <1>1, <1>2, <1>3 DEF Thread, Reads, Handles

LEMMA RestartCurrent ==
  ASSUME CurrentInv, Restart
  PROVE  CurrentInv'
<1>1. \A n \in DOMAIN Listed(disk) : Untyped(n)
  BY ListedNames DEF CurrentInv, NamesUntyped
<1>2. NamesUntyped'
  BY <1>1 DEF Restart, StoreRestarts, CurrentInv, NamesUntyped
<1> QED BY <1>2 DEF Restart, StoreRestarts, CurrentInv, ListRead, RaisedKnown

LEMMA InitCurrent ==
  ASSUME Init
  PROVE  CurrentInv
<1>1. \A n \in DOMAIN disk : Untyped(n)
  BY NamesOfStore DEF Init, StoreInit
<1>2. \A n \in DOMAIN Listed(disk) : Untyped(n)
  BY <1>1, ListedNames
<1> QED BY <1>1, <1>2 DEF Init, StoreInit, CurrentInv, NamesUntyped, ListRead, RaisedKnown, NoFiles

LEMMA CurrentStep ==
  ASSUME CurrentInv, [Next]_vars
  PROVE  CurrentInv'
<1>1. ASSUME NEW t \in Threads, Accept(t) \/ PeerFails(t) \/ Thread(t) PROVE CurrentInv'
  BY <1>1, ThreadsCurrent
<1>2. CASE ServiceStep
  BY <1>2, StoreRead DEF ServiceStep, runVars
<1>3. CASE SortBreaks
  BY <1>3, EndsCurrent DEF SortBreaks
<1>4. CASE ClearTables
  BY <1>4 DEF ClearTables, CurrentInv, NamesUntyped, ListRead, RaisedKnown, Settled
<1>5. CASE Restart
  BY <1>5, RestartCurrent
<1>6. CASE UNCHANGED vars
  BY <1>6, StoreKept DEF vars
<1> QED BY <1>1, <1>2, <1>3, <1>4, <1>5, <1>6 DEF Next, Service

(***************************************************************************)
(* The numbers of the sections.  No section leaves the disk, since files    *)
(* are removed where they are not; the count of getUnicName is that of the  *)
(* sections on the disk, except that a list of one is never listed.         *)
(***************************************************************************)
Stored(n) == InStore(SectionName(n))

LEMMA StoredTuple ==
  \A k : Stored(k) = <<"cache", "Section", k>>
<1> SUFFICES ASSUME NEW k PROVE Stored(k) = <<"cache", "Section", k>>
  OBVIOUS
<1> DEFINE S == {"cache", "Section", k}
<1>1. <<"cache">> \in Seq(S) /\ <<"Section", k>> \in Seq(S) /\ <<"cache", "Section", k>> \in Seq(S)
      /\ Len(<<"cache">>) = 1 /\ Len(<<"Section", k>>) = 2 /\ Len(<<"cache", "Section", k>>) = 3
  OBVIOUS
<1>2. Stored(k) \in Seq(S) /\ Len(Stored(k)) = 3
      /\ Stored(k)[1] = "cache" /\ Stored(k)[2] = "Section" /\ Stored(k)[3] = k
  BY <1>1, ConcatProperties DEF Stored, InStore, SectionName, Directory
<1>3. \A i \in 1 .. 3 : Stored(k)[i] = <<"cache", "Section", k>>[i]
  BY <1>2
<1> QED BY <1>1, <1>2, <1>3, SeqEqual

LEMMA OtherNames ==
  ASSUME NEW n \in OtherFiles
  PROVE  /\ Len(n) \in Nat \ {0, 1} /\ n[1] = "cache"
         /\ n \in Seq({n[i] : i \in 1 .. Len(n)})
<1>1. /\ n = [i \in 1 .. Len(n) |-> n[i]]
      /\ Len(n) \in Nat \ {0, 1} /\ n[1] = "cache"
  BY OtherFilesAssumption
<1> DEFINE S == {n[i] : i \in 1 .. Len(n)}
<1>2. \A i \in 1 .. Len(n) : n[i] \in S
  OBVIOUS
<1> HIDE DEF S
<1>3. [i \in 1 .. Len(n) |-> n[i]] \in Seq(S)
  BY <1>1, <1>2
<1>4. n \in Seq(S)
  BY <1>1, <1>3
<1> QED BY <1>1, <1>4 DEF S

(* Of the names only those of stored sections are counted as such. *)
LEMMA SectionNames ==
  /\ ~HasType(Directory, "Section")
  /\ \A k : HasType(Stored(k), "Section")
  /\ \A n \in Names : HasType(n, "Section") <=> \E k \in 0 .. MaxSaves : n = Stored(k)
<1>1. ~HasType(Directory, "Section")
  BY DEF HasType, TypeOf, Directory
<1>2. ASSUME NEW k PROVE HasType(Stored(k), "Section")
  <2> DEFINE n == <<"cache", "Section", k>>
             S == {"cache", "Section", k}
  <2>1. n \in Seq(S) /\ Len(n) = 3 /\ n[2] = "Section"
    OBVIOUS
  <2> HIDE DEF n, S
  <2>2. Len(SubSeq(n, 1, 2)) = 2 /\ SubSeq(n, 1, 2) \in Seq(S)
    BY <2>1, SubSeqProperties
  <2>3. 2 \in DOMAIN TypeOf(n)
    BY <2>1, <2>2 DEF TypeOf
  <2> QED BY <2>1, <2>3, StoredTuple DEF HasType, n
<1>3. ASSUME NEW n \in OtherFiles PROVE ~HasType(n, "Section")
  BY OwnSectionsAssumption
<1> QED BY <1>1, <1>2, <1>3 DEF Names, Stored

(* clearMemory looks for its files where none of the server's are. *)
LEMMA RemovesNoSection ==
  ASSUME NEW n \in Names
  PROVE  InStore(n) # Directory /\ \A k : InStore(n) # Stored(k)
<1>1. PICK S : n \in Seq(S) /\ "cache" \in S /\ Len(n) \in Nat \ {0} /\ n[1] = "cache"
  <2>1. CASE n = Directory
    <3> Directory \in Seq({"cache"}) /\ Len(Directory) = 1 /\ Directory[1] = "cache"
      BY DEF Directory
    <3> QED BY <2>1
  <2>2. CASE n \in OtherFiles
    <3> DEFINE T == {n[i] : i \in 1 .. Len(n)}
    <3>1. n \in Seq(T) /\ Len(n) \in Nat \ {0, 1} /\ n[1] = "cache"
      BY <2>2, OtherNames
    <3>2. n[1] \in T
      BY <3>1
    <3> HIDE DEF T
    <3> QED BY <3>1, <3>2
  <2>3. CASE \E k \in 0 .. MaxSaves : n = Stored(k)
    <3>1. PICK k : n = <<"cache", "Section", k>>
      BY <2>3, StoredTuple
    <3>2. n \in Seq({"cache", "Section", k}) /\ Len(n) = 3 /\ n[1] = "cache"
      BY <3>1
    <3> QED BY <3>2
  <2> QED BY <2>1, <2>2, <2>3 DEF Names, Stored
<1>2. Directory \in Seq(S) /\ Len(Directory) = 1
  BY <1>1 DEF Directory
<1>3. Len(InStore(n)) = 1 + Len(n) /\ InStore(n)[2] = n[1]
  <2>1. /\ Len(Directory \o n) = Len(Directory) + Len(n)
        /\ \A i \in 1 .. Len(Directory) + Len(n) :
             (Directory \o n)[i] = IF i <= Len(Directory) THEN Directory[i]
                                                          ELSE n[i - Len(Directory)]
    BY <1>1, <1>2, ConcatProperties
  <2>2. 2 \in 1 .. Len(Directory) + Len(n) /\ 2 - Len(Directory) = 1
    BY <1>1, <1>2
  <2> QED BY <1>2, <2>1, <2>2 DEF InStore
<1>4. InStore(n) # Directory
  BY <1>1, <1>2, <1>3
<1>5. ASSUME NEW k PROVE InStore(n) # Stored(k)
  <2>1. Stored(k)[2] = "Section"
    BY StoredTuple
  <2> QED BY <1>1, <1>3, <2>1
<1> QED BY <1>4, <1>5

(* The sections are counted: getUnicName gives the next number. *)
LEMMA CountOfSections ==
  ASSUME DOMAIN sections = DOMAIN disk \ {Directory}, DOMAIN disk \subseteq Names,
         NEW k \in 0 .. MaxSaves, SectionsOnDisk = 0 .. k - 1
  PROVE  countFilesOfType("Section") = k
<1> DEFINE S == {n \in DOMAIN sections : HasType(n, "Section")}
           f == [i \in 1 .. k |-> Stored(i - 1)]
<1>0. MaxSaves \in Nat /\ k \in Nat
  BY OwnSectionsAssumption
<1>1. S = {Stored(j) : j \in 0 .. k - 1}
  <2>1. ASSUME NEW n \in S PROVE \E j \in 0 .. k - 1 : n = Stored(j)
    <3>1. PICK j \in 0 .. MaxSaves : n = Stored(j)
      BY <2>1, SectionNames
    <3>2. j \in SectionsOnDisk
      BY <2>1, <3>1 DEF SectionsOnDisk, Stored
    <3> QED BY <3>1, <3>2
  <2>2. ASSUME NEW j \in 0 .. k - 1 PROVE Stored(j) \in S
    <3>1. Stored(j) \in DOMAIN disk
      BY <2>2 DEF SectionsOnDisk, Stored
    <3> QED BY <3>1, SectionNames
  <2> QED BY <2>1, <2>2
<1>2. f \in Bijection(1 .. k, S)
  <2> HIDE DEF S
  <2>1. \A i \in 1 .. k : i - 1 \in 0 .. k - 1 /\ f[i] \in S
    BY <1>0, <1>1
  <2>2. f \in [1 .. k -> S]
    BY <2>1
  <2>3. \A i, j \in 1 .. k : f[i] = f[j] => i = j
    <3> SUFFICES ASSUME NEW i \in 1 .. k, NEW j \in 1 .. k, f[i] = f[j] PROVE i = j
      OBVIOUS
    <3>1. <<"cache", "Section", i - 1>> = <<"cache", "Section", j - 1>>
      BY StoredTuple
    <3>2. i - 1 = j - 1
      BY <3>1
    <3> QED BY <1>0, <3>2
  <2>4. \A n \in S : \E i \in 1 .. k : f[i] = n
    <3> SUFFICES ASSUME NEW j \in 0 .. k - 1 PROVE \E i \in 1 .. k : f[i] = Stored(j)
      BY <1>1
    <3>1. j + 1 \in 1 .. k /\ f[j + 1] = Stored(j)
      BY <1>0
    <3> QED BY <3>1
  <2> HIDE DEF f
  <2> QED BY <2>2, <2>3, <2>4 DEF Bijection, Injection, Surjection, IsInjective
<1>3. ExistsBijection(1 .. k, S)
  BY <1>2 DEF ExistsBijection
<1>4. Cardinality(S) = k
  <2> HIDE DEF S
  <2> QED BY <1>0, <1>3, FS_CountingElements
<1> QED BY <1>4 DEF countFilesOfType

(* Names a file may have, but of no section that is not stored, and a list of such. *)
AreStored(names) ==
  /\ names \subseteq Names \ {Directory}
  /\ \A k \in 0 .. MaxSaves : Stored(k) \in names => Stored(k) \in DOMAIN disk
ListsStored(list) == AreStored(DOMAIN list)

DiskKnown == DOMAIN disk \subseteq Names /\ Directory \in DOMAIN disk
Numbered  == \E k \in 0 .. saves : SectionsOnDisk = 0 .. k - 1
Saving    == saves \in 0 .. MaxSaves /\ (service \in {"MAX_TABLE", "create"} => saves < MaxSaves)

(* The name chosen is the next one, or that of the only file there is. *)
Named == service = "create" =>
           \E j \in 0 .. saves : /\ fileName = Stored(j)
                                 /\ \/ SectionsOnDisk = 0 .. j - 1
                                    \/ j = 0 /\ DOMAIN disk = {Directory, fileName}

NumberInv == DiskKnown /\ ListsStored(sections) /\ ListsStored(found) /\ Numbered /\ Named /\ Saving

CopyInv == \A t \in Threads : AreStored(handler[t].copy)

LEMMA NamesFinite == IsFiniteSet(Names)
<1> DEFINE K == 0 .. MaxSaves
           I == {InStore(SectionName(n)) : n \in K}
<1>1. IsFiniteSet(K)
  BY OwnSectionsAssumption, FS_Interval
<1>2. IsFiniteSet(I)
  <2> DEFINE f == [n \in K |-> InStore(SectionName(n))]
  <2>1. f \in Surjection(K, I)
    BY DEF Surjection
  <2> HIDE DEF f, I, K
  <2> QED BY <1>1, <2>1, FS_Surjection DEF ExistsSurjection
<1>3. IsFiniteSet(OtherFiles \cup {Directory})
  BY OwnSectionsAssumption, FS_AddElement
<1> HIDE DEF I, K
<1>4. IsFiniteSet((OtherFiles \cup {Directory}) \cup I)
  BY <1>2, <1>3, FS_Union
<1> QED BY <1>4 DEF Names, I, K

LEMMA ListedStored ==
  ASSUME DiskKnown
  PROVE  ListsStored(Listed(disk))
<1>1. DOMAIN Listed(disk) \subseteq DOMAIN disk \ {Directory}
  BY DEF Listed, NoFiles, Restrict
<1> QED BY <1>1 DEF DiskKnown, ListsStored, AreStored

(* What getUnicName finds between two exceptions. *)
LEMMA NextNumber ==
  ASSUME NumberInv, sections = Listed(disk)
  PROVE  \E j \in 0 .. saves :
           /\ InStore(getUnicName) = Stored(j)
           /\ \/ SectionsOnDisk = 0 .. j - 1
              \/ j = 0 /\ DOMAIN disk = {Directory, Stored(j)}
<1>1. /\ DOMAIN disk \subseteq Names /\ Directory \in DOMAIN disk
      /\ saves \in Nat /\ saves <= MaxSaves /\ MaxSaves \in Nat
  BY OwnSectionsAssumption DEF NumberInv, DiskKnown, Saving
<1>2. PICK k \in 0 .. saves : SectionsOnDisk = 0 .. k - 1
  BY DEF NumberInv, Numbered
<1>0. IsFiniteSet(DOMAIN disk) /\ Cardinality(DOMAIN disk) \in Nat
  BY <1>1, NamesFinite, FS_Subset, FS_CardinalityType
<1>3. CASE Cardinality(DOMAIN disk) > 2
  <2>1. DOMAIN sections = DOMAIN disk \ {Directory}
    BY <1>0, <1>3 DEF Listed, Restrict
  <2>2. countFilesOfType("Section") = k
    BY <1>1, <1>2, <2>1, CountOfSections
  <2> QED BY <1>2, <2>2 DEF getUnicName, Stored
<1>4. CASE ~(Cardinality(DOMAIN disk) > 2)
  <2>2. DOMAIN sections = {}
    BY <1>0, <1>4 DEF Listed, NoFiles
  <2>3. countFilesOfType("Section") = 0
    BY <2>2, FS_EmptySet DEF countFilesOfType
  <2>4. InStore(getUnicName) = Stored(0)
    BY <2>3 DEF getUnicName, Stored
  <2>5. CASE k = 0
    BY <1>2, <2>4, <2>5
  <2>6. CASE k # 0
    <3>1. Stored(0) \in DOMAIN disk
      <4>1. 0 \in SectionsOnDisk
        BY <1>1, <1>2, <2>6
      <4> QED BY <4>1 DEF SectionsOnDisk, Stored
    <3>2. Stored(0) # Directory
      BY SectionNames
    <3> DEFINE P == {Directory, Stored(0)}
    <3>3. IsFiniteSet(P) /\ Cardinality(P) = 2
      <4>1. IsFiniteSet({Directory}) /\ Cardinality({Directory}) = 1
        BY FS_Singleton
      <4>2. P = {Directory} \cup {Stored(0)}
        OBVIOUS
      <4> HIDE DEF P
      <4> QED BY <3>2, <4>1, <4>2, FS_AddElement
    <3>4. P \in SUBSET DOMAIN disk
      BY <1>1, <3>1
    <3> HIDE DEF P
    <3>5. P = DOMAIN disk
      BY <1>0, <1>4, <3>3, <3>4, FS_Subset
    <3> QED BY <1>1, <2>4, <3>5 DEF P
  <2> QED BY <2>5, <2>6
<1> QED BY <1>3, <1>4

(* Nothing that is on the disk, and no number, changes. *)
LEMMA DiskSame ==
  ASSUME NumberInv, UNCHANGED <<disk, saves>>,
         ListsStored(sections'), ListsStored(found'),
         service' = "create" => service = "create" /\ UNCHANGED fileName,
         service' = "MAX_TABLE" => saves < MaxSaves
  PROVE  NumberInv'
<1>1. SectionsOnDisk' = SectionsOnDisk
  BY DEF SectionsOnDisk
<1>2. DiskKnown' /\ Numbered' /\ Saving'
  BY <1>1 DEF NumberInv, DiskKnown, Numbered, Saving
<1>3. Named'
  BY <1>1 DEF NumberInv, Named
<1>4. ListsStored(sections)' /\ ListsStored(found)'
  BY DEF ListsStored, AreStored
<1> QED BY <1>2, <1>3, <1>4 DEF NumberInv

(* Sections stay on the disk. *)
Grows == \A k \in 0 .. MaxSaves : Stored(k) \in DOMAIN disk => Stored(k) \in DOMAIN disk'

LEMMA StoreNumbered ==
  ASSUME NumberInv, CurrentInv, running, StoreStep
  PROVE  NumberInv' /\ Grows
<1>1. /\ ListsStored(sections) /\ ListsStored(found) /\ ListsStored(NoFiles)
      /\ DOMAIN disk \subseteq Names /\ Directory \in DOMAIN disk
      /\ saves \in Nat /\ saves <= MaxSaves /\ MaxSaves \in Nat
  BY OwnSectionsAssumption DEF NumberInv, DiskKnown, Saving, ListsStored, AreStored, NoFiles
<1>2. CASE Take
  <2>1. NumberInv'
    BY <1>1, <1>2, DiskSame DEF Take, CurrentInv, RaisedKnown
  <2> QED BY <1>2, <2>1 DEF Take, Grows
<1>3. CASE NameFile
  <2>1. /\ UNCHANGED <<disk, sections, found, saves>> /\ fileName' = InStore(getUnicName)
        /\ service = "MAX_TABLE" /\ service' = "create"
    BY <1>3 DEF NameFile
  <2>2. sections = Listed(disk)
    BY <2>1 DEF CurrentInv, ListRead, Settled
  <2>3. Named'
    <3>1. PICK j \in 0 .. saves : /\ InStore(getUnicName) = Stored(j)
                                  /\ \/ SectionsOnDisk = 0 .. j - 1
                                     \/ j = 0 /\ DOMAIN disk = {Directory, Stored(j)}
      BY <2>2, NextNumber
    <3>2. SectionsOnDisk' = SectionsOnDisk
      BY <2>1 DEF SectionsOnDisk
    <3> QED BY <2>1, <3>1, <3>2 DEF Named
  <2>4. SectionsOnDisk' = SectionsOnDisk
    BY <2>1 DEF SectionsOnDisk
  <2>5. DiskKnown' /\ ListsStored(sections)' /\ ListsStored(found)' /\ Numbered' /\ Saving'
    BY <2>1, <2>4 DEF NumberInv, DiskKnown, ListsStored, AreStored, Numbered, Saving
  <2> QED BY <2>1, <2>3, <2>5 DEF NumberInv, Grows
<1>4. CASE CreateFile
  <2>1. /\ DOMAIN disk' = DOMAIN disk \cup {fileName} /\ saves' = saves + 1
        /\ UNCHANGED <<sections, found, fileName>>
        /\ service = "create" /\ service' = "write" /\ saves < MaxSaves
    BY <1>4 DEF CreateFile, NumberInv, Saving
  <2>2. PICK j \in 0 .. saves : /\ fileName = Stored(j)
                                /\ \/ SectionsOnDisk = 0 .. j - 1
                                   \/ j = 0 /\ DOMAIN disk = {Directory, fileName}
    BY <2>1 DEF NumberInv, Named
  <2>3. j \in 0 .. MaxSaves /\ j \in Nat
    BY <1>1
  <2>4. \A k : Stored(k) = Stored(j) => k = j
    BY StoredTuple
  <2>5. SectionsOnDisk' = SectionsOnDisk \cup {j}
    <3>1. ASSUME NEW k \in 0 .. MaxSaves
          PROVE  Stored(k) \in DOMAIN disk' <=> Stored(k) \in DOMAIN disk \/ k = j
      BY <2>1, <2>2, <2>4
    <3> QED BY <2>3, <3>1 DEF SectionsOnDisk, Stored
  <2>6. Numbered'
    <3>1. CASE SectionsOnDisk = 0 .. j - 1
      <4>1. SectionsOnDisk' = 0 .. (j + 1) - 1
        BY <2>3, <2>5, <3>1
      <4>2. j + 1 \in 0 .. saves + 1
        BY <1>1
      <4> QED BY <2>1, <4>1, <4>2 DEF Numbered
    <3>2. CASE j = 0 /\ DOMAIN disk = {Directory, fileName}
      <4>1. PICK k \in 0 .. saves : SectionsOnDisk = 0 .. k - 1
        BY DEF NumberInv, Numbered
      <4>2. j \in SectionsOnDisk
        BY <2>2, <2>3, <3>2 DEF SectionsOnDisk, Stored
      <4>3. SectionsOnDisk' = 0 .. k - 1 /\ k \in 0 .. saves + 1
        BY <1>1, <2>5, <4>1, <4>2
      <4> QED BY <2>1, <4>3 DEF Numbered
    <3> QED BY <2>2, <3>1, <3>2
  <2>7. Grows
    BY <2>1 DEF Grows
  <2>8. ListsStored(sections)' /\ ListsStored(found)'
    BY <1>1, <2>1 DEF ListsStored, AreStored
  <2>9. DiskKnown'
    BY <1>1, <2>1, <2>2, <2>3 DEF DiskKnown, Names, Stored
  <2>10. Named' /\ Saving'
    BY <1>1, <2>1 DEF Named, Saving
  <2> QED BY <2>6, <2>7, <2>8, <2>9, <2>10 DEF NumberInv
<1>5. CASE WriteFile
  <2>1. /\ DOMAIN disk' = DOMAIN disk /\ UNCHANGED <<sections, found, saves>>
        /\ service' = "read"
    BY <1>5 DEF WriteFile
  <2>2. SectionsOnDisk' = SectionsOnDisk
    BY <2>1 DEF SectionsOnDisk
  <2> QED BY <2>1, <2>2 DEF NumberInv, DiskKnown, ListsStored, AreStored, Numbered, Named, Saving, Grows
<1>6. CASE readSectionsInfo
  <2>1. ListsStored(Listed(disk))
    BY ListedStored DEF NumberInv
  <2>2. NumberInv'
    BY <1>1, <1>6, <2>1, DiskSame DEF readSectionsInfo
  <2> QED BY <1>6, <2>2 DEF readSectionsInfo, Grows
<1>7. CASE SetSections
  <2>1. NumberInv'
    BY <1>1, <1>7, DiskSame DEF SetSections
  <2> QED BY <1>7, <2>1 DEF SetSections, Grows
<1>8. CASE SectionsSet
  <2>1. NumberInv'
    BY <1>1, <1>8, DiskSame DEF SectionsSet
  <2> QED BY <1>8, <2>1 DEF SectionsSet, Grows
<1>9. CASE SetFlag
  <2>1. NumberInv'
    BY <1>1, <1>9, DiskSame DEF SetFlag
  <2> QED BY <1>9, <2>1 DEF SetFlag, Grows
<1>10. CASE RemoveListed
  <2>1. /\ DOMAIN disk' = DOMAIN disk \ {InStore(n) : n \in DOMAIN sections}
        /\ UNCHANGED <<sections, found, saves>> /\ service' = "removed"
    BY <1>10 DEF RemoveListed, Restrict
  <2>2. DOMAIN sections \subseteq Names
    BY <1>1 DEF ListsStored, AreStored
  <2>3. Directory \in DOMAIN disk'
    BY <1>1, <2>1, <2>2, RemovesNoSection
  <2>4. \A k : Stored(k) \in DOMAIN disk' <=> Stored(k) \in DOMAIN disk
    BY <2>1, <2>2, RemovesNoSection
  <2>5. SectionsOnDisk' = SectionsOnDisk
    BY <2>4 DEF SectionsOnDisk, Stored
  <2> QED BY <1>1, <2>1, <2>3, <2>4, <2>5
        DEF NumberInv, DiskKnown, ListsStored, AreStored, Numbered, Named, Saving, Grows
<1>11. CASE SortSections
  <2>1. NumberInv'
    BY <1>1, <1>11, DiskSame DEF SortSections
  <2> QED BY <1>11, <2>1 DEF SortSections, Grows
<1>12. CASE DecreaseStored
  <2>1. DOMAIN sections' \subseteq DOMAIN sections
    BY <1>12 DEF DecreaseStored, Restrict
  <2>2. ListsStored(sections')
    BY <1>1, <2>1 DEF ListsStored, AreStored
  <2>3. NumberInv'
    BY <1>1, <1>12, <2>2, DiskSame DEF DecreaseStored
  <2> QED BY <1>12, <2>3 DEF DecreaseStored, Grows
<1>13. CASE ResetFlag
  <2>1. NumberInv'
    BY <1>1, <1>13, DiskSame DEF ResetFlag
  <2> QED BY <1>13, <2>1 DEF ResetFlag, Grows
<1> QED
  BY <1>2, <1>3, <1>4, <1>5, <1>6, <1>7, <1>8, <1>9, <1>10, <1>11, <1>12, <1>13
  DEF StoreStep

(* What a step of a thread does to the fields of its locals and its connection. *)
LEMMA LocalsMoved ==
  ASSUME NEW h, Locals(h), NEW place, NEW n, NEW short, NEW bad, NEW list
  PROVE  /\ LET g == [h EXCEPT !.at = place]
            IN  g.at = place /\ g.todo = h.todo /\ g.copy = h.copy
         /\ LET g == [h EXCEPT !.at = place, !.copy = list]
            IN  g.at = place /\ g.todo = h.todo /\ g.copy = list
         /\ LET g == [h EXCEPT !.at = place, !.todo = n, !.short = short, !.badLength = bad]
            IN  g.at = place /\ g.todo = n /\ g.copy = h.copy
         /\ LET g == [h EXCEPT !.todo = n, !.short = short]
            IN  g.at = h.at /\ g.todo = n /\ g.copy = h.copy
<1>1. {"at", "todo", "short", "badLength", "copy"} \subseteq DOMAIN h
  BY DEF Locals
<1> QED BY <1>1

LEMMA WireMoved ==
  ASSUME NEW w, Connected(w), NEW n, NEW peer
  PROVE  /\ LET v == [w EXCEPT !.left = n]
            IN  v.left = n /\ v.blocks = w.blocks /\ v.peer = w.peer /\ v.word = w.word
         /\ LET v == [w EXCEPT !.peer = peer]
            IN  v.left = w.left /\ v.blocks = w.blocks /\ v.peer = peer /\ v.word = w.word
         /\ LET v == [w EXCEPT !.peer = peer, !.left = n]
            IN  v.left = n /\ v.blocks = w.blocks /\ v.peer = peer /\ v.word = w.word
<1>1. {"blocks", "left", "peer", "word"} \subseteq DOMAIN w
  BY DEF Connected
<1> QED BY <1>1

(***************************************************************************)
(* The types of a thread's locals and of its connection, and the lists it   *)
(* copies.                                                                  *)
(***************************************************************************)
MostBytes == LengthSize + MaxBlocks * BlockSize

Typed(h, w) ==
  /\ h.todo \in 0 .. MaxBlocks + LengthSize
  /\ w.blocks \in 0 .. MaxBlocks /\ w.left \in 0 .. MostBytes
  /\ w.peer \in {"waiting", "shut", "reset"}
  /\ h.at # "free" => w.word \in Words

ThreadsTyped == \A t \in Threads : Typed(handler[t], wire[t])

LEMMA FreeTyped == Typed(Free, NoWire) /\ Free.copy = {}
<1>1. MostBytes \in Nat /\ MaxBlocks \in Nat /\ LengthSize \in Nat
  BY FrameAssumption, Products DEF MostBytes
<1>2. /\ Free.todo = 0 /\ Free.at = "free" /\ Free.copy = {}
      /\ NoWire.blocks = 0 /\ NoWire.left = 0 /\ NoWire.peer = "shut"
  BY DEF Free, NoWire
<1> QED BY <1>1, <1>2 DEF Typed

LEMMA BytesSent ==
  ASSUME NEW n \in 1 .. MaxBlocks
  PROVE  LengthSize + n * BlockSize \in 0 .. MostBytes
<1>1. n \in Nat /\ MaxBlocks \in Nat /\ BlockSize \in Nat /\ LengthSize \in Nat /\ n <= MaxBlocks
  BY FrameAssumption
<1>2. n * BlockSize <= MaxBlocks * BlockSize /\ n * BlockSize \in Nat /\ MaxBlocks * BlockSize \in Nat
  BY <1>1
<1> QED BY <1>1, <1>2 DEF MostBytes

(* A step of a thread that does not end the process. *)
Steps(t) == \/ Accept(t) \/ PeerFails(t) \/ ReceiveLength(t) \/ ReceiveBlock(t) \/ Parse(t)
            \/ Get(t) \/ TestFlag(t) \/ CopySections(t) \/ Load(t) \/ Add(t) \/ Send(t)
Throws(t) == LengthThrows(t) \/ ReceiveError(t) \/ ParseThrows(t) \/ CopyBreaks(t) \/ LoadBreaks(t)

LEMMA ThreadFields ==
  ASSUME FrameInv, ThreadsTyped, NEW t \in Threads, Steps(t)
  PROVE  \E h, w : /\ handler' = [handler EXCEPT ![t] = h] /\ wire' = [wire EXCEPT ![t] = w]
                   /\ h.copy \in {handler[t].copy, {}} \cup Copies
                   /\ Typed(h, w)
<1> DEFINE h == handler[t]
           w == wire[t]
           Goal == \E g, v : /\ handler' = [handler EXCEPT ![t] = g]
                             /\ wire' = [wire EXCEPT ![t] = v]
                             /\ g.copy \in {h.copy, {}} \cup Copies
                             /\ Typed(g, v)
<1>1. /\ Locals(h) /\ Connected(w) /\ Typed(h, w)
      /\ handler = [u \in Threads |-> handler[u]] /\ wire = [u \in Threads |-> wire[u]]
      /\ handler = [handler EXCEPT ![t] = h] /\ wire = [wire EXCEPT ![t] = w]
  BY DEF FrameInv, Framed, ThreadsTyped
<1>2. /\ LengthSize \in Nat /\ BlockSize \in Nat /\ MaxBlocks \in Nat /\ MostBytes \in Nat
      /\ w.left \in Nat /\ h.todo \in Nat
  BY <1>1, FrameAssumption, Products DEF MostBytes, Connected, Locals
<1>3. ASSUME NEW n \in Nat, NEW got \in Received(t, n)
      PROVE  w.left - got \in 0 .. w.left
  BY <1>2, <1>3 DEF Received
<1>4. ASSUME NEW g, NEW v, handler' = [handler EXCEPT ![t] = g], wire' = [wire EXCEPT ![t] = v],
             g.copy \in {h.copy, {}} \cup Copies, Typed(g, v)
      PROVE  Goal
  BY <1>4
<1> SUFFICES Goal
  OBVIOUS
<1> HIDE DEF Goal
<1>5. ASSUME NEW place, h.at # "free", Goes(t, place), UNCHANGED wire PROVE Goal
  <2> DEFINE g == [h EXCEPT !.at = place]
  <2>1. handler' = [handler EXCEPT ![t] = g] /\ wire' = [wire EXCEPT ![t] = w]
    BY <1>1, <1>5 DEF Goes
  <2>2. g.todo = h.todo /\ g.copy = h.copy
    BY <1>1, LocalsMoved
  <2> HIDE DEF g
  <2> QED BY <1>1, <1>4, <1>5, <2>1, <2>2 DEF Typed
<1>6. ASSUME NEW place, NEW list \in {{}} \cup Copies, h.at # "free",
             handler' = [handler EXCEPT ![t].at = place, ![t].copy = list], UNCHANGED wire
      PROVE  Goal
  <2> DEFINE g == [h EXCEPT !.at = place, !.copy = list]
  <2>1. handler' = [handler EXCEPT ![t] = g] /\ wire' = [wire EXCEPT ![t] = w]
    BY <1>1, <1>6
  <2>2. g.todo = h.todo /\ g.copy = list
    BY <1>1, LocalsMoved
  <2> HIDE DEF g
  <2> QED BY <1>1, <1>4, <1>6, <2>1, <2>2 DEF Typed
<1>7. CASE Accept(t)
  <2>1. PICK word \in Words, n \in 1 .. MaxBlocks :
          wire' = [wire EXCEPT ![t] = [blocks |-> n, left |-> LengthSize + n * BlockSize,
                                       peer |-> "waiting", word |-> word]]
    BY <1>7 DEF Accept
  <2> DEFINE g == [h EXCEPT !.at = "length"]
             v == [blocks |-> n, left |-> LengthSize + n * BlockSize,
                   peer |-> "waiting", word |-> word]
  <2>2. handler' = [handler EXCEPT ![t] = g] /\ wire' = [wire EXCEPT ![t] = v]
    BY <1>1, <1>7, <2>1 DEF Accept, Goes
  <2>3. g.todo = h.todo /\ g.copy = h.copy
    BY <1>1, LocalsMoved
  <2>4. /\ v.blocks = n /\ v.left \in 0 .. MostBytes /\ v.peer = "waiting" /\ v.word = word
    BY BytesSent
  <2> HIDE DEF g, v
  <2>5. Typed(g, v)
    BY <1>1, <1>2, <2>3, <2>4 DEF Typed
  <2> QED BY <1>4, <2>2, <2>3, <2>5
<1>8. CASE PeerFails(t)
  <2>1. h.at # "free" /\ handler' = [handler EXCEPT ![t] = h]
    BY <1>1, <1>8 DEF PeerFails
  <2>2. PICK n \in 0 .. w.left :
          \/ wire' = [wire EXCEPT ![t].peer = "reset"]
          \/ wire' = [wire EXCEPT ![t].peer = "shut", ![t].left = n]
    BY <1>2, <1>8 DEF PeerFails
  <2> DEFINE x == [w EXCEPT !.peer = "reset"]
             v == [w EXCEPT !.peer = "shut", !.left = n]
  <2>3. wire' = [wire EXCEPT ![t] = x] \/ wire' = [wire EXCEPT ![t] = v]
    BY <1>1, <2>2
  <2>4. /\ x.left = w.left /\ x.blocks = w.blocks /\ x.peer = "reset" /\ x.word = w.word
        /\ v.left = n /\ v.blocks = w.blocks /\ v.peer = "shut" /\ v.word = w.word
    BY <1>1, WireMoved
  <2>5. n \in 0 .. MostBytes
    BY <1>1, <1>2 DEF Typed
  <2> HIDE DEF x, v
  <2>6. Typed(h, x) /\ Typed(h, v)
    BY <1>1, <2>4, <2>5 DEF Typed
  <2> QED BY <1>4, <2>1, <2>3, <2>6
<1>9. CASE ReceiveLength(t)
  <2>1. PICK got \in Received(t, LengthSize) :
          /\ wire' = [wire EXCEPT ![t].left = @ - got]
          /\ \E todo \in {wire[t].blocks} \cup
                         IF got < LengthSize THEN {0, MaxBlocks + LengthSize} ELSE {} :
               handler' = [handler EXCEPT ![t].at = "blocks", ![t].todo = todo,
                                          ![t].short = got < LengthSize,
                                          ![t].badLength = got < LengthSize]
    BY <1>9 DEF ReceiveLength
  <2>2. PICK todo \in {w.blocks} \cup
                      IF got < LengthSize THEN {0, MaxBlocks + LengthSize} ELSE {} :
          handler' = [handler EXCEPT ![t].at = "blocks", ![t].todo = todo,
                                     ![t].short = got < LengthSize,
                                     ![t].badLength = got < LengthSize]
    BY <2>1
  <2>3. h.at # "free"
    BY <1>9 DEF ReceiveLength, At
  <2> DEFINE less == got < LengthSize
             g == [h EXCEPT !.at = "blocks", !.todo = todo, !.short = less, !.badLength = less]
             v == [w EXCEPT !.left = w.left - got]
  <2>4. handler' = [handler EXCEPT ![t] = g] /\ wire' = [wire EXCEPT ![t] = v]
    BY <1>1, <2>1, <2>2
  <2>5. todo \in 0 .. MaxBlocks + LengthSize /\ w.left - got \in 0 .. MostBytes
    <3>1. w.blocks \in 0 .. MaxBlocks /\ w.left \in 0 .. MostBytes
      BY <1>1 DEF Typed
    <3>2. w.left - got \in 0 .. w.left
      BY <1>2, <1>3
    <3> QED BY <1>2, <3>1, <3>2
  <2> HIDE DEF less
  <2>6. g.todo = todo /\ g.copy = h.copy
    BY <1>1, LocalsMoved
  <2>7. v.left = w.left - got /\ v.blocks = w.blocks /\ v.peer = w.peer /\ v.word = w.word
    BY <1>1, WireMoved
  <2> HIDE DEF g, v
  <2>8. Typed(g, v)
    BY <1>1, <2>3, <2>5, <2>6, <2>7 DEF Typed
  <2> QED BY <1>4, <2>4, <2>6, <2>8
<1>10. CASE ReceiveBlock(t)
  <2>1. PICK got \in Received(t, BlockSize) :
          /\ wire' = [wire EXCEPT ![t].left = @ - got]
          /\ handler' = [handler EXCEPT ![t].todo = @ - 1, ![t].short = @ \/ got < BlockSize]
    BY <1>10 DEF ReceiveBlock
  <2>2. h.at # "free" /\ h.todo > 0
    BY <1>10 DEF ReceiveBlock, At
  <2> DEFINE less == h.short \/ got < BlockSize
             g == [h EXCEPT !.todo = h.todo - 1, !.short = less]
             v == [w EXCEPT !.left = w.left - got]
  <2>3. handler' = [handler EXCEPT ![t] = g] /\ wire' = [wire EXCEPT ![t] = v]
    BY <1>1, <2>1
  <2>4. h.todo - 1 \in 0 .. MaxBlocks + LengthSize /\ w.left - got \in 0 .. MostBytes
    <3>1. h.todo \in 0 .. MaxBlocks + LengthSize /\ w.left \in 0 .. MostBytes
      BY <1>1 DEF Typed
    <3>2. w.left - got \in 0 .. w.left
      BY <1>2, <1>3
    <3> QED BY <1>2, <2>2, <3>1, <3>2
  <2> HIDE DEF less
  <2>5. g.todo = h.todo - 1 /\ g.copy = h.copy /\ g.at = h.at
    BY <1>1, LocalsMoved
  <2>6. v.left = w.left - got /\ v.blocks = w.blocks /\ v.peer = w.peer /\ v.word = w.word
    BY <1>1, WireMoved
  <2> HIDE DEF g, v
  <2>7. Typed(g, v)
    BY <1>1, <2>2, <2>4, <2>5, <2>6 DEF Typed
  <2> QED BY <1>4, <2>3, <2>5, <2>7
<1>11. CASE Parse(t)
  <2>1. h.at # "free" /\ handler' = [handler EXCEPT ![t] = [Free EXCEPT !.at = "get"]]
    BY <1>11 DEF Parse, At
  <2>2. PICK x \in IF h.short THEN Words ELSE {w.word} :
          wire' = [wire EXCEPT ![t] = [NoWire EXCEPT !.word = x]]
    BY <1>11 DEF Parse
  <2> DEFINE g == [Free EXCEPT !.at = "get"]
             v == [NoWire EXCEPT !.word = x]
  <2>3. x \in Words
    BY <1>1, <2>1, <2>2 DEF Typed
  <2>4. g.todo = Free.todo /\ g.copy = {}
    BY FreeTyped, FreeFramed, LocalsMoved
  <2>5. v.left = NoWire.left /\ v.blocks = NoWire.blocks /\ v.peer = NoWire.peer /\ v.word = x
    BY DEF NoWire
  <2> HIDE DEF g, v
  <2>6. Typed(g, v)
    BY FreeTyped, <2>3, <2>4, <2>5 DEF Typed
  <2>7. handler' = [handler EXCEPT ![t] = g] /\ wire' = [wire EXCEPT ![t] = v]
    BY <2>1, <2>2 DEF g, v
  <2> QED BY <1>4, <2>4, <2>6, <2>7
<1>12. CASE Get(t)
  BY <1>5, <1>12 DEF Get, At
<1>13. CASE TestFlag(t)
  BY <1>5, <1>13 DEF TestFlag, At
<1>14. CASE CopySections(t)
  BY <1>6, <1>14 DEF CopySections, At
<1>15. CASE Load(t)
  BY <1>6, <1>15 DEF Load, At
<1>16. CASE Add(t)
  BY <1>5, <1>16 DEF Add, At
<1>17. CASE Send(t)
  BY <1>4, <1>17, FreeTyped DEF Send
<1> QED
  BY <1>7, <1>8, <1>9, <1>10, <1>11, <1>12, <1>13, <1>14, <1>15, <1>16, <1>17 DEF Steps

(***************************************************************************)
(* The capacity is a sum over a list.  A fold over a finite set of numbers  *)
(* is a number: that it is defined goes by the cardinality of the subsets   *)
(* summed up so far, that it is a number by the subsets themselves.         *)
(***************************************************************************)
(* A set of naturals that holds 0 and with a number the next holds them all. *)
LEMMA AllNumbers ==
  ASSUME NEW M, 0 \in M, \A n \in Nat : n \in M => n + 1 \in M
  PROVE  \A n \in Nat : n \in M
<1> DEFINE R == OpToRel(<, Nat)
<1>1. IsWellFoundedOn(R, Nat)
  BY NatLessThanWellFounded
<1>2. \A m, n \in Nat : m < n => <<m, n>> \in R
  BY DEF OpToRel
<1> HIDE DEF R
<1> SUFFICES ASSUME Nat \ M # {} PROVE FALSE
  OBVIOUS
<1>3. PICK n \in Nat \ M : \A m \in Nat \ M : ~ (<<m, n>> \in R)
  BY <1>1, WFMin
<1>4. n # 0 /\ n - 1 \in Nat /\ n - 1 < n /\ n - 1 \notin M
  BY <1>3
<1> QED BY <1>2, <1>3, <1>4

(* A family that holds the empty set, and each subset of S together with that subset less *)
(* some element, holds them all.                                                          *)
LEMMA AllSubsets ==
  ASSUME NEW S, IsFiniteSet(S), NEW F, {} \in F,
         \A s \in SUBSET S : s # {} => \E x \in s : s \ {x} \in F => s \in F
  PROVE  \A s \in SUBSET S : s \in F
<1> DEFINE R == StrictSubsetOrdering(S)
<1>1. IsWellFoundedOn(R, SUBSET S)
  BY FS_StrictSubsetOrderingWellFounded, FS_FiniteSubsetsOfFinite
<1>2. \A s, t \in SUBSET S : s \subseteq t /\ s # t => <<s, t>> \in R
  BY DEF StrictSubsetOrdering
<1> HIDE DEF R
<1> SUFFICES ASSUME (SUBSET S) \ F # {} PROVE FALSE
  OBVIOUS
<1> DEFINE B == (SUBSET S) \ F
<1>3. PICK t \in B : \A s \in B : ~ (<<s, t>> \in R)
  <2>1. B \subseteq SUBSET S /\ B # {}
    OBVIOUS
  <2> HIDE DEF B
  <2> QED BY <1>1, <2>1, WFMin
<1>4. t \in SUBSET S /\ t \notin F /\ t # {}
  BY Zenon
<1>5. PICK x \in t : t \ {x} \notin F
  BY <1>4
<1>6. t \ {x} \in SUBSET S /\ t \ {x} # t
  BY <1>4, <1>5
<1> QED BY <1>2, <1>3, <1>4, <1>5, <1>6

(* The sums MapThenFoldSet makes of every subset of S. *)
Sums(f, S, g) ==
  g = [s \in SUBSET S |-> IF s = {} THEN 0
                          ELSE f[CHOOSE x \in s : TRUE] + g[s \ {CHOOSE x \in s : TRUE}]]

LEMMA TotalIsSum ==
  ASSUME NEW f
  PROVE  Total(f) = (CHOOSE g : Sums(f, DOMAIN f, g))[DOMAIN f]
BY DEF Total, FoldFunction, FoldFunctionOnSet, MapThenFoldSet, Sums

First(s) == CHOOSE x \in s : TRUE

LEMMA FirstIn ==
  ASSUME NEW s, s # {}
  PROVE  First(s) \in s
BY DEF First

LEMMA SumsExist ==
  ASSUME NEW f, NEW S, IsFiniteSet(S)
  PROVE  \E g : Sums(f, S, g)
<1> DEFINE Sum(g, s) == IF s = {} THEN 0 ELSE f[First(s)] + g[s \ {First(s)}]
           Fits(g, n) == \A s \in SUBSET S : Cardinality(s) <= n => g[s] = Sum(g, s)
           M == {n \in Nat : \E g : Fits(g, n)}
<1>1. \A s \in SUBSET S : /\ Cardinality(s) \in Nat
                          /\ s = {} <=> Cardinality(s) = 0
                          /\ s # {} => /\ s \ {First(s)} \in SUBSET S
                                       /\ Cardinality(s \ {First(s)}) = Cardinality(s) - 1
  BY FS_Subset, FS_CardinalityType, FS_EmptySet, FS_RemoveElement, FirstIn
<1>2. 0 \in M
  <2> DEFINE g == [s \in SUBSET S |-> 0]
  <2>1. ASSUME NEW s \in SUBSET S, Cardinality(s) <= 0 PROVE s = {}
    <3>1. Cardinality(s) \in Nat /\ (s = {} <=> Cardinality(s) = 0)
      BY <1>1
    <3> QED BY <2>1, <3>1
  <2>2. Fits(g, 0)
    BY <2>1
  <2> QED BY <2>2
<1>3. ASSUME NEW n \in Nat, n \in M PROVE n + 1 \in M
  <2>1. PICK g : Fits(g, n)
    BY <1>3
  <2> DEFINE h == [s \in SUBSET S |-> IF Cardinality(s) <= n THEN g[s] ELSE Sum(g, s)]
  <2>2. ASSUME NEW s \in SUBSET S, Cardinality(s) <= n + 1 PROVE h[s] = Sum(h, s)
    <3>1. h[s] = Sum(g, s)
      BY <2>1
    <3>2. s # {} => h[s \ {First(s)}] = g[s \ {First(s)}]
      <4> HIDE DEF Sum, Fits
      <4> QED BY <1>1, <2>2
    <3> HIDE DEF h
    <3> QED BY <3>1, <3>2
  <2>3. Fits(h, n + 1)
    <3> HIDE DEF h, Sum
    <3> QED BY <2>2
  <2> HIDE DEF h, Fits
  <2> QED BY <2>3
<1> HIDE DEF M
<1>4. Cardinality(S) \in Nat /\ Cardinality(S) \in M
  BY <1>2, <1>3, AllNumbers, FS_CardinalityType
<1> USE DEF M
<1>5. PICK g : Fits(g, Cardinality(S))
  BY <1>4
<1> DEFINE h == [s \in SUBSET S |-> g[s]]
<1>6. \A s \in SUBSET S : g[s] = Sum(g, s)
  <2> HIDE DEF Sum
  <2> QED BY <1>5, FS_Subset
<1>7. \A s \in SUBSET S : h[s] = Sum(h, s)
  BY <1>1, <1>6
<1>8. h = [s \in SUBSET S |-> Sum(h, s)]
  <2> HIDE DEF Sum
  <2> QED BY <1>7
<1> QED BY <1>8 DEF Sums, First

LEMMA TotalNat ==
  ASSUME NEW f, IsFiniteSet(DOMAIN f), \A n \in DOMAIN f : f[n] \in Nat
  PROVE  Total(f) \in Nat
<1> DEFINE S == DOMAIN f
           g == CHOOSE h : Sums(f, S, h)
           F == {s \in SUBSET S : g[s] \in Nat}
<1>1. Sums(f, S, g)
  BY SumsExist
<1>2. \A s \in SUBSET S : g[s] = IF s = {} THEN 0 ELSE f[First(s)] + g[s \ {First(s)}]
  <2> HIDE DEF g, S
  <2> QED BY <1>1 DEF Sums, First
<1> HIDE DEF g
<1>3. {} \in F
  <2>1. {} \in SUBSET S /\ g[{}] = 0
    BY <1>2
  <2> QED BY <2>1
<1>4. ASSUME NEW s \in SUBSET S, s # {}, s \ {First(s)} \in F
      PROVE  s \in F
  BY <1>2, <1>4, FirstIn
<1>5. S \in F
  <2>1. \A s \in SUBSET S : s # {} => \E x \in s : s \ {x} \in F => s \in F
    <3> HIDE DEF F, S
    <3> QED BY <1>4, FirstIn
  <2> HIDE DEF F
  <2>2. S \in SUBSET S /\ IsFiniteSet(S)
    OBVIOUS
  <2> HIDE DEF S
  <2> QED BY <1>3, <2>1, <2>2, AllSubsets
<1> QED BY <1>5, TotalIsSum DEF g

LEMMA CapacityNat ==
  ASSUME DiskKnown, \A n \in DOMAIN disk : disk[n] \in {0, 1} \cup Sizes
  PROVE  Total(Listed(disk)) \in Nat
<1> DEFINE list == Listed(disk)
<1>1. /\ DOMAIN list \in SUBSET DOMAIN disk
      /\ \A n \in DOMAIN list : list[n] = disk[n]
  BY DEF Listed, NoFiles, Restrict
<1>2. IsFiniteSet(DOMAIN list)
  <2>1. IsFiniteSet(DOMAIN disk)
    BY NamesFinite, FS_Subset DEF DiskKnown
  <2> HIDE DEF list
  <2> QED BY <1>1, <2>1, FS_Subset
<1>3. \A n \in DOMAIN list : list[n] \in Nat
  <2> HIDE DEF list
  <2> TAKE n \in DOMAIN list
  <2>1. n \in DOMAIN disk /\ list[n] = disk[n]
    BY <1>1
  <2>2. disk[n] \in {0, 1} \cup Sizes
    BY <2>1
  <2>3. \A m \in Sizes : m \in Nat
    BY SizesAssumption
  <2>4. disk[n] \in Nat
    BY <2>2, <2>3
  <2> QED BY <2>1, <2>4
<1> HIDE DEF list
<1>4. Total(list) \in Nat
  BY <1>2, <1>3, TotalNat
<1> QED BY <1>4 DEF list

-----------------------------------------------------------------------------
(* The whole invariant. *)
SizesKnown == \A f \in {disk, sections, found} : \A n \in DOMAIN f : f[n] \in {0, 1} \cup Sizes

OthersTyped == /\ capacity \in Nat /\ known \subseteq Words
               /\ clearInProcess \in BOOLEAN /\ running \in BOOLEAN

ServerInv == /\ FrameInv /\ CurrentInv /\ NumberInv
             /\ CopyInv /\ ThreadsTyped /\ SizesKnown /\ OthersTyped

LEMMA ListedSizes ==
  ASSUME \A n \in DOMAIN disk : disk[n] \in {0, 1} \cup Sizes
  PROVE  \A n \in DOMAIN Listed(disk) : Listed(disk)[n] \in {0, 1} \cup Sizes
BY DEF Listed, NoFiles, Restrict

LEMMA StoreSizes ==
  ASSUME NumberInv, SizesKnown, StoreStep
  PROVE  SizesKnown'
<1> DEFINE Sized(f) == \A n \in DOMAIN f : f[n] \in {0, 1} \cup Sizes
<1>1. Sized(disk) /\ Sized(sections) /\ Sized(found) /\ Sized(NoFiles) /\ Sized(Listed(disk))
  BY ListedSizes DEF SizesKnown, NoFiles
<1>2. ASSUME Sized(disk'), Sized(sections'), Sized(found') PROVE SizesKnown'
  BY <1>2 DEF SizesKnown
<1>3. ASSUME NEW f, NEW S, S \subseteq DOMAIN f, Sized(f) PROVE Sized(Restrict(f, S))
  BY <1>3 DEF Restrict
<1>4. CASE CreateFile
  <2>1. Sized(disk')
    BY <1>1, <1>4 DEF CreateFile
  <2> QED BY <1>1, <1>2, <1>4, <2>1 DEF CreateFile
<1>5. CASE WriteFile
  <2>1. Sized(disk')
    BY <1>1, <1>5 DEF WriteFile
  <2> QED BY <1>1, <1>2, <1>5, <2>1 DEF WriteFile
<1> HIDE DEF Sized
<1>6. CASE readSectionsInfo \/ SectionsSet
  BY <1>1, <1>2, <1>6 DEF readSectionsInfo, SectionsSet
<1>7. CASE RemoveListed
  <2>1. Sized(disk')
    BY <1>1, <1>3, <1>7 DEF RemoveListed
  <2> QED BY <1>1, <1>2, <1>7, <2>1 DEF RemoveListed
<1>8. CASE DecreaseStored
  <2>1. Sized(sections')
    BY <1>1, <1>3, <1>8 DEF DecreaseStored
  <2> QED BY <1>1, <1>2, <1>8, <2>1 DEF DecreaseStored
<1>9. CASE Take \/ NameFile \/ SetSections \/ SetFlag \/ SortSections \/ ResetFlag
  BY <1>1, <1>2, <1>9 DEF Take, NameFile, SetSections, SetFlag, SortSections, ResetFlag
<1> QED BY <1>4, <1>5, <1>6, <1>7, <1>8, <1>9 DEF StoreStep

LEMMA StoreTyped ==
  ASSUME NumberInv, SizesKnown, OthersTyped, StoreStep, UNCHANGED runVars
  PROVE  OthersTyped'
<1>1. Total(Listed(disk)) \in Nat
  BY CapacityNat DEF NumberInv, SizesKnown
<1>2. capacity' = capacity \/ capacity' = Total(Listed(disk))
  BY DEF StoreStep, Take, NameFile, CreateFile, WriteFile, readSectionsInfo, SetSections,
         SectionsSet, SetFlag, RemoveListed, SortSections, DecreaseStored, ResetFlag
<1>3. clearInProcess' \in BOOLEAN
  BY DEF OthersTyped, StoreStep, Take, NameFile, CreateFile, WriteFile, readSectionsInfo,
         SetSections, SectionsSet, SetFlag, RemoveListed, SortSections, DecreaseStored, ResetFlag
<1> QED BY <1>1, <1>2, <1>3 DEF OthersTyped, runVars

LEMMA ThreadMoves ==
  ASSUME ServerInv, NEW t \in Threads, Steps(t)
  PROVE  NumberInv' /\ CopyInv' /\ ThreadsTyped' /\ SizesKnown' /\ OthersTyped'
<1>1. PICK h, w : /\ handler' = [handler EXCEPT ![t] = h] /\ wire' = [wire EXCEPT ![t] = w]
                  /\ h.copy \in {handler[t].copy, {}} \cup Copies
                  /\ Typed(h, w)
  BY ThreadFields DEF ServerInv
<1>2. UNCHANGED <<disk, sections, capacity, clearInProcess, service, fileName, found, saves, running>>
  BY Zenon DEF Steps, Accept, PeerFails, ReceiveLength, ReceiveBlock, Parse, Get, TestFlag,
               CopySections, Load, Add, Send, storeVars
<1>3. NumberInv'
  <2>1. ListsStored(sections') /\ ListsStored(found')
    BY <1>2 DEF ServerInv, NumberInv
  <2>2. service' = "MAX_TABLE" => saves < MaxSaves
    BY <1>2 DEF ServerInv, NumberInv, Saving
  <2> QED BY <1>2, <2>1, <2>2, DiskSame DEF ServerInv
<1>4. handler = [u \in Threads |-> handler[u]] /\ wire = [u \in Threads |-> wire[u]]
  BY DEF ServerInv, FrameInv
<1>5. ThreadsTyped'
  BY <1>1, <1>4 DEF ServerInv, ThreadsTyped
<1>6. CopyInv'
  <2>1. ASSUME NEW u \in Threads PROVE AreStored(handler'[u].copy)
    <3>1. AreStored({}) /\ AreStored(handler[t].copy)
      BY DEF ServerInv, CopyInv, AreStored
    <3>2. ASSUME NEW names \in Copies PROVE AreStored(names)
      <4>1. names \subseteq DOMAIN sections \cup DOMAIN found
        BY <3>2, Zenon DEF Copies
      <4> QED BY <4>1 DEF ServerInv, NumberInv, ListsStored, AreStored
    <3>3. AreStored(h.copy)
      BY <1>1, <3>1, <3>2
    <3> QED BY <1>1, <1>4, <3>3 DEF ServerInv, CopyInv
  <2> QED BY <1>2, <2>1 DEF CopyInv, ListsStored, AreStored
<1>7. SizesKnown'
  BY <1>2 DEF ServerInv, SizesKnown
<1>8. known' \subseteq Words
  <2>1. CASE Add(t)
    <3>1. wire[t].word \in Words
      BY <2>1 DEF Add, At, ServerInv, ThreadsTyped, Typed
    <3> QED BY <2>1, <3>1 DEF Add, ServerInv, OthersTyped
  <2>2. CASE ~Add(t)
    <3>1. known' = known
      BY <2>2, Zenon DEF Steps, Accept, PeerFails, ReceiveLength, ReceiveBlock, Parse, Get,
                         TestFlag, CopySections, Load, Send
    <3> QED BY <3>1 DEF ServerInv, OthersTyped
  <2> QED BY <2>1, <2>2
<1>9. OthersTyped'
  BY <1>2, <1>8 DEF ServerInv, OthersTyped
<1> QED BY <1>3, <1>5, <1>6, <1>7, <1>9

LEMMA RunEnds ==
  ASSUME ServerInv, Terminate
  PROVE  NumberInv' /\ CopyInv' /\ ThreadsTyped' /\ SizesKnown' /\ OthersTyped'
<1>1. ListsStored(NoFiles)
  BY DEF ListsStored, AreStored, NoFiles
<1>2. UNCHANGED <<disk, saves, sections, capacity>> /\ found' = NoFiles /\ service' = "idle"
  BY DEF Terminate, StoreEnds
<1>3. NumberInv'
  <2>1. ListsStored(sections') /\ ListsStored(found')
    BY <1>1, <1>2 DEF ServerInv, NumberInv
  <2> QED BY <1>2, <2>1, DiskSame DEF ServerInv
<1>4. CopyInv' /\ ThreadsTyped'
  <2>1. \A t \in Threads : handler'[t] = Free /\ wire'[t] = NoWire
    BY DEF Terminate
  <2>2. AreStored({})'
    BY DEF AreStored
  <2>3. CopyInv'
    BY <1>2, <2>1, <2>2, FreeTyped DEF CopyInv
  <2> QED BY <2>1, <2>3, FreeTyped DEF ThreadsTyped
<1>5. SizesKnown'
  BY <1>2 DEF ServerInv, SizesKnown, NoFiles
<1>6. OthersTyped'
  BY DEF Terminate, StoreEnds, ServerInv, OthersTyped
<1> QED BY <1>3, <1>4, <1>5, <1>6

LEMMA ServiceMoves ==
  ASSUME ServerInv, Service
  PROVE  NumberInv' /\ CopyInv' /\ ThreadsTyped' /\ SizesKnown' /\ OthersTyped'
<1>1. CASE ServiceStep
  <2>1. running /\ StoreStep /\ UNCHANGED runVars
    BY <1>1 DEF ServiceStep
  <2>2. NumberInv' /\ Grows
    BY <2>1, StoreNumbered DEF ServerInv
  <2>3. CopyInv'
    BY <2>1, <2>2 DEF ServerInv, CopyInv, ListsStored, AreStored, Grows, runVars
  <2>4. ThreadsTyped'
    BY <2>1 DEF ServerInv, ThreadsTyped, runVars
  <2>5. SizesKnown' /\ OthersTyped'
    BY <2>1, StoreSizes, StoreTyped DEF ServerInv
  <2> QED BY <2>2, <2>3, <2>4, <2>5
<1>2. CASE ClearTables
  <2>1. /\ UNCHANGED <<disk, sections, capacity, clearInProcess, fileName, found, saves,
                       running, handler, wire>>
        /\ service' = "idle" /\ known' \in {{}, known}
    BY <1>2 DEF ClearTables
  <2>2. NumberInv'
    <3>1. ListsStored(sections') /\ ListsStored(found')
      BY <2>1 DEF ServerInv, NumberInv
    <3> QED BY <2>1, <3>1, DiskSame DEF ServerInv
  <2>3. CopyInv' /\ ThreadsTyped' /\ SizesKnown' /\ OthersTyped'
    BY <2>1 DEF ServerInv, CopyInv, ListsStored, AreStored, ThreadsTyped, SizesKnown, OthersTyped
  <2> QED BY <2>2, <2>3
<1>3. CASE SortBreaks
  BY <1>3, RunEnds DEF SortBreaks
<1> QED BY <1>1, <1>2, <1>3 DEF Service

LEMMA RestartMoves ==
  ASSUME ServerInv, Restart
  PROVE  NumberInv' /\ CopyInv' /\ ThreadsTyped' /\ SizesKnown' /\ OthersTyped'
<1>1. /\ sections' = Listed(disk) /\ capacity' = Total(Listed(disk)) /\ running' = TRUE
      /\ UNCHANGED <<disk, clearInProcess, service, fileName, found, saves, known, handler, wire>>
  BY DEF Restart, StoreRestarts
<1>2. NumberInv'
  <2>1. ListsStored(sections') /\ ListsStored(found')
    BY <1>1, ListedStored DEF ServerInv, NumberInv
  <2>2. service' = "MAX_TABLE" => saves < MaxSaves
    BY <1>1 DEF ServerInv, NumberInv, Saving
  <2> QED BY <1>1, <2>1, <2>2, DiskSame DEF ServerInv
<1>3. CopyInv' /\ ThreadsTyped'
  BY <1>1 DEF ServerInv, CopyInv, ListsStored, AreStored, ThreadsTyped
<1>4. SizesKnown'
  BY <1>1, ListedSizes DEF ServerInv, SizesKnown
<1>5. OthersTyped'
  <2>1. Total(Listed(disk)) \in Nat
    BY CapacityNat DEF ServerInv, NumberInv, SizesKnown
  <2> QED BY <1>1, <2>1 DEF ServerInv, OthersTyped
<1> QED BY <1>2, <1>3, <1>4, <1>5

LEMMA InitServer ==
  ASSUME Init
  PROVE  ServerInv
<1>1. PICK others \in SUBSET OtherFiles :
        disk = [n \in others \cup {Directory} |-> IF n = Directory THEN 0 ELSE 1]
  BY DEF Init, StoreInit
<1>2. DOMAIN disk = others \cup {Directory} /\ \A n \in DOMAIN disk : disk[n] \in {0, 1}
  BY <1>1
<1>3. /\ sections = Listed(disk) /\ found = NoFiles /\ service = "idle" /\ saves = 0
      /\ capacity = Total(Listed(disk))
  BY DEF Init, StoreInit
<1>4. NumberInv
  <2>1. DiskKnown
    BY <1>2 DEF DiskKnown, Names
  <2>2. ListsStored(sections) /\ ListsStored(found)
    BY <1>3, <2>1, ListedStored DEF ListsStored, AreStored, NoFiles
  <2>3. SectionsOnDisk = 0 .. 0 - 1
    <3>1. \A k : Stored(k) \notin DOMAIN disk
      BY <1>2, SectionNames, OwnSectionsAssumption
    <3> QED BY <3>1 DEF SectionsOnDisk, Stored
  <2>4. Numbered /\ Named /\ Saving
    BY <1>3, <2>3, OwnSectionsAssumption DEF Numbered, Named, Saving
  <2> QED BY <2>1, <2>2, <2>4 DEF NumberInv
<1>5. \A t \in Threads : handler[t] = Free /\ wire[t] = NoWire
  BY DEF Init
<1>6. CopyInv /\ ThreadsTyped
  <2>1. AreStored({})
    BY DEF AreStored
  <2> QED BY <1>5, <2>1, FreeTyped DEF CopyInv, ThreadsTyped
<1>7. SizesKnown
  BY <1>2, <1>3, ListedSizes DEF SizesKnown, NoFiles
<1>8. OthersTyped
  <2>1. Total(Listed(disk)) \in Nat
    BY <1>4, <1>7, CapacityNat DEF NumberInv, SizesKnown
  <2>2. /\ clearInProcess = FALSE /\ running = TRUE /\ known = {}
    BY DEF Init, StoreInit
  <2> QED BY <1>3, <2>1, <2>2 DEF OthersTyped
<1>9. FrameInv
  BY FreeFramed DEF Init, FrameInv
<1> QED BY <1>4, <1>6, <1>7, <1>8, <1>9, InitCurrent DEF ServerInv

LEMMA ThrowsEnd ==
  ASSUME NEW t \in Threads, Throws(t)
  PROVE  Terminate
BY DEF Throws, LengthThrows, ReceiveError, ParseThrows, CopyBreaks, LoadBreaks

LEMMA ServerStep ==
  ASSUME ServerInv, [Next]_vars
  PROVE  ServerInv'
<1>1. FrameInv' /\ CurrentInv'
  BY FrameStep, CurrentStep DEF ServerInv
<1> DEFINE Rest == NumberInv' /\ CopyInv' /\ ThreadsTyped' /\ SizesKnown' /\ OthersTyped'
<1>2. ASSUME NEW t \in Threads, Steps(t) PROVE Rest
  BY <1>2, ThreadMoves
<1>3. ASSUME NEW t \in Threads, Throws(t) PROVE Rest
  BY <1>3, ThrowsEnd, RunEnds
<1>4. ASSUME Service PROVE Rest
  BY <1>4, ServiceMoves
<1>5. ASSUME Restart PROVE Rest
  BY <1>5, RestartMoves
<1>6. ASSUME UNCHANGED vars PROVE Rest
  <2>1. NumberInv'
    <3>1. ListsStored(sections') /\ ListsStored(found')
      BY <1>6 DEF vars, ServerInv, NumberInv
    <3>2. service' = "MAX_TABLE" => saves < MaxSaves
      BY <1>6 DEF vars, ServerInv, NumberInv, Saving
    <3> QED BY <1>6, <3>1, <3>2, DiskSame DEF vars, ServerInv
  <2>2. CopyInv' /\ ThreadsTyped'
    BY <1>6 DEF vars, ServerInv, CopyInv, ListsStored, AreStored, ThreadsTyped
  <2>3. SizesKnown' /\ OthersTyped'
    BY <1>6 DEF vars, ServerInv, SizesKnown, OthersTyped
  <2> QED BY <2>1, <2>2, <2>3
<1> HIDE DEF Rest
<1>7. ASSUME NEW t \in Threads, Accept(t) \/ PeerFails(t) \/ Thread(t) PROVE Rest
  <2>1. Steps(t) \/ Throws(t)
    BY <1>7, Zenon DEF Thread, Reads, Handles, Steps, Throws
  <2> QED BY <1>2, <1>3, <2>1
<1>8. Rest
  <2>1. Next \/ UNCHANGED vars
    OBVIOUS
  <2> QED BY <1>4, <1>5, <1>6, <1>7, <2>1, Zenon DEF Next
<1> QED BY <1>1, <1>8 DEF ServerInv, Rest

LEMMA ServerHolds == Spec => []ServerInv
<1>1. Init => ServerInv
  BY InitServer
<1> QED BY <1>1, ServerStep, PTL DEF Spec

(* TypeOK, for any threads, words, files, sizes and bounds: nothing but the names the   *)
(* server gives appears on the disk or in its list, and the capacity, a sum over the    *)
(* list, is a number (FileManager, Client::receive, clientTaskHandler).                 *)
THEOREM ServerTyped == Spec => []TypeOK
<1>1. ServerInv => TypeOK
  <2> SUFFICES ASSUME ServerInv PROVE TypeOK
    OBVIOUS
  <2>1. DOMAIN disk \subseteq Names /\ DOMAIN sections \subseteq Names \ {Directory}
    BY DEF ServerInv, NumberInv, DiskKnown, ListsStored, AreStored
  <2>2. \A f \in {disk, sections, found} : \A n \in DOMAIN f : f[n] \in {0, 1} \cup Sizes
    BY DEF ServerInv, SizesKnown
  <2>3. \A t \in Threads : /\ handler[t].todo \in 0 .. MaxBlocks + LengthSize
                           /\ wire[t].left \in 0 .. LengthSize + MaxBlocks * BlockSize
                           /\ wire[t].peer \in {"waiting", "shut", "reset"}
    BY DEF ServerInv, ThreadsTyped, Typed, MostBytes
  <2> QED BY <2>1, <2>2, <2>3 DEF TypeOK, ServerInv, OthersTyped, CurrentInv, RaisedKnown
<1> QED BY <1>1, ServerHolds, PTL

(* ListsAllButLone, for any files found at the beginning, any sizes and any number of   *)
(* saves and restarts: between two exceptions the list is all there is beside the       *)
(* directory, unless that is one file, which readSectionsInfo does not list; and the    *)
(* capacity is its sum (FileManager, and the handlers of the service thread).           *)
THEOREM ListIsDisk == Spec => []ListsAllButLone
<1>1. ServerInv => ListsAllButLone
  <2> SUFFICES ASSUME ServerInv, running,
                      service \in {"idle", "MAX_TABLE", "MAX_DICT", "MAX_MEMORY", "create"}
               PROVE  /\ sections = IF Cardinality(DOMAIN Beside) = 1 THEN NoFiles ELSE Beside
                      /\ capacity = Total(sections)
    BY DEF ListsAllButLone
  <2> DEFINE D == DOMAIN disk
  <2>1. sections = Listed(disk) /\ capacity = Total(sections)
    BY DEF ServerInv, CurrentInv, ListRead, Settled
  <2>2. IsFiniteSet(D) /\ Directory \in D /\ Cardinality(D) \in Nat
    BY NamesFinite, FS_Subset, FS_CardinalityType DEF ServerInv, NumberInv, DiskKnown
  <2>3. DOMAIN Beside = D \ {Directory}
    BY DEF Beside, Restrict
  <2>4. Cardinality(D \ {Directory}) = Cardinality(D) - 1
    <3> HIDE DEF D
    <3> QED BY <2>2, FS_RemoveElement
  <2>5. CASE Cardinality(D) > 2
    BY <2>1, <2>2, <2>3, <2>4, <2>5 DEF Listed, Beside
  <2>6. CASE Cardinality(D) = 2
    BY <2>1, <2>3, <2>4, <2>6 DEF Listed
  <2>7. CASE Cardinality(D) < 2
    <3>1. Cardinality(D \ {Directory}) = 0
      <4>1. IsFiniteSet(D \ {Directory}) /\ Cardinality(D \ {Directory}) \in Nat
        <5> HIDE DEF D
        <5> QED BY <2>2, FS_RemoveElement, FS_CardinalityType
      <4> QED BY <2>2, <2>4, <2>7, <4>1
    <3>2. D \ {Directory} = {}
      <4> HIDE DEF D
      <4> QED BY <2>2, <3>1, FS_RemoveElement, FS_EmptySet
    <3>3. Beside = NoFiles
      BY <3>2 DEF Beside, Restrict, NoFiles
    <3> QED BY <2>1, <2>2, <2>3, <2>7, <3>1, <3>3 DEF Listed
  <2> QED BY <2>1, <2>2, <2>5, <2>6, <2>7
<1> QED BY <1>1, ServerHolds, PTL

(* SectionsDense, for any number of saves, restarts and files of other kinds: getUnicName, *)
(* which counts a list and not the files, leaves no gap in the numbers of the sections,    *)
(* because no handler removes one and the list is read again after every save.             *)
THEOREM SectionsNumbered == Spec => []SectionsDense
<1>1. ServerInv => SectionsDense
  <2> SUFFICES ASSUME ServerInv PROVE SectionsDense
    OBVIOUS
  <2>1. PICK k \in 0 .. saves : SectionsOnDisk = 0 .. k - 1
    BY DEF ServerInv, NumberInv, Numbered
  <2>2. k \in Nat
    BY DEF ServerInv, NumberInv, Saving
  <2>3. Cardinality(0 .. k - 1) = k
    BY <2>2, FS_Interval
  <2> QED BY <2>1, <2>3 DEF SectionsDense
<1> QED BY <1>1, ServerHolds, PTL

(* OverwritesOnlyAlone, for any number of saves and restarts: a save that truncates a      *)
(* section finds nothing else beside the directory (getUnicName, HashTable::saveTable).    *)
THEOREM OverwritesAlone == Spec => OverwritesOnlyAlone
<1>1. ServerInv /\ [Next]_vars =>
        [service = "create" /\ service' = "write" /\ fileName \in DOMAIN disk
           => DOMAIN disk = {Directory, fileName}]_storeVars
  <2> SUFFICES ASSUME ServerInv, service = "create", fileName \in DOMAIN disk
               PROVE  DOMAIN disk = {Directory, fileName}
    OBVIOUS
  <2>1. PICK j \in 0 .. saves : /\ fileName = Stored(j)
                                /\ \/ SectionsOnDisk = 0 .. j - 1
                                   \/ j = 0 /\ DOMAIN disk = {Directory, fileName}
    BY DEF ServerInv, NumberInv, Named
  <2>2. j \in 0 .. MaxSaves /\ j \in Nat
    BY OwnSectionsAssumption DEF ServerInv, NumberInv, Saving
  <2>3. j \in SectionsOnDisk
    BY <2>1, <2>2 DEF SectionsOnDisk, Stored
  <2>4. SectionsOnDisk # 0 .. j - 1
    BY <2>2, <2>3
  <2> QED BY <2>1, <2>4
<1> QED BY <1>1, ServerHolds, PTL DEF Spec, OverwritesOnlyAlone

(* Terminates, for any threads, words and bounds: the process ends for a connection that   *)
(* fails, a recv that came short, a list copied while it was assigned or sorted, a sort of *)
(* files of one size, or a list copied that names a section still on the disk              *)
(* (check_net_error, Client::receive, getSections, decreaseStoredData, loadItemValue).     *)
THEOREM EndsForCause == Spec => Terminates
<1>1. ServerInv /\ [Next]_vars =>
        [running /\ ~running' =>
           \/ \E t \in Threads : handler[t].at \in {"length", "blocks"}
                                   /\ (Reset(t) \/ handler[t].short \/ handler[t].at = "length")
           \/ CopiedInChange
           \/ service = "sort" /\ SortUndefined
           \/ \E t \in Threads : /\ handler[t].at = "load"
                                /\ \E n \in SectionsOnDisk :
                                     InStore(SectionName(n)) \in handler[t].copy]_vars
  <2> SUFFICES ASSUME ServerInv, Next, running, ~running'
               PROVE  \/ \E t \in Threads :
                           handler[t].at \in {"length", "blocks"}
                             /\ (Reset(t) \/ handler[t].short \/ handler[t].at = "length")
                      \/ CopiedInChange
                      \/ service = "sort" /\ SortUndefined
                      \/ \E t \in Threads : /\ handler[t].at = "load"
                                           /\ \E n \in SectionsOnDisk :
                                                InStore(SectionName(n)) \in handler[t].copy
    OBVIOUS
  <2>0. SUFFICES ASSUME ~(service = "sort" /\ SortUndefined)
                 PROVE  \/ \E t \in Threads :
                             handler[t].at \in {"length", "blocks"}
                               /\ (Reset(t) \/ handler[t].short \/ handler[t].at = "length")
                        \/ CopiedInChange
                        \/ \E t \in Threads : /\ handler[t].at = "load"
                                             /\ \E n \in SectionsOnDisk :
                                                  InStore(SectionName(n)) \in handler[t].copy
    OBVIOUS
  <2>1. ~(\E t \in Threads : Steps(t)) /\ ~Service /\ ~Restart
    <3>1. ~SortBreaks
      BY <2>0 DEF SortBreaks
    <3> QED
      BY <3>1, Zenon
      DEF Steps, Accept, PeerFails, ReceiveLength, ReceiveBlock, Parse, Get, TestFlag,
          CopySections, Load, Add, Send, Service, ServiceStep, ClearTables, Restart, runVars
  <2>2. PICK t \in Threads : Throws(t)
    BY <2>1, Zenon DEF Next, Thread, Reads, Handles, Steps, Throws
  <2>3. CASE LengthThrows(t) \/ ReceiveError(t) \/ ParseThrows(t)
    BY <2>3 DEF LengthThrows, ReceiveError, ParseThrows, At
  <2>4. CASE CopyBreaks(t)
    <3>1. Deletable = {}
      BY NothingDeletable DEF ServerInv
    <3>2. handler[t].at = "copy" /\ Changing
      BY <2>4 DEF CopyBreaks, At
    <3> QED BY <3>1, <3>2 DEF Changing, CopiedInChange
  <2>5. CASE LoadBreaks(t)
    <3>1. handler[t].at = "load" /\ LoadThrows(handler[t].copy)
      BY <2>5 DEF LoadBreaks, At
    <3>2. PICK n \in handler[t].copy : HasType(n, "Section")
      BY <3>1 DEF LoadThrows
    <3>3. AreStored(handler[t].copy)
      BY DEF ServerInv, CopyInv
    <3>4. PICK k \in 0 .. MaxSaves : n = Stored(k)
      BY <3>2, <3>3, SectionNames DEF ListsStored, AreStored
    <3>5. k \in SectionsOnDisk
      BY <3>2, <3>3, <3>4 DEF ListsStored, AreStored, SectionsOnDisk, Stored
    <3> QED BY <3>1, <3>2, <3>4, <3>5 DEF Stored
  <2> QED BY <2>2, <2>3, <2>4, <2>5 DEF Throws
<1> QED BY <1>1, ServerHolds, PTL DEF Spec, Terminates
=============================================================================
