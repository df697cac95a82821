------------------------ MODULE HashTableMap_proofs ------------------------
(***************************************************************************)
(* HashTable implements SourceMap when no two operations overlap (Serial),  *)
(* for any keys, hashes, values and sizes.                                  *)
(***************************************************************************)
EXTENDS HashTableSerial_proofs

(* A step SourceMap allows: one of its own, or none. *)
MapStep == [Map!Next]_(Map!vars)

(* What get finds for key k when its head is h, or in the vectors s and c. *)
ShownAt(k, h, c) ==
  IF h.value = <<>> THEN <<>>
  ELSE IF h.key = k THEN h.value
  ELSE IF h.next \in 1..Len(c) /\ c[h.next].key = k THEN c[h.next].value
  ELSE <<>>
Shown(k, s, c) == ShownAt(k, s[Home(k, s)], c)
KeysOf(c) == {c[n].key : n \in 1..Len(c)}

(* Where a thread has found that the head of its cell is another key's. *)
Meeting == {"colRead", "colHop", "colCount", "colAppend", "colPush", "colLink"}

(* What a thread that goes on at p, with locals l, has seen of the vectors s and c: more *)
(* than it Knows, which is what the links need.                                          *)
Sees(p, l, s, c) ==
  LET h == s[l.idx]
  IN  /\ p \in Getting => l.code = -1 /\ l.val = <<>>
      /\ p = "getHop" => /\ l.cur = s[Home(l.key, s)]
                         /\ l.cur.value # <<>> /\ l.cur.key # l.key
      /\ p \in {"addStore"} \cup Colliding => l.code = 0
      /\ p = "addStore" => h.value = <<>>
      /\ p \in Meeting => h.key # l.key
      /\ p = "colAppend" => /\ l.cur.key = l.key
                            /\ h.next \in 1..Len(c) /\ l.cur = c[h.next]
      /\ p \in {"colPush", "colLink"} /\ h.next \in 1..Len(c) => c[h.next].key # l.key
      /\ p = "colLink" => c[l.pos].value = l.val

(* While increaseTable fills its vector, no key has a value there but those set aside. *)
Filling == {"copyItem", "copyColision", "setFlag", "rendezvous", "swapItems"}
KeysIn(s) == {s[b].key : b \in Full(s)}
OnlyAside == pc[Service] \in Filling => KeysIn(sv.new) \subseteq KeysOf(colisions)

MapInv == /\ OnlyAside
          /\ \A t \in Threads : Sees(Onward(pc[t], loc[t]), loc[t], items, colisions)

(***************************************************************************)
(* What the vectors show.                                                  *)
(***************************************************************************)
LEMMA FoundIsShown ==
  ASSUME NEW k, NEW h, NEW c, NEW R,
         R = {it \in ChainIn(h, c) : h.value # <<>> /\ it.key = k}
  PROVE  (IF R = {} THEN <<>> ELSE IF h.key = k THEN h.value
          ELSE (CHOOSE it \in R : TRUE).value) = ShownAt(k, h, c)
<1>1. CASE h.value = <<>> \/ h.key = k
  BY <1>1 DEF ChainIn, ShownAt
<1>2. CASE /\ h.value # <<>> /\ h.key # k
           /\ h.next \in 1..Len(c) /\ c[h.next].key = k
  <2>1. R = {c[h.next]}
    BY <1>2 DEF ChainIn
  <2>2. R # {} /\ (CHOOSE it \in R : TRUE) = c[h.next]
    BY <2>1
  <2>3. ShownAt(k, h, c) = c[h.next].value
    BY <1>2 DEF ShownAt
  <2> QED BY <1>2, <2>2, <2>3
<1>3. CASE /\ h.value # <<>> /\ h.key # k
           /\ ~(h.next \in 1..Len(c) /\ c[h.next].key = k)
  <2>1. R = {}
    BY <1>3 DEF ChainIn
  <2> QED BY <1>3, <2>1 DEF ShownAt
<1> QED BY <1>1, <1>2, <1>3

LEMMA StoredShown ==
  /\ Stored = [k \in Keyed |-> Shown(k, items, colisions)]
  /\ Stored' = [k \in Keyed |-> Shown(k, items', colisions')]
<1>1. ASSUME NEW k PROVE Lookup(k) = Shown(k, items, colisions)
  <2> DEFINE R == Reached(k)
             h == HeadOf(k)
  <2>1. R = {it \in ChainIn(h, colisions) : h.value # <<>> /\ it.key = k}
    BY DEF Reached, Chain, ChainIn
  <2>2. h = items[Home(k, items)]
    BY DEF HeadOf, Home
  <2>3. Lookup(k) = IF R = {} THEN <<>> ELSE IF h.key = k THEN h.value
                    ELSE (CHOOSE it \in R : TRUE).value
    BY Zenon DEF Lookup
  <2> HIDE DEF R, h
  <2>4. Lookup(k) = ShownAt(k, h, colisions)
    BY <2>1, <2>3, FoundIsShown
  <2> QED BY <2>2, <2>4 DEF Shown
<1>2. ASSUME NEW k PROVE Lookup(k)' = Shown(k, items', colisions')
  <2> DEFINE R == Reached(k)'
             h == HeadOf(k)'
  <2>1. R = {it \in ChainIn(h, colisions') : h.value # <<>> /\ it.key = k}
    BY DEF Reached, Chain, ChainIn
  <2>2. h = items'[Home(k, items')]
    BY DEF HeadOf, Home, Cell
  <2>3. Lookup(k)' = IF R = {} THEN <<>> ELSE IF h.key = k THEN h.value
                     ELSE (CHOOSE it \in R : TRUE).value
    BY Zenon DEF Lookup
  <2> HIDE DEF R, h
  <2>4. Lookup(k)' = ShownAt(k, h, colisions')
    BY <2>1, <2>3, FoundIsShown
  <2> QED BY <2>2, <2>4 DEF Shown
<1> QED BY <1>1, <1>2 DEF Stored

(* Writing one head changes what is shown for the keys of that cell only. *)
LEMMA ShownWritten ==
  ASSUME NEW s \in Seq(Item), NEW c, NEW n \in Nat, n >= 1, n <= Len(s), NEW it, NEW k
  PROVE  Shown(k, Written(s, n, it), c) =
           IF Home(k, s) = n THEN ShownAt(k, it, c) ELSE Shown(k, s, c)
<1> DEFINE new == Written(s, n, it)
<1>1. Len(new) = Len(s) /\ Home(k, new) = Home(k, s)
  BY DEF Written, Home
<1>2. new[Home(k, s)] = IF Home(k, s) = n THEN it ELSE s[Home(k, s)]
  BY DEF Written
<1> QED BY <1>1, <1>2 DEF Shown

(* Keys of one cell are of one class. *)
LEMMA ClassMates ==
  ASSUME NEW s \in Nat, s > 0, Multiple(s), NEW k \in Keyed, NEW l \in Keyed,
         Cell(k, s) = Cell(l, s)
  PROVE  l \in Class[k]
<1>1. InClass(k, Cell(k, s)) /\ InClass(l, Cell(l, s))
  BY CellsOfKeys
<1> QED BY <1>1 DEF Class, InClass

LEMMA OperationIs ==
  ASSUME NEW p, NEW l
  PROVE  /\ p \in Adding => Operation(p, l) = [at |-> "add", key |-> l.key, val |-> l.val]
         /\ p \in Getting => Operation(p, l) = [at |-> "get", key |-> l.key]
         /\ p \in Ending /\ l.code = -1 => Operation(p, l) = [at |-> "got", val |-> l.val]
         /\ p \in Ending /\ l.code # -1 => Operation(p, l) = [at |-> "added", code |-> l.code]
         /\ p \notin Adding \cup Getting \cup Ending => Operation(p, l) = [at |-> "none"]
<1>1. Adding \cap Getting = {} /\ Adding \cap Ending = {} /\ Getting \cap Ending = {}
  BY DEF Adding, Getting, Ending
<1> QED BY <1>1 DEF Operation

(***************************************************************************)
(* A step of the one thread that is not idle.                              *)
(***************************************************************************)
LEMMA NothingSeen ==
  ASSUME NEW p, NEW l, NEW s, NEW c, p \notin Adding \cup Getting
  PROVE  Sees(p, l, s, c)
BY DEF Sees, Adding, Getting, Colliding, Meeting

LEMMA MapFacts ==
  ASSUME MapInv, NEW t \in Threads
  PROVE  /\ Sees(Onward(pc[t], loc[t]), loc[t], items, colisions)
         /\ pc[t] \notin CheckPlaces => Sees(pc[t], loc[t], items, colisions)
BY DEF MapInv, Onward

(* One thread moves and its answer with it, the others stay idle. *)
LEMMA MapThreads ==
  ASSUME Inv, NEW t \in Threads, NEW p, NEW l, \A u \in Threads : u # t => pc[u] = "idle",
         pc' = [pc EXCEPT ![t] = p], loc' = [loc EXCEPT ![t] = l],
         Sees(Onward(p, l), l, items', colisions'), OnlyAside'
  PROVE  /\ MapInv'
         /\ Ops = [u \in Threads |-> Ops[u]]
         /\ Ops[t] = Operation(Onward(pc[t], loc[t]), loc[t])
         /\ \A u \in Threads : u # t => Ops[u] = [at |-> "none"]
         /\ Map!Answered(t, Operation(Onward(p, l), l))
<1>1. pc = [u \in Threads |-> pc[u]] /\ loc = [u \in Threads |-> loc[u]]
  BY DEF Inv, ThreadsOK
<1>2. /\ pc'[t] = p /\ loc'[t] = l
      /\ \A u \in Threads : u # t => pc'[u] = pc[u] /\ loc'[u] = loc[u]
  BY <1>1
<1>3. ASSUME NEW u \in Threads, u # t
      PROVE  /\ Onward(pc[u], loc[u]) = "idle" /\ Onward(pc'[u], loc'[u]) = "idle"
             /\ "idle" \notin Adding \cup Getting \cup Ending
  BY <1>2, <1>3 DEF Onward, CheckPlaces, Adding, Getting, Ending
<1>4. ASSUME NEW u \in Threads
      PROVE  Sees(Onward(pc'[u], loc'[u]), loc'[u], items', colisions')
  <2>1. CASE u = t
    BY <1>2, <2>1
  <2>2. CASE u # t
    BY <1>3, <2>2, NothingSeen
  <2> QED BY <2>1, <2>2
<1>5. MapInv'
  BY <1>4 DEF MapInv
<1>6. /\ Ops = [u \in Threads |-> Ops[u]]
      /\ \A u \in Threads : Ops[u] = Operation(Onward(pc[u], loc[u]), loc[u])
  BY DEF Ops
<1>7. /\ Ops' = [u \in Threads |-> Ops'[u]]
      /\ \A u \in Threads : Ops'[u] = Operation(Onward(pc'[u], loc'[u]), loc'[u])
  BY DEF Ops, Operation, Onward
<1>8. \A u \in Threads : u # t => Ops[u] = [at |-> "none"] /\ Ops'[u] = [at |-> "none"]
  BY <1>3, <1>6, <1>7, OperationIs
<1>9. Map!Answered(t, Operation(Onward(p, l), l))
  BY <1>2, <1>6, <1>7, <1>8 DEF Map!Answered
<1> QED BY <1>5, <1>6, <1>8, <1>9

(* A step of add, of get or of checkIncreaseProcess: what is set aside is in colisions. *)
LEMMA CallMoves ==
  ASSUME Inv, SerialInv, NEW t \in Threads, NEW p, NEW l, pc[t] # "idle",
         pc[t] \notin Unlinking \cup Filling, p \notin Unlinking \cup Filling,
         pc' = [pc EXCEPT ![t] = p], loc' = [loc EXCEPT ![t] = l],
         Sees(Onward(p, l), l, items', colisions')
  PROVE  /\ MapInv'
         /\ Ops = [u \in Threads |-> Ops[u]]
         /\ Ops[t] = Operation(Onward(pc[t], loc[t]), loc[t])
         /\ Map!Answered(t, Operation(Onward(p, l), l))
         /\ Aside = KeysOf(colisions) /\ Aside' = KeysOf(colisions')
<1>1. pc = [u \in Threads |-> pc[u]] /\ Service \in Threads
  BY DEF Inv, ThreadsOK, Threads
<1>2. \A u \in Threads : u # t => pc[u] = "idle"
  BY OnlyOne
<1>3. "idle" \notin Unlinking \cup Filling
  BY DEF Unlinking, Filling
<1>4. pc[Service] \notin Unlinking \cup Filling /\ pc'[Service] \notin Unlinking \cup Filling
  BY <1>1, <1>2, <1>3
<1>5. OnlyAside'
  BY <1>4 DEF OnlyAside
<1>6. Aside = KeysOf(colisions) /\ Aside' = KeysOf(colisions')
  BY <1>4 DEF Aside, KeysOf
<1>7. /\ MapInv'
      /\ Ops = [u \in Threads |-> Ops[u]]
      /\ Ops[t] = Operation(Onward(pc[t], loc[t]), loc[t])
      /\ Map!Answered(t, Operation(Onward(p, l), l))
  BY <1>2, <1>5, MapThreads
<1> QED BY <1>6, <1>7

(* ... that SourceMap does not see. *)
LEMMA SilentMove ==
  ASSUME Inv, SerialInv, NEW t \in Threads, NEW p, NEW l, pc[t] # "idle",
         pc[t] \notin Unlinking \cup Filling, p \notin Unlinking \cup Filling,
         pc' = [pc EXCEPT ![t] = p], loc' = [loc EXCEPT ![t] = l],
         UNCHANGED <<items, colisions>>,
         Sees(Onward(p, l), l, items, colisions),
         Operation(Onward(p, l), l) = Operation(Onward(pc[t], loc[t]), loc[t])
  PROVE  MapInv' /\ MapStep
<1>1. Sees(Onward(p, l), l, items', colisions')
  OBVIOUS
<1>2. /\ MapInv'
      /\ Ops = [u \in Threads |-> Ops[u]]
      /\ Ops[t] = Operation(Onward(pc[t], loc[t]), loc[t])
      /\ Map!Answered(t, Operation(Onward(p, l), l))
      /\ Aside = KeysOf(colisions) /\ Aside' = KeysOf(colisions')
  BY <1>1, CallMoves
<1>3. Ops' = Ops
  BY <1>2 DEF Map!Answered
<1>4. Aside' = Aside /\ Stored' = Stored
  BY <1>2, StoredShown
<1> QED BY <1>2, <1>3, <1>4 DEF MapStep, Map!vars

LEMMA StepOf ==
  ASSUME NEW t \in Threads,
         \/ Map!Call(t) \/ Map!Put(t) \/ Map!SetAside(t) \/ Map!Displace(t) \/ Map!Misplace(t)
         \/ Map!Refuse(t) \/ Map!Answer(t) \/ Map!Return(t)
  PROVE  MapStep
BY DEF MapStep, Map!Next

LEMMA StoredChanges ==
  ASSUME NEW x \in Keyed, NEW v,
         \A k \in Keyed : Shown(k, items', colisions') =
                            IF k = x THEN v ELSE Shown(k, items, colisions)
  PROVE  Stored' = [Stored EXCEPT ![x] = v]
BY StoredShown

(* What a thread in add or get knows, its cell and what get would find. *)
LEMMA CallFacts ==
  ASSUME Inv, SerialInv, MapInv, NEW t \in Threads, pc[t] \in Adding \cup Getting
  PROVE  LET h == loc[t]
             n == h.idx
         IN  /\ pc[t] # "idle" /\ pc[t] \notin Unlinking \cup Filling
             /\ Onward(pc[t], h) = pc[t] /\ pc[t] \notin CheckPlaces
             /\ ThreadOK(pc[t], h) /\ Local(h)
             /\ Knows(pc[t], h, items, colisions) /\ Sees(pc[t], h, items, colisions)
             /\ items \in Seq(Item) /\ colisions \in Seq(Item) /\ Sound(items, colisions)
             /\ Len(items) \in Nat /\ Len(items) > 0 /\ Multiple(Len(items))
             /\ size = Len(items)
             /\ loc' = loc => loc' = [loc EXCEPT ![t] = h]
             /\ pc[t] \in AtCell =>
                  /\ n = Home(h.key, items) /\ n \in 1..Len(items) /\ items[n] \in Item
                  /\ Stored[h.key] = ShownAt(h.key, items[n], colisions)
<1> DEFINE h == loc[t]
           n == h.idx
<1>1. /\ pc[t] # "idle" /\ pc[t] \notin Unlinking \cup Filling /\ pc[t] \notin CheckPlaces
      /\ pc[t] \notin Assigning \cup {"storeSize"}
  BY DEF Adding, Getting, Unlinking, Filling, CheckPlaces, Assigning
<1>2. /\ ThreadOK(pc[t], h) /\ Local(h)
      /\ Knows(pc[t], h, items, colisions) /\ Sees(pc[t], h, items, colisions)
      /\ items \in Seq(Item) /\ colisions \in Seq(Item)
      /\ loc' = loc => loc' = [loc EXCEPT ![t] = h]
  BY <1>1, SerialFacts, MapFacts
<1>3. Onward(pc[t], h) = pc[t]
  BY <1>1 DEF Onward
<1>4. Sound(items, colisions)
  BY DEF SerialInv
<1>5. Len(items) = size
  <2>1. pc[Service] = "idle" \/ pc[Service] = pc[t]
    BY <1>1, OnlyOne DEF Threads
  <2>2. pc[Service] \notin Assigning \cup {"storeSize"}
    BY <1>1, <2>1 DEF Assigning
  <2> QED BY <2>2 DEF Inv, ServiceOK
<1>6. Len(items) \in Nat /\ Len(items) > 0 /\ Multiple(Len(items))
  BY <1>5 DEF Inv, TableOK
<1>7. ASSUME pc[t] \in AtCell
      PROVE  /\ n = Home(h.key, items) /\ n \in 1..Len(items) /\ items[n] \in Item
             /\ Stored[h.key] = ShownAt(h.key, items[n], colisions)
  <2>1. n = Home(h.key, items) /\ h.key \in Keyed
    BY <1>2, <1>7 DEF Knows, Local
  <2>2. n \in 1..Len(items)
    BY <1>6, <2>1, CellsOfKeys DEF Home
  <2>3. items[n] \in Item
    BY <1>2, <2>2
  <2>4. Stored[h.key] = Shown(h.key, items, colisions)
    BY <2>1, StoredShown
  <2> HIDE DEF h
  <2>5. Stored[h.key] = ShownAt(h.key, items[n], colisions)
    BY <2>1, <2>4 DEF Shown
  <2> QED BY <2>1, <2>2, <2>3, <2>5
<1> QED BY <1>1, <1>2, <1>3, <1>4, <1>5, <1>6, <1>7

(***************************************************************************)
(* Steps of add and get that SourceMap does not see.                        *)
(***************************************************************************)
LEMMA ChecksKeepMap ==
  ASSUME Inv, SerialInv, MapInv, NEW t \in Threads,
         CheckFlag(t) \/ LoadStopped(t) \/ StoreStopped(t) \/ PassMutex(t)
  PROVE  MapInv' /\ MapStep
<1> DEFINE h == loc[t]
<1>1. /\ ThreadOK(pc[t], h) /\ Local(h) /\ Sees(Onward(pc[t], h), h, items, colisions)
      /\ loc' = loc => loc' = [loc EXCEPT ![t] = h]
  BY SerialFacts, MapFacts
<1>2. pc[t] \in CheckPlaces
  BY DEF CheckFlag, LoadStopped, StoreStopped, PassMutex, Step, CheckPlaces
<1>3. pc[t] # "idle" /\ Onward(pc[t], h) = h.ret /\ pc[t] \notin Unlinking \cup Filling
  BY <1>2 DEF Onward, CheckPlaces, Unlinking, Filling
<1>4. /\ h.ret \in TouchesItem /\ h.ret \notin Unlinking \cup Filling
      /\ h.ret \notin CheckPlaces
  BY <1>1, <1>2 DEF ThreadOK, TouchesItem, Unlinking, Filling, CheckPlaces
<1>5. UNCHANGED <<items, colisions>>
  BY DEF CheckFlag, LoadStopped, StoreStopped, PassMutex, table
<1>6. ASSUME NEW p \in {"stopLoad", "stopInc", "stopped", "goLoad", "goDec", h.ret},
             NEW l, Local(l), l.key = h.key, l.val = h.val, l.idx = h.idx, l.cur = h.cur,
             l.pos = h.pos, l.code = h.code, l.ret = h.ret,
             pc' = [pc EXCEPT ![t] = p], loc' = [loc EXCEPT ![t] = l]
      PROVE  MapInv' /\ MapStep
  <2>1. Onward(p, l) = h.ret /\ p \notin Unlinking \cup Filling
    BY <1>4, <1>6 DEF Onward, CheckPlaces, Unlinking, Filling
  <2>2. Sees(Onward(p, l), l, items, colisions)
    <3> HIDE DEF h
    <3>1. Sees(h.ret, h, items, colisions)
      BY <1>1, <1>3
    <3>2. Sees(h.ret, l, items, colisions)
      BY <1>6, <3>1 DEF Sees
    <3> QED BY <2>1, <3>2
  <2>3. Operation(Onward(p, l), l) = Operation(Onward(pc[t], h), h)
    BY <1>3, <1>6, <2>1 DEF Operation
  <2> QED BY <1>3, <1>5, <1>6, <2>1, <2>2, <2>3, SilentMove
<1>7. CASE CheckFlag(t) \/ PassMutex(t)
  <2>1. PICK p \in {"stopLoad", "stopInc", "stopped", "goLoad", "goDec", h.ret} :
          pc' = [pc EXCEPT ![t] = p]
    BY <1>7 DEF CheckFlag, PassMutex, Step
  <2>2. loc' = [loc EXCEPT ![t] = h]
    BY <1>1, <1>7 DEF CheckFlag, PassMutex
  <2> HIDE DEF h
  <2> QED BY <1>1, <1>6, <2>1, <2>2
<1>8. ASSUME NEW x \in Nat, loc' = [loc EXCEPT ![t].reg = x], LoadStopped(t) \/ StoreStopped(t)
      PROVE  MapInv' /\ MapStep
  <2> DEFINE l == PutReg(h, x)
  <2>1. loc' = [loc EXCEPT ![t] = l]
    BY <1>8, LocalsOfThreads DEF PutReg
  <2>2. Local(l) /\ l.key = h.key /\ l.idx = h.idx /\ l.cur = h.cur /\ l.ret = h.ret
    BY <1>1, RegPut
  <2>4. l.val = h.val /\ l.pos = h.pos /\ l.code = h.code
    BY <1>1, FieldsPut
  <2>3. PICK p \in {"stopLoad", "stopInc", "stopped", "goLoad", "goDec", h.ret} :
          pc' = [pc EXCEPT ![t] = p]
    BY <1>8 DEF LoadStopped, StoreStopped, Step
  <2> HIDE DEF l, h
  <2> QED BY <1>6, <2>1, <2>2, <2>3, <2>4
<1>9. currentStopedThreadCount \in Nat /\ 0 \in Nat
  BY Wraps, ThreadFacts
<1> QED BY <1>7, <1>8, <1>9 DEF LoadStopped, StoreStopped

LEMMA SizesKeepMap ==
  ASSUME Inv, SerialInv, MapInv, NEW t \in Threads, AddSize(t) \/ GetSize(t)
  PROVE  MapInv' /\ MapStep
<1> DEFINE h == loc[t]
           x == Cell(h.key, size)
<1>1. pc[t] \in {"addSize", "getSize"} /\ pc' = [pc EXCEPT ![t] = "check"]
      /\ UNCHANGED <<items, colisions>>
  BY DEF AddSize, GetSize, StepChecked, Step, table
<1>2. /\ Local(h) /\ Sees(pc[t], h, items, colisions) /\ Onward(pc[t], h) = pc[t]
      /\ pc[t] # "idle" /\ pc[t] \notin Unlinking \cup Filling
      /\ size \in Nat /\ size > 0
  BY <1>1, CallFacts DEF Adding, Getting
<1>3. x \in Nat
  BY <1>2, CellsOfKeys DEF Local
<1> HIDE DEF x
<1>4. PICK r \in {"addRead", "getRead"} : /\ loc' = [loc EXCEPT ![t].idx = x, ![t].ret = r]
                                          /\ r = "getRead" <=> pc[t] = "getSize"
  BY <1>1 DEF AddSize, GetSize, StepChecked, Step, x
<1> DEFINE l == PutIdxRet(h, x, r)
<1>5. loc' = [loc EXCEPT ![t] = l]
  BY <1>4, LocalsOfThreads DEF PutIdxRet
<1>6. l.key = h.key /\ l.ret = r
  BY <1>2, <1>3, IdxRetPut
<1>7. l.code = h.code /\ l.val = h.val
  BY <1>2, FieldsPut
<1> HIDE DEF l
<1>8. Onward("check", l) = r /\ "check" \notin Unlinking \cup Filling
  BY <1>6 DEF Onward, CheckPlaces, Unlinking, Filling
<1>9. Sees(r, l, items, colisions)
  BY <1>1, <1>2, <1>4, <1>6, <1>7 DEF Sees, Getting, Colliding, Meeting
<1>10. Operation(r, l) = Operation(pc[t], h)
  <2>1. CASE r = "addRead"
    <3>1. pc[t] \in Adding /\ r \in Adding
      BY <1>1, <1>4, <2>1 DEF Adding
    <3> QED BY <1>6, <1>7, <3>1, OperationIs
  <2>2. CASE r = "getRead"
    <3>1. pc[t] \in Getting /\ r \in Getting
      BY <1>4, <2>2 DEF Getting
    <3> QED BY <1>6, <3>1, OperationIs
  <2> QED BY <2>1, <2>2
<1> HIDE DEF h
<1> QED BY <1>1, <1>2, <1>5, <1>8, <1>9, <1>10, SilentMove DEF h

(* A step of add that reads. *)
LEMMA AddGoesOn ==
  ASSUME Inv, SerialInv, MapInv, NEW t \in Threads, pc[t] \in Adding,
         NEW p, NEW l, Onward(p, l) \in Adding, p \notin Unlinking \cup Filling,
         l.key = loc[t].key, l.val = loc[t].val,
         pc' = [pc EXCEPT ![t] = p], loc' = [loc EXCEPT ![t] = l],
         UNCHANGED <<items, colisions>>, Sees(Onward(p, l), l, items, colisions)
  PROVE  MapInv' /\ MapStep
<1>1. pc[t] # "idle" /\ pc[t] \notin Unlinking \cup Filling /\ Onward(pc[t], loc[t]) = pc[t]
  BY CallFacts
<1>2. Operation(Onward(p, l), l) = Operation(Onward(pc[t], loc[t]), loc[t])
  BY <1>1, OperationIs
<1> QED BY <1>1, <1>2, SilentMove

LEMMA ReadKeepsMap ==
  ASSUME Inv, SerialInv, MapInv, NEW t \in Threads, AddRead(t)
  PROVE  MapInv' /\ MapStep
<1> DEFINE h == loc[t]
           c == items[h.idx]
           l == PutCur(h, c)
<1>1. /\ pc[t] \in Adding /\ pc' = [pc EXCEPT ![t] = "addDecide"] /\ pc[t] \in AtCell
      /\ UNCHANGED <<items, colisions>>
  BY DEF AddRead, Step, table, Adding, AtCell, TouchesItem
<1>2. Local(h) /\ c \in Item
  BY <1>1, CallFacts
<1>3. l.key = h.key
  BY <1>2, CurPut
<1>4. l.val = h.val
  BY <1>2, FieldsPut
<1>5. loc' = [loc EXCEPT ![t] = l]
  BY LocalsOfThreads DEF AddRead, PutCur
<1> HIDE DEF l
<1>6. /\ Onward("addDecide", l) = "addDecide" /\ "addDecide" \in Adding
      /\ "addDecide" \notin Unlinking \cup Filling
  BY DEF Onward, CheckPlaces, Adding, Unlinking, Filling
<1>7. Sees("addDecide", l, items, colisions)
  BY DEF Sees, Getting, Colliding, Meeting
<1> QED BY <1>1, <1>3, <1>4, <1>5, <1>6, <1>7, AddGoesOn

(* add refuses, or has seen whether the head of the cell is free, the key's or another's. *)
LEMMA DecideKeepsMap ==
  ASSUME Inv, SerialInv, MapInv, NEW t \in Threads, AddDecide(t)
  PROVE  MapInv' /\ MapStep
<1> DEFINE h == loc[t]
           n == h.idx
<1>1. /\ pc[t] = "addDecide" /\ pc[t] \in Adding /\ pc[t] \in AtCell
      /\ UNCHANGED <<items, colisions>>
  BY DEF AddDecide, Step, table, Adding, AtCell
<1>2. /\ Local(h) /\ Knows(pc[t], h, items, colisions) /\ Onward(pc[t], h) = pc[t]
      /\ Stored[h.key] = ShownAt(h.key, items[n], colisions)
      /\ pc[t] # "idle" /\ pc[t] \notin Unlinking \cup Filling
  BY <1>1, CallFacts
<1>3. h.cur = items[n]
  BY <1>1, <1>2 DEF Knows
<1> DEFINE o == IF currentCapacity + ItemCapacity(h.val) >= MaxCapacity THEN <<"return", 2>>
                ELSE IF h.cur.value = <<>>
                  THEN IF count >= Threshold(size) THEN <<"return", 1>> ELSE <<"addStore", 0>>
                ELSE IF h.cur.key = h.key THEN <<"addAppend", 0>>
                ELSE <<"check", 0>>
           p == o[1]
           d == o[2]
<1>4. /\ p \in {"return", "addStore", "addAppend", "check"}
      /\ p = "return" => d = 2 \/ (d = 1 /\ h.cur.value = <<>>)
      /\ p # "return" => d = 0
      /\ p = "addStore" => h.cur.value = <<>>
      /\ p = "check" => h.cur.key # h.key
  OBVIOUS
<1>5. pc' = [pc EXCEPT ![t] = p]
  BY Zenon DEF AddDecide, Step
<1>6. loc' = [loc EXCEPT ![t].code = d, ![t].ret = "colRead"]
  BY Zenon DEF AddDecide
<1> HIDE DEF o
<1> DEFINE l == PutCodeRet(h, d, "colRead")
<1>7. l.key = h.key /\ l.idx = n /\ l.cur = h.cur /\ l.ret = "colRead"
  BY <1>2, CodeRetPut
<1>8. l.val = h.val /\ l.code = d
  BY <1>2, FieldsPut
<1>9. loc' = [loc EXCEPT ![t] = l]
  BY <1>6, LocalsOfThreads DEF PutCodeRet
<1> HIDE DEF l
<1>10. Onward(p, l) = (IF p = "check" THEN "colRead" ELSE p) /\ p \notin Unlinking \cup Filling
  BY <1>4, <1>7 DEF Onward, CheckPlaces, Unlinking, Filling
<1>11. Sees(Onward(p, l), l, items, colisions)
  BY <1>3, <1>4, <1>7, <1>8, <1>10 DEF Sees, Getting, Colliding, Meeting
<1>12. CASE p # "return"
  <2>1. Onward(p, l) \in Adding
    BY <1>4, <1>10, <1>12 DEF Adding
  <2> QED BY <1>1, <1>5, <1>7, <1>8, <1>9, <1>10, <1>11, <2>1, AddGoesOn
<1>13. CASE p = "return"
  <2>1. /\ MapInv' /\ Ops[t] = Operation(pc[t], h)
        /\ Map!Answered(t, Operation("return", l))
        /\ Aside = KeysOf(colisions) /\ Aside' = KeysOf(colisions')
    <3>1. Sees(Onward(p, l), l, items', colisions')
      BY <1>1, <1>11
    <3> QED BY <1>2, <1>5, <1>9, <1>10, <1>13, <3>1, CallMoves
  <2>2. Ops[t] = [at |-> "add", key |-> h.key, val |-> h.val]
    BY <1>1, <2>1, OperationIs
  <2>3. Operation("return", l) = [at |-> "added", code |-> d]
    BY <1>4, <1>8, <1>13, OperationIs DEF Ending
  <2>4. UNCHANGED <<Stored, Aside>>
    BY <1>1, <2>1, StoredShown
  <2>5. d = 1 => Stored[h.key] = <<>>
    BY <1>2, <1>3, <1>4, <1>13 DEF ShownAt
  <2>6. Map!Refuse(t)
    BY <1>4, <1>13, <2>1, <2>2, <2>3, <2>4, <2>5 DEF Map!Refuse, Map!Added
  <2> QED BY <2>1, <2>6, StepOf
<1> QED BY <1>12, <1>13

(* handleCollision looks at the head, then at the collision it names. *)
LEMMA LooksKeepMap ==
  ASSUME Inv, SerialInv, MapInv, NEW t \in Threads, ColRead(t) \/ ColHop(t) \/ ColCount(t)
  PROVE  MapInv' /\ MapStep
<1> DEFINE h == loc[t]
           n == h.idx
<1>1. /\ pc[t] \in {"colRead", "colHop", "colCount"} /\ pc[t] \in Adding /\ pc[t] \in AtCell
      /\ UNCHANGED <<items, colisions>>
  BY DEF ColRead, ColHop, ColCount, AfterLook, Step, table, Adding, AtCell, TouchesItem
<1>2. /\ Local(h) /\ Knows(pc[t], h, items, colisions) /\ Sees(pc[t], h, items, colisions)
      /\ ThreadOK(pc[t], h) /\ items[n] \in Item /\ colisions \in Seq(Item) /\ Flat(colisions)
  BY <1>1, CallFacts DEF Sound
<1>3. items[n].key # h.key /\ h.code = 0 /\ items[n].next \in Nat /\ h.cur \in Item
  BY <1>1, <1>2 DEF Sees, Meeting, Colliding, Item, Local
<1>4. CASE ColHop(t)
  <2> DEFINE c == colisions[h.cur.next]
             l == PutCur(h, c)
  <2>1. /\ pc[t] = "colHop" /\ pc' = [pc EXCEPT ![t] = "colCount"]
        /\ h.cur.next <= Len(colisions)
    BY <1>4 DEF ColHop, Step, NextInColisions
  <2>2. h.cur.next \in Nat /\ h.cur.next >= 1
    BY <1>2, <1>3, <2>1 DEF ThreadOK, ReadsColision, Item
  <2>3. c \in Item
    BY <1>2, <2>1, <2>2
  <2>4. l.key = h.key /\ l.idx = n
    BY <1>2, <2>3, CurPut
  <2>5. l.val = h.val /\ l.code = h.code
    BY <1>2, FieldsPut
  <2>6. loc' = [loc EXCEPT ![t] = l]
    BY <1>4, LocalsOfThreads DEF ColHop, PutCur
  <2> HIDE DEF l
  <2>7. /\ Onward("colCount", l) = "colCount" /\ "colCount" \in Adding
        /\ "colCount" \notin Unlinking \cup Filling
    BY DEF Onward, CheckPlaces, Adding, Unlinking, Filling
  <2>8. Sees("colCount", l, items, colisions)
    BY <1>3, <2>4, <2>5 DEF Sees, Getting
  <2> QED BY <1>1, <2>1, <2>4, <2>5, <2>6, <2>7, <2>8, AddGoesOn
<1>5. ASSUME NEW from, NEW c \in Item, AfterLook(t, from, c),
             c.key = h.key => items[n].next \in 1..Len(colisions) /\ c = colisions[items[n].next],
             c.key # h.key /\ c.next = NoNext /\ items[n].next \in 1..Len(colisions)
               => colisions[items[n].next].key # h.key
      PROVE  MapInv' /\ MapStep
  <2>1. PICK p \in {"check", "colPush", "colHop"} :
          /\ pc' = [pc EXCEPT ![t] = p]
          /\ p = "check" => c.key = h.key
          /\ p = "colPush" => c.key # h.key /\ c.next = NoNext
    BY <1>5 DEF AfterLook, Step
  <2> DEFINE l == PutCurRet(h, c, "colAppend")
  <2>2. l.key = h.key /\ l.idx = n /\ l.cur = c /\ l.ret = "colAppend"
    BY <1>2, CurRetPut
  <2>3. l.val = h.val /\ l.code = h.code
    BY <1>2, FieldsPut
  <2>4. loc' = [loc EXCEPT ![t] = l]
    BY <1>5, LocalsOfThreads DEF AfterLook, PutCurRet
  <2> HIDE DEF l
  <2>5. Onward(p, l) = (IF p = "check" THEN "colAppend" ELSE p)
        /\ p \notin Unlinking \cup Filling
    BY <2>1, <2>2 DEF Onward, CheckPlaces, Unlinking, Filling
  <2>6. Onward(p, l) \in Adding
    BY <2>1, <2>5 DEF Adding
  <2>7. Sees(Onward(p, l), l, items, colisions)
    BY <1>3, <1>5, <2>1, <2>2, <2>3, <2>5 DEF Sees, Getting
  <2> QED BY <1>1, <2>1, <2>2, <2>3, <2>4, <2>5, <2>6, <2>7, AddGoesOn
<1>6. CASE ColRead(t)
  <2>1. AfterLook(t, "colRead", items[n])
    BY <1>6 DEF ColRead
  <2>2. items[n].next = NoNext => items[n].next \notin 1..Len(colisions)
    BY <1>3 DEF NoNext
  <2> HIDE DEF h
  <2> QED BY <1>2, <1>3, <1>5, <2>1, <2>2
<1>7. CASE ColCount(t)
  <2>1. AfterLook(t, "colCount", h.cur) /\ pc[t] = "colCount"
    BY <1>7 DEF ColCount, AfterLook, Step
  <2>2. items[n].next \in 1..Len(colisions) /\ h.cur = colisions[items[n].next]
    BY <1>2, <2>1 DEF Knows
  <2> HIDE DEF h
  <2> QED BY <1>3, <1>5, <2>1, <2>2
<1> QED BY <1>4, <1>6, <1>7

(* What is counted after the answer is known changes no answer. *)
LEMMA CountersKeepMap ==
  ASSUME Inv, SerialInv, MapInv, NEW t \in Threads,
         LoadCounter(t) \/ StoreCounter(t) \/ ColCap(t)
  PROVE  MapInv' /\ MapStep
<1> DEFINE h == loc[t]
<1>1. Local(h) /\ (loc' = loc => loc' = [loc EXCEPT ![t] = h])
  BY SerialFacts
<1>2. /\ pc[t] \in {"countLoad", "countStore", "capLoad", "capStore", "colCap"}
      /\ UNCHANGED <<items, colisions>>
  BY DEF LoadCounter, StoreCounter, ColCap, Step, table
<1>3. PICK p \in {"countStore", "capLoad", "capStore", "return"} : pc' = [pc EXCEPT ![t] = p]
  BY DEF LoadCounter, StoreCounter, ColCap, Step
<1>4. /\ pc[t] # "idle" /\ pc[t] \notin Unlinking \cup Filling /\ pc[t] \in Ending
      /\ pc[t] \notin CheckPlaces
  BY <1>2 DEF Unlinking, Filling, Ending, CheckPlaces
<1>5. p \in Ending /\ p \notin Unlinking \cup Filling /\ p \notin CheckPlaces
      /\ p \notin Adding \cup Getting
  BY <1>3 DEF Unlinking, Filling, Ending, CheckPlaces, Adding, Getting
<1>6. ASSUME NEW l, l.val = h.val, l.code = h.code, loc' = [loc EXCEPT ![t] = l]
      PROVE  MapInv' /\ MapStep
  <2>1. Onward(p, l) = p /\ Onward(pc[t], h) = pc[t]
    BY <1>4, <1>5 DEF Onward
  <2>2. Sees(p, l, items, colisions)
    BY <1>5, NothingSeen
  <2>3. Operation(p, l) = Operation(pc[t], h)
    <3> HIDE DEF h
    <3> QED BY <1>4, <1>5, <1>6, OperationIs
  <2> QED BY <1>2, <1>3, <1>4, <1>5, <1>6, <2>1, <2>2, <2>3, SilentMove
<1>7. ASSUME NEW x \in Nat, loc' = [loc EXCEPT ![t].reg = x]
      PROVE  MapInv' /\ MapStep
  <2> DEFINE l == PutReg(h, x)
  <2>1. loc' = [loc EXCEPT ![t] = l]
    BY <1>7, LocalsOfThreads DEF PutReg
  <2>2. l.val = h.val /\ l.code = h.code
    BY <1>1, FieldsPut
  <2> HIDE DEF l
  <2> QED BY <1>6, <2>1, <2>2
<1>8. count \in Nat /\ currentCapacity \in Nat
  BY ItemsRead
<1>9. CASE LoadCounter(t)
  BY <1>7, <1>8, <1>9 DEF LoadCounter
<1>10. CASE StoreCounter(t) \/ ColCap(t)
  BY <1>1, <1>6, <1>10 DEF StoreCounter, ColCap
<1> QED BY <1>9, <1>10

(***************************************************************************)
(* The writes: what SourceMap sees of an add.                              *)
(***************************************************************************)
WritesHead == {"addStore", "addAppend", "colAppend", "colLink"}

LEMMA AddEnds ==
  ASSUME Inv, SerialInv, MapInv, NEW t \in Threads, pc[t] \in WritesHead,
         NEW p \in {"countLoad", "capLoad", "colCap", "return"}, pc' = [pc EXCEPT ![t] = p],
         UNCHANGED <<colisions, loc>>
  PROVE  /\ MapInv'
         /\ Ops[t] = [at |-> "add", key |-> loc[t].key, val |-> loc[t].val]
         /\ Map!Added(t, 0)
         /\ Aside = KeysOf(colisions) /\ Aside' = Aside
<1> DEFINE h == loc[t]
<1>1. pc[t] \in Adding /\ pc[t] \in {"addStore"} \cup Colliding
  BY DEF WritesHead, Adding, Colliding
<1>2. /\ pc[t] # "idle" /\ pc[t] \notin Unlinking \cup Filling /\ Onward(pc[t], h) = pc[t]
      /\ loc' = [loc EXCEPT ![t] = h] /\ h.code = 0
  BY <1>1, CallFacts DEF Sees
<1>3. /\ Onward(p, h) = p /\ p \in Ending /\ p \notin Unlinking \cup Filling
      /\ p \notin Adding \cup Getting
  BY DEF Onward, CheckPlaces, Ending, Unlinking, Filling, Adding, Getting
<1>4. Sees(Onward(p, h), h, items', colisions')
  BY <1>3, NothingSeen
<1> HIDE DEF h
<1>5. /\ MapInv' /\ Ops[t] = Operation(pc[t], h)
      /\ Map!Answered(t, Operation(p, h))
      /\ Aside = KeysOf(colisions) /\ Aside' = KeysOf(colisions')
  BY <1>2, <1>3, <1>4, CallMoves DEF h
<1>6. Operation(p, h) = [at |-> "added", code |-> 0]
  BY <1>2, <1>3, OperationIs
<1>7. Operation(pc[t], h) = [at |-> "add", key |-> h.key, val |-> h.val]
  BY <1>1, OperationIs
<1>8. Map!Added(t, 0)
  BY <1>5, <1>6 DEF Map!Added
<1> QED BY <1>5, <1>7, <1>8 DEF h

LEMMA HeadWrite ==
  ASSUME Inv, SerialInv, MapInv, NEW t \in Threads, pc[t] \in WritesHead, NEW it,
         items' = Written(items, loc[t].idx, it), colisions' = colisions
  PROVE  /\ \A k \in Keyed :
              Shown(k, items', colisions') =
                IF Home(k, items) = loc[t].idx THEN ShownAt(k, it, colisions)
                ELSE Shown(k, items, colisions)
         /\ \A k \in Keyed : Home(k, items) = loc[t].idx
              => Shown(k, items, colisions) = ShownAt(k, items[loc[t].idx], colisions)
         /\ Home(loc[t].key, items) = loc[t].idx
<1> DEFINE n == loc[t].idx
<1>1. pc[t] \in Adding /\ pc[t] \in AtCell
  BY DEF WritesHead, Adding, AtCell, TouchesItem
<1>2. /\ items \in Seq(Item) /\ n \in 1..Len(items) /\ Len(items) \in Nat
      /\ Home(loc[t].key, items) = n
  BY <1>1, CallFacts
<1>3. n \in Nat /\ n >= 1 /\ n <= Len(items)
  BY <1>2
<1> HIDE DEF n
<1>4. ASSUME NEW k
      PROVE  Shown(k, items', colisions') =
               IF Home(k, items) = n THEN ShownAt(k, it, colisions)
               ELSE Shown(k, items, colisions)
  BY <1>2, <1>3, ShownWritten DEF n
<1>5. ASSUME NEW k, Home(k, items) = n
      PROVE  Shown(k, items, colisions) = ShownAt(k, items[n], colisions)
  BY <1>5 DEF Shown
<1> QED BY <1>2, <1>4, <1>5 DEF n

(* The sources of the key of an add grow, those of no other key change: Put. *)
LEMMA Puts ==
  ASSUME Inv, SerialInv, MapInv, NEW t \in Threads, pc[t] \in WritesHead,
         Ops[t] = [at |-> "add", key |-> loc[t].key, val |-> loc[t].val],
         Map!Added(t, 0), Aside' = Aside, NEW it,
         items' = Written(items, loc[t].idx, it), colisions' = colisions,
         \A k \in Keyed : Home(k, items) = loc[t].idx =>
           ShownAt(k, it, colisions) =
             IF k = loc[t].key THEN Stored[k] \o loc[t].val
             ELSE ShownAt(k, items[loc[t].idx], colisions)
  PROVE  Map!Put(t)
<1> DEFINE x == loc[t].key
           v == Stored[x] \o loc[t].val
<1>1. x \in Keyed
  BY LocalsOfThreads, ThreadFacts DEF ThreadOK, Local
<1>2. ASSUME NEW k \in Keyed
      PROVE  Shown(k, items', colisions') = IF k = x THEN v ELSE Shown(k, items, colisions)
  <2>1. CASE Home(k, items) = loc[t].idx
    BY <2>1, HeadWrite
  <2>2. CASE Home(k, items) # loc[t].idx
    BY <2>2, HeadWrite
  <2> QED BY <2>1, <2>2
<1> HIDE DEF v
<1>3. Stored' = [Stored EXCEPT ![x] = v]
  <2> HIDE DEF x
  <2> QED BY <1>1, <1>2, StoredChanges
<1>4. Ops[t].at = "add" /\ Ops[t].key = x /\ Ops[t].val = loc[t].val
  OBVIOUS
<1> QED BY <1>3, <1>4 DEF Map!Put, v

LEMMA StoreKeepsMap ==
  ASSUME Inv, SerialInv, MapInv, NEW t \in Threads, AddStore(t)
  PROVE  MapInv' /\ MapStep
<1> DEFINE h == loc[t]
           n == h.idx
           it == [key |-> h.key, value |-> h.val, next |-> NoNext]
<1>1. /\ pc[t] = "addStore" /\ pc[t] \in WritesHead /\ pc[t] \in Adding /\ pc[t] \in AtCell
      /\ pc' = [pc EXCEPT ![t] = "countLoad"]
      /\ items' = Written(items, n, it) /\ UNCHANGED <<colisions, loc>>
  BY DEF AddStore, Step, WritesHead, Adding, AtCell, TouchesItem, Written
<1>2. /\ Local(h) /\ Sees(pc[t], h, items, colisions)
      /\ Stored[h.key] = ShownAt(h.key, items[n], colisions)
  BY <1>1, CallFacts
<1>3. items[n].value = <<>> /\ h.val \in Seq(Sources)
  BY <1>1, <1>2 DEF Sees, Local
<1>4. it.key = h.key /\ it.value = h.val /\ it.next = 0
  BY DEF NoNext
<1> HIDE DEF it
<1>5. \A k : ShownAt(k, items[n], colisions) = <<>>
  BY <1>3 DEF ShownAt
<1>6. <<>> \o h.val = h.val
  BY <1>3, ConcatEmptySeq
<1>7. ASSUME NEW k \in Keyed
      PROVE  ShownAt(k, it, colisions) = IF k = h.key THEN h.val ELSE <<>>
  BY <1>4 DEF ShownAt
<1> HIDE DEF h
<1>8. /\ MapInv' /\ Map!Added(t, 0) /\ Aside' = Aside
      /\ Ops[t] = [at |-> "add", key |-> loc[t].key, val |-> loc[t].val]
  BY <1>1, AddEnds DEF h
<1>9. \A k \in Keyed : Home(k, items) = n => ShownAt(k, it, colisions) =
        IF k = h.key THEN Stored[h.key] \o h.val ELSE ShownAt(k, items[n], colisions)
  BY <1>2, <1>5, <1>6, <1>7
<1>10. \A k \in Keyed : Home(k, items) = loc[t].idx => ShownAt(k, it, colisions) =
         IF k = loc[t].key THEN Stored[k] \o loc[t].val
         ELSE ShownAt(k, items[loc[t].idx], colisions)
  BY <1>9 DEF h
<1>11. pc[t] \in WritesHead /\ items' = Written(items, loc[t].idx, it) /\ colisions' = colisions
  BY <1>1 DEF h
<1> HIDE DEF n
<1>12. Map!Put(t)
  BY <1>8, <1>10, <1>11, Puts
<1> QED BY <1>8, <1>12, StepOf

LEMMA AppendKeepsMap ==
  ASSUME Inv, SerialInv, MapInv, NEW t \in Threads, AddAppend(t)
  PROVE  MapInv' /\ MapStep
<1> DEFINE h == loc[t]
           n == h.idx
           x == h.cur.value \o h.val
           it == [items[n] EXCEPT !.value = x]
<1>1. /\ pc[t] = "addAppend" /\ pc[t] \in WritesHead /\ pc[t] \in Adding /\ pc[t] \in AtCell
      /\ pc' = [pc EXCEPT ![t] = "capLoad"] /\ UNCHANGED <<colisions, loc>>
  BY DEF AddAppend, Step, WritesHead, Adding, AtCell, TouchesItem
<1>2. /\ Local(h) /\ Knows(pc[t], h, items, colisions)
      /\ Stored[h.key] = ShownAt(h.key, items[n], colisions)
      /\ items \in Seq(Item) /\ n \in 1..Len(items) /\ items[n] \in Item
  BY <1>1, CallFacts
<1>3. /\ h.cur = items[n] /\ items[n].key = h.key /\ items[n].value # <<>>
      /\ h.val \in Seq(Sources)
  BY <1>1, <1>2 DEF Knows, Colliding, Local
<1>4. items[n].value \in Seq(Sources)
  BY <1>2 DEF Item
<1>5. x = items[n].value \o h.val /\ x # <<>>
  BY <1>3, <1>4, Longer
<1>6. items' = [items EXCEPT ![n].value = x]
  BY DEF AddAppend
<1> HIDE DEF x
<1>7. items' = Written(items, n, it)
  BY <1>2, <1>6 DEF Written
<1>8. it.key = items[n].key /\ it.value = x /\ it.next = items[n].next
  BY <1>2 DEF Item
<1> HIDE DEF it
<1>9. ASSUME NEW k \in Keyed
      PROVE  ShownAt(k, it, colisions) =
               IF k = h.key THEN x ELSE ShownAt(k, items[n], colisions)
  BY <1>3, <1>5, <1>8 DEF ShownAt
<1>10. Stored[h.key] = items[n].value
  BY <1>2, <1>3 DEF ShownAt
<1> HIDE DEF h
<1>11. /\ MapInv' /\ Map!Added(t, 0) /\ Aside' = Aside
       /\ Ops[t] = [at |-> "add", key |-> loc[t].key, val |-> loc[t].val]
  BY <1>1, AddEnds DEF h
<1>12. \A k \in Keyed : Home(k, items) = loc[t].idx => ShownAt(k, it, colisions) =
         IF k = loc[t].key THEN Stored[k] \o loc[t].val
         ELSE ShownAt(k, items[loc[t].idx], colisions)
  BY <1>5, <1>9, <1>10 DEF h
<1>13. pc[t] \in WritesHead /\ items' = Written(items, loc[t].idx, it) /\ colisions' = colisions
  BY <1>1, <1>7 DEF h
<1> HIDE DEF n
<1>14. Map!Put(t)
  BY <1>11, <1>12, <1>13, Puts
<1> QED BY <1>11, <1>14, StepOf

(* The head of the cell is a rival of the key that has met it. *)
LEMMA HeadIsRival ==
  ASSUME Inv, SerialInv, MapInv, NEW t \in Threads, pc[t] \in Meeting,
         Ops[t] = [at |-> "add", key |-> loc[t].key, val |-> loc[t].val]
  PROVE  LET x == items[loc[t].idx].key
         IN  /\ x \in Map!Rivals(Ops[t].key) /\ x \in Keyed /\ x # loc[t].key
             /\ Home(x, items) = loc[t].idx /\ Stored[x] = items[loc[t].idx].value
<1> DEFINE h == loc[t]
           n == h.idx
           x == items[n].key
<1>1. pc[t] \in Adding /\ pc[t] \in AtCell /\ pc[t] \in Colliding
  BY DEF Meeting, Adding, AtCell, TouchesItem, Colliding
<1>2. /\ Local(h) /\ Knows(pc[t], h, items, colisions) /\ Sees(pc[t], h, items, colisions)
      /\ items \in Seq(Item) /\ n \in 1..Len(items) /\ items[n] \in Item
      /\ Len(items) \in Nat /\ Len(items) > 0 /\ Multiple(Len(items))
      /\ InCells(items) /\ n = Home(h.key, items)
  BY <1>1, CallFacts DEF Sound
<1>3. x # h.key /\ items[n].value # <<>> /\ x \in Keyed /\ h.key \in Keyed
  BY <1>1, <1>2 DEF Sees, Knows, Item, Keyed, Local
<1>4. Home(x, items) = n
  BY <1>2, <1>3 DEF InCells, Full
<1>5. Stored[x] = items[n].value
  <2>1. Stored[x] = Shown(x, items, colisions)
    BY <1>3, StoredShown
  <2>2. Shown(x, items, colisions) = ShownAt(x, items[n], colisions)
    BY <1>4 DEF Shown
  <2> HIDE DEF h
  <2> QED BY <1>3, <2>1, <2>2 DEF ShownAt
<1>6. x \in Class[h.key]
  BY <1>2, <1>3, <1>4, ClassMates DEF Home
<1>7. x \in Map!Rivals(h.key)
  <2> HIDE DEF h, x
  <2> QED BY <1>3, <1>5, <1>6 DEF Map!Rivals
<1>8. Ops[t].key = h.key
  OBVIOUS
<1> QED BY <1>3, <1>4, <1>5, <1>7, <1>8

LEMMA MisplaceKeepsMap ==
  ASSUME Inv, SerialInv, MapInv, NEW t \in Threads, ColAppend(t)
  PROVE  MapInv' /\ MapStep
<1> DEFINE h == loc[t]
           n == h.idx
           c == h.cur
           r == items[n].key
           x == c.value \o h.val
           it == [items[n] EXCEPT !.value = x]
<1>1. /\ pc[t] = "colAppend" /\ pc[t] \in WritesHead /\ pc[t] \in Adding /\ pc[t] \in AtCell
      /\ pc[t] \in Meeting /\ pc' = [pc EXCEPT ![t] = "colCap"] /\ UNCHANGED <<colisions, loc>>
  BY DEF ColAppend, Step, WritesHead, Adding, AtCell, TouchesItem, Meeting
<1>2. /\ Local(h) /\ Knows(pc[t], h, items, colisions) /\ Sees(pc[t], h, items, colisions)
      /\ Stored[h.key] = ShownAt(h.key, items[n], colisions)
      /\ items \in Seq(Item) /\ n \in 1..Len(items) /\ items[n] \in Item
      /\ n = Home(h.key, items)
  BY <1>1, CallFacts
<1>3. /\ c.key = h.key /\ items[n].next \in 1..Len(colisions) /\ c = colisions[items[n].next]
      /\ r # h.key /\ items[n].value # <<>>
      /\ h.val \in Seq(Sources) /\ c.value \in Seq(Sources) /\ h.key \in Keyed
  BY <1>1, <1>2 DEF Sees, Meeting, Knows, Colliding, Local, Item
<1>4. x = <<>> => c.value = <<>>
  BY <1>3, Longer
<1>5. items' = [items EXCEPT ![n].value = x]
  BY DEF ColAppend
<1> HIDE DEF x
<1>6. items' = Written(items, n, it)
  BY <1>2, <1>5 DEF Written
<1>7. it.key = r /\ it.value = x /\ it.next = items[n].next
  BY <1>2 DEF Item
<1> HIDE DEF it
<1>8. Stored[h.key] = c.value
  BY <1>2, <1>3 DEF ShownAt
<1>9. ASSUME NEW k \in Keyed
      PROVE  ShownAt(k, it, colisions) = IF k = r THEN x ELSE ShownAt(k, items[n], colisions)
  BY <1>3, <1>4, <1>7 DEF ShownAt
<1>10. /\ MapInv' /\ Map!Added(t, 0) /\ Aside' = Aside /\ Aside = KeysOf(colisions)
       /\ Ops[t] = [at |-> "add", key |-> h.key, val |-> h.val]
  BY <1>1, AddEnds
<1>11. h.key \in Aside
  BY <1>3, <1>10 DEF KeysOf
<1>12. r \in Map!Rivals(Ops[t].key) /\ r \in Keyed /\ Home(r, items) = n
  BY <1>1, <1>10, HeadIsRival
<1>13. ASSUME NEW k \in Keyed
       PROVE  Shown(k, items', colisions') = IF k = r THEN x ELSE Shown(k, items, colisions)
  <2>1. /\ Shown(k, items', colisions') =
             IF Home(k, items) = n THEN ShownAt(k, it, colisions) ELSE Shown(k, items, colisions)
        /\ Home(k, items) = n => Shown(k, items, colisions) = ShownAt(k, items[n], colisions)
    BY <1>1, <1>6, HeadWrite
  <2> QED BY <1>9, <1>12, <2>1
<1>14. Stored' = [Stored EXCEPT ![r] = x]
  <2> HIDE DEF r
  <2> QED BY <1>12, <1>13, StoredChanges
<1>15. Ops[t].at = "add" /\ Ops[t].key = h.key /\ Ops[t].val = h.val
  BY <1>10
<1>16. x = Stored[Ops[t].key] \o Ops[t].val
  BY <1>8, <1>15 DEF x
<1> HIDE DEF h, n, c, r
<1>17. Map!Misplace(t)
  BY <1>10, <1>11, <1>12, <1>14, <1>15, <1>16 DEF Map!Misplace
<1> QED BY <1>10, <1>17, StepOf

(* A collision nobody names yet: its key is set aside. *)
LEMMA PushKeepsMap ==
  ASSUME Inv, SerialInv, MapInv, NEW t \in Threads, ColPush(t)
  PROVE  MapInv' /\ MapStep
<1> DEFINE h == loc[t]
           n == h.idx
           it == [key |-> h.key, value |-> h.val, next |-> NoNext]
<1>1. /\ pc[t] = "colPush" /\ pc[t] \in Adding /\ pc[t] \in AtCell /\ pc[t] \in Meeting
      /\ pc' = [pc EXCEPT ![t] = "check"] /\ items' = items
      /\ colisions' = Append(colisions, it)
  BY DEF ColPush, StepChecked, Step, Adding, AtCell, TouchesItem, Meeting
<1>2. /\ Local(h) /\ Knows(pc[t], h, items, colisions) /\ Sees(pc[t], h, items, colisions)
      /\ Stored[h.key] = ShownAt(h.key, items[n], colisions)
      /\ items \in Seq(Item) /\ n \in 1..Len(items) /\ items[n] \in Item
      /\ colisions \in Seq(Item) /\ Linked(items, colisions)
      /\ pc[t] # "idle" /\ pc[t] \notin Unlinking \cup Filling /\ Onward(pc[t], h) = pc[t]
      /\ Len(items) \in Nat /\ Len(items) > 0
  BY <1>1, CallFacts DEF Sound
<1>3. /\ items[n].key # h.key /\ items[n].value # <<>> /\ h.code = 0
      /\ items[n].next \in 1..Len(colisions) => colisions[items[n].next].key # h.key
  BY <1>1, <1>2 DEF Sees, Meeting, Knows, Colliding
<1>4. it \in Item /\ it.key = h.key /\ it.value = h.val
  BY <1>2 DEF Local, Item, Keyed, NoNext
<1> HIDE DEF it
<1>5. /\ Len(colisions') = Len(colisions) + 1 /\ Len(colisions) \in Nat
      /\ \A m \in 1..Len(colisions) : colisions'[m] = colisions[m]
      /\ colisions'[Len(colisions')] = it
  BY <1>1, <1>2, <1>4
<1>6. ASSUME NEW b \in 1..Len(items), items[b].value # <<>>
      PROVE  items[b].next \in Nat /\ items[b].next <= Len(colisions)
  <2>1. b \in Full(items) /\ items[b] \in Item
    BY <1>2, <1>6 DEF Full
  <2> QED BY <1>2, <2>1 DEF Linked, Item
<1>7. Stored[h.key] = <<>>
  BY <1>2, <1>3 DEF ShownAt
<1>8. Stored' = Stored
  <2>1. ASSUME NEW k \in Keyed
        PROVE  Shown(k, items', colisions') = Shown(k, items, colisions)
    <3> DEFINE b == Home(k, items)
    <3>1. b \in 1..Len(items)
      BY <1>2, CellsOfKeys DEF Home
    <3> HIDE DEF b
    <3>2. items[b].value # <<>> => items[b].next \in Nat /\ items[b].next <= Len(colisions)
      BY <1>6, <3>1
    <3>3. items[b].value # <<>> => (items[b].next \in 1..Len(colisions')
                                      <=> items[b].next \in 1..Len(colisions))
      BY <1>5, <3>2
    <3>4. ShownAt(k, items[b], colisions') = ShownAt(k, items[b], colisions)
      BY <1>5, <3>3 DEF ShownAt
    <3> QED BY <1>1, <3>4 DEF Shown, b
  <2> QED BY <2>1, StoredShown
<1> DEFINE l == PutPosRet(h, Len(colisions'), "colLink")
<1>9. l.key = h.key /\ l.idx = n /\ l.ret = "colLink"
  BY <1>2, <1>5, PosRetPut
<1>10. l.val = h.val /\ l.pos = Len(colisions') /\ l.code = h.code
  BY <1>2, FieldsPut
<1>11. loc' = [loc EXCEPT ![t] = l]
  BY LocalsOfThreads DEF ColPush, PutPosRet
<1> HIDE DEF l
<1>12. Onward("check", l) = "colLink" /\ "check" \notin Unlinking \cup Filling
  BY <1>9 DEF Onward, CheckPlaces, Unlinking, Filling
<1>13. Sees("colLink", l, items', colisions')
  <2>1. items[n].next \in Nat /\ items[n].next <= Len(colisions)
    BY <1>2, <1>3, <1>6
  <2>2. items[n].next \in 1..Len(colisions') => colisions'[items[n].next].key # l.key
    BY <1>3, <1>5, <1>9, <2>1
  <2>3. colisions'[l.pos].value = l.val
    BY <1>4, <1>5, <1>10
  <2> HIDE DEF h
  <2> QED BY <1>1, <1>3, <1>9, <1>10, <2>2, <2>3 DEF Sees, Getting
<1>14. /\ MapInv' /\ Ops[t] = Operation("colPush", h)
       /\ Ops = [u \in Threads |-> Ops[u]]
       /\ Map!Answered(t, Operation("colLink", l))
       /\ Aside = KeysOf(colisions) /\ Aside' = KeysOf(colisions')
  <2>1. Sees(Onward("check", l), l, items', colisions')
    BY <1>12, <1>13
  <2> HIDE DEF h
  <2> QED BY <1>1, <1>2, <1>11, <1>12, <2>1, CallMoves DEF h
<1>15. /\ Operation("colPush", h) = [at |-> "add", key |-> h.key, val |-> h.val]
       /\ Operation("colLink", l) = [at |-> "add", key |-> h.key, val |-> h.val]
  <2>1. "colPush" \in Adding /\ "colLink" \in Adding
    BY DEF Adding
  <2> HIDE DEF h
  <2> QED BY <1>9, <1>10, <2>1, OperationIs
<1>16. Ops' = Ops
  BY <1>14, <1>15 DEF Map!Answered
<1>17. Aside' = Aside \cup {h.key}
  <2>1. 1..Len(colisions') = 1..Len(colisions) \cup {Len(colisions')}
    BY <1>5
  <2> QED BY <1>4, <1>5, <1>14, <2>1 DEF KeysOf
<1>18. Map!Rivals(Ops[t].key) # {}
  BY <1>1, <1>14, <1>15, HeadIsRival
<1>19. Ops[t].at = "add" /\ Ops[t].key = h.key
  BY <1>14, <1>15
<1> HIDE DEF h
<1>20. Map!SetAside(t)
  BY <1>7, <1>8, <1>16, <1>17, <1>18, <1>19 DEF Map!SetAside
<1> QED BY <1>14, <1>20, StepOf

(* The new collision takes the place of the one the head named, if it named one. *)
LEMMA LinkKeepsMap ==
  ASSUME Inv, SerialInv, MapInv, NEW t \in Threads, ColLink(t)
  PROVE  MapInv' /\ MapStep
<1> DEFINE h == loc[t]
           n == h.idx
           x == h.key
           m == items[n].next
           r == items[n].key
           y == colisions[m].key
           it == [items[n] EXCEPT !.next = h.pos]
<1>1. /\ pc[t] = "colLink" /\ pc[t] \in WritesHead /\ pc[t] \in Adding /\ pc[t] \in AtCell
      /\ pc[t] \in Meeting /\ pc' = [pc EXCEPT ![t] = "return"] /\ UNCHANGED <<colisions, loc>>
      /\ items' = [items EXCEPT ![n].next = h.pos]
  BY DEF ColLink, Step, WritesHead, Adding, AtCell, TouchesItem, Meeting
<1>2. /\ Local(h) /\ Knows(pc[t], h, items, colisions) /\ Sees(pc[t], h, items, colisions)
      /\ Stored[x] = ShownAt(x, items[n], colisions)
      /\ items \in Seq(Item) /\ n \in 1..Len(items) /\ items[n] \in Item
      /\ colisions \in Seq(Item) /\ Linked(items, colisions) /\ n = Home(x, items)
      /\ Len(items) \in Nat /\ Len(items) > 0 /\ Multiple(Len(items))
  BY <1>1, CallFacts DEF Sound
<1>3. /\ h.pos \in 1..Len(colisions) /\ colisions[h.pos].key = x
      /\ colisions[h.pos].value = h.val
      /\ r # x /\ items[n].value # <<>> /\ m \in Nat
      /\ m \in 1..Len(colisions) => y # x
      /\ h.val \in Seq(Sources) /\ x \in Keyed
  BY <1>1, <1>2 DEF Sees, Meeting, Knows, Colliding, Local, Item
<1>4. items' = Written(items, n, it)
  BY <1>1, <1>2 DEF Written
<1>5. it.key = r /\ it.value = items[n].value /\ it.next = h.pos
  BY <1>2 DEF Item
<1> HIDE DEF it
<1>6. ASSUME NEW k \in Keyed
      PROVE  ShownAt(k, it, colisions) = IF k = r THEN items[n].value
                                         ELSE IF k = x THEN h.val ELSE <<>>
  BY <1>3, <1>5 DEF ShownAt
<1>7. Stored[x] = <<>>
  BY <1>2, <1>3 DEF ShownAt
<1>8. /\ MapInv' /\ Map!Added(t, 0) /\ Aside' = Aside /\ Aside = KeysOf(colisions)
      /\ Ops[t] = [at |-> "add", key |-> x, val |-> h.val]
  BY <1>1, AddEnds
<1>9. <<>> \o h.val = h.val
  BY <1>3, ConcatEmptySeq
<1>10. CASE m \in 1..Len(colisions) /\ y # r /\ colisions[m].value # <<>>
  <2>1. y \in Keyed /\ Home(y, items) = n
    <3>1. colisions[m] \in Item
      BY <1>2, <1>10
    <3>2. n \in Full(items) /\ m >= 1
      BY <1>2, <1>3, <1>10 DEF Full
    <3> QED BY <1>2, <3>1, <3>2 DEF Linked, Item, Keyed
  <2>2. Stored[y] = colisions[m].value
    <3>1. Stored[y] = Shown(y, items, colisions)
      BY <2>1, StoredShown
    <3>2. Shown(y, items, colisions) = ShownAt(y, items[n], colisions)
      BY <2>1 DEF Shown
    <3>3. ShownAt(y, items[n], colisions) = colisions[m].value
      BY <1>3, <1>10 DEF ShownAt
    <3> QED BY <3>1, <3>2, <3>3
  <2>3. y \in Class[x]
    BY <1>2, <1>3, <2>1, ClassMates DEF Home
  <2>4. y \in Map!Rivals(x) /\ y # x
    <3> HIDE DEF x, y
    <3> QED BY <1>3, <1>10, <2>2, <2>3 DEF Map!Rivals
  <2>5. y \in Aside /\ x \in Aside
    BY <1>3, <1>8, <1>10 DEF KeysOf
  <2>6. r \in Map!Rivals(x) /\ r # y
    <3>1. r \in Map!Rivals(Ops[t].key)
      BY <1>1, <1>8, HeadIsRival
    <3>2. Ops[t].key = x
      BY <1>8
    <3> QED BY <1>10, <3>1, <3>2
  <2>7. ASSUME NEW k \in Keyed
        PROVE  Shown(k, items', colisions') =
                 IF k = y THEN <<>> ELSE IF k = x THEN h.val ELSE Shown(k, items, colisions)
    <3>1. /\ Shown(k, items', colisions') =
               IF Home(k, items) = n THEN ShownAt(k, it, colisions)
               ELSE Shown(k, items, colisions)
          /\ Home(k, items) = n => Shown(k, items, colisions) = ShownAt(k, items[n], colisions)
      BY <1>1, <1>4, HeadWrite
    <3>2. Home(k, items) # n => k # x /\ k # y
      BY <1>2, <2>1
    <3>3. ShownAt(k, items[n], colisions) = IF k = r THEN items[n].value
            ELSE IF k = y THEN colisions[m].value ELSE <<>>
      BY <1>3, <1>10 DEF ShownAt
    <3>4. k = y => k # r /\ k # x
      BY <1>10, <2>4
    <3>5. ShownAt(k, it, colisions) = IF k = r THEN items[n].value
                                      ELSE IF k = x THEN h.val ELSE <<>>
      BY <1>6
    <3>6. k = r => k # x
      BY <1>3
    <3> HIDE DEF x, y, r
    <3> QED BY <3>1, <3>2, <3>3, <3>4, <3>5, <3>6
  <2>8. Stored' = [Stored EXCEPT ![x] = h.val, ![y] = <<>>]
    <3> HIDE DEF x, y
    <3> QED BY <1>3, <2>1, <2>4, <2>7, StoredShown
  <2>9. Ops[t].at = "add" /\ Ops[t].key = x /\ Ops[t].val = h.val
    BY <1>8
  <2> HIDE DEF x, y, r, h
  <2>10. Map!Displace(t)
    BY <1>7, <1>8, <2>4, <2>5, <2>6, <2>8, <2>9 DEF Map!Displace
  <2> QED BY <1>8, <2>10, StepOf
<1>11. CASE ~(m \in 1..Len(colisions) /\ y # r /\ colisions[m].value # <<>>)
  <2>1. ASSUME NEW k \in Keyed
        PROVE  ShownAt(k, it, colisions) =
                 IF k = x THEN h.val ELSE ShownAt(k, items[n], colisions)
    <3>1. k # r /\ k # x => ShownAt(k, items[n], colisions) = <<>>
      BY <1>3, <1>11 DEF ShownAt
    <3>2. k = r => ShownAt(k, items[n], colisions) = items[n].value
      BY <1>3 DEF ShownAt
    <3> QED BY <1>3, <1>6, <3>1, <3>2
  <2>2. \A k \in Keyed : Home(k, items) = loc[t].idx => ShownAt(k, it, colisions) =
          IF k = loc[t].key THEN Stored[loc[t].key] \o loc[t].val
          ELSE ShownAt(k, items[loc[t].idx], colisions)
    BY <1>7, <1>9, <2>1
  <2>3. /\ pc[t] \in WritesHead /\ items' = Written(items, loc[t].idx, it)
        /\ colisions' = colisions
        /\ Ops[t] = [at |-> "add", key |-> loc[t].key, val |-> loc[t].val]
        /\ Map!Added(t, 0) /\ Aside' = Aside
    BY <1>1, <1>4, <1>8
  <2>4. \A k \in Keyed : Home(k, items) = loc[t].idx => ShownAt(k, it, colisions) =
          IF k = loc[t].key THEN Stored[k] \o loc[t].val
          ELSE ShownAt(k, items[loc[t].idx], colisions)
    <3> HIDE DEF h, n, x
    <3> QED BY <2>2
  <2> HIDE DEF h, n, x, r, y, m
  <2>5. Map!Put(t)
    BY <2>3, <2>4, Puts
  <2> QED BY <1>8, <2>5, StepOf
<1> QED BY <1>10, <1>11

(***************************************************************************)
(* get, calls and returns.                                                 *)
(***************************************************************************)
LEMMA GetsKeepMap ==
  ASSUME Inv, SerialInv, MapInv, NEW t \in Threads, GetRead(t) \/ GetHop(t)
  PROVE  MapInv' /\ MapStep
<1> DEFINE h == loc[t]
           n == Home(h.key, items)
<1>1. /\ pc[t] \in {"getRead", "getHop"} /\ pc[t] \in Getting
      /\ UNCHANGED <<items, colisions>>
  BY DEF GetRead, GetHop, table, Getting
<1>2. /\ Local(h) /\ Sees(pc[t], h, items, colisions) /\ Onward(pc[t], h) = pc[t]
      /\ ThreadOK(pc[t], h) /\ Knows(pc[t], h, items, colisions)
      /\ pc[t] # "idle" /\ pc[t] \notin Unlinking \cup Filling
      /\ items \in Seq(Item) /\ colisions \in Seq(Item) /\ Flat(colisions)
      /\ Len(items) \in Nat /\ Len(items) > 0
      /\ loc' = loc => loc' = [loc EXCEPT ![t] = h]
  BY <1>1, CallFacts DEF Sound
<1>3. /\ h.code = -1 /\ h.val = <<>> /\ h.key \in Keyed /\ h.cur \in Item
      /\ pc[t] = "getRead" => h.idx = n
      /\ pc[t] = "getHop" => h.cur = items[n] /\ h.cur.value # <<>> /\ h.cur.key # h.key
                             /\ h.cur.next >= 1
  BY <1>1, <1>2 DEF Sees, Local, Knows, AtCell, TouchesItem, ThreadOK, ReadsColision
<1>4. n \in 1..Len(items) /\ items[n] \in Item
  <2>1. n \in 1..Len(items)
    BY <1>2, <1>3, CellsOfKeys DEF Home
  <2> HIDE DEF n
  <2> QED BY <1>2, <2>1
<1>5. Stored[h.key] = ShownAt(h.key, items[n], colisions)
  BY <1>3, StoredShown DEF Shown
<1>6. ASSUME NEW l, l.code = -1, l.val = Stored[h.key],
             pc' = [pc EXCEPT ![t] = "return"], loc' = [loc EXCEPT ![t] = l]
      PROVE  MapInv' /\ MapStep
  <2>1. /\ Onward("return", l) = "return" /\ "return" \in Ending
        /\ "return" \notin Unlinking \cup Filling /\ "return" \notin Adding \cup Getting
    BY DEF Onward, CheckPlaces, Ending, Unlinking, Filling, Adding, Getting
  <2>2. Sees(Onward("return", l), l, items', colisions')
    BY <2>1, NothingSeen
  <2>3. /\ MapInv' /\ Ops[t] = Operation(pc[t], h)
        /\ Map!Answered(t, Operation("return", l))
        /\ Aside = KeysOf(colisions) /\ Aside' = KeysOf(colisions')
    BY <1>2, <1>6, <2>1, <2>2, CallMoves
  <2> HIDE DEF h
  <2>4. Operation(pc[t], h) = [at |-> "get", key |-> h.key]
    BY <1>1, OperationIs
  <2>5. Operation("return", l) = [at |-> "got", val |-> Stored[h.key]]
    BY <1>6, <2>1, OperationIs
  <2>6. UNCHANGED <<Stored, Aside>>
    BY <1>1, <2>3, StoredShown
  <2>7. Map!Answer(t)
    BY <2>3, <2>4, <2>5, <2>6 DEF Map!Answer
  <2> QED BY <2>3, <2>7, StepOf
<1>7. ASSUME NEW l, l.code = -1, l.val = <<>>, l.key = h.key, l.cur = items[n],
             items[n].value # <<>>, items[n].key # h.key,
             pc' = [pc EXCEPT ![t] = "getHop"], loc' = [loc EXCEPT ![t] = l]
      PROVE  MapInv' /\ MapStep
  <2>1. /\ Onward("getHop", l) = "getHop" /\ "getHop" \in Getting
        /\ "getHop" \notin Unlinking \cup Filling
    BY DEF Onward, CheckPlaces, Unlinking, Filling, Getting
  <2>2. Sees("getHop", l, items, colisions)
    BY <1>7 DEF Sees, Colliding, Meeting
  <2>3. Operation("getHop", l) = Operation(pc[t], h)
    <3> HIDE DEF h
    <3> QED BY <1>1, <1>7, <2>1, OperationIs
  <2> QED BY <1>1, <1>2, <1>7, <2>1, <2>2, <2>3, SilentMove
<1>8. ASSUME NEW c \in Item, NEW from, GetLook(t, from, c),
             c.key = h.key => Stored[h.key] = c.value,
             c.key # h.key /\ c.next = NoNext => Stored[h.key] = <<>>,
             c.key # h.key /\ c.next # NoNext => c = items[n] /\ items[n].value # <<>>
      PROVE  MapInv' /\ MapStep
  <2> DEFINE v == IF c.key = h.key THEN c.value ELSE <<>>
             l == PutCurVal(h, c, v)
  <2>1. v \in Seq(Sources)
    BY DEF Item
  <2>2. loc' = [loc EXCEPT ![t].cur = c, ![t].val = v]
    BY <1>8 DEF GetLook
  <2>3. c.key = h.key \/ c.next = NoNext => pc' = [pc EXCEPT ![t] = "return"]
    BY <1>8 DEF GetLook, Step
  <2>4. c.key # h.key /\ c.next # NoNext => pc' = [pc EXCEPT ![t] = "getHop"]
    BY <1>8 DEF GetLook, Step
  <2>5. /\ c.key = h.key => v = c.value
        /\ c.key # h.key => v = <<>>
    OBVIOUS
  <2> HIDE DEF v
  <2>6. loc' = [loc EXCEPT ![t] = l]
    BY <2>2, LocalsOfThreads DEF PutCurVal
  <2>7. l.code = h.code
    BY <1>2, FieldsPut
  <2>8. l.key = h.key /\ l.cur = c
    BY <1>2, <2>1, CurValPut
  <2>9. l.val = v
    BY <1>2, Zenon DEF PutCurVal, Local
  <2> HIDE DEF l
  <2>10. CASE c.key = h.key \/ c.next = NoNext
    <3>1. l.val = Stored[h.key]
      BY <1>8, <2>5, <2>9, <2>10
    <3> QED BY <1>3, <1>6, <2>3, <2>6, <2>7, <2>10, <3>1
  <2>11. CASE c.key # h.key /\ c.next # NoNext
    <3>1. l.val = <<>> /\ l.cur = items[n] /\ items[n].value # <<>> /\ items[n].key # h.key
      BY <1>8, <2>5, <2>8, <2>9, <2>11
    <3> QED BY <1>3, <1>7, <2>4, <2>6, <2>7, <2>8, <2>11, <3>1
  <2> QED BY <2>10, <2>11
<1>9. CASE GetHop(t)
  <2> DEFINE c == colisions[h.cur.next]
  <2>1. pc[t] = "getHop" /\ GetLook(t, "getHop", c) /\ h.cur.next <= Len(colisions)
    BY <1>9 DEF GetHop, NextInColisions
  <2>2. h.cur.next \in 1..Len(colisions)
    BY <1>2, <1>3, <2>1 DEF Item
  <2>3. c \in Item /\ c.next = NoNext
    BY <1>2, <2>2 DEF Flat
  <2>4. Stored[h.key] = IF c.key = h.key THEN c.value ELSE <<>>
    BY <1>3, <1>5, <2>1, <2>2 DEF ShownAt
  <2> HIDE DEF h, c
  <2> QED BY <1>8, <2>1, <2>3, <2>4
<1>10. CASE GetRead(t)
  <2> DEFINE c == items[n]
  <2>1. pc[t] = "getRead" /\ h.idx = n
    BY <1>3, <1>10 DEF GetRead
  <2>2. CASE c.value = <<>>
    <3>1. pc' = [pc EXCEPT ![t] = "return"] /\ loc' = loc
      BY <1>10, <2>1, <2>2 DEF GetRead, Step
    <3>2. Stored[h.key] = <<>>
      BY <1>5, <2>2 DEF ShownAt
    <3>3. loc' = [loc EXCEPT ![t] = h]
      BY <1>2, <3>1
    <3> HIDE DEF h
    <3> QED BY <1>3, <1>6, <3>1, <3>2, <3>3
  <2>3. CASE c.value # <<>>
    <3>1. GetLook(t, "getRead", c)
      BY <1>10, <2>1, <2>3 DEF GetRead
    <3>2. c.next = NoNext => c.next \notin 1..Len(colisions)
      BY DEF NoNext
    <3>3. /\ c.key = h.key => Stored[h.key] = c.value
          /\ c.key # h.key /\ c.next = NoNext => Stored[h.key] = <<>>
      BY <1>5, <2>3, <3>2 DEF ShownAt
    <3> HIDE DEF h, n
    <3> QED BY <1>4, <1>8, <2>3, <3>1, <3>3
  <2> QED BY <2>2, <2>3
<1> QED BY <1>9, <1>10

LEMMA ReturnKeepsMap ==
  ASSUME Inv, SerialInv, MapInv, NEW t \in Threads, Return(t)
  PROVE  MapInv' /\ MapStep
<1> DEFINE h == loc[t]
<1>1. PICK p \in {"readd", "idle"} : pc' = [pc EXCEPT ![t] = p]
  BY DEF Return, Step
<1>2. /\ pc[t] \in {"return", "increased"} /\ UNCHANGED <<items, colisions>>
      /\ loc' = [loc EXCEPT ![t] = Idle]
  BY DEF Return, Step, table
<1>3. pc[t] # "idle" /\ pc[t] \notin Unlinking \cup Filling /\ Onward(pc[t], h) = pc[t]
  BY <1>2 DEF Onward, CheckPlaces, Unlinking, Filling
<1>4. /\ Onward(p, Idle) = p /\ p \notin Unlinking \cup Filling
      /\ p \notin Adding \cup Getting \cup Ending
  BY DEF Onward, CheckPlaces, Unlinking, Filling, Adding, Getting, Ending
<1>5. Sees(Onward(p, Idle), Idle, items', colisions')
  BY <1>4, NothingSeen
<1>6. /\ MapInv' /\ Ops = [u \in Threads |-> Ops[u]] /\ Ops[t] = Operation(pc[t], h)
      /\ Map!Answered(t, Operation(p, Idle))
      /\ Aside = KeysOf(colisions) /\ Aside' = KeysOf(colisions')
  BY <1>1, <1>2, <1>3, <1>4, <1>5, CallMoves
<1>7. UNCHANGED <<Stored, Aside>>
  BY <1>2, <1>6, StoredShown
<1>8. Operation(p, Idle) = Map!NoOp
  BY <1>4, OperationIs DEF Map!NoOp
<1> HIDE DEF h
<1>9. CASE pc[t] = "return"
  <2>1. pc[t] \in Ending
    BY <1>9 DEF Ending
  <2>2. Ops[t] = [at |-> "got", val |-> h.val] \/ Ops[t] = [at |-> "added", code |-> h.code]
    BY <1>6, <2>1, OperationIs
  <2>3. Ops[t].at \in {"added", "got"}
    BY <2>2
  <2>4. Map!Return(t)
    BY <1>6, <1>7, <1>8, <2>3 DEF Map!Return
  <2> QED BY <1>6, <2>4, StepOf
<1>10. CASE pc[t] = "increased"
  <2>1. pc[t] \notin Adding \cup Getting \cup Ending
    BY <1>10 DEF Adding, Getting, Ending
  <2>2. Ops[t] = Operation(p, Idle)
    BY <1>4, <1>6, <2>1, OperationIs
  <2>3. Ops' = Ops
    BY <1>6, <2>2 DEF Map!Answered
  <2> QED BY <1>6, <1>7, <2>3 DEF MapStep, Map!vars
<1> QED BY <1>2, <1>9, <1>10

(* A call of add or get, by a caller or by increaseTable. *)
LEMMA CallStarts ==
  ASSUME Inv, SerialInv, NEW t \in Threads, \A u \in Threads : u # t => pc[u] = "idle",
         pc[t] \in {"idle", "readd"}, NEW p \in {"addSize", "getSize"}, NEW l,
         l.key \in Keyed, l.val \in Seq(Sources), l.code = -1, p = "getSize" => l.val = <<>>,
         pc' = [pc EXCEPT ![t] = p], loc' = [loc EXCEPT ![t] = l],
         UNCHANGED <<items, colisions>>
  PROVE  MapInv' /\ MapStep
<1>1. /\ pc[t] \notin Unlinking \cup Filling \cup Adding \cup Getting \cup Ending
      /\ Onward(pc[t], loc[t]) = pc[t] /\ "idle" \notin Unlinking \cup Filling
  BY DEF Unlinking, Filling, Adding, Getting, Ending, Onward, CheckPlaces
<1>2. Onward(p, l) = p /\ p \notin Unlinking \cup Filling
  BY DEF Unlinking, Filling, Onward, CheckPlaces
<1>3. Sees(p, l, items', colisions')
  BY DEF Sees, Getting, Colliding, Meeting
<1>4. /\ Service \in Threads /\ pc = [u \in Threads |-> pc[u]]
      /\ pc[Service] \notin Unlinking \cup Filling
  BY <1>1 DEF Inv, ThreadsOK, Threads
<1>5. pc'[Service] \notin Unlinking \cup Filling
  BY <1>2, <1>4
<1>6. OnlyAside' /\ Aside' = Aside
  BY <1>4, <1>5 DEF OnlyAside, Aside
<1>7. /\ MapInv' /\ Ops = [u \in Threads |-> Ops[u]]
      /\ Ops[t] = Operation(pc[t], loc[t])
      /\ \A u \in Threads : u # t => Ops[u] = [at |-> "none"]
      /\ Map!Answered(t, Operation(p, l))
  BY <1>1, <1>2, <1>3, <1>6, MapThreads
<1>8. Ops[t] = [at |-> "none"]
  BY <1>1, <1>7, OperationIs
<1>9. Operation(p, l) \in Map!Requests
  <2>1. CASE p = "addSize"
    <3>1. Operation(p, l) = [at |-> "add", key |-> l.key, val |-> l.val]
      BY <2>1, OperationIs DEF Adding
    <3> QED BY <3>1 DEF Map!Requests
  <2>2. CASE p = "getSize"
    <3>1. Operation(p, l) = [at |-> "get", key |-> l.key]
      BY <2>2, OperationIs DEF Getting
    <3> QED BY <3>1 DEF Map!Requests
  <2> QED BY <2>1, <2>2
<1>10. Map!Alone
  BY <1>7, <1>8 DEF Map!Alone, Map!NoOp
<1>11. Stored' = Stored
  BY StoredShown
<1>12. Ops' = [Ops EXCEPT ![t] = Operation(p, l)] /\ Ops'[t] = Operation(p, l)
  BY <1>7 DEF Map!Answered
<1>13. Map!Call(t)
  BY <1>6, <1>9, <1>10, <1>11, <1>12 DEF Map!Call
<1> QED BY <1>7, <1>13, StepOf

LEMMA CallersKeepMap ==
  ASSUME Serial, Inv, SerialInv, NEW t \in Callers, NEW k \in Keys,
         CallGet(t, k) \/ \E v \in Values : CallAdd(t, k, v)
  PROVE  MapInv' /\ MapStep
<1>1. t \in Threads /\ k \in Keyed /\ Values \subseteq Seq(Sources)
  BY ValuesAssumption DEF Threads, Keyed
<1>2. \A u \in Threads : pc[u] = "idle"
  BY DEF CallGet, CallAdd, MayStart
<1>3. UNCHANGED <<items, colisions>>
  BY DEF CallGet, CallAdd, table
<1>4. Local(Idle) /\ Idle.code = -1 /\ Idle.val = <<>> /\ Idle.key = NoKey
  BY IdleLocal, Zenon DEF Idle
<1>5. CASE CallGet(t, k)
  <2> DEFINE l == [Idle EXCEPT !.key = k]
  <2>1. l.code = Idle.code /\ l.val = Idle.val /\ l.key = k
    BY <1>4, Zenon DEF Local
  <2>2. pc' = [pc EXCEPT ![t] = "getSize"] /\ loc' = [loc EXCEPT ![t] = l]
    BY <1>5 DEF CallGet, Step
  <2>3. <<>> \in Seq(Sources)
    OBVIOUS
  <2> HIDE DEF l
  <2>4. l.key \in Keyed /\ l.val = <<>> /\ l.val \in Seq(Sources) /\ l.code = -1
    BY <1>1, <1>4, <2>1, <2>3
  <2> QED BY <1>1, <1>2, <1>3, <2>2, <2>4, CallStarts
<1>6. ASSUME NEW v \in Values, CallAdd(t, k, v) PROVE MapInv' /\ MapStep
  <2> DEFINE b == IF Serial THEN Lookup(k) ELSE <<>>
             l == [Idle EXCEPT !.key = k, !.val = v, !.before = b]
  <2> HIDE DEF b
  <2>1. l.code = Idle.code /\ l.val = v /\ l.key = k
    BY <1>4, Zenon DEF Local
  <2>2. pc' = [pc EXCEPT ![t] = "addSize"] /\ loc' = [loc EXCEPT ![t] = l]
    BY <1>6 DEF CallAdd, Step, b
  <2> HIDE DEF l
  <2>3. l.val \in Seq(Sources)
    BY <1>1, <1>6, <2>1
  <2> QED BY <1>1, <1>2, <1>3, <1>4, <2>1, <2>2, <2>3, CallStarts
<1> QED BY <1>5, <1>6

LEMMA ReaddKeepsMap ==
  ASSUME Inv, SerialInv, Readd
  PROVE  MapInv' /\ MapStep
<1> DEFINE it == sv.tmp[1]
           l == [Idle EXCEPT !.key = it.key, !.val = it.value]
<1>1. /\ pc[Service] = "readd" /\ pc' = [pc EXCEPT ![Service] = "addSize"]
      /\ UNCHANGED <<items, colisions>> /\ loc' = [loc EXCEPT ![Service] = l] /\ sv.tmp # <<>>
  BY DEF Readd, Step, table
<1>2. Service \in Threads
  BY DEF Threads
<1>3. it \in Item
  <2>1. sv.tmp \in Seq(Item)
    BY DEF Inv, SvOK
  <2> QED BY <1>1, <2>1, EmptySeq
<1>4. Local(Idle) /\ Idle.code = -1
  BY IdleLocal, Zenon DEF Idle
<1>5. l.code = -1 /\ l.key = it.key /\ l.val = it.value
  BY <1>4, Zenon DEF Local
<1>6. l.key \in Keyed /\ l.val \in Seq(Sources)
  BY <1>3, <1>5 DEF Item, Keyed
<1> HIDE DEF l
<1>7. \A u \in Threads : u # Service => pc[u] = "idle"
  BY <1>1, <1>2, OnlyOne
<1> QED BY <1>1, <1>2, <1>5, <1>6, <1>7, CallStarts

(***************************************************************************)
(* The service thread: SourceMap sees the one step that swaps the vectors.  *)
(***************************************************************************)
ServiceAlone == ServicePlaces \ {"addSize"}

LEMMA ServiceMoves ==
  ASSUME Inv, NEW p \in ServiceAlone, NEW l, pc[Service] \in ServiceAlone,
         \A u \in Threads : u # Service => pc[u] = "idle",
         pc' = [pc EXCEPT ![Service] = p], loc' = [loc EXCEPT ![Service] = l], OnlyAside'
  PROVE  MapInv' /\ Ops' = Ops /\ Map!Alone
<1>1. Service \in Threads
  BY DEF Threads
<1>2. ASSUME NEW q \in ServiceAlone, NEW g
      PROVE  /\ q \notin Adding \cup Getting \cup Ending /\ Onward(q, g) = q
             /\ Operation(q, g) = [at |-> "none"]
  <2>1. q \notin Adding \cup Getting \cup Ending /\ Onward(q, g) = q
    BY DEF ServiceAlone, ServicePlaces, Adding, Getting, Ending, Onward, CheckPlaces
  <2> QED BY <2>1, OperationIs
<1>3. Sees(Onward(p, l), l, items', colisions')
  BY <1>2, NothingSeen
<1>4. /\ MapInv' /\ Ops = [u \in Threads |-> Ops[u]]
      /\ Ops[Service] = Operation(Onward(pc[Service], loc[Service]), loc[Service])
      /\ \A u \in Threads : u # Service => Ops[u] = [at |-> "none"]
      /\ Map!Answered(Service, Operation(Onward(p, l), l))
  BY <1>1, <1>3, MapThreads
<1>5. /\ Ops[Service] = [at |-> "none"]
      /\ Ops' = [Ops EXCEPT ![Service] = [at |-> "none"]]
  BY <1>2, <1>4 DEF Map!Answered
<1> QED BY <1>4, <1>5 DEF Map!Alone, Map!NoOp

LEMMA ServiceGoesOn ==
  ASSUME Inv, NEW p \in ServiceAlone, NEW l, pc[Service] \in ServiceAlone,
         \A u \in Threads : u # Service => pc[u] = "idle",
         pc' = [pc EXCEPT ![Service] = p], loc' = [loc EXCEPT ![Service] = l], OnlyAside',
         UNCHANGED <<items, colisions>>, p \in Unlinking <=> pc[Service] \in Unlinking
  PROVE  MapInv' /\ MapStep
<1>1. MapInv' /\ Ops' = Ops
  BY ServiceMoves
<1>2. Stored' = Stored
  BY StoredShown
<1>3. pc'[Service] = p
  BY DEF Inv, ThreadsOK, Threads
<1>4. Aside' = Aside
  BY <1>3 DEF Aside
<1> QED BY <1>1, <1>2, <1>4 DEF MapStep, Map!vars

LEMMA FlagsKeepMap ==
  ASSUME Inv, SerialInv, MapInv,
         \/ IncRefuse \/ LockIncrease \/ SetFlag \/ Rendezvous \/ StoreSize \/ ClearFlag
         \/ UnlockIncrease \/ IncDone
  PROVE  MapInv' /\ MapStep
<1>1. PICK p \in ServiceAlone :
        /\ pc' = [pc EXCEPT ![Service] = p]
        /\ p \in Unlinking <=> pc[Service] \in Unlinking
        /\ p \in Filling => pc[Service] \in Filling
        /\ pc[Service] \in ServiceAlone /\ pc[Service] # "idle"
  BY DEF IncRefuse, LockIncrease, SetFlag, Rendezvous, StoreSize, ClearFlag, UnlockIncrease,
         IncDone, Step, ServiceAlone, ServicePlaces, Unlinking, Filling
<1>2. UNCHANGED <<items, colisions, sv, loc>>
  BY DEF IncRefuse, LockIncrease, SetFlag, Rendezvous, StoreSize, ClearFlag, UnlockIncrease,
         IncDone, table
<1>3. loc' = [loc EXCEPT ![Service] = loc[Service]]
  BY <1>2, ServiceFacts
<1>4. Service \in Threads /\ pc'[Service] = p
  BY <1>1 DEF Inv, ThreadsOK, Threads
<1>5. OnlyAside'
  BY <1>1, <1>2, <1>4 DEF MapInv, OnlyAside
<1>6. \A u \in Threads : u # Service => pc[u] = "idle"
  BY <1>1, <1>4, OnlyOne
<1> QED BY <1>1, <1>2, <1>3, <1>5, <1>6, ServiceGoesOn

LEMMA ServiceCallsKeepMap ==
  ASSUME Serial, Inv, MapInv, CallIncrease \/ CallAssign
  PROVE  MapInv' /\ MapStep
<1>1. \A u \in Threads : pc[u] = "idle"
  BY DEF CallIncrease, CallAssign, MayStart
<1>2. UNCHANGED <<items, colisions, loc>> /\ Service \in Threads
  BY DEF CallIncrease, CallAssign, table, Threads
<1>3. loc' = [loc EXCEPT ![Service] = loc[Service]]
  BY <1>2, ServiceFacts
<1>4. PICK p \in {"increase", "asgSize"} : pc' = [pc EXCEPT ![Service] = p]
  BY DEF CallIncrease, CallAssign, Step
<1>5. /\ p \in ServiceAlone /\ p \notin Unlinking \cup Filling
      /\ "idle" \in ServiceAlone /\ "idle" \notin Unlinking
  BY DEF ServiceAlone, ServicePlaces, Unlinking, Filling
<1>6. pc'[Service] = p
  BY <1>2, <1>4 DEF Inv, ThreadsOK
<1>7. OnlyAside'
  BY <1>5, <1>6 DEF OnlyAside
<1> QED BY <1>1, <1>2, <1>3, <1>4, <1>5, <1>7, ServiceGoesOn

(* The vectors are replaced, with no key in the new one that has not been set aside. *)
LEMMA Rebuilds ==
  ASSUME Inv, SerialInv, NEW p \in ServiceAlone, pc[Service] \in ServiceAlone,
         pc[Service] # "idle", pc[Service] \notin Unlinking, p \in Unlinking,
         pc' = [pc EXCEPT ![Service] = p], UNCHANGED <<colisions, loc>>,
         items' \in Seq(Item), Len(items') > 0, Unlinked(items'),
         KeysIn(items') \subseteq KeysOf(colisions)
  PROVE  MapInv' /\ MapStep
<1>1. Service \in Threads /\ pc'[Service] = p
  BY DEF Inv, ThreadsOK, Threads
<1>2. \A u \in Threads : u # Service => pc[u] = "idle"
  BY <1>1, OnlyOne
<1>3. loc' = [loc EXCEPT ![Service] = loc[Service]]
  BY ServiceFacts
<1>4. OnlyAside'
  BY <1>1 DEF OnlyAside, Filling, Unlinking
<1>5. MapInv' /\ Ops' = Ops /\ Map!Alone
  BY <1>2, <1>3, <1>4, ServiceMoves
<1>6. Aside = KeysOf(colisions) /\ Aside' = {}
  BY <1>1 DEF Aside, KeysOf
<1>7. ASSUME NEW k \in Keyed
      PROVE  /\ Shown(k, items', colisions') \in Seq(Sources)
             /\ k \notin KeysOf(colisions) => Shown(k, items', colisions') = <<>>
  <2> DEFINE b == Home(k, items')
             h == items'[b]
  <2>1. b \in 1..Len(items')
    BY CellsOfKeys DEF Home
  <2>2. h \in Item
    <3> HIDE DEF b
    <3> QED BY <2>1
  <2>3. <<>> \in Seq(Sources) /\ h.value \in Seq(Sources)
    BY <2>2 DEF Item
  <2>4. h.value # <<>> => h.next = 0 /\ h.key \in KeysOf(colisions)
    <3> HIDE DEF b
    <3> QED BY <2>1 DEF Unlinked, KeysIn, Full, NoNext
  <2>5. Shown(k, items', colisions') = IF h.value # <<>> /\ h.key = k THEN h.value ELSE <<>>
    BY <2>4 DEF Shown, ShownAt
  <2> HIDE DEF h
  <2> QED BY <2>3, <2>4, <2>5
<1>8. /\ Stored' \in [Keyed -> Seq(Sources)]
      /\ \A k \in Keyed \ Aside : Stored'[k] = <<>>
  BY <1>6, <1>7, StoredShown
<1>9. Map!Rebuild
  BY <1>5, <1>6, <1>8 DEF Map!Rebuild
<1> QED BY <1>5, <1>9 DEF MapStep, Map!Next

(* colisions are emptied when no head names one. *)
LEMMA EmptiesKeepMap ==
  ASSUME Inv, SerialInv, NEW p \in ServiceAlone, pc[Service] \in ServiceAlone,
         pc[Service] \in Unlinking, p \notin Unlinking \cup Filling,
         pc' = [pc EXCEPT ![Service] = p], UNCHANGED <<items, loc>>, colisions' = <<>>,
         Len(items) > 0
  PROVE  MapInv' /\ MapStep
<1>1. Service \in Threads /\ pc'[Service] = p /\ pc[Service] # "idle"
  BY DEF Inv, ThreadsOK, Threads, Unlinking
<1>2. \A u \in Threads : u # Service => pc[u] = "idle"
  BY <1>1, OnlyOne
<1>3. loc' = [loc EXCEPT ![Service] = loc[Service]]
  BY ServiceFacts
<1>4. OnlyAside'
  BY <1>1 DEF OnlyAside
<1>5. MapInv' /\ Ops' = Ops
  BY <1>2, <1>3, <1>4, ServiceMoves
<1>6. Aside = {} /\ Aside' = {}
  BY <1>1 DEF Aside
<1>7. Unlinked(items) /\ items \in Seq(Item)
  BY ItemsRead DEF SerialInv
<1>8. ASSUME NEW k \in Keyed
      PROVE  Shown(k, items', colisions') = Shown(k, items, colisions)
  <2> DEFINE b == Home(k, items)
  <2>1. b \in 1..Len(items)
    BY <1>7, CellsOfKeys DEF Home
  <2> HIDE DEF b
  <2>2. items[b].value # <<>> => items[b].next = 0
    BY <1>7, <2>1 DEF Unlinked, Full, NoNext
  <2>3. ShownAt(k, items[b], <<>>) = ShownAt(k, items[b], colisions)
    BY <2>2 DEF ShownAt
  <2> QED BY <2>3 DEF Shown, b
<1>9. Stored' = Stored
  BY <1>8, StoredShown
<1> QED BY <1>5, <1>6, <1>9 DEF MapStep, Map!vars

LEMMA SwapsKeepMap ==
  ASSUME Inv, SerialInv, MapInv, SwapItems \/ ResetColisions
  PROVE  MapInv' /\ MapStep
<1>1. /\ {"swapItems", "storeSize", "resetColisions", "readd"} \subseteq ServiceAlone
      /\ "swapItems" \notin Unlinking /\ "swapItems" \in Filling
      /\ {"storeSize", "resetColisions"} \subseteq Unlinking
      /\ "readd" \notin Unlinking \cup Filling
  BY DEF ServiceAlone, ServicePlaces, Unlinking, Filling
<1>2. size > 0 /\ size \in Nat
  BY DEF Inv, TableOK
<1>3. CASE SwapItems
  <2>1. /\ pc[Service] = "swapItems" /\ pc' = [pc EXCEPT ![Service] = "storeSize"]
        /\ items' = sv.new /\ UNCHANGED <<colisions, loc>>
    BY <1>3 DEF SwapItems, Step
  <2>2. /\ sv.new \in Seq(Item) /\ Len(sv.new) = 2 * size /\ Unlinked(sv.new)
    BY <2>1 DEF Inv, SvOK, ServiceOK, Copying, SerialInv
  <2>3. KeysIn(sv.new) \subseteq KeysOf(colisions)
    BY <1>1, <2>1 DEF MapInv, OnlyAside
  <2>4. /\ items' \in Seq(Item) /\ Len(items') > 0 /\ Unlinked(items')
        /\ KeysIn(items') \subseteq KeysOf(colisions)
    BY <1>2, <2>1, <2>2, <2>3
  <2> QED BY <1>1, <2>1, <2>4, Rebuilds
<1>4. CASE ResetColisions
  <2>1. /\ pc[Service] = "resetColisions" /\ pc' = [pc EXCEPT ![Service] = "readd"]
        /\ colisions' = <<>> /\ UNCHANGED <<items, loc>>
    BY <1>4 DEF ResetColisions, Step
  <2>2. Len(items) > 0
    BY <1>2, <2>1 DEF Inv, ServiceOK, Assigning
  <2> QED BY <1>1, <2>1, <2>2, EmptiesKeepMap
<1> QED BY <1>3, <1>4

LEMMA AssignKeepsMap ==
  ASSUME Inv, SerialInv, MapInv, Assign
  PROVE  MapInv' /\ MapStep
<1>1. UNCHANGED <<sv, loc>> /\ Service \in Threads
  BY DEF Assign, table, Threads
<1>2. loc' = [loc EXCEPT ![Service] = loc[Service]]
  BY <1>1, ServiceFacts
<1>3. pc[Service] \in ServiceAlone /\ pc[Service] # "idle"
  BY DEF Assign, Step, ServiceAlone, ServicePlaces
<1>4. \A u \in Threads : u # Service => pc[u] = "idle"
  BY <1>1, <1>3, OnlyOne
<1>5. CASE pc[Service] \in {"asgSize", "asgCount", "asgCapacity", "asgBusy"}
  <2>1. UNCHANGED <<items, colisions>>
    BY <1>5 DEF Assign, Step, table
  <2>2. PICK p \in ServiceAlone :
          pc' = [pc EXCEPT ![Service] = p] /\ p \notin Unlinking \cup Filling
    BY <1>5 DEF Assign, Step, ServiceAlone, ServicePlaces, Unlinking, Filling
  <2>3. pc[Service] \notin Unlinking
    BY <1>5 DEF Unlinking
  <2>4. OnlyAside'
    BY <2>2 DEF OnlyAside, Inv, ThreadsOK, Threads
  <2> QED BY <1>2, <1>3, <1>4, <2>1, <2>2, <2>3, <2>4, ServiceGoesOn
<1>6. CASE pc[Service] = "asgItems"
  <2>1. /\ pc' = [pc EXCEPT ![Service] = "asgColisions"]
        /\ items' = createNewVector(StartSize) /\ colisions' = colisions
    BY <1>6 DEF Assign, Step
  <2>2. StartSize \in Nat /\ StartSize > 0
    BY SizesAssumption
  <2>3. items' \in Seq(Item) /\ Len(items') > 0 /\ Unlinked(items')
    BY <2>1, <2>2, EmptyTable, EmptyVector
  <2>4. KeysIn(items') \subseteq KeysOf(colisions)
    <3>1. \A b \in 1..StartSize : items'[b].value = <<>>
      BY <2>1 DEF createNewVector, EmptyItem
    <3>2. Len(items') = StartSize
      BY <2>1, <2>2, EmptyTable
    <3>3. Full(items') = {}
      BY <3>1, <3>2 DEF Full
    <3> QED BY <3>3 DEF KeysIn
  <2>5. "asgColisions" \in ServiceAlone /\ "asgColisions" \in Unlinking
        /\ pc[Service] \notin Unlinking
    BY <1>6 DEF ServiceAlone, ServicePlaces, Unlinking
  <2> QED BY <1>1, <1>3, <2>1, <2>3, <2>4, <2>5, Rebuilds
<1>7. CASE pc[Service] = "asgColisions"
  <2>1. /\ pc' = [pc EXCEPT ![Service] = "asgBusy"] /\ items' = items /\ colisions' = <<>>
    BY <1>7 DEF Assign, Step
  <2>2. Len(items) > 0
    BY <1>7 DEF Inv, ServiceOK, Assigning, TableOK
  <2>3. /\ "asgBusy" \in ServiceAlone /\ "asgBusy" \notin Unlinking \cup Filling
        /\ pc[Service] \in Unlinking
    BY <1>7 DEF ServiceAlone, ServicePlaces, Unlinking, Filling
  <2> QED BY <1>1, <1>3, <2>1, <2>2, <2>3, EmptiesKeepMap
<1> QED BY <1>5, <1>6, <1>7 DEF Assign, Step

(* What an item placed in the new vector adds to its keys: its own, if it has a value. *)
LEMMA PlacedKeys ==
  ASSUME SvOK, Len(sv.new) > 0, NEW it \in Item
  PROVE  KeysIn(PlaceItem(it).new) \subseteq
           KeysIn(sv.new) \cup (IF it.value = <<>> THEN {} ELSE {it.key})
<1> DEFINE v == sv.new
           c == Cell(it.key, newSize)
           cur == v[c]
           g == PlaceItem(it)
           new == KeysIn(v) \cup (IF it.value = <<>> THEN {} ELSE {it.key})
<1>1. v \in Seq(Item) /\ newSize = Len(v) /\ newSize \in Nat /\ newSize > 0
  BY DEF SvOK, newSize
<1>2. it.key \in Keyed /\ it.value \in Seq(Sources)
  BY DEF Item, Keyed
<1>3. c \in 1..Len(v)
  BY <1>1, <1>2, CellsOfKeys
<1>4. cur \in Item /\ (cur.value # <<>> => cur.key \in KeysIn(v))
  BY <1>1, <1>3 DEF KeysIn, Full
<1>5. ASSUME NEW w, w.value # <<>> => w.key \in new, g.new = Written(v, c, w)
      PROVE  KeysIn(g.new) \subseteq new
  <2> HIDE DEF g, c, v
  <2>1. Len(g.new) = Len(v) /\ \A b \in 1..Len(v) : g.new[b] = IF b = c THEN w ELSE v[b]
    BY <1>1, <1>3, <1>5 DEF Written
  <2>2. ASSUME NEW b \in Full(g.new) PROVE g.new[b].key \in new
    BY <1>5, <2>1 DEF Full, KeysIn
  <2> HIDE DEF new
  <2> QED BY <2>2 DEF KeysIn
<1>6. CASE cur.value = <<>>
  <2>1. g = [sv EXCEPT !.new = Written(v, c, it)]
    BY <1>6, Zenon DEF PlaceItem, Written
  <2>2. g.new = Written(v, c, it)
    BY <2>1, Zenon DEF SvOK
  <2>3. it.value # <<>> => it.key \in new
    OBVIOUS
  <2> QED BY <1>5, <2>2, <2>3
<1>7. CASE cur.value # <<>> /\ cur.key # it.key
  <2>1. g = [sv EXCEPT !.tmp = Append(sv.tmp, it)]
    BY <1>7, Zenon DEF PlaceItem
  <2>2. g.new = v
    BY <2>1, Zenon DEF SvOK
  <2> QED BY <2>2
<1>8. CASE cur.value # <<>> /\ cur.key = it.key
  <2> DEFINE x == cur.value \o it.value
             w == [cur EXCEPT !.value = x]
  <2>1. g = [sv EXCEPT !.new[c].value = x]
    BY <1>8, Zenon DEF PlaceItem
  <2> HIDE DEF x
  <2>2. w.key = cur.key
    BY <1>4 DEF Item
  <2>3. g = [sv EXCEPT !.new = Written(v, c, w)]
    BY <2>1, Zenon DEF Written
  <2>4. g.new = Written(v, c, w)
    BY <2>3, Zenon DEF SvOK
  <2>5. w.key \in new
    BY <1>4, <1>8, <2>2
  <2> HIDE DEF w
  <2> QED BY <1>5, <2>4, <2>5
<1> QED BY <1>6, <1>7, <1>8

(* increaseTable fills its vector from the cells without value and from colisions. *)
LEMMA CopyingKeepsMap ==
  ASSUME Inv, SerialInv, MapInv, IncStart \/ CopyItem \/ CountColisions \/ CopyColision
  PROVE  MapInv' /\ MapStep
<1>1. /\ items \in Seq(Item) /\ colisions \in Seq(Item) /\ SvOK /\ size \in Nat /\ size > 0
      /\ Multiple(size) /\ ServiceOK(pc[Service]) /\ Service \in Threads
      /\ pc = [u \in Threads |-> pc[u]] /\ sv.i \in Nat /\ sv.n \in Nat
  BY ItemsRead DEF Inv, TableOK, ThreadsOK, SvOK, Threads
<1>2. UNCHANGED <<items, colisions, loc>>
  BY DEF IncStart, CopyItem, CountColisions, CopyColision, table
<1>3. loc' = [loc EXCEPT ![Service] = loc[Service]]
  BY <1>2, ServiceFacts
<1>4. PICK p \in {"copyItem", "copyColision"} : pc' = [pc EXCEPT ![Service] = p]
  BY <1>1 DEF IncStart, CopyItem, CountColisions, CopyColision, Step
<1>5. pc[Service] \in {"increase", "copyItem", "copyColision"}
  BY DEF IncStart, CopyItem, CountColisions, CopyColision, Step
<1>6. /\ p \in ServiceAlone /\ p \notin Unlinking /\ pc[Service] \in ServiceAlone
      /\ pc[Service] \notin Unlinking /\ pc[Service] # "idle"
  BY <1>5 DEF ServiceAlone, ServicePlaces, Unlinking
<1>7. \A u \in Threads : u # Service => pc[u] = "idle"
  BY <1>1, <1>6, OnlyOne
<1>8. pc[Service] # "increase" =>
        /\ KeysIn(sv.new) \subseteq KeysOf(colisions)
        /\ Len(sv.new) = 2 * size /\ Len(sv.new) > 0 /\ Multiple(Len(sv.new))
  <2>1. pc[Service] # "increase" => pc[Service] \in Filling /\ pc[Service] \in Copying
    BY <1>5 DEF Filling, Copying
  <2> QED BY <1>1, <2>1, Doubled DEF MapInv, OnlyAside, ServiceOK
<1>9. ASSUME KeysIn(sv'.new) \subseteq KeysOf(colisions) PROVE MapInv' /\ MapStep
  <2>1. OnlyAside'
    BY <1>2, <1>9 DEF OnlyAside
  <2> QED BY <1>2, <1>3, <1>4, <1>6, <1>7, <2>1, ServiceGoesOn
<1>10. ASSUME NEW it \in Item, sv' = [PlaceItem(it) EXCEPT !.i = sv.i + 1],
              it.value = <<>> \/ it.key \in KeysOf(colisions), pc[Service] # "increase"
       PROVE  KeysIn(sv'.new) \subseteq KeysOf(colisions)
  <2> DEFINE g == PlaceItem(it)
  <2>1. "new" \in DOMAIN g
    BY <1>1, <1>8, <1>10, ItemPlaced DEF SvOK
  <2>2. KeysIn(g.new) \subseteq KeysIn(sv.new) \cup (IF it.value = <<>> THEN {} ELSE {it.key})
    BY <1>1, <1>8, <1>10, PlacedKeys
  <2> HIDE DEF g
  <2>3. sv'.new = g.new
    BY <1>10, <2>1, Zenon DEF g
  <2>4. KeysIn(g.new) \subseteq KeysOf(colisions)
    BY <1>8, <1>10, <2>2
  <2> QED BY <2>3, <2>4
<1>11. CASE IncStart
  <2>1. sv'.new = createNewVector(2 * size) /\ 2 * size \in Nat
    BY <1>1, <1>11 DEF IncStart
  <2> DEFINE s == createNewVector(2 * size)
  <2>2. Len(s) = 2 * size
    BY <2>1, EmptyTable
  <2>3. \A b \in 1..(2 * size) : s[b].value = <<>>
    BY DEF createNewVector, EmptyItem
  <2> HIDE DEF s
  <2>4. KeysIn(s) = {}
    BY <2>2, <2>3 DEF KeysIn, Full
  <2>5. KeysIn(sv'.new) = {}
    BY <2>1, <2>4 DEF s
  <2> QED BY <1>9, <2>5
<1>12. CASE CountColisions
  <2>1. sv' = [sv EXCEPT !.i = 1, !.n = Len(colisions)] /\ pc[Service] # "increase"
    BY <1>12 DEF CountColisions, Step
  <2>2. sv'.new = sv.new
    BY <1>1, <2>1, Zenon DEF SvOK
  <2> QED BY <1>8, <1>9, <2>1, <2>2
<1>13. CASE CopyItem
  <2> DEFINE it == items[sv.i]
             g == IF it.value # <<>> THEN sv ELSE PlaceItem(it)
  <2>1. pc[Service] = "copyItem" /\ sv.i <= sv.n
    BY <1>13 DEF CopyItem
  <2>2. it \in Item
    BY <1>1, <2>1, ItemsRead DEF ServiceOK
  <2>3. sv' = [g EXCEPT !.i = sv.i + 1]
    BY <1>13 DEF CopyItem
  <2>4. CASE it.value # <<>>
    <3>1. sv' = [sv EXCEPT !.i = sv.i + 1]
      BY <2>3, <2>4, Zenon
    <3>2. sv'.new = sv.new
      BY <1>1, <3>1, Zenon DEF SvOK
    <3> QED BY <1>8, <1>9, <2>1, <3>2
  <2>5. CASE it.value = <<>>
    <3>1. sv' = [PlaceItem(it) EXCEPT !.i = sv.i + 1]
      BY <2>3, <2>5, Zenon
    <3> HIDE DEF it
    <3> QED BY <1>9, <1>10, <2>1, <2>2, <2>5, <3>1
  <2> QED BY <2>4, <2>5
<1>14. CASE CopyColision
  <2> DEFINE it == [colisions[sv.i] EXCEPT !.next = NoNext]
  <2>1. pc[Service] = "copyColision" /\ sv.i <= sv.n
    BY <1>14 DEF CopyColision
  <2>2. colisions[sv.i] \in Item /\ sv.i \in 1..Len(colisions)
    BY <1>1, <2>1, ItemsRead DEF ServiceOK
  <2>3. it \in Item /\ it.key = colisions[sv.i].key
    BY <2>2 DEF Item, NoNext
  <2>4. it.key \in KeysOf(colisions)
    BY <2>2, <2>3 DEF KeysOf
  <2>5. sv' = [PlaceItem(it) EXCEPT !.i = sv.i + 1]
    BY <1>14 DEF CopyColision
  <2> HIDE DEF it
  <2> QED BY <1>9, <1>10, <2>1, <2>3, <2>4, <2>5
<1> QED BY <1>11, <1>12, <1>13, <1>14

(***************************************************************************)
(* The theorem.                                                            *)
(***************************************************************************)
LEMMA InitMap == Init => Map!Init /\ MapInv
<1> SUFFICES ASSUME Init PROVE Map!Init /\ MapInv
  OBVIOUS
<1>1. Service \in Threads /\ StartSize \in Nat /\ StartSize > 0
  BY SizesAssumption DEF Threads
<1>2. /\ \A t \in Threads : pc[t] = "idle"
      /\ items = createNewVector(StartSize) /\ colisions = <<>>
  BY DEF Init
<1>3. /\ "idle" \notin Adding \cup Getting \cup Ending \cup Unlinking \cup Filling
      /\ \A l : Onward("idle", l) = "idle"
  BY DEF Adding, Getting, Ending, Unlinking, Filling, Onward, CheckPlaces
<1>4. MapInv
  <2>1. OnlyAside
    BY <1>1, <1>2, <1>3 DEF OnlyAside
  <2>2. ASSUME NEW t \in Threads PROVE Sees(Onward(pc[t], loc[t]), loc[t], items, colisions)
    BY <1>2, <1>3, NothingSeen
  <2> QED BY <2>1, <2>2 DEF MapInv
<1>5. Ops = [t \in Threads |-> Map!NoOp]
  <2>1. ASSUME NEW t \in Threads PROVE Operation(Onward(pc[t], loc[t]), loc[t]) = Map!NoOp
    BY <1>2, <1>3, OperationIs DEF Map!NoOp
  <2> QED BY <2>1 DEF Ops
<1>6. Aside = {}
  BY <1>2 DEF Aside
<1>7. Stored = [k \in Keyed |-> <<>>]
  <2>1. ASSUME NEW k \in Keyed PROVE Shown(k, items, colisions) = <<>>
    <3> DEFINE b == Home(k, items)
    <3>1. Len(items) = StartSize
      BY <1>1, <1>2, EmptyTable
    <3>2. b \in 1..StartSize
      BY <1>1, <3>1, CellsOfKeys DEF Home
    <3> HIDE DEF b
    <3>3. items[b].value = <<>>
      BY <1>2, <3>2 DEF createNewVector, EmptyItem
    <3> QED BY <3>3 DEF Shown, ShownAt, b
  <2> QED BY <2>1, StoredShown
<1> QED BY <1>4, <1>5, <1>6, <1>7 DEF Map!Init

LEMMA NextMap ==
  ASSUME Serial
  PROVE  Inv /\ SerialInv /\ MapInv /\ [Next]_vars => MapInv' /\ MapStep
<1> SUFFICES ASSUME Inv, SerialInv, MapInv, [Next]_vars PROVE MapInv' /\ MapStep
  OBVIOUS
<1>1. ASSUME NEW t \in Threads, ThreadStep(t) PROVE MapInv' /\ MapStep
  BY <1>1, ChecksKeepMap, SizesKeepMap, ReadKeepsMap, DecideKeepsMap, StoreKeepsMap,
     AppendKeepsMap, CountersKeepMap, LooksKeepMap, MisplaceKeepsMap, PushKeepsMap,
     LinkKeepsMap, GetsKeepMap, ReturnKeepsMap DEF ThreadStep
<1>2. CASE ServiceStep
  BY <1>2, FlagsKeepMap, CopyingKeepsMap, SwapsKeepMap, ReaddKeepsMap, AssignKeepsMap
     DEF ServiceStep
<1>3. CASE CallIncrease \/ CallAssign
  BY <1>3, ServiceCallsKeepMap
<1>4. ASSUME NEW t \in Callers, NEW k \in Keys, CallGet(t, k) PROVE MapInv' /\ MapStep
  BY <1>4, CallersKeepMap
<1>5. ASSUME NEW t \in Callers, NEW k \in Keys, NEW v \in Values, CallAdd(t, k, v)
      PROVE  MapInv' /\ MapStep
  BY <1>5, CallersKeepMap
<1>6. ASSUME UNCHANGED <<items, colisions, pc, loc, sv>> PROVE MapInv' /\ MapStep
  <2>1. MapInv'
    BY <1>6 DEF MapInv, OnlyAside
  <2>2. UNCHANGED <<Stored, Aside, Ops>>
    BY <1>6, StoredShown DEF Aside, Ops
  <2> QED BY <2>1, <2>2 DEF MapStep, Map!vars
<1>7. ASSUME NEW n \in 0..Cardinality(Callers), SetBusyThreadCount(n) PROVE MapInv' /\ MapStep
  BY <1>6, <1>7 DEF SetBusyThreadCount, table
<1>8. CASE UNCHANGED vars
  BY <1>6, <1>8 DEF vars, table
<1> QED BY <1>1, <1>2, <1>3, <1>4, <1>5, <1>7, <1>8 DEF Next

(* KeepsMap: when no two operations overlap, the table of add, get, increaseTable and the *)
(* clearing assignment implements SourceMap: every key keeps what was added to it, but for *)
(* keys of one class that meet in a cell and for the keys growth drops.                    *)
THEOREM TableKeepsMap == ASSUME Serial PROVE Spec => KeepsMap
<1>1. Init => Map!Init /\ MapInv
  BY InitMap
<1>2. Inv /\ SerialInv /\ MapInv /\ [Next]_vars => MapInv' /\ [Map!Next]_(Map!vars)
  BY NextMap DEF MapStep
<1>3. Spec => [](Inv /\ SerialInv)
  BY SerialInvHolds
<1> QED BY <1>1, <1>2, <1>3, PTL DEF Spec, KeepsMap, Map!Spec
=============================================================================
