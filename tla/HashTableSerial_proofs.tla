----------------------- MODULE HashTableSerial_proofs -----------------------
(***************************************************************************)
(* Theorems about HashTable when no two operations overlap (Serial), as in  *)
(* the unit tests, for any keys, hashes, values and sizes: the chains are   *)
(* well placed and well linked, and what add accepts, get reaches.          *)
(***************************************************************************)
EXTENDS HashTable_proofs

(* The cells of vector s whose item has a value. *)
Full(s) == {b \in 1..Len(s) : s[b].value # <<>>}
Home(k, s) == Cell(k, Len(s))
ChainIn(h, c) == {h} \cup {c[n] : n \in {h.next} \cap (1..Len(c))}

InCells(s) == \A b \in Full(s) : Home(s[b].key, s) = b
Unlinked(s) == \A b \in Full(s) : s[b].next = NoNext
Linked(s, c) ==
  \A b \in Full(s) : /\ s[b].next <= Len(c)
                     /\ s[b].next >= 1 => Home(c[s[b].next].key, s) = b
Flat(c) == \A n \in 1..Len(c) : c[n].next = NoNext
Sound(s, c) == InCells(s) /\ Linked(s, c) /\ Flat(c)

(* get finds key k. *)
Found(k, s, c) ==
  LET h == s[Home(k, s)]
  IN  h.value # <<>> /\ \E it \in ChainIn(h, c) : it.key = k

AtCell == TouchesItem \cup {"addDecide", "colHop", "colCount", "colPush"}
Colliding == {"addAppend", "colRead", "colHop", "colCount", "colAppend", "colPush", "colLink"}

(* What a thread that goes on at p, with locals l, knows of the vectors s and c. *)
Knows(p, l, s, c) ==
  /\ p \in AtCell => l.idx = Home(l.key, s)
  /\ p \in {"addDecide", "addAppend", "colHop"} => l.cur = s[l.idx]
  /\ p = "addAppend" => l.cur.key = l.key
  /\ p \in Colliding => s[l.idx].value # <<>>
  /\ p = "colCount" => s[l.idx].next \in 1..Len(c) /\ l.cur = c[s[l.idx].next]
  /\ p = "colAppend" => \E it \in ChainIn(s[l.idx], c) : it.key = l.key
  /\ p = "colLink" => l.pos \in 1..Len(c) /\ c[l.pos].key = l.key
  /\ p \in Getting => l.code # 0
  /\ p \in Ending /\ l.code = 0 /\ l.val # <<>> => Found(l.key, s, c)

Alone == \A t, u \in Threads : pc[t] # "idle" /\ pc[u] # "idle" => t = u

SerialInv ==
  /\ Sound(items, colisions)
  /\ InCells(sv.new) /\ Unlinked(sv.new)
  /\ pc[Service] \in Unlinking => Unlinked(items)
  /\ Alone
  /\ \A t \in Threads : Knows(Onward(pc[t], loc[t]), loc[t], items, colisions)

(***************************************************************************)
(* Locals: what the Put operators leave alone.                             *)
(***************************************************************************)
LEMMA FieldsPut ==
  ASSUME NEW l, Local(l), NEW x, NEW y
  PROVE  /\ PutCur(l, x).val = l.val /\ PutCur(l, x).pos = l.pos /\ PutCur(l, x).code = l.code
         /\ PutCurRet(l, x, y).val = l.val /\ PutCurRet(l, x, y).pos = l.pos
         /\ PutCurRet(l, x, y).code = l.code
         /\ PutCurVal(l, x, y).pos = l.pos /\ PutCurVal(l, x, y).code = l.code
         /\ PutIdxRet(l, x, y).val = l.val /\ PutIdxRet(l, x, y).pos = l.pos
         /\ PutIdxRet(l, x, y).code = l.code
         /\ PutCodeRet(l, x, y).val = l.val /\ PutCodeRet(l, x, y).pos = l.pos
         /\ PutCodeRet(l, x, y).code = x
         /\ PutReg(l, x).val = l.val /\ PutReg(l, x).pos = l.pos /\ PutReg(l, x).code = l.code
         /\ PutPosRet(l, x, y).val = l.val /\ PutPosRet(l, x, y).pos = x
         /\ PutPosRet(l, x, y).code = l.code
<1>1. PutCur(l, x).val = l.val /\ PutCur(l, x).pos = l.pos /\ PutCur(l, x).code = l.code
  BY Zenon DEF Local, PutCur
<1>2. /\ PutCurRet(l, x, y).val = l.val /\ PutCurRet(l, x, y).pos = l.pos
      /\ PutCurRet(l, x, y).code = l.code
  BY Zenon DEF Local, PutCurRet
<1>3. PutCurVal(l, x, y).pos = l.pos /\ PutCurVal(l, x, y).code = l.code
  BY Zenon DEF Local, PutCurVal
<1>4. /\ PutIdxRet(l, x, y).val = l.val /\ PutIdxRet(l, x, y).pos = l.pos
      /\ PutIdxRet(l, x, y).code = l.code
  BY Zenon DEF Local, PutIdxRet
<1>5. /\ PutCodeRet(l, x, y).val = l.val /\ PutCodeRet(l, x, y).pos = l.pos
      /\ PutCodeRet(l, x, y).code = x
  BY Zenon DEF Local, PutCodeRet
<1>6. PutReg(l, x).val = l.val /\ PutReg(l, x).pos = l.pos /\ PutReg(l, x).code = l.code
  BY Zenon DEF Local, PutReg
<1>7. /\ PutPosRet(l, x, y).val = l.val /\ PutPosRet(l, x, y).pos = x
      /\ PutPosRet(l, x, y).code = l.code
  BY Zenon DEF Local, PutPosRet
<1> QED BY <1>1, <1>2, <1>3, <1>4, <1>5, <1>6, <1>7

(***************************************************************************)
(* A step of the one thread that is not idle.                              *)
(***************************************************************************)
LEMMA NothingKnown ==
  ASSUME NEW p, NEW l, NEW s, NEW c,
         p \notin AtCell \cup Colliding \cup Getting \cup Ending
  PROVE  Knows(p, l, s, c)
BY DEF Knows, AtCell, TouchesItem, Colliding, Getting, Ending

LEMMA OnlyOne ==
  ASSUME SerialInv, NEW t \in Threads, pc[t] # "idle"
  PROVE  \A u \in Threads : u # t => pc[u] = "idle"
BY DEF SerialInv, Alone

LEMMA SerialStepKeeps ==
  ASSUME Inv, SerialInv, NEW t \in Threads, NEW p, NEW l,
         \A u \in Threads : u # t => pc[u] = "idle",
         pc' = [pc EXCEPT ![t] = p], loc' = [loc EXCEPT ![t] = l],
         Sound(items', colisions'), InCells(sv'.new), Unlinked(sv'.new),
         p \in Unlinking => Unlinked(items'),
         Knows(Onward(p, l), l, items', colisions')
  PROVE  SerialInv'
<1>1. /\ pc = [u \in Threads |-> pc[u]] /\ loc = [u \in Threads |-> loc[u]]
      /\ Service \in Threads
  BY DEF Inv, ThreadsOK, Threads
<1>2. pc'[t] = p /\ loc'[t] = l /\ \A u \in Threads : u # t => pc'[u] = "idle"
  BY <1>1
<1>3. Alone'
  BY <1>2 DEF Alone
<1>4. pc'[Service] \in Unlinking => Unlinked(items')
  BY <1>1, <1>2 DEF Unlinking
<1>5. ASSUME NEW u \in Threads
      PROVE  Knows(Onward(pc'[u], loc'[u]), loc'[u], items', colisions')
  <2>1. CASE u = t
    BY <1>2, <2>1
  <2>2. CASE u # t
    <3>1. Onward(pc'[u], loc'[u]) = "idle"
      BY <1>2, <2>2 DEF Onward, CheckPlaces
    <3>2. "idle" \notin AtCell \cup Colliding \cup Getting \cup Ending
      BY DEF AtCell, TouchesItem, Colliding, Getting, Ending
    <3> QED BY <3>1, <3>2, NothingKnown
  <2> QED BY <2>1, <2>2
<1> QED BY <1>3, <1>4, <1>5 DEF SerialInv

(* ... that leaves increaseTable's locals alone, or the table too. *)
LEMMA SerialTableStep ==
  ASSUME Inv, SerialInv, NEW t \in Threads, NEW p, NEW l, pc[t] # "idle",
         pc' = [pc EXCEPT ![t] = p], loc' = [loc EXCEPT ![t] = l],
         sv' = sv, Sound(items', colisions'), p \notin Unlinking,
         Knows(Onward(p, l), l, items', colisions')
  PROVE  SerialInv'
<1>1. InCells(sv'.new) /\ Unlinked(sv'.new)
  BY DEF SerialInv
<1>2. \A u \in Threads : u # t => pc[u] = "idle"
  BY OnlyOne
<1> QED BY <1>1, <1>2, SerialStepKeeps

LEMMA SerialLocalStep ==
  ASSUME Inv, SerialInv, NEW t \in Threads, NEW p, NEW l, pc[t] # "idle",
         pc' = [pc EXCEPT ![t] = p], loc' = [loc EXCEPT ![t] = l],
         UNCHANGED <<items, colisions, sv>>, p \notin Unlinking,
         Knows(Onward(p, l), l, items, colisions)
  PROVE  SerialInv'
<1>1. Sound(items', colisions') /\ Knows(Onward(p, l), l, items', colisions')
  BY DEF SerialInv
<1> QED BY <1>1, SerialTableStep

(* What the thread knows before its step. *)
LEMMA SerialFacts ==
  ASSUME Inv, SerialInv, NEW t \in Threads
  PROVE  /\ ThreadOK(pc[t], loc[t]) /\ Local(loc[t])
         /\ loc' = loc => loc' = [loc EXCEPT ![t] = loc[t]]
         /\ Knows(Onward(pc[t], loc[t]), loc[t], items, colisions)
         /\ pc[t] \notin CheckPlaces => Knows(pc[t], loc[t], items, colisions)
         /\ InCells(items) /\ Linked(items, colisions) /\ Flat(colisions)
         /\ items \in Seq(Item) /\ colisions \in Seq(Item)
BY ThreadFacts, LocalsOfThreads, ItemsRead DEF SerialInv, Sound, Onward

(* Knows looks at the key, value, index, item, position and code of the locals alone. *)
LEMMA SameKnowledge ==
  ASSUME NEW p, NEW l, NEW g, NEW s, NEW c, Knows(p, l, s, c),
         g.key = l.key, g.val = l.val, g.idx = l.idx, g.cur = l.cur, g.pos = l.pos,
         g.code = l.code
  PROVE  Knows(p, g, s, c)
BY DEF Knows

LEMMA ChecksKeepSerial ==
  ASSUME Inv, SerialInv, NEW t \in Threads,
         CheckFlag(t) \/ LoadStopped(t) \/ StoreStopped(t) \/ PassMutex(t)
  PROVE  SerialInv'
<1> DEFINE h == loc[t]
<1>1. /\ ThreadOK(pc[t], h) /\ Local(h) /\ Knows(Onward(pc[t], h), h, items, colisions)
      /\ loc' = loc => loc' = [loc EXCEPT ![t] = h]
  BY SerialFacts
<1>2. pc[t] \in CheckPlaces
  BY DEF CheckFlag, LoadStopped, StoreStopped, PassMutex, Step, CheckPlaces
<1>3. pc[t] # "idle" /\ Onward(pc[t], h) = h.ret
  BY <1>2 DEF Onward, CheckPlaces
<1>4. h.ret \in TouchesItem /\ h.ret \notin Unlinking /\ h.ret \notin CheckPlaces
  BY <1>1, <1>2 DEF ThreadOK, TouchesItem, Unlinking, CheckPlaces
<1>5. UNCHANGED <<items, colisions, sv>>
  BY DEF CheckFlag, LoadStopped, StoreStopped, PassMutex, table
<1>6. ASSUME NEW p \in {"stopLoad", "stopInc", "stopped", "goLoad", "goDec", h.ret},
             NEW l, Local(l), l.key = h.key, l.val = h.val, l.idx = h.idx, l.cur = h.cur,
             l.pos = h.pos, l.code = h.code, l.ret = h.ret,
             pc' = [pc EXCEPT ![t] = p], loc' = [loc EXCEPT ![t] = l]
      PROVE  SerialInv'
  <2>1. Onward(p, l) = h.ret /\ p \notin Unlinking
    BY <1>4, <1>6 DEF Onward, CheckPlaces, Unlinking
  <2>2. Knows(Onward(p, l), l, items, colisions)
    BY <1>1, <1>3, <1>6, <2>1, SameKnowledge
  <2> QED BY <1>3, <1>5, <1>6, <2>1, <2>2, SerialLocalStep
<1>7. CASE CheckFlag(t) \/ PassMutex(t)
  <2>1. PICK p \in {"stopLoad", "stopInc", "stopped", "goLoad", "goDec", h.ret} :
          pc' = [pc EXCEPT ![t] = p]
    BY <1>7 DEF CheckFlag, PassMutex, Step
  <2>2. loc' = [loc EXCEPT ![t] = h]
    BY <1>1, <1>7 DEF CheckFlag, PassMutex
  <2> HIDE DEF h
  <2> QED BY <1>1, <1>6, <2>1, <2>2
<1>8. ASSUME NEW x \in Nat, loc' = [loc EXCEPT ![t].reg = x], LoadStopped(t) \/ StoreStopped(t)
      PROVE  SerialInv'
  <2> DEFINE l == PutReg(h, x)
  <2>1. loc' = [loc EXCEPT ![t] = l]
    BY <1>8, LocalsOfThreads DEF PutReg
  <2>2. /\ Local(l) /\ l.key = h.key /\ l.idx = h.idx /\ l.cur = h.cur /\ l.ret = h.ret
        /\ l.val = h.val /\ l.pos = h.pos /\ l.code = h.code
    <3>1. Local(h)
      BY <1>1
    <3> HIDE DEF h
    <3>2. Local(l) /\ l.key = h.key /\ l.idx = h.idx /\ l.cur = h.cur /\ l.ret = h.ret
      BY <3>1, RegPut
    <3>3. l.val = h.val /\ l.pos = h.pos /\ l.code = h.code
      BY <3>1, FieldsPut
    <3> QED BY <3>2, <3>3
  <2>3. PICK p \in {"stopLoad", "stopInc", "stopped", "goLoad", "goDec", h.ret} :
          pc' = [pc EXCEPT ![t] = p]
    BY <1>8 DEF LoadStopped, StoreStopped, Step
  <2> HIDE DEF l, h
  <2> QED BY <1>6, <2>1, <2>2, <2>3
<1>9. currentStopedThreadCount \in Nat /\ 0 \in Nat
  BY Wraps, ThreadFacts
<1> QED BY <1>7, <1>8, <1>9 DEF LoadStopped, StoreStopped

(* A size is read: nothing else runs, and it is the size of items. *)
LEMMA SizesKeepSerial ==
  ASSUME Inv, SerialInv, NEW t \in Threads, AddSize(t) \/ GetSize(t)
  PROVE  SerialInv'
<1> DEFINE h == loc[t]
           x == Cell(h.key, size)
<1>1. Local(h) /\ Knows(pc[t], h, items, colisions)
  BY SerialFacts DEF AddSize, GetSize, StepChecked, Step, CheckPlaces
<1>2. pc[t] \in {"addSize", "getSize"} /\ pc[t] # "idle" /\ pc' = [pc EXCEPT ![t] = "check"]
      /\ UNCHANGED <<items, colisions, sv>>
  BY DEF AddSize, GetSize, StepChecked, Step, table
<1>3. size = Len(items)
  <2>1. pc[Service] \in {"idle", "addSize", "getSize"}
    BY <1>2, OnlyOne DEF Threads
  <2> QED BY <2>1 DEF Inv, ServiceOK, Assigning
<1>4. x = Home(h.key, items)
  BY <1>3 DEF Home
<1>5. x \in Nat
  BY <1>1, CellsOfKeys DEF Inv, TableOK, Local
<1> HIDE DEF x
<1>6. PICK r \in {"addRead", "getRead"} : /\ loc' = [loc EXCEPT ![t].idx = x, ![t].ret = r]
                                          /\ r = "getRead" => pc[t] = "getSize"
  BY DEF AddSize, GetSize, StepChecked, Step, x
<1> DEFINE l == PutIdxRet(h, x, r)
<1>7. loc' = [loc EXCEPT ![t] = l]
  BY <1>6, LocalsOfThreads DEF PutIdxRet
<1>8. /\ l.key = h.key /\ l.idx = x /\ l.ret = r /\ l.code = h.code
  BY <1>1, <1>5, IdxRetPut, FieldsPut
<1> HIDE DEF l
<1>9. r = "getRead" => l.code # 0
  BY <1>1, <1>6, <1>8 DEF Knows, Getting
<1>10. Onward("check", l) = r
  BY <1>8 DEF Onward, CheckPlaces
<1>11. Knows(r, l, items, colisions)
  BY <1>4, <1>6, <1>8, <1>9 DEF Knows, AtCell, TouchesItem, Colliding, Getting, Ending
<1> QED BY <1>2, <1>7, <1>10, <1>11, SerialLocalStep DEF Unlinking

LEMMA ReadKeepsSerial ==
  ASSUME Inv, SerialInv, NEW t \in Threads, AddRead(t)
  PROVE  SerialInv'
<1> DEFINE h == loc[t]
           c == items[h.idx]
           l == PutCur(h, c)
<1>1. ThreadOK(pc[t], h) /\ Local(h) /\ Knows(pc[t], h, items, colisions)
  BY SerialFacts DEF AddRead, Step, CheckPlaces
<1>2. pc[t] = "addRead" /\ pc[t] # "idle" /\ pc' = [pc EXCEPT ![t] = "addDecide"]
      /\ UNCHANGED <<items, colisions, sv>> /\ h.idx <= Len(items)
  BY DEF AddRead, Step, table, InItems
<1>3. h.idx \in Nat /\ h.idx >= 1 /\ h.idx = Home(h.key, items)
  BY <1>1, <1>2 DEF ThreadOK, Local, Indexed, TouchesItem, Knows, AtCell
<1>4. c \in Item
  BY <1>2, <1>3, ItemsRead
<1>5. l.key = h.key /\ l.idx = h.idx /\ l.cur = c
  BY <1>1, <1>4, CurPut
<1>6. loc' = [loc EXCEPT ![t] = l]
  BY LocalsOfThreads DEF AddRead, PutCur
<1> HIDE DEF l
<1>7. Onward("addDecide", l) = "addDecide"
  BY DEF Onward, CheckPlaces
<1>8. Knows("addDecide", l, items, colisions)
  BY <1>3, <1>5 DEF Knows, AtCell, TouchesItem, Colliding, Getting, Ending
<1> QED BY <1>2, <1>6, <1>7, <1>8, SerialLocalStep DEF Unlinking

LEMMA DecideKeepsSerial ==
  ASSUME Inv, SerialInv, NEW t \in Threads, AddDecide(t)
  PROVE  SerialInv'
<1> DEFINE h == loc[t]
<1>1. Local(h) /\ Knows(pc[t], h, items, colisions)
  BY SerialFacts DEF AddDecide, Step, CheckPlaces
<1>2. pc[t] = "addDecide" /\ pc[t] # "idle" /\ UNCHANGED <<items, colisions, sv>>
  BY DEF AddDecide, Step, table
<1>3. h.idx = Home(h.key, items) /\ h.cur = items[h.idx]
  BY <1>1, <1>2 DEF Knows, AtCell
<1> DEFINE o == IF currentCapacity + ItemCapacity(h.val) >= MaxCapacity THEN <<"return", 2>>
                ELSE IF h.cur.value = <<>>
                  THEN IF count >= Threshold(size) THEN <<"return", 1>> ELSE <<"addStore", 0>>
                ELSE IF h.cur.key = h.key THEN <<"addAppend", 0>>
                ELSE <<"check", 0>>
           p == o[1]
           d == o[2]
<1>4. /\ p \in {"return", "addStore", "addAppend", "check"} /\ pc' = [pc EXCEPT ![t] = p]
      /\ p = "return" => d # 0
      /\ p \in {"addAppend", "check"} => h.cur.value # <<>>
      /\ p = "addAppend" => h.cur.key = h.key
  <2>1. pc' = [pc EXCEPT ![t] = p]
    BY Zenon DEF AddDecide, Step
  <2> QED BY <2>1
<1>10. loc' = [loc EXCEPT ![t].code = d, ![t].ret = "colRead"]
  BY Zenon DEF AddDecide
<1> HIDE DEF o
<1> DEFINE l == PutCodeRet(h, d, "colRead")
<1>5. /\ l.key = h.key /\ l.idx = h.idx /\ l.cur = h.cur /\ l.ret = "colRead" /\ l.code = d
  BY <1>1, CodeRetPut, FieldsPut
<1>6. loc' = [loc EXCEPT ![t] = l]
  BY <1>10, LocalsOfThreads DEF PutCodeRet
<1> HIDE DEF l
<1>7. Onward(p, l) = IF p = "check" THEN "colRead" ELSE p
  BY <1>4, <1>5 DEF Onward, CheckPlaces
<1>8. Knows(Onward(p, l), l, items, colisions)
  BY <1>3, <1>4, <1>5, <1>7 DEF Knows, AtCell, TouchesItem, Colliding, Getting, Ending
<1>9. p \notin Unlinking
  BY <1>4 DEF Unlinking
<1> QED BY <1>2, <1>4, <1>6, <1>8, <1>9, SerialLocalStep

(***************************************************************************)
(* Writes to the heads.                                                    *)
(***************************************************************************)
LEMMA SoundWritten ==
  ASSUME NEW s \in Seq(Item), NEW c \in Seq(Item), Sound(s, c),
         NEW n \in Nat, n >= 1, n <= Len(s), NEW it \in Item,
         it.value # <<>> => /\ Home(it.key, s) = n
                            /\ it.next <= Len(c)
                            /\ it.next >= 1 => Home(c[it.next].key, s) = n
  PROVE  Sound(Written(s, n, it), c)
<1> DEFINE new == Written(s, n, it)
<1>1. Len(new) = Len(s) /\ \A b \in 1..Len(s) : new[b] = IF b = n THEN it ELSE s[b]
  BY DEF Written
<1> HIDE DEF new
<1>2. \A k : Home(k, new) = Home(k, s)
  BY <1>1 DEF Home
<1>3. \A b \in Full(new) : b \in 1..Len(s) /\ (b # n => b \in Full(s) /\ new[b] = s[b])
                           /\ (b = n => new[b] = it /\ it.value # <<>>)
  BY <1>1 DEF Full
<1>4. InCells(new)
  BY <1>2, <1>3 DEF Sound, InCells
<1>5. Linked(new, c)
  BY <1>2, <1>3 DEF Sound, Linked
<1>6. Sound(new, c)
  BY <1>4, <1>5 DEF Sound
<1> QED BY <1>6 DEF new

LEMMA FoundWritten ==
  ASSUME NEW s \in Seq(Item), NEW c, NEW n \in Nat, n >= 1, n <= Len(s), NEW it \in Item,
         it.value # <<>>, NEW k, Home(k, s) = n, \E x \in ChainIn(it, c) : x.key = k
  PROVE  Found(k, Written(s, n, it), c)
<1> DEFINE new == Written(s, n, it)
<1>1. Len(new) = Len(s) /\ new[n] = it
  BY DEF Written
<1> HIDE DEF new
<1>2. Home(k, new) = n
  BY <1>1 DEF Home
<1>3. Found(k, new, c)
  BY <1>1, <1>2 DEF Found
<1> QED BY <1>3 DEF new

LEMMA Longer ==
  ASSUME NEW u \in Seq(Sources), NEW v \in Seq(Sources), u # <<>> \/ v # <<>>
  PROVE  u \o v \in Seq(Sources) /\ u \o v # <<>>
<1>1. u \o v \in Seq(Sources) /\ Len(u \o v) = Len(u) + Len(v)
  BY ConcatProperties
<1>2. Len(u) \in Nat /\ Len(v) \in Nat /\ (Len(u) > 0 \/ Len(v) > 0)
  BY EmptySeq
<1>3. Len(u \o v) > 0
  BY <1>1, <1>2
<1> QED BY <1>1, <1>3

LEMMA WritesKeepSerial ==
  ASSUME Inv, SerialInv, NEW t \in Threads,
         AddStore(t) \/ AddAppend(t) \/ ColAppend(t) \/ ColLink(t)
  PROVE  SerialInv'
<1> DEFINE h == loc[t]
           n == h.idx
<1>1. /\ ThreadOK(pc[t], h) /\ Local(h) /\ Knows(pc[t], h, items, colisions)
      /\ Sound(items, colisions) /\ items \in Seq(Item) /\ colisions \in Seq(Item)
      /\ loc' = loc => loc' = [loc EXCEPT ![t] = h]
  BY SerialFacts DEF AddStore, AddAppend, ColAppend, ColLink, Step, CheckPlaces, SerialInv
<1>2. /\ pc[t] \in {"addStore", "addAppend", "colAppend", "colLink"} /\ n <= Len(items)
      /\ UNCHANGED <<colisions, loc, sv>>
  BY DEF AddStore, AddAppend, ColAppend, ColLink, Step, InItems
<1>3. /\ n \in Nat /\ n >= 1 /\ h.key \in Keyed /\ h.val \in Seq(Sources) /\ h.cur \in Item
      /\ h.pos \in Nat /\ n = Home(h.key, items)
  BY <1>1, <1>2 DEF ThreadOK, Local, Indexed, TouchesItem, Knows, AtCell
<1>4. items[n] \in Item /\ n \in 1..Len(items)
  BY <1>1, <1>2, <1>3
<1>5. pc[t] # "addStore" =>
        /\ items[n].value # <<>>
        /\ Home(items[n].key, items) = n
        /\ items[n].next <= Len(colisions)
        /\ items[n].next >= 1 => Home(colisions[items[n].next].key, items) = n
  <2>1. pc[t] # "addStore" => items[n].value # <<>>
    BY <1>1, <1>2 DEF Knows, Colliding
  <2>2. items[n].value # <<>> => n \in Full(items)
    BY <1>4 DEF Full
  <2> QED BY <1>1, <2>1, <2>2 DEF Sound, InCells, Linked
<1>6. ASSUME NEW p \in {"countLoad", "capLoad", "colCap", "return"},
             pc' = [pc EXCEPT ![t] = p],
             NEW it \in Item, items' = [items EXCEPT ![n] = it],
             it.value # <<>> => /\ Home(it.key, items) = n
                                /\ it.next <= Len(colisions)
                                /\ it.next >= 1 => Home(colisions[it.next].key, items) = n,
             h.val # <<>> => it.value # <<>>,
             \E x \in ChainIn(it, colisions) : x.key = h.key
      PROVE  SerialInv'
  <2>1. items' = Written(items, n, it) /\ colisions' = colisions /\ sv' = sv
    BY <1>2, <1>6 DEF Written
  <2>7. Sound(Written(items, n, it), colisions)
    <3> HIDE DEF h
    <3> QED BY <1>1, <1>2, <1>3, <1>6, SoundWritten
  <2>2. Sound(items', colisions')
    BY <2>1, <2>7
  <2>8. ASSUME h.val # <<>> PROVE Found(h.key, Written(items, n, it), colisions)
    <3>1. Home(h.key, items) = n /\ it.value # <<>>
      BY <1>3, <1>6, <2>8
    <3> HIDE DEF h
    <3> QED BY <1>1, <1>2, <1>3, <1>6, <3>1, FoundWritten
  <2>3. h.val # <<>> => Found(h.key, items', colisions')
    BY <2>1, <2>8
  <2>4. Onward(p, h) = p /\ p \notin Unlinking /\ pc[t] # "idle"
    BY <1>2 DEF Onward, CheckPlaces, Unlinking
  <2>5. Knows(p, h, items', colisions')
    BY <2>3 DEF Knows, AtCell, TouchesItem, Colliding, Getting, Ending
  <2>6. loc' = [loc EXCEPT ![t] = h]
    BY <1>1, <1>2
  <2> HIDE DEF h
  <2> QED BY <1>6, <2>1, <2>2, <2>4, <2>5, <2>6, SerialTableStep
<1>7. CASE AddStore(t)
  <2> DEFINE it == [key |-> h.key, value |-> h.val, next |-> NoNext]
  <2>1. it \in Item /\ it.key = h.key /\ it.value = h.val /\ it.next = 0
    BY <1>3 DEF Item, Keyed, NoNext
  <2>2. items' = [items EXCEPT ![n] = it] /\ pc' = [pc EXCEPT ![t] = "countLoad"]
    BY <1>7 DEF AddStore, Step
  <2> HIDE DEF it
  <2>3. \E x \in ChainIn(it, colisions) : x.key = h.key
    BY <2>1 DEF ChainIn
  <2>4. /\ Home(it.key, items) = n
        /\ it.next <= Len(colisions)
        /\ it.next >= 1 => Home(colisions[it.next].key, items) = n
    <3>1. Len(colisions) \in Nat
      BY <1>1
    <3> QED BY <1>3, <2>1, <3>1
  <2>5. h.val # <<>> => it.value # <<>>
    BY <2>1
  <2> HIDE DEF h
  <2> QED BY <1>6, <2>1, <2>2, <2>3, <2>4, <2>5
<1>8. CASE AddAppend(t) \/ ColAppend(t)
  <2> DEFINE v == h.cur.value \o h.val
             it == [items[n] EXCEPT !.value = v]
  <2>1. h.cur.value \in Seq(Sources) /\ v \in Seq(Sources) /\ (h.val # <<>> => v # <<>>)
    BY <1>3, Longer, ConcatProperties DEF Item
  <2>2. items' = [items EXCEPT ![n] = [items[n] EXCEPT !.value = v]]
    BY <1>1, <1>3, <1>4, <1>8 DEF AddAppend, ColAppend
  <2> HIDE DEF v
  <2>3. /\ it \in Item /\ it.key = items[n].key /\ it.next = items[n].next /\ it.value = v
    BY <1>4, <2>1 DEF Item
  <2>4. items' = [items EXCEPT ![n] = it]
    BY <2>2
  <2>5. PICK p \in {"capLoad", "colCap"} : pc' = [pc EXCEPT ![t] = p] /\ pc[t] # "addStore"
    BY <1>8 DEF AddAppend, ColAppend, Step
  <2>6. \E x \in ChainIn(items[n], colisions) : x.key = h.key
    <3>1. CASE pc[t] = "addAppend"
      BY <1>1, <3>1 DEF Knows, ChainIn
    <3>2. CASE pc[t] = "colAppend"
      BY <1>1, <3>2 DEF Knows
    <3> QED BY <1>8, <3>1, <3>2 DEF AddAppend, ColAppend, Step
  <2> HIDE DEF it
  <2>7. \E x \in ChainIn(it, colisions) : x.key = h.key
    BY <2>3, <2>6 DEF ChainIn
  <2> QED BY <1>5, <1>6, <2>1, <2>3, <2>4, <2>5, <2>7
<1>9. CASE ColLink(t)
  <2> DEFINE it == [items[n] EXCEPT !.next = h.pos]
  <2>1. it \in Item /\ it.key = items[n].key /\ it.value = items[n].value /\ it.next = h.pos
    BY <1>3, <1>4 DEF Item
  <2>2. items' = [items EXCEPT ![n] = it] /\ pc' = [pc EXCEPT ![t] = "return"]
        /\ pc[t] = "colLink"
    BY <1>4, <1>9 DEF ColLink, Step
  <2>3. h.pos \in 1..Len(colisions) /\ colisions[h.pos].key = h.key
    BY <1>1, <2>2 DEF Knows
  <2> HIDE DEF it
  <2>4. \E x \in ChainIn(it, colisions) : x.key = h.key
    BY <2>1, <2>3 DEF ChainIn
  <2>5. /\ Home(it.key, items) = n
        /\ it.next <= Len(colisions)
        /\ it.next >= 1 => Home(colisions[it.next].key, items) = n
    <3>1. Len(colisions) \in Nat
      BY <1>1
    <3> QED BY <1>3, <1>5, <2>1, <2>2, <2>3, <3>1
  <2>6. it.value # <<>>
    BY <1>5, <2>1, <2>2
  <2> HIDE DEF h
  <2> QED BY <1>6, <2>1, <2>2, <2>4, <2>5, <2>6
<1> QED BY <1>7, <1>8, <1>9

(* The counters are no part of what is claimed; the thread stays where Found is known. *)
LEMMA CountersKeepSerial ==
  ASSUME Inv, SerialInv, NEW t \in Threads, LoadCounter(t) \/ StoreCounter(t) \/ ColCap(t)
  PROVE  SerialInv'
<1> DEFINE h == loc[t]
<1>1. /\ Local(h) /\ Knows(pc[t], h, items, colisions)
      /\ loc' = loc => loc' = [loc EXCEPT ![t] = h]
  BY SerialFacts DEF LoadCounter, StoreCounter, ColCap, Step, CheckPlaces
<1>2. /\ pc[t] \in {"countLoad", "countStore", "capLoad", "capStore", "colCap"}
      /\ UNCHANGED <<items, colisions, sv>>
  BY DEF LoadCounter, StoreCounter, ColCap, Step, table
<1>3. PICK p \in {"countStore", "capLoad", "capStore", "return"} : pc' = [pc EXCEPT ![t] = p]
  BY DEF LoadCounter, StoreCounter, ColCap, Step
<1>4. ASSUME NEW l, l.key = h.key, l.val = h.val, l.code = h.code, loc' = [loc EXCEPT ![t] = l]
      PROVE  SerialInv'
  <2>1. Onward(p, l) = p /\ p \notin Unlinking /\ pc[t] # "idle"
    BY <1>2, <1>3 DEF Onward, CheckPlaces, Unlinking
  <2>2. Knows(p, l, items, colisions)
    BY <1>1, <1>2, <1>3, <1>4 DEF Knows, AtCell, TouchesItem, Colliding, Getting, Ending
  <2> QED BY <1>2, <1>3, <1>4, <2>1, <2>2, SerialLocalStep
<1>5. ASSUME NEW x \in Nat, loc' = [loc EXCEPT ![t].reg = x]
      PROVE  SerialInv'
  <2> DEFINE l == PutReg(h, x)
  <2>1. loc' = [loc EXCEPT ![t] = l]
    BY <1>5, LocalsOfThreads DEF PutReg
  <2>2. l.key = h.key /\ l.val = h.val /\ l.code = h.code
    BY <1>1, <1>5, RegPut, FieldsPut
  <2> HIDE DEF l
  <2> QED BY <1>4, <2>1, <2>2
<1>6. count \in Nat /\ currentCapacity \in Nat
  BY ItemsRead
<1>7. CASE LoadCounter(t)
  BY <1>5, <1>6, <1>7 DEF LoadCounter
<1>8. CASE StoreCounter(t) \/ ColCap(t)
  BY <1>1, <1>4, <1>8 DEF StoreCounter, ColCap
<1> QED BY <1>7, <1>8

(* handleCollision: a collision ends its chain, so there is no second hop. *)
LEMMA LooksKeepSerial ==
  ASSUME Inv, SerialInv, NEW t \in Threads, ColRead(t) \/ ColHop(t) \/ ColCount(t)
  PROVE  SerialInv'
<1> DEFINE h == loc[t]
           n == h.idx
<1>1. /\ ThreadOK(pc[t], h) /\ Local(h) /\ Knows(pc[t], h, items, colisions)
      /\ Flat(colisions) /\ items \in Seq(Item) /\ colisions \in Seq(Item)
  BY SerialFacts DEF ColRead, ColHop, ColCount, AfterLook, Step, CheckPlaces
<1>2. /\ pc[t] \in {"colRead", "colHop", "colCount"} /\ pc[t] # "idle"
      /\ UNCHANGED <<items, colisions, sv>>
  BY DEF ColRead, ColHop, ColCount, AfterLook, Step, table
<1>3. /\ n \in Nat /\ n >= 1 /\ n = Home(h.key, items) /\ items[n].value # <<>>
      /\ h.cur \in Item
  BY <1>1, <1>2 DEF ThreadOK, Local, Indexed, TouchesItem, Knows, AtCell, Colliding
<1>4. CASE ColHop(t)
  <2> DEFINE c == colisions[h.cur.next]
             l == PutCur(h, c)
  <2>1. /\ pc[t] = "colHop" /\ pc' = [pc EXCEPT ![t] = "colCount"]
        /\ h.cur.next <= Len(colisions)
    BY <1>4 DEF ColHop, Step, NextInColisions
  <2>2. h.cur = items[n] /\ h.cur.next \in Nat /\ h.cur.next >= 1
    BY <1>1, <1>3, <2>1 DEF Knows, ThreadOK, ReadsColision, Item
  <2>3. h.cur.next \in 1..Len(colisions) /\ c \in Item
    BY <1>1, <2>1, <2>2
  <2>4. l.key = h.key /\ l.idx = n /\ l.cur = c
    BY <1>1, <2>3, CurPut
  <2>5. loc' = [loc EXCEPT ![t] = l]
    BY <1>4, LocalsOfThreads DEF ColHop, PutCur
  <2> HIDE DEF l
  <2>6. Onward("colCount", l) = "colCount" /\ "colCount" \notin Unlinking
    BY DEF Onward, CheckPlaces, Unlinking
  <2>7. Knows("colCount", l, items, colisions)
    BY <1>3, <2>2, <2>3, <2>4 DEF Knows, AtCell, TouchesItem, Colliding, Getting, Ending
  <2> QED BY <1>2, <2>1, <2>5, <2>6, <2>7, SerialLocalStep
<1>5. ASSUME NEW from, NEW c \in Item, AfterLook(t, from, c), c \in ChainIn(items[n], colisions),
             c = items[n] \/ c.next = NoNext
      PROVE  SerialInv'
  <2>1. PICK p \in {"check", "colPush", "colHop"} :
          /\ pc' = [pc EXCEPT ![t] = p]
          /\ p = "colHop" => c.next # NoNext
          /\ p = "check" => c.key = h.key
    BY <1>5 DEF AfterLook, Step
  <2> DEFINE l == PutCurRet(h, c, "colAppend")
  <2>2. l.key = h.key /\ l.idx = n /\ l.cur = c /\ l.ret = "colAppend"
    BY <1>1, CurRetPut
  <2>3. loc' = [loc EXCEPT ![t] = l]
    BY <1>5, LocalsOfThreads DEF AfterLook, PutCurRet
  <2> HIDE DEF l
  <2>4. Onward(p, l) = IF p = "check" THEN "colAppend" ELSE p
    BY <2>1, <2>2 DEF Onward, CheckPlaces
  <2>5. Knows(Onward(p, l), l, items, colisions)
    BY <1>3, <1>5, <2>1, <2>2, <2>4
       DEF Knows, AtCell, TouchesItem, Colliding, Getting, Ending
  <2>6. p \notin Unlinking
    BY <2>1 DEF Unlinking
  <2> QED BY <1>2, <2>1, <2>3, <2>5, <2>6, SerialLocalStep
<1>6. CASE ColRead(t)
  <2>1. items[n] \in Item
    BY <1>3, <1>6, ItemsRead DEF ColRead, InItems
  <2>2. items[n] \in ChainIn(items[n], colisions)
    BY DEF ChainIn
  <2>3. AfterLook(t, "colRead", items[n])
    BY <1>6 DEF ColRead
  <2> QED BY <1>5, <2>1, <2>2, <2>3
<1>7. CASE ColCount(t)
  <2>1. AfterLook(t, "colCount", h.cur) /\ pc[t] = "colCount"
    BY <1>7 DEF ColCount, AfterLook, Step
  <2>2. items[n].next \in 1..Len(colisions) /\ h.cur = colisions[items[n].next]
    BY <1>1, <2>1 DEF Knows
  <2>3. h.cur \in ChainIn(items[n], colisions) /\ h.cur.next = NoNext
    BY <1>1, <2>2 DEF ChainIn, Flat
  <2> HIDE DEF h
  <2> QED BY <1>3, <1>5, <2>1, <2>3
<1> QED BY <1>4, <1>6, <1>7

LEMMA PushKeepsSerial ==
  ASSUME Inv, SerialInv, NEW t \in Threads, ColPush(t)
  PROVE  SerialInv'
<1> DEFINE h == loc[t]
           n == h.idx
           it == [key |-> h.key, value |-> h.val, next |-> NoNext]
<1>1. /\ ThreadOK(pc[t], h) /\ Local(h) /\ Knows(pc[t], h, items, colisions)
      /\ Flat(colisions) /\ InCells(items) /\ Linked(items, colisions)
      /\ items \in Seq(Item) /\ colisions \in Seq(Item)
  BY SerialFacts DEF ColPush, StepChecked, Step, CheckPlaces
<1>2. /\ pc[t] = "colPush" /\ pc' = [pc EXCEPT ![t] = "check"]
      /\ UNCHANGED <<items, sv>> /\ colisions' = Append(colisions, it)
  BY DEF ColPush, StepChecked, Step
<1>3. n = Home(h.key, items) /\ items[n].value # <<>>
  BY <1>1, <1>2 DEF Knows, AtCell, Colliding
<1>4. it.key = h.key /\ it.next = NoNext
  OBVIOUS
<1>5. it \in Item
  BY <1>1 DEF Local, Item, Keyed, NoNext
<1> HIDE DEF it
<1>6. /\ Len(colisions') = Len(colisions) + 1 /\ Len(colisions) \in Nat
      /\ \A m \in 1..Len(colisions) : colisions'[m] = colisions[m]
      /\ colisions'[Len(colisions')] = it
  BY <1>1, <1>2, <1>5
<1>7. Flat(colisions')
  BY <1>1, <1>4, <1>6 DEF Flat
<1>8. Linked(items, colisions')
  <2> SUFFICES ASSUME NEW b \in Full(items)
               PROVE  /\ items[b].next <= Len(colisions')
                      /\ items[b].next >= 1 => Home(colisions'[items[b].next].key, items) = b
    BY DEF Linked
  <2>1. items[b].next \in Nat
    <3>1. b \in 1..Len(items)
      BY DEF Full
    <3>2. items[b] \in Item
      BY <1>1, <3>1
    <3> QED BY <3>2 DEF Item
  <2>2. /\ items[b].next <= Len(colisions)
        /\ items[b].next >= 1 => Home(colisions[items[b].next].key, items) = b
    BY <1>1 DEF Linked
  <2> QED BY <1>6, <2>1, <2>2
<1>9. Sound(items', colisions')
  BY <1>1, <1>2, <1>7, <1>8 DEF Sound
<1> DEFINE l == PutPosRet(h, Len(colisions'), "colLink")
<1>10. l.key = h.key /\ l.idx = n /\ l.ret = "colLink" /\ l.pos = Len(colisions')
  BY <1>1, <1>6, PosRetPut, FieldsPut
<1>11. loc' = [loc EXCEPT ![t] = l]
  BY LocalsOfThreads DEF ColPush, PutPosRet
<1> HIDE DEF l
<1>12. Onward("check", l) = "colLink" /\ "check" \notin Unlinking
  BY <1>10 DEF Onward, CheckPlaces, Unlinking
<1>13. l.pos \in 1..Len(colisions') /\ colisions'[l.pos].key = l.key
  BY <1>4, <1>6, <1>10
<1>14. Knows("colLink", l, items', colisions')
  BY <1>2, <1>3, <1>10, <1>13 DEF Knows, AtCell, TouchesItem, Colliding, Getting, Ending
<1> QED BY <1>2, <1>9, <1>11, <1>12, <1>14, SerialTableStep

LEMMA GetsKeepSerial ==
  ASSUME Inv, SerialInv, NEW t \in Threads, GetRead(t) \/ GetHop(t)
  PROVE  SerialInv'
<1> DEFINE h == loc[t]
<1>1. /\ ThreadOK(pc[t], h) /\ Local(h) /\ Knows(pc[t], h, items, colisions)
      /\ loc' = loc => loc' = [loc EXCEPT ![t] = h]
  BY SerialFacts DEF GetRead, GetHop, CheckPlaces
<1>2. /\ pc[t] \in {"getRead", "getHop"} /\ pc[t] # "idle" /\ UNCHANGED <<items, colisions, sv>>
  BY DEF GetRead, GetHop, table
<1>3. h.code # 0
  BY <1>1, <1>2 DEF Knows, Getting
<1>4. /\ pc[t] = "getRead" => h.idx \in Nat /\ h.idx >= 1 /\ h.idx = Home(h.key, items)
      /\ pc[t] = "getHop" => h.cur.next \in Nat /\ h.cur.next >= 1
  BY <1>1 DEF ThreadOK, Local, Indexed, TouchesItem, ReadsColision, Item, Knows, AtCell
<1>5. ASSUME NEW p \in {"return", "getHop"}, NEW l, l.code # 0,
             pc' = [pc EXCEPT ![t] = p], loc' = [loc EXCEPT ![t] = l]
      PROVE  SerialInv'
  <2>1. Onward(p, l) = p /\ p \notin Unlinking
    BY DEF Onward, CheckPlaces, Unlinking
  <2>2. Knows(p, l, items, colisions)
    BY <1>5 DEF Knows, AtCell, TouchesItem, Colliding, Getting, Ending
  <2> QED BY <1>2, <1>5, <2>1, <2>2, SerialLocalStep
<1>6. ASSUME NEW c \in Item, NEW from, GetLook(t, from, c)
      PROVE  SerialInv'
  <2>1. PICK p \in {"return", "getHop"}, v \in Seq(Sources) :
          /\ pc' = [pc EXCEPT ![t] = p]
          /\ loc' = [loc EXCEPT ![t].cur = c, ![t].val = v]
    <3>1. c.value \in Seq(Sources) /\ <<>> \in Seq(Sources)
      BY DEF Item
    <3> QED BY <1>6, <3>1 DEF GetLook, Step
  <2> DEFINE l == PutCurVal(h, c, v)
  <2>2. l.code = h.code
    BY <1>1, FieldsPut
  <2>3. loc' = [loc EXCEPT ![t] = l]
    BY <2>1, LocalsOfThreads DEF PutCurVal
  <2> HIDE DEF l
  <2> QED BY <1>3, <1>5, <2>1, <2>2, <2>3
<1>7. CASE GetHop(t)
  <2>1. colisions[h.cur.next] \in Item
    BY <1>4, <1>7, ItemsRead DEF GetHop, NextInColisions
  <2> QED BY <1>6, <1>7, <2>1 DEF GetHop
<1>8. CASE GetRead(t)
  <2>1. items[h.idx] \in Item
    BY <1>4, <1>8, ItemsRead DEF GetRead, InItems
  <2>2. CASE GetLook(t, "getRead", items[h.idx])
    BY <1>6, <2>1, <2>2
  <2>3. CASE ~GetLook(t, "getRead", items[h.idx])
    <3>1. pc' = [pc EXCEPT ![t] = "return"] /\ loc' = loc
      BY <1>8, <2>3 DEF GetRead, Step
    <3>2. loc' = [loc EXCEPT ![t] = h]
      BY <1>1, <3>1
    <3> HIDE DEF h
    <3> QED BY <1>3, <1>5, <3>1, <3>2
  <2> QED BY <2>2, <2>3
<1> QED BY <1>7, <1>8

(***************************************************************************)
(* Calls and returns.                                                      *)
(***************************************************************************)
LEMMA ReturnKeepsSerial ==
  ASSUME Inv, SerialInv, NEW t \in Threads, Return(t)
  PROVE  SerialInv'
<1>1. PICK p \in {"readd", "idle"} : pc' = [pc EXCEPT ![t] = p] /\ pc[t] # "idle"
  BY DEF Return, Step
<1>2. UNCHANGED <<items, colisions>> /\ loc' = [loc EXCEPT ![t] = Idle]
  BY DEF Return, table
<1>3. Onward(p, Idle) = p /\ p \notin Unlinking
      /\ p \notin AtCell \cup Colliding \cup Getting \cup Ending
  BY DEF Onward, CheckPlaces, Unlinking, AtCell, TouchesItem, Colliding, Getting, Ending
<1>4. Knows(Onward(p, Idle), Idle, items', colisions')
  BY <1>3, NothingKnown
<1>5. InCells(sv'.new) /\ Unlinked(sv'.new)
  <2>1. CASE sv' = sv
    BY <2>1 DEF SerialInv
  <2>2. CASE sv' = NoIncrease
    <3>1. sv'.new = <<>>
      BY <2>2 DEF NoIncrease
    <3> QED BY <3>1 DEF InCells, Unlinked, Full
  <2> QED BY <2>1, <2>2 DEF Return
<1>6. \A u \in Threads : u # t => pc[u] = "idle"
  BY <1>1, OnlyOne
<1>7. Sound(items', colisions')
  BY <1>2 DEF SerialInv
<1> QED BY <1>1, <1>2, <1>3, <1>4, <1>5, <1>6, <1>7, SerialStepKeeps

LEMMA CallersKeepSerial ==
  ASSUME Serial, Inv, SerialInv, NEW t \in Callers, NEW k \in Keys,
         CallGet(t, k) \/ \E v \in Values : CallAdd(t, k, v)
  PROVE  SerialInv'
<1>1. t \in Threads /\ k \in Keyed /\ Values \subseteq Seq(Sources)
  BY ValuesAssumption DEF Threads, Keyed
<1>2. \A u \in Threads : pc[u] = "idle"
  BY DEF CallGet, CallAdd, MayStart
<1>3. UNCHANGED <<items, colisions, sv>>
  BY DEF CallGet, CallAdd, table
<1>4. Local(Idle) /\ Idle.code = -1
  BY IdleLocal, Zenon DEF Idle
<1>5. ASSUME NEW p \in {"addSize", "getSize"}, NEW l, l.code # 0,
             pc' = [pc EXCEPT ![t] = p], loc' = [loc EXCEPT ![t] = l]
      PROVE  SerialInv'
  <2>1. Onward(p, l) = p /\ p \notin Unlinking
    BY DEF Onward, CheckPlaces, Unlinking
  <2>2. Knows(p, l, items', colisions')
    BY <1>5 DEF Knows, AtCell, TouchesItem, Colliding, Getting, Ending
  <2>3. Sound(items', colisions') /\ InCells(sv'.new) /\ Unlinked(sv'.new)
    BY <1>3 DEF SerialInv
  <2> QED BY <1>1, <1>2, <1>5, <2>1, <2>2, <2>3, SerialStepKeeps
<1>6. CASE CallGet(t, k)
  <2> DEFINE l == [Idle EXCEPT !.key = k]
  <2>1. l.code = Idle.code
    BY <1>4, Zenon DEF Local
  <2>2. pc' = [pc EXCEPT ![t] = "getSize"] /\ loc' = [loc EXCEPT ![t] = l]
    BY <1>6 DEF CallGet, Step
  <2> HIDE DEF l
  <2>3. l.code # 0
    BY <1>4, <2>1
  <2> QED BY <1>5, <2>2, <2>3
<1>7. ASSUME NEW v \in Values, CallAdd(t, k, v) PROVE SerialInv'
  <2> DEFINE b == IF Serial THEN Lookup(k) ELSE <<>>
             l == [Idle EXCEPT !.key = k, !.val = v, !.before = b]
  <2> HIDE DEF b
  <2>1. l.code = Idle.code
    BY <1>4, Zenon DEF Local
  <2>2. pc' = [pc EXCEPT ![t] = "addSize"] /\ loc' = [loc EXCEPT ![t] = l]
    BY <1>7 DEF CallAdd, Step, b
  <2> HIDE DEF l
  <2>3. l.code # 0
    BY <1>4, <2>1
  <2> QED BY <1>5, <2>2, <2>3
<1> QED BY <1>6, <1>7

(***************************************************************************)
(* The service thread.                                                     *)
(***************************************************************************)
LEMMA NoCollisions ==
  ASSUME NEW s \in Seq(Item)
  PROVE  Sound(s, <<>>) <=> InCells(s) /\ Unlinked(s)
<1>1. ASSUME NEW b \in Full(s) PROVE s[b].next \in Nat
  <2>1. b \in 1..Len(s)
    BY DEF Full
  <2>2. s[b] \in Item
    BY <2>1
  <2> QED BY <2>2 DEF Item
<1>2. Len(<<>>) = 0
  OBVIOUS
<1>3. Linked(s, <<>>) <=> Unlinked(s)
  BY <1>1, <1>2 DEF Linked, Unlinked, NoNext
<1>4. Flat(<<>>)
  BY <1>2 DEF Flat
<1> QED BY <1>3, <1>4 DEF Sound

LEMMA EmptyVector ==
  ASSUME NEW n \in Nat, NEW c
  PROVE  LET s == createNewVector(n)
         IN  InCells(s) /\ Unlinked(s) /\ Linked(s, c)
<1> DEFINE s == createNewVector(n)
<1>1. Len(s) = n
  BY EmptyTable
<1>2. \A i \in 1..n : s[i] = EmptyItem
  BY DEF createNewVector
<1>3. EmptyItem.value = <<>>
  BY DEF EmptyItem
<1> HIDE DEF s
<1>4. Full(s) = {}
  BY <1>1, <1>2, <1>3 DEF Full
<1>5. InCells(s) /\ Unlinked(s) /\ Linked(s, c)
  BY <1>4 DEF InCells, Unlinked, Linked
<1> QED BY <1>5 DEF s

(* An item placed in the new vector is in its cell and has no next. *)
LEMMA PlacedInCell ==
  ASSUME SvOK, Len(sv.new) > 0, InCells(sv.new), Unlinked(sv.new),
         NEW it \in Item, it.value # <<>> => it.next = NoNext
  PROVE  InCells(PlaceItem(it).new) /\ Unlinked(PlaceItem(it).new)
<1> DEFINE v == sv.new
           c == Cell(it.key, newSize)
           cur == v[c]
           g == PlaceItem(it)
<1>1. v \in Seq(Item) /\ newSize = Len(v) /\ newSize \in Nat /\ newSize > 0
  BY DEF SvOK, newSize
<1>2. it.key \in Keyed /\ it.value \in Seq(Sources)
  BY DEF Item, Keyed
<1>3. c \in Nat /\ c >= 1 /\ c <= Len(v) /\ Home(it.key, v) = c
  BY <1>1, <1>2, CellsOfKeys DEF Home
<1>4. cur \in Item /\ (cur.value # <<>> => Home(cur.key, v) = c /\ cur.next = NoNext)
  BY <1>1, <1>3 DEF InCells, Unlinked, Full
<1>5. Sound(v, <<>>)
  BY <1>1, NoCollisions
<1>6. ASSUME NEW w \in Item, w.value # <<>> => Home(w.key, v) = c /\ w.next = NoNext,
             g.new = Written(v, c, w)
      PROVE  InCells(g.new) /\ Unlinked(g.new)
  <2>1. w.value # <<>> => /\ Home(w.key, v) = c
                          /\ w.next <= Len(<<>>)
                          /\ w.next >= 1 => Home(<<>>[w.next].key, v) = c
    BY <1>6 DEF NoNext
  <2>2. Sound(Written(v, c, w), <<>>)
    <3> HIDE DEF v, c
    <3>1. <<>> \in Seq(Item)
      OBVIOUS
    <3> QED BY <1>1, <1>3, <1>5, <2>1, <3>1, SoundWritten
  <2>3. Written(v, c, w) \in Seq(Item)
    BY <1>1, <1>3 DEF Written
  <2> QED BY <1>6, <2>2, <2>3, NoCollisions
<1>7. CASE cur.value = <<>>
  <2>1. g = [sv EXCEPT !.new = Written(v, c, it)]
    BY <1>7, Zenon DEF PlaceItem, Written
  <2>2. g.new = Written(v, c, it)
    BY <2>1, Zenon DEF SvOK
  <2> QED BY <1>3, <1>6, <2>2
<1>8. CASE cur.value # <<>> /\ cur.key # it.key
  <2>1. g = [sv EXCEPT !.tmp = Append(sv.tmp, it)]
    BY <1>8, Zenon DEF PlaceItem
  <2>2. g.new = v
    BY <2>1, Zenon DEF SvOK
  <2> QED BY <2>2
<1>9. CASE cur.value # <<>> /\ cur.key = it.key
  <2> DEFINE x == cur.value \o it.value
             w == [cur EXCEPT !.value = x]
  <2>1. x \in Seq(Sources)
    BY <1>2, <1>4, ConcatProperties DEF Item
  <2>2. g = [sv EXCEPT !.new[c].value = x]
    BY <1>9, Zenon DEF PlaceItem
  <2> HIDE DEF x
  <2>3. w \in Item /\ w.key = cur.key /\ w.next = cur.next
    BY <1>4, <2>1 DEF Item
  <2>4. g = [sv EXCEPT !.new = Written(v, c, w)]
    BY <2>2, Zenon DEF Written
  <2>5. g.new = Written(v, c, w)
    BY <2>4, Zenon DEF SvOK
  <2>6. w.value # <<>> => Home(w.key, v) = c /\ w.next = NoNext
    BY <1>4, <1>9, <2>3
  <2> HIDE DEF w
  <2> QED BY <1>6, <2>3, <2>5, <2>6
<1> QED BY <1>7, <1>8, <1>9

ServicePlaces ==
  {"idle", "copyItem", "copyColision", "setFlag", "rendezvous", "swapItems", "storeSize",
   "clearFlag", "unlock", "resetColisions", "readd", "addSize", "increased", "increase",
   "asgSize", "asgCount", "asgCapacity", "asgItems", "asgColisions", "asgBusy"}

LEMMA SerialServiceStep ==
  ASSUME Inv, SerialInv, NEW p \in ServicePlaces, NEW l, pc[Service] # "idle",
         pc' = [pc EXCEPT ![Service] = p], loc' = [loc EXCEPT ![Service] = l],
         Sound(items', colisions'), InCells(sv'.new), Unlinked(sv'.new),
         p \in Unlinking => Unlinked(items')
  PROVE  SerialInv'
<1>1. Service \in Threads
  BY DEF Threads
<1>2. \A u \in Threads : u # Service => pc[u] = "idle"
  BY <1>1, OnlyOne
<1>3. Onward(p, l) = p /\ p \notin AtCell \cup Colliding \cup Getting \cup Ending
  BY DEF Onward, CheckPlaces, ServicePlaces, AtCell, TouchesItem, Colliding, Getting, Ending
<1>4. Knows(Onward(p, l), l, items', colisions')
  BY <1>3, NothingKnown
<1> QED BY <1>1, <1>2, <1>4, SerialStepKeeps

(* Steps of the service thread that leave the vectors alone, and those of its calls. *)
LEMMA FlagsKeepSerial ==
  ASSUME Inv, SerialInv,
         \/ IncRefuse \/ LockIncrease \/ SetFlag \/ Rendezvous \/ StoreSize \/ ClearFlag
         \/ UnlockIncrease \/ IncDone
  PROVE  SerialInv'
<1>1. PICK p \in ServicePlaces :
        /\ pc' = [pc EXCEPT ![Service] = p] /\ pc[Service] # "idle"
        /\ p \in Unlinking => pc[Service] \in Unlinking
  BY DEF IncRefuse, LockIncrease, SetFlag, Rendezvous, StoreSize, ClearFlag, UnlockIncrease,
         IncDone, Step, ServicePlaces, Unlinking
<1>2. UNCHANGED <<items, colisions, sv, loc>>
  BY DEF IncRefuse, LockIncrease, SetFlag, Rendezvous, StoreSize, ClearFlag, UnlockIncrease,
         IncDone, table
<1>3. loc' = [loc EXCEPT ![Service] = loc[Service]]
  BY <1>2, ServiceFacts
<1>4. /\ Sound(items', colisions') /\ InCells(sv'.new) /\ Unlinked(sv'.new)
      /\ p \in Unlinking => Unlinked(items')
  BY <1>1, <1>2 DEF SerialInv
<1> QED BY <1>1, <1>3, <1>4, SerialServiceStep

LEMMA AssignKeepsSerial ==
  ASSUME Inv, SerialInv, Assign
  PROVE  SerialInv'
<1>1. UNCHANGED <<sv, loc>>
  BY DEF Assign, table
<1>2. loc' = [loc EXCEPT ![Service] = loc[Service]]
  BY <1>1, ServiceFacts
<1>3. /\ Sound(items, colisions) /\ InCells(sv'.new) /\ Unlinked(sv'.new)
      /\ pc[Service] = "asgColisions" => Unlinked(items)
      /\ items \in Seq(Item)
  BY <1>1, ItemsRead DEF SerialInv, Unlinking
<1>4. CASE pc[Service] \in {"asgSize", "asgCount", "asgCapacity", "asgBusy"}
  <2>1. UNCHANGED <<items, colisions>>
    BY <1>4 DEF Assign, Step, table
  <2>2. PICK p \in ServicePlaces : pc' = [pc EXCEPT ![Service] = p] /\ p \notin Unlinking
    BY <1>4 DEF Assign, Step, ServicePlaces, Unlinking
  <2>3. Sound(items', colisions') /\ pc[Service] # "idle"
    BY <1>3, <1>4, <2>1
  <2> QED BY <1>2, <1>3, <2>2, <2>3, SerialServiceStep
<1>5. CASE pc[Service] = "asgItems"
  <2>1. /\ pc' = [pc EXCEPT ![Service] = "asgColisions"]
        /\ items' = createNewVector(StartSize) /\ colisions' = colisions
    BY <1>5 DEF Assign, Step
  <2>2. InCells(items') /\ Unlinked(items') /\ Linked(items', colisions)
    BY <2>1, SizesAssumption, EmptyVector
  <2>3. Sound(items', colisions') /\ pc[Service] # "idle" /\ "asgColisions" \in ServicePlaces
    BY <1>3, <1>5, <2>1, <2>2 DEF Sound, ServicePlaces
  <2> QED BY <1>2, <1>3, <2>1, <2>2, <2>3, SerialServiceStep
<1>6. CASE pc[Service] = "asgColisions"
  <2>1. /\ pc' = [pc EXCEPT ![Service] = "asgBusy"] /\ items' = items /\ colisions' = <<>>
    BY <1>6 DEF Assign, Step
  <2>2. Sound(items, <<>>)
    BY <1>3, <1>6, NoCollisions DEF Sound
  <2>3. Sound(items', colisions')
    BY <2>1, <2>2
  <2>4. pc[Service] # "idle" /\ "asgBusy" \in ServicePlaces /\ "asgBusy" \notin Unlinking
    BY <1>6 DEF ServicePlaces, Unlinking
  <2> QED BY <1>2, <1>3, <2>1, <2>3, <2>4, SerialServiceStep
<1> QED BY <1>4, <1>5, <1>6 DEF Assign, Step

(* The new vector replaces the old while colisions are the old ones, then they go. *)
LEMMA SwapsKeepSerial ==
  ASSUME Inv, SerialInv, SwapItems \/ ResetColisions \/ Readd
  PROVE  SerialInv'
<1>1. /\ Sound(items, colisions) /\ InCells(sv.new) /\ Unlinked(sv.new)
      /\ pc[Service] \in Unlinking => Unlinked(items)
      /\ items \in Seq(Item) /\ SvOK
  BY ItemsRead DEF SerialInv, Inv
<1>2. CASE SwapItems
  <2>1. /\ pc[Service] # "idle" /\ pc' = [pc EXCEPT ![Service] = "storeSize"]
        /\ items' = sv.new /\ UNCHANGED <<colisions, loc, sv>>
    BY <1>2 DEF SwapItems, Step
  <2>2. loc' = [loc EXCEPT ![Service] = loc[Service]]
    BY <2>1, ServiceFacts
  <2>3. Linked(sv.new, colisions)
    <3>1. colisions \in Seq(Item)
      BY ItemsRead
    <3>2. Len(colisions) \in Nat
      BY <3>1
    <3> QED BY <1>1, <3>2 DEF Linked, Unlinked, NoNext
  <2>4. Sound(sv.new, colisions)
    BY <1>1, <2>3 DEF Sound
  <2>5. Sound(items', colisions') /\ Unlinked(items') /\ InCells(sv'.new) /\ Unlinked(sv'.new)
    BY <1>1, <2>1, <2>4
  <2>6. "storeSize" \in ServicePlaces
    BY DEF ServicePlaces
  <2> QED BY <2>1, <2>2, <2>5, <2>6, SerialServiceStep
<1>3. CASE ResetColisions
  <2>1. /\ pc[Service] = "resetColisions" /\ pc' = [pc EXCEPT ![Service] = "readd"]
        /\ colisions' = <<>> /\ UNCHANGED <<items, loc, sv>>
    BY <1>3 DEF ResetColisions, Step
  <2>2. loc' = [loc EXCEPT ![Service] = loc[Service]]
    BY <2>1, ServiceFacts
  <2>3. Unlinked(items)
    BY <1>1, <2>1 DEF Unlinking
  <2>4. Sound(items, <<>>)
    BY <1>1, <2>3, NoCollisions DEF Sound
  <2>5. Sound(items', colisions') /\ InCells(sv'.new) /\ Unlinked(sv'.new)
    BY <1>1, <2>1, <2>4
  <2>6. pc[Service] # "idle" /\ "readd" \in ServicePlaces /\ "readd" \notin Unlinking
    BY <2>1 DEF ServicePlaces, Unlinking
  <2> QED BY <2>1, <2>2, <2>5, <2>6, SerialServiceStep
<1>4. CASE Readd
  <2> DEFINE l == [Idle EXCEPT !.key = sv.tmp[1].key, !.val = sv.tmp[1].value]
  <2>1. /\ pc[Service] # "idle" /\ pc' = [pc EXCEPT ![Service] = "addSize"]
        /\ sv' = [sv EXCEPT !.tmp = Tail(sv.tmp)]
        /\ UNCHANGED <<items, colisions>> /\ loc' = [loc EXCEPT ![Service] = l]
    BY <1>4 DEF Readd, Step, table
  <2> HIDE DEF l
  <2>2. sv'.new = sv.new
    BY <1>1, <2>1, Zenon DEF SvOK
  <2>3. Sound(items', colisions') /\ InCells(sv'.new) /\ Unlinked(sv'.new)
    BY <1>1, <2>1, <2>2
  <2>4. "addSize" \in ServicePlaces /\ "addSize" \notin Unlinking
    BY DEF ServicePlaces, Unlinking
  <2> QED BY <2>1, <2>3, <2>4, SerialServiceStep
<1> QED BY <1>2, <1>3, <1>4

(* increaseTable fills its new vector. *)
LEMMA CopyingKeepsSerial ==
  ASSUME Inv, SerialInv, IncStart \/ CopyItem \/ CountColisions \/ CopyColision
  PROVE  SerialInv'
<1>1. /\ Sound(items, colisions) /\ InCells(sv.new) /\ Unlinked(sv.new)
      /\ items \in Seq(Item) /\ colisions \in Seq(Item) /\ SvOK /\ size \in Nat /\ size > 0
      /\ ServiceOK(pc[Service]) /\ Service \in Threads
      /\ pc = [u \in Threads |-> pc[u]] /\ sv.i \in Nat /\ sv.n \in Nat
  BY ItemsRead DEF SerialInv, Inv, TableOK, ThreadsOK, SvOK, Threads
<1>2. UNCHANGED <<items, colisions, loc>>
  BY DEF IncStart, CopyItem, CountColisions, CopyColision, table
<1>3. loc' = [loc EXCEPT ![Service] = loc[Service]]
  BY <1>2, ServiceFacts
<1>4. Sound(items', colisions')
  BY <1>1, <1>2
<1>5. PICK p \in {"copyItem", "copyColision"} :
        pc' = [pc EXCEPT ![Service] = p] /\ pc[Service] # "idle"
  BY <1>1 DEF IncStart, CopyItem, CountColisions, CopyColision, Step
<1>6. p \in ServicePlaces /\ p \notin Unlinking
  BY DEF ServicePlaces, Unlinking
<1>7. InCells(sv'.new) /\ Unlinked(sv'.new)
  <2>1. CASE IncStart
    <3>1. sv'.new = createNewVector(2 * size) /\ 2 * size \in Nat
      BY <1>1, <2>1 DEF IncStart
    <3> QED BY <3>1, EmptyVector
  <2>2. CASE CountColisions
    <3>1. sv' = [sv EXCEPT !.i = 1, !.n = Len(colisions)]
      BY <2>2 DEF CountColisions
    <3>2. sv'.new = sv.new
      BY <1>1, <3>1, Zenon DEF SvOK
    <3> QED BY <1>1, <3>2
  <2>3. ASSUME NEW it \in Item, it.value # <<>> => it.next = NoNext,
               NEW g, g \in {sv, PlaceItem(it)}, sv' = [g EXCEPT !.i = sv.i + 1],
               pc[Service] \in {"copyItem", "copyColision"}
        PROVE  InCells(sv'.new) /\ Unlinked(sv'.new)
    <3>1. Len(sv.new) = 2 * size /\ Len(sv.new) > 0
      BY <1>1, <2>3 DEF ServiceOK, Copying
    <3>2. InCells(PlaceItem(it).new) /\ Unlinked(PlaceItem(it).new)
      BY <1>1, <2>3, <3>1, PlacedInCell
    <3>3. InCells(g.new) /\ Unlinked(g.new)
      BY <1>1, <2>3, <3>2, Zenon
    <3>4. "new" \in DOMAIN g
      <4>1. Multiple(Len(sv.new))
        BY <1>1, <3>1, Doubled DEF Inv, TableOK
      <4> QED BY <1>1, <2>3, <3>1, <4>1, ItemPlaced DEF SvOK
    <3>5. sv'.new = g.new
      BY <2>3, <3>4, Zenon
    <3> QED BY <3>3, <3>5, Zenon
  <2>4. CASE CopyItem
    <3> DEFINE it == items[sv.i]
               g == IF it.value # <<>> THEN sv ELSE PlaceItem(it)
    <3>1. pc[Service] = "copyItem" /\ sv.i <= sv.n
      BY <2>4 DEF CopyItem
    <3>2. it \in Item
      BY <1>1, <3>1, ItemsRead DEF ServiceOK
    <3>3. sv' = [g EXCEPT !.i = sv.i + 1]
      BY <2>4 DEF CopyItem
    <3>4. CASE it.value # <<>>
      <4>1. sv' = [sv EXCEPT !.i = sv.i + 1]
        BY <3>3, <3>4, Zenon
      <4>2. sv'.new = sv.new
        BY <1>1, <4>1, Zenon DEF SvOK
      <4> QED BY <1>1, <4>2
    <3>5. CASE it.value = <<>>
      <4>1. g \in {sv, PlaceItem(it)}
        BY Zenon
      <4> HIDE DEF g, it
      <4> QED BY <2>3, <3>1, <3>2, <3>3, <3>5, <4>1
    <3> QED BY <3>4, <3>5
  <2>5. CASE CopyColision
    <3> DEFINE it == [colisions[sv.i] EXCEPT !.next = NoNext]
               g == PlaceItem(it)
    <3>1. pc[Service] = "copyColision" /\ sv.i <= sv.n
      BY <2>5 DEF CopyColision
    <3>2. colisions[sv.i] \in Item
      BY <1>1, <3>1, ItemsRead DEF ServiceOK
    <3>3. it \in Item /\ it.next = NoNext
      BY <3>2 DEF Item, NoNext
    <3>4. sv' = [g EXCEPT !.i = sv.i + 1]
      BY <2>5 DEF CopyColision
    <3> HIDE DEF it
    <3>5. g \in {sv, PlaceItem(it)}
      BY Zenon
    <3> HIDE DEF g
    <3> QED BY <2>3, <3>1, <3>3, <3>4, <3>5
  <2> QED BY <2>1, <2>2, <2>4, <2>5
<1> QED BY <1>3, <1>4, <1>5, <1>6, <1>7, SerialServiceStep

LEMMA ServiceCallsKeepSerial ==
  ASSUME Serial, Inv, SerialInv, CallIncrease \/ CallAssign
  PROVE  SerialInv'
<1>1. \A u \in Threads : pc[u] = "idle"
  BY DEF CallIncrease, CallAssign, MayStart
<1>2. Service \in Threads /\ UNCHANGED <<items, colisions, sv, loc>>
  BY DEF CallIncrease, CallAssign, table, Threads
<1>3. loc' = [loc EXCEPT ![Service] = loc[Service]]
  BY <1>2, ServiceFacts
<1>4. PICK p \in {"increase", "asgSize"} : pc' = [pc EXCEPT ![Service] = p]
  BY DEF CallIncrease, CallAssign, Step
<1>5. /\ Sound(items', colisions') /\ InCells(sv'.new) /\ Unlinked(sv'.new)
      /\ p \notin Unlinking
  BY <1>2 DEF SerialInv, Unlinking
<1>6. Onward(p, loc[Service]) = p /\ p \notin AtCell \cup Colliding \cup Getting \cup Ending
  BY DEF Onward, CheckPlaces, AtCell, TouchesItem, Colliding, Getting, Ending
<1>7. Knows(Onward(p, loc[Service]), loc[Service], items', colisions')
  BY <1>6, NothingKnown
<1> QED BY <1>1, <1>2, <1>3, <1>4, <1>5, <1>7, SerialStepKeeps

(***************************************************************************)
(* The theorems.                                                           *)
(***************************************************************************)
LEMMA InitSerialInv == Init => SerialInv
<1> SUFFICES ASSUME Init PROVE SerialInv
  OBVIOUS
<1>1. Service \in Threads /\ StartSize \in Nat
  BY SizesAssumption DEF Threads
<1>2. \A t \in Threads : pc[t] = "idle"
  BY DEF Init
<1>3. Sound(items, colisions)
  <2>1. InCells(items) /\ Linked(items, colisions)
    BY <1>1, EmptyVector DEF Init
  <2>2. Flat(colisions)
    BY DEF Init, Flat
  <2> QED BY <2>1, <2>2 DEF Sound
<1>4. InCells(sv.new) /\ Unlinked(sv.new)
  <2>1. sv.new = <<>>
    BY DEF Init, NoIncrease
  <2> QED BY <2>1 DEF InCells, Unlinked, Full
<1>5. ASSUME NEW t \in Threads PROVE Knows(Onward(pc[t], loc[t]), loc[t], items, colisions)
  <2>1. /\ Onward(pc[t], loc[t]) = "idle"
        /\ "idle" \notin AtCell \cup Colliding \cup Getting \cup Ending
    BY <1>2 DEF Onward, CheckPlaces, AtCell, TouchesItem, Colliding, Getting, Ending
  <2> QED BY <2>1, NothingKnown
<1> QED BY <1>1, <1>2, <1>3, <1>4, <1>5 DEF SerialInv, Alone, Unlinking

LEMMA NextSerialInv ==
  ASSUME Serial
  PROVE  Inv /\ SerialInv /\ [Next]_vars => SerialInv'
<1> SUFFICES ASSUME Inv, SerialInv, [Next]_vars PROVE SerialInv'
  OBVIOUS
<1>1. ASSUME NEW t \in Threads, ThreadStep(t) PROVE SerialInv'
  BY <1>1, ChecksKeepSerial, SizesKeepSerial, ReadKeepsSerial, DecideKeepsSerial,
     WritesKeepSerial, CountersKeepSerial, LooksKeepSerial, PushKeepsSerial, GetsKeepSerial,
     ReturnKeepsSerial DEF ThreadStep
<1>2. CASE ServiceStep
  BY <1>2, FlagsKeepSerial, AssignKeepsSerial, SwapsKeepSerial, CopyingKeepsSerial
     DEF ServiceStep
<1>3. CASE CallIncrease \/ CallAssign
  BY <1>3, ServiceCallsKeepSerial
<1>4. ASSUME NEW t \in Callers, NEW k \in Keys, CallGet(t, k) PROVE SerialInv'
  BY <1>4, CallersKeepSerial
<1>5. ASSUME NEW t \in Callers, NEW k \in Keys, NEW v \in Values, CallAdd(t, k, v)
      PROVE  SerialInv'
  BY <1>5, CallersKeepSerial
<1>6. ASSUME UNCHANGED <<items, colisions, pc, loc, sv>> PROVE SerialInv'
  BY <1>6 DEF SerialInv, Alone
<1>7. ASSUME NEW n \in 0..Cardinality(Callers), SetBusyThreadCount(n) PROVE SerialInv'
  BY <1>6, <1>7 DEF SetBusyThreadCount, table
<1>8. CASE UNCHANGED vars
  BY <1>6, <1>8 DEF vars, table
<1> QED BY <1>1, <1>2, <1>3, <1>4, <1>5, <1>7, <1>8 DEF Next

LEMMA SerialInvHolds == ASSUME Serial PROVE Spec => [](Inv /\ SerialInv)
<1>1. Init => Inv /\ SerialInv
  BY InitInv, InitSerialInv
<1>2. Inv /\ SerialInv /\ [Next]_vars => (Inv /\ SerialInv)'
  BY NextInv, NextSerialInv
<1> QED BY <1>1, <1>2, PTL DEF Spec

(* Placement: when no two operations overlap, every item on the chain of an occupied cell *)
(* has that cell's hash, whatever was added, moved by increaseTable or cleared.           *)
THEOREM SerialPlacement == ASSUME Serial PROVE Spec => []Placement
<1>1. Inv /\ SerialInv => Placement
  <2> SUFFICES ASSUME Inv, SerialInv, NEW b \in Occupied, NEW it \in Chain(items[b])
               PROVE  Cell(it.key, Len(items)) = b
    BY DEF Placement
  <2>1. b \in Full(items) /\ InCells(items) /\ Linked(items, colisions)
    BY DEF Occupied, Full, SerialInv, Sound
  <2>2. CASE it = items[b]
    BY <2>1, <2>2 DEF InCells, Home
  <2>3. CASE it # items[b]
    <3>1. items[b].next \in 1..Len(colisions) /\ it = colisions[items[b].next]
      BY <2>3 DEF Chain
    <3> QED BY <2>1, <3>1 DEF Linked, Home
  <2> QED BY <2>2, <2>3
<1> QED BY <1>1, SerialInvHolds, PTL

(* NextNamesColision: when no two operations overlap, next of an occupied cell never names  *)
(* a collision that increaseTable or the clearing of the table has thrown away.             *)
THEOREM SerialNext == ASSUME Serial PROVE Spec => []NextNamesColision
<1>1. Inv /\ SerialInv => NextNamesColision
  BY DEF NextNamesColision, Occupied, Full, SerialInv, Sound, Linked
<1> QED BY <1>1, SerialInvHolds, PTL

(* FoundAfterAdd: when no two operations overlap, get reaches the key of every add that     *)
(* returned 0, whichever way through add and handleCollision was taken.                     *)
THEOREM SerialFoundAfterAdd == ASSUME Serial PROVE Spec => []FoundAfterAdd
<1>1. Inv /\ SerialInv => FoundAfterAdd
  <2> SUFFICES ASSUME Inv, SerialInv, NEW t \in Callers, pc[t] = "return", loc[t].code = 0,
                      loc[t].val # <<>>
               PROVE  Reached(loc[t].key) # {}
    BY DEF FoundAfterAdd
  <2> DEFINE k == loc[t].key
             h == items[Home(k, items)]
  <2>1. t \in Threads
    BY DEF Threads
  <2>2. Found(k, items, colisions)
    <3>1. Knows("return", loc[t], items, colisions)
      BY <2>1, SerialFacts DEF CheckPlaces
    <3> QED BY <3>1 DEF Knows, Ending
  <2>4. HeadOf(k) = h
    BY DEF HeadOf, Home
  <2>5. ChainIn(h, colisions) = Chain(h)
    BY DEF ChainIn, Chain
  <2>6. h.value # <<>> /\ \E it \in Chain(h) : it.key = k
    BY <2>2, <2>5 DEF Found
  <2> HIDE DEF h
  <2> QED BY <2>4, <2>6 DEF Reached
<1> QED BY <1>1, SerialInvHolds, PTL
=============================================================================
