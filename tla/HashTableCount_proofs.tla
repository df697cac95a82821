------------------------ MODULE HashTableCount_proofs ------------------------
(***************************************************************************)
(* A theorem about HashTable when no two operations overlap (Serial): what  *)
(* count, which add and isOverflowed compare with the threshold, covers.    *)
(***************************************************************************)
EXTENDS HashTableSerial_proofs

(* The full cells without a collision; what count has to cover. *)
Bare(s) == {b \in Full(s) : s[b].next = NoNext}
Need(s, c) == Len(c) + Cardinality(Bare(s))

(* Where count does not, or need not, cover its need: an item is stored and not counted, *)
(* a collision pushed and not linked, or the vectors are being replaced.                 *)
Loose == {"countLoad", "countStore", "colPush", "colLink", "asgCapacity", "asgItems"} \cup Unlinking

(* What is so while a thread goes on at p with locals l, and all others are idle. *)
Covers(p, l, s, c, n, v) ==
  /\ p \notin Loose => n >= Need(s, c)
  /\ p \in {"countLoad", "countStore"} => n + 1 >= Need(s, c)
  /\ p = "countStore" => l.reg = n
  /\ p = "colPush" => n >= Need(s, c) + (IF s[l.idx].next = NoNext THEN 0 ELSE 1)
  /\ p = "colLink" => n + (IF s[l.idx].next = NoNext THEN 1 ELSE 0) >= Need(s, c)
  /\ p \in Unlinking \ {"asgColisions"} => n >= Cardinality(Full(s))
  /\ p = "asgColisions" => Full(s) = {}
  /\ p = "copyItem" => Full(v.new) = {}
  /\ p = "copyColision" => Cardinality(Full(v.new)) < v.i /\ v.i <= v.n + 1 /\ v.n = Len(c)
  /\ p \in {"setFlag", "rendezvous", "swapItems"} => Cardinality(Full(v.new)) <= Len(c)

CountInv ==
  \A t \in Threads :
    (\A u \in Threads : u # t => pc[u] = "idle")
      => Covers(Onward(pc[t], loc[t]), loc[t], items, colisions, count, sv)

(***************************************************************************)
(* How the need changes with the vectors.                                  *)
(***************************************************************************)
LEMMA CellsCounted ==
  ASSUME NEW s, Len(s) \in Nat
  PROVE  /\ IsFiniteSet(Full(s)) /\ IsFiniteSet(Bare(s))
         /\ Cardinality(Full(s)) \in Nat /\ Cardinality(Bare(s)) \in Nat
         /\ Cardinality(Bare(s)) <= Cardinality(Full(s))
<1>1. IsFiniteSet(1..Len(s))
  BY FS_Interval
<1>2. Full(s) \subseteq 1..Len(s) /\ Bare(s) \subseteq Full(s)
  BY DEF Full, Bare
<1>3. IsFiniteSet(Full(s))
  BY <1>1, <1>2, FS_Subset
<1>4. IsFiniteSet(Bare(s)) /\ Cardinality(Bare(s)) <= Cardinality(Full(s))
  BY <1>2, <1>3, FS_Subset
<1> QED BY <1>3, <1>4, FS_CardinalityType

LEMMA Within ==
  ASSUME NEW S, IsFiniteSet(S), NEW T, T \subseteq S
  PROVE  IsFiniteSet(T) /\ Cardinality(T) \in Nat /\ Cardinality(S) \in Nat
         /\ Cardinality(T) <= Cardinality(S)
<1>1. IsFiniteSet(T) /\ Cardinality(T) <= Cardinality(S)
  BY FS_Subset
<1> QED BY <1>1, FS_CardinalityType

LEMMA WithinOneMore ==
  ASSUME NEW S, IsFiniteSet(S), NEW x, NEW T, T \subseteq S \cup {x}
  PROVE  Cardinality(T) \in Nat /\ Cardinality(S) \in Nat /\ Cardinality(T) <= Cardinality(S) + 1
<1>0. Cardinality(S) \in Nat
  BY FS_CardinalityType
<1>1. IsFiniteSet(S \cup {x}) /\ Cardinality(S \cup {x}) <= Cardinality(S) + 1
  BY <1>0, FS_AddElement
<1>2. Cardinality(T) \in Nat /\ Cardinality(T) <= Cardinality(S \cup {x})
      /\ Cardinality(S \cup {x}) \in Nat
  BY <1>1, Within
<1> QED BY <1>0, <1>1, <1>2

LEMMA WithoutOne ==
  ASSUME NEW S, IsFiniteSet(S), NEW x \in S, NEW T, T \subseteq S \ {x}
  PROVE  Cardinality(T) \in Nat /\ Cardinality(S) \in Nat /\ Cardinality(T) + 1 <= Cardinality(S)
<1>0. Cardinality(S) \in Nat
  BY FS_CardinalityType
<1>1. IsFiniteSet(S \ {x}) /\ Cardinality(S \ {x}) = Cardinality(S) - 1
  BY <1>0, FS_RemoveElement
<1>2. Cardinality(T) \in Nat /\ Cardinality(T) <= Cardinality(S \ {x})
  BY <1>1, Within
<1> QED BY <1>0, <1>1, <1>2

(* A head is written. *)
LEMMA BareWritten ==
  ASSUME NEW s \in Seq(Item), NEW n \in 1..Len(s), NEW it \in Item
  PROVE  LET new == Written(s, n, it)
         IN  /\ Len(new) = Len(s) /\ new[n] = it
             /\ Bare(new) \subseteq Bare(s) \cup {n}
             /\ it.value = <<>> \/ it.next # NoNext => Bare(new) \subseteq Bare(s) \ {n}
             /\ s[n].value # <<>> /\ it.next = s[n].next => Bare(new) \subseteq Bare(s)
             /\ Full(new) \subseteq Full(s) \cup {n}
             /\ it.value = <<>> => Full(new) \subseteq Full(s)
             /\ s[n].value # <<>> => Full(new) \subseteq Full(s)
<1> DEFINE new == Written(s, n, it)
<1>1. Len(new) = Len(s) /\ \A b \in 1..Len(s) : new[b] = IF b = n THEN it ELSE s[b]
  BY DEF Written
<1> HIDE DEF new
<1>2. Full(new) \subseteq 1..Len(s) /\ new[n] = it
  BY <1>1 DEF Full
<1>3. \A b \in Full(new) : \/ b = n /\ it.value # <<>>
                           \/ b # n /\ b \in Full(s) /\ new[b] = s[b]
  BY <1>1 DEF Full
<1>4. /\ Full(new) \subseteq Full(s) \cup {n}
      /\ it.value = <<>> => Full(new) \subseteq Full(s)
      /\ s[n].value # <<>> => Full(new) \subseteq Full(s)
  BY <1>3 DEF Full
<1>5. \A b \in Bare(new) : \/ b = n /\ it.value # <<>> /\ it.next = NoNext
                           \/ b # n /\ b \in Bare(s)
  BY <1>2, <1>3 DEF Bare
<1>6. /\ Bare(new) \subseteq Bare(s) \cup {n}
      /\ it.value = <<>> \/ it.next # NoNext => Bare(new) \subseteq Bare(s) \ {n}
  BY <1>5
<1>7. s[n].value # <<>> /\ it.next = s[n].next => Bare(new) \subseteq Bare(s)
  BY <1>5 DEF Bare, Full
<1> QED BY <1>1, <1>2, <1>4, <1>6, <1>7 DEF new

LEMMA NeedCounted ==
  ASSUME Inv
  PROVE  /\ Need(items, colisions) \in Nat /\ Cardinality(Bare(items)) \in Nat
         /\ Cardinality(Full(items)) \in Nat
         /\ Cardinality(Bare(items)) <= Cardinality(Full(items))
         /\ IsFiniteSet(Bare(items)) /\ IsFiniteSet(Full(items))
         /\ Len(items) \in Nat /\ Len(colisions) \in Nat /\ count \in Nat
         /\ IsFiniteSet(Full(sv.new)) /\ Cardinality(Full(sv.new)) \in Nat
<1>1. Len(items) \in Nat /\ Len(colisions) \in Nat /\ count \in Nat /\ Len(sv.new) \in Nat
  BY ItemsRead, ServiceFacts
<1> QED BY <1>1, CellsCounted DEF Need

(***************************************************************************)
(* A step of the one thread that is not idle.                              *)
(***************************************************************************)
Special == Loose \cup {"copyItem", "copyColision", "setFlag", "rendezvous", "swapItems"}

LEMMA PlainCovers ==
  ASSUME NEW p, p \notin Special, NEW l, NEW s, NEW c, NEW n, NEW v
  PROVE  Covers(p, l, s, c, n, v) <=> n >= Need(s, c)
BY DEF Covers, Special, Loose, Unlinking

LEMMA CountStepKeeps ==
  ASSUME Inv, NEW t \in Threads, NEW p, NEW l,
         \A u \in Threads : u # t => pc[u] = "idle",
         pc' = [pc EXCEPT ![t] = p], loc' = [loc EXCEPT ![t] = l],
         Covers(Onward(p, l), l, items', colisions', count', sv')
  PROVE  CountInv'
<1>1. pc = [u \in Threads |-> pc[u]] /\ loc = [u \in Threads |-> loc[u]]
  BY DEF Inv, ThreadsOK
<1>2. pc'[t] = p /\ loc'[t] = l /\ \A u \in Threads : u # t => pc'[u] = "idle"
  BY <1>1
<1>3. ASSUME NEW u \in Threads, \A w \in Threads : w # u => pc'[w] = "idle"
      PROVE  Covers(Onward(pc'[u], loc'[u]), loc'[u], items', colisions', count', sv')
  <2>1. CASE u = t
    BY <1>2, <2>1
  <2>2. CASE u # t
    <3>1. p = "idle" /\ pc'[u] = "idle"
      BY <1>2, <1>3, <2>2
    <3>2. Onward(p, l) = "idle" /\ Onward(pc'[u], loc'[u]) = "idle" /\ "idle" \notin Special
      BY <3>1 DEF Onward, CheckPlaces, Special, Loose, Unlinking
    <3>3. count' >= Need(items', colisions')
      BY <3>2, PlainCovers
    <3> QED BY <3>2, <3>3, PlainCovers
  <2> QED BY <2>1, <2>2
<1> QED BY <1>3 DEF CountInv

LEMMA CountFacts ==
  ASSUME SerialInv, CountInv, NEW t \in Threads, pc[t] # "idle"
  PROVE  /\ \A u \in Threads : u # t => pc[u] = "idle"
         /\ Covers(Onward(pc[t], loc[t]), loc[t], items, colisions, count, sv)
         /\ pc[t] \notin CheckPlaces => Covers(pc[t], loc[t], items, colisions, count, sv)
BY OnlyOne DEF CountInv, Onward

(* From a place where nothing is owed to another one. *)
LEMMA PlainStep ==
  ASSUME Inv, SerialInv, CountInv, NEW t \in Threads, NEW p, NEW l,
         pc[t] # "idle", pc[t] \notin Special \cup CheckPlaces, Onward(p, l) \notin Special,
         pc' = [pc EXCEPT ![t] = p], loc' = [loc EXCEPT ![t] = l],
         UNCHANGED <<items, colisions>>, count' = count
  PROVE  CountInv'
<1>1. count >= Need(items, colisions)
  BY CountFacts, PlainCovers
<1>2. Covers(Onward(p, l), l, items', colisions', count', sv')
  BY <1>1, PlainCovers
<1> QED BY <1>2, CountFacts, CountStepKeeps

LEMMA CountStep ==
  ASSUME Inv, SerialInv, NEW t \in Threads, NEW p, NEW l, pc[t] # "idle",
         pc' = [pc EXCEPT ![t] = p], loc' = [loc EXCEPT ![t] = l],
         Covers(Onward(p, l), l, items', colisions', count', sv')
  PROVE  CountInv'
BY OnlyOne, CountStepKeeps

LEMMA ChecksKeepCount ==
  ASSUME Inv, SerialInv, CountInv, NEW t \in Threads,
         CheckFlag(t) \/ LoadStopped(t) \/ StoreStopped(t) \/ PassMutex(t)
  PROVE  CountInv'
<1> DEFINE h == loc[t]
<1>1. /\ ThreadOK(pc[t], h) /\ Local(h)
      /\ loc' = loc => loc' = [loc EXCEPT ![t] = h]
  BY SerialFacts
<1>2. pc[t] \in CheckPlaces
  BY DEF CheckFlag, LoadStopped, StoreStopped, PassMutex, Step, CheckPlaces
<1>3. pc[t] # "idle" /\ Onward(pc[t], h) = h.ret
  BY <1>2 DEF Onward, CheckPlaces
<1>4. h.ret \in TouchesItem /\ h.ret \notin CheckPlaces
  BY <1>1, <1>2 DEF ThreadOK, TouchesItem, CheckPlaces
<1>5. UNCHANGED <<items, colisions, count, sv>>
  BY DEF CheckFlag, LoadStopped, StoreStopped, PassMutex, table
<1>10. Covers(h.ret, h, items, colisions, count, sv)
  BY <1>3, CountFacts
<1>6. ASSUME NEW p \in {"stopLoad", "stopInc", "stopped", "goLoad", "goDec", h.ret},
             NEW l, l.idx = h.idx, l.ret = h.ret,
             pc' = [pc EXCEPT ![t] = p], loc' = [loc EXCEPT ![t] = l]
      PROVE  CountInv'
  <2>1. Onward(p, l) = h.ret /\ h.ret # "countStore"
    BY <1>4, <1>6 DEF Onward, CheckPlaces, TouchesItem
  <2>2. Covers(h.ret, l, items, colisions, count, sv)
    BY <1>6, <1>10, <2>1 DEF Covers
  <2>3. Covers(Onward(p, l), l, items', colisions', count', sv')
    BY <1>5, <2>1, <2>2
  <2> QED BY <1>3, <1>6, <2>3, CountStep
<1>7. CASE CheckFlag(t) \/ PassMutex(t)
  <2>1. PICK p \in {"stopLoad", "stopInc", "stopped", "goLoad", "goDec", h.ret} :
          pc' = [pc EXCEPT ![t] = p]
    BY <1>7 DEF CheckFlag, PassMutex, Step
  <2>2. loc' = [loc EXCEPT ![t] = h]
    BY <1>1, <1>7 DEF CheckFlag, PassMutex
  <2> HIDE DEF h
  <2> QED BY <1>6, <2>1, <2>2
<1>8. ASSUME NEW x \in Nat, loc' = [loc EXCEPT ![t].reg = x], LoadStopped(t) \/ StoreStopped(t)
      PROVE  CountInv'
  <2> DEFINE l == PutReg(h, x)
  <2>1. loc' = [loc EXCEPT ![t] = l]
    BY <1>8, LocalsOfThreads DEF PutReg
  <2>2. l.idx = h.idx /\ l.ret = h.ret
    BY <1>1, RegPut
  <2>3. PICK p \in {"stopLoad", "stopInc", "stopped", "goLoad", "goDec", h.ret} :
          pc' = [pc EXCEPT ![t] = p]
    BY <1>8 DEF LoadStopped, StoreStopped, Step
  <2> HIDE DEF l, h
  <2> QED BY <1>6, <2>1, <2>2, <2>3
<1>9. currentStopedThreadCount \in Nat /\ 0 \in Nat
  BY Wraps, ThreadFacts
<1> QED BY <1>7, <1>8, <1>9 DEF LoadStopped, StoreStopped

(* A size is read, or add has decided: nothing is owed where the thread goes on. *)
LEMMA SizesKeepCount ==
  ASSUME Inv, SerialInv, CountInv, NEW t \in Threads, AddSize(t) \/ GetSize(t)
  PROVE  CountInv'
<1> DEFINE h == loc[t]
           x == Cell(h.key, size)
<1>1. Local(h)
  BY SerialFacts
<1>2. pc[t] \in {"addSize", "getSize"} /\ pc' = [pc EXCEPT ![t] = "check"]
      /\ UNCHANGED <<items, colisions, count>>
  BY DEF AddSize, GetSize, StepChecked, Step, table
<1>3. x \in Nat
  BY <1>1, CellsOfKeys DEF Inv, TableOK, Local
<1> HIDE DEF x
<1>4. PICK r \in {"addRead", "getRead"} : loc' = [loc EXCEPT ![t].idx = x, ![t].ret = r]
  BY DEF AddSize, GetSize, x
<1> DEFINE l == PutIdxRet(h, x, r)
<1>5. loc' = [loc EXCEPT ![t] = l]
  BY <1>4, LocalsOfThreads DEF PutIdxRet
<1>6. l.ret = r
  BY <1>1, <1>3, IdxRetPut
<1> HIDE DEF l
<1>7. Onward("check", l) = r /\ r \notin Special
  BY <1>6 DEF Onward, CheckPlaces, Special, Loose, Unlinking
<1>8. pc[t] # "idle" /\ pc[t] \notin Special \cup CheckPlaces
  BY <1>2 DEF CheckPlaces, Special, Loose, Unlinking
<1> QED BY <1>2, <1>5, <1>7, <1>8, PlainStep

LEMMA DecideKeepsCount ==
  ASSUME Inv, SerialInv, CountInv, NEW t \in Threads, AddDecide(t)
  PROVE  CountInv'
<1> DEFINE h == loc[t]
<1>1. Local(h)
  BY SerialFacts
<1>2. pc[t] = "addDecide" /\ UNCHANGED <<items, colisions, count>>
  BY DEF AddDecide, Step, table
<1> DEFINE o == IF currentCapacity + ItemCapacity(h.val) >= MaxCapacity THEN <<"return", 2>>
                ELSE IF h.cur.value = <<>>
                  THEN IF count >= Threshold(size) THEN <<"return", 1>> ELSE <<"addStore", 0>>
                ELSE IF h.cur.key = h.key THEN <<"addAppend", 0>>
                ELSE <<"check", 0>>
           p == o[1]
           d == o[2]
<1>3. p \in {"return", "addStore", "addAppend", "check"} /\ pc' = [pc EXCEPT ![t] = p]
  <2>1. pc' = [pc EXCEPT ![t] = p]
    BY Zenon DEF AddDecide, Step
  <2> QED BY <2>1
<1>4. loc' = [loc EXCEPT ![t].code = d, ![t].ret = "colRead"]
  BY Zenon DEF AddDecide
<1> HIDE DEF o
<1> DEFINE l == PutCodeRet(h, d, "colRead")
<1>5. loc' = [loc EXCEPT ![t] = l]
  BY <1>4, LocalsOfThreads DEF PutCodeRet
<1>6. l.ret = "colRead"
  BY <1>1, CodeRetPut
<1> HIDE DEF l
<1>7. Onward(p, l) \notin Special
  BY <1>3, <1>6 DEF Onward, CheckPlaces, Special, Loose, Unlinking
<1>8. pc[t] # "idle" /\ pc[t] \notin Special \cup CheckPlaces
  BY <1>2 DEF CheckPlaces, Special, Loose, Unlinking
<1> QED BY <1>2, <1>3, <1>5, <1>7, <1>8, PlainStep

LEMMA PlainKeepsCount ==
  ASSUME Inv, SerialInv, CountInv, NEW t \in Threads,
         AddRead(t) \/ ColHop(t) \/ GetRead(t) \/ GetHop(t) \/ ColCap(t) \/ Return(t)
  PROVE  CountInv'
<1> DEFINE h == loc[t]
<1>1. loc' = loc => loc' = [loc EXCEPT ![t] = h]
  BY SerialFacts
<1>2. /\ pc[t] \in {"addRead", "colHop", "getRead", "getHop", "colCap", "return", "increased"}
      /\ UNCHANGED <<items, colisions, count>>
  BY DEF AddRead, ColHop, GetRead, GetHop, ColCap, Return, Step, table
<1>3. PICK p \in {"addDecide", "colCount", "return", "getHop", "readd", "idle"} :
        pc' = [pc EXCEPT ![t] = p]
  BY DEF AddRead, ColHop, GetRead, GetHop, GetLook, ColCap, Return, Step
<1>4. ASSUME NEW l, loc' = [loc EXCEPT ![t] = l] PROVE CountInv'
  <2>1. Onward(p, l) \notin Special
    BY <1>3 DEF Onward, CheckPlaces, Special, Loose, Unlinking
  <2>2. pc[t] # "idle" /\ pc[t] \notin Special \cup CheckPlaces
    BY <1>2 DEF CheckPlaces, Special, Loose, Unlinking
  <2> QED BY <1>2, <1>3, <1>4, <2>1, <2>2, PlainStep
<1>5. ASSUME NEW c, loc' = [loc EXCEPT ![t].cur = c] PROVE CountInv'
  <2> DEFINE l == PutCur(h, c)
  <2>1. loc' = [loc EXCEPT ![t] = l]
    BY <1>5, LocalsOfThreads DEF PutCur
  <2> HIDE DEF l
  <2> QED BY <1>4, <2>1
<1>6. ASSUME NEW c, NEW v, loc' = [loc EXCEPT ![t].cur = c, ![t].val = v] PROVE CountInv'
  <2> DEFINE l == PutCurVal(h, c, v)
  <2>1. loc' = [loc EXCEPT ![t] = l]
    BY <1>6, LocalsOfThreads DEF PutCurVal
  <2> HIDE DEF l
  <2> QED BY <1>4, <2>1
<1>7. CASE AddRead(t) \/ ColHop(t)
  BY <1>5, <1>7 DEF AddRead, ColHop
<1>8. CASE ColCap(t) \/ Return(t)
  <2> HIDE DEF h
  <2> QED BY <1>1, <1>4, <1>8 DEF ColCap, Return
<1>9. CASE GetHop(t)
  BY <1>6, <1>9 DEF GetHop, GetLook
<1>10. CASE GetRead(t)
  <2>1. CASE loc' = loc
    <3> HIDE DEF h
    <3> QED BY <1>1, <1>4, <2>1
  <2>2. CASE loc' # loc
    BY <1>6, <1>10, <2>2 DEF GetRead, GetLook
  <2> QED BY <2>1, <2>2
<1> QED BY <1>7, <1>8, <1>9, <1>10

(* The heads are written: a new one may owe its count, a linked one is paid for. *)
LEMMA WritesKeepCount ==
  ASSUME Inv, SerialInv, CountInv, NEW t \in Threads,
         AddStore(t) \/ AddAppend(t) \/ ColAppend(t) \/ ColLink(t)
  PROVE  CountInv'
<1> DEFINE h == loc[t]
           n == h.idx
<1>1. /\ ThreadOK(pc[t], h) /\ Local(h) /\ Knows(pc[t], h, items, colisions)
      /\ items \in Seq(Item)
      /\ loc' = loc => loc' = [loc EXCEPT ![t] = h]
  BY SerialFacts DEF AddStore, AddAppend, ColAppend, ColLink, Step, CheckPlaces
<1>2. /\ pc[t] \in {"addStore", "addAppend", "colAppend", "colLink"} /\ n <= Len(items)
      /\ UNCHANGED <<colisions, count, loc>>
  BY DEF AddStore, AddAppend, ColAppend, ColLink, Step, InItems
<1>3. /\ n \in Nat /\ n >= 1 /\ h.key \in Keyed /\ h.val \in Seq(Sources) /\ h.cur \in Item
      /\ h.pos \in Nat
  BY <1>1, <1>2 DEF ThreadOK, Local, Indexed, TouchesItem
<1>4. items[n] \in Item /\ n \in 1..Len(items)
  BY <1>1, <1>2, <1>3
<1>5. pc[t] # "addStore" => items[n].value # <<>>
  BY <1>1, <1>2 DEF Knows, Colliding
<1>6. Covers(pc[t], h, items, colisions, count, sv) /\ pc[t] # "idle"
  BY <1>2, CountFacts DEF CheckPlaces
<1>7. loc' = [loc EXCEPT ![t] = h]
  BY <1>1, <1>2
<1>8. pc[t] # "colLink" => count >= Need(items, colisions)
  BY <1>2, <1>6 DEF Covers, Loose, Unlinking
<1>9. /\ IsFiniteSet(Bare(items)) /\ Cardinality(Bare(items)) \in Nat
      /\ Len(colisions) \in Nat /\ count \in Nat
  BY NeedCounted
<1>10. CASE AddStore(t)
  <2> DEFINE it == [key |-> h.key, value |-> h.val, next |-> NoNext]
  <2>1. it \in Item
    BY <1>3 DEF Item, Keyed, NoNext
  <2>2. items' = Written(items, n, it) /\ pc' = [pc EXCEPT ![t] = "countLoad"]
        /\ pc[t] = "addStore"
    BY <1>10 DEF AddStore, Step, Written
  <2> HIDE DEF it
  <2>3. Bare(items') \subseteq Bare(items) \cup {n}
    <3> HIDE DEF h
    <3> QED BY <1>1, <1>4, <2>1, <2>2, BareWritten
  <2>4. /\ Cardinality(Bare(items')) \in Nat
        /\ Cardinality(Bare(items')) <= Cardinality(Bare(items)) + 1
    BY <1>9, <2>3, WithinOneMore
  <2>5. count' + 1 >= Need(items', colisions')
    BY <1>2, <1>8, <1>9, <2>2, <2>4 DEF Need
  <2>6. Covers("countLoad", h, items', colisions', count', sv')
    BY <2>5 DEF Covers, Loose, Unlinking
  <2>7. Onward("countLoad", h) = "countLoad"
    BY DEF Onward, CheckPlaces
  <2> HIDE DEF h
  <2> QED BY <1>6, <1>7, <2>2, <2>6, <2>7, CountStep
<1>11. ASSUME NEW p \in {"capLoad", "colCap", "return"}, pc' = [pc EXCEPT ![t] = p],
              count >= Need(items', colisions)
       PROVE  CountInv'
  <2>1. Onward(p, h) = p /\ p \notin Special
    BY <1>11 DEF Onward, CheckPlaces, Special, Loose, Unlinking
  <2>2. count' >= Need(items', colisions')
    BY <1>2, <1>11
  <2>3. Covers(Onward(p, h), h, items', colisions', count', sv')
    BY <2>1, <2>2, PlainCovers
  <2> HIDE DEF h
  <2> QED BY <1>6, <1>7, <1>11, <2>3, CountStep
<1>12. CASE AddAppend(t) \/ ColAppend(t)
  <2> DEFINE v == h.cur.value \o h.val
             it == [items[n] EXCEPT !.value = v]
  <2>1. v \in Seq(Sources)
    BY <1>3, ConcatProperties DEF Item
  <2>2. items' = [items EXCEPT ![n] = [items[n] EXCEPT !.value = v]]
    BY <1>1, <1>3, <1>4, <1>12 DEF AddAppend, ColAppend
  <2> HIDE DEF v
  <2>3. it \in Item /\ it.next = items[n].next
    BY <1>4, <2>1 DEF Item
  <2>4. items' = Written(items, n, it)
    BY <2>2 DEF Written
  <2>5. PICK p \in {"capLoad", "colCap"} :
          pc' = [pc EXCEPT ![t] = p] /\ pc[t] \in {"addAppend", "colAppend"}
    BY <1>12 DEF AddAppend, ColAppend, Step
  <2> HIDE DEF it
  <2>6. Bare(items') \subseteq Bare(items)
    <3>1. items[n].value # <<>> /\ it.next = items[n].next
      BY <1>5, <2>3, <2>5
    <3> HIDE DEF h
    <3> QED BY <1>1, <1>4, <2>3, <2>4, <3>1, BareWritten
  <2>7. /\ Cardinality(Bare(items')) \in Nat
        /\ Cardinality(Bare(items')) <= Cardinality(Bare(items))
    BY <1>9, <2>6, Within
  <2>8. count >= Need(items', colisions)
    BY <1>8, <1>9, <2>5, <2>7 DEF Need
  <2> QED BY <1>11, <2>5, <2>8
<1>13. CASE ColLink(t)
  <2> DEFINE it == [items[n] EXCEPT !.next = h.pos]
  <2>1. it \in Item /\ it.next = h.pos
    BY <1>3, <1>4 DEF Item
  <2>2. items' = Written(items, n, it) /\ pc' = [pc EXCEPT ![t] = "return"]
        /\ pc[t] = "colLink"
    BY <1>4, <1>13 DEF ColLink, Step, Written
  <2>3. it.next # NoNext
    <3>1. h.pos \in 1..Len(colisions)
      BY <1>1, <2>2 DEF Knows
    <3> QED BY <2>1, <3>1 DEF NoNext
  <2> HIDE DEF it
  <2>4. Bare(items') \subseteq Bare(items) \ {n}
    <3> HIDE DEF h
    <3> QED BY <1>1, <1>4, <2>1, <2>2, <2>3, BareWritten
  <2>5. count + (IF items[n].next = NoNext THEN 1 ELSE 0) >= Need(items, colisions)
    BY <1>6, <2>2 DEF Covers
  <2>6. CASE items[n].next = NoNext
    <3>1. n \in Bare(items)
      BY <1>4, <1>5, <2>2, <2>6 DEF Bare, Full
    <3>2. /\ Cardinality(Bare(items')) \in Nat
          /\ Cardinality(Bare(items')) + 1 <= Cardinality(Bare(items))
      <4> HIDE DEF h
      <4> QED BY <1>9, <2>4, <3>1, WithoutOne
    <3>3. count >= Need(items', colisions)
      BY <1>9, <2>5, <2>6, <3>2 DEF Need
    <3> QED BY <1>11, <2>2, <3>3
  <2>7. CASE items[n].next # NoNext
    <3>1. Bare(items') \subseteq Bare(items)
      BY <2>4
    <3>2. /\ Cardinality(Bare(items')) \in Nat
          /\ Cardinality(Bare(items')) <= Cardinality(Bare(items))
      BY <1>9, <3>1, Within
    <3>3. count >= Need(items', colisions)
      BY <1>9, <2>5, <2>7, <3>2 DEF Need
    <3> QED BY <1>11, <2>2, <3>3
  <2> QED BY <2>6, <2>7
<1> QED BY <1>10, <1>12, <1>13

(* The count is loaded, stored, or the capacity is. *)
LEMMA CountersKeepCount ==
  ASSUME Inv, SerialInv, CountInv, NEW t \in Threads, LoadCounter(t) \/ StoreCounter(t)
  PROVE  CountInv'
<1> DEFINE h == loc[t]
<1>1. Local(h) /\ (loc' = loc => loc' = [loc EXCEPT ![t] = h])
  BY SerialFacts
<1>2. /\ pc[t] \in {"countLoad", "countStore", "capLoad", "capStore"}
      /\ UNCHANGED <<items, colisions>>
  BY DEF LoadCounter, StoreCounter, Step, table
<1>3. Covers(pc[t], h, items, colisions, count, sv) /\ pc[t] # "idle" /\ pc[t] \notin CheckPlaces
  BY <1>2, CountFacts DEF CheckPlaces
<1>4. count \in Nat /\ currentCapacity \in Nat
  BY ItemsRead
<1>5. CASE pc[t] \in {"capLoad", "capStore"}
  <2>1. PICK p \in {"capStore", "return"} : pc' = [pc EXCEPT ![t] = p]
    BY <1>5 DEF LoadCounter, StoreCounter, Step
  <2>2. count' = count
    BY <1>5 DEF LoadCounter, StoreCounter, Step, table
  <2>3. PICK l : loc' = [loc EXCEPT ![t] = l]
    <3>1. CASE loc' = loc
      BY <1>1, <3>1
    <3>2. CASE loc' # loc
      <4> DEFINE l == PutReg(h, currentCapacity)
      <4>1. loc' = [loc EXCEPT ![t] = l]
        BY <1>5, <3>2, LocalsOfThreads DEF LoadCounter, StoreCounter, Step, PutReg
      <4> HIDE DEF l
      <4> QED BY <4>1
    <3> QED BY <3>1, <3>2
  <2>4. Onward(p, l) \notin Special
    BY <2>1 DEF Onward, CheckPlaces, Special, Loose, Unlinking
  <2>5. pc[t] \notin Special \cup CheckPlaces
    BY <1>5 DEF CheckPlaces, Special, Loose, Unlinking
  <2> QED BY <1>2, <1>3, <2>1, <2>2, <2>3, <2>4, <2>5, PlainStep
<1>6. CASE pc[t] = "countLoad"
  <2> DEFINE l == PutReg(h, count)
  <2>1. /\ pc' = [pc EXCEPT ![t] = "countStore"] /\ count' = count
        /\ loc' = [loc EXCEPT ![t].reg = count]
    BY <1>6 DEF LoadCounter, StoreCounter, Step, table
  <2>2. loc' = [loc EXCEPT ![t] = l]
    BY <2>1, LocalsOfThreads DEF PutReg
  <2>3. l.reg = count
    BY <1>1, Zenon DEF Local, PutReg
  <2> HIDE DEF l
  <2>4. count + 1 >= Need(items, colisions)
    BY <1>3, <1>6 DEF Covers
  <2>5. Covers("countStore", l, items', colisions', count', sv')
    BY <1>2, <2>1, <2>3, <2>4 DEF Covers, Loose, Unlinking
  <2>6. Onward("countStore", l) = "countStore"
    BY DEF Onward, CheckPlaces
  <2> QED BY <1>3, <2>1, <2>2, <2>5, <2>6, CountStep
<1>7. CASE pc[t] = "countStore"
  <2>1. pc' = [pc EXCEPT ![t] = "capLoad"] /\ count' = h.reg + 1 /\ loc' = loc
    BY <1>7 DEF LoadCounter, StoreCounter, Step
  <2>2. count + 1 >= Need(items, colisions) /\ h.reg = count
    BY <1>3, <1>7 DEF Covers
  <2>3. Onward("capLoad", h) = "capLoad" /\ "capLoad" \notin Special
    BY DEF Onward, CheckPlaces, Special, Loose, Unlinking
  <2>4. count' >= Need(items', colisions')
    BY <1>2, <2>1, <2>2
  <2>5. Covers(Onward("capLoad", h), h, items', colisions', count', sv')
    BY <2>3, <2>4, PlainCovers
  <2>6. loc' = [loc EXCEPT ![t] = h]
    BY <1>1, <2>1
  <2> HIDE DEF h
  <2> QED BY <1>3, <2>1, <2>5, <2>6, CountStep
<1> QED BY <1>2, <1>5, <1>6, <1>7

(* handleCollision: every hop counts one, so that a second collision of a cell is paid for; *)
(* the first one takes the place of the head itself.                                       *)
LEMMA LooksKeepCount ==
  ASSUME Inv, SerialInv, CountInv, NEW t \in Threads, ColRead(t) \/ ColCount(t)
  PROVE  CountInv'
<1> DEFINE h == loc[t]
           n == h.idx
<1>1. ThreadOK(pc[t], h) /\ Local(h)
  BY SerialFacts
<1>2. pc[t] \in {"colRead", "colCount"} /\ UNCHANGED <<items, colisions>>
  BY DEF ColRead, ColCount, AfterLook, Step, table
<1>3. Covers(pc[t], h, items, colisions, count, sv) /\ pc[t] # "idle"
  BY <1>2, CountFacts DEF CheckPlaces
<1>4. count >= Need(items, colisions)
  BY <1>2, <1>3 DEF Covers, Loose, Unlinking
<1>5. Need(items, colisions) \in Nat /\ count \in Nat
  BY NeedCounted
<1>6. ASSUME NEW from, NEW c \in Item, AfterLook(t, from, c), count' \in {count, count + 1},
             count' = count => c = items[n]
      PROVE  CountInv'
  <2>1. PICK p \in {"check", "colPush", "colHop"} :
          pc' = [pc EXCEPT ![t] = p] /\ (p = "colPush" => c.next = NoNext)
    BY <1>6 DEF AfterLook, Step
  <2> DEFINE l == PutCurRet(h, c, "colAppend")
  <2>2. l.idx = n /\ l.ret = "colAppend"
    BY <1>1, <1>6, CurRetPut
  <2>3. loc' = [loc EXCEPT ![t] = l]
    BY <1>6, LocalsOfThreads DEF AfterLook, PutCurRet
  <2> HIDE DEF l
  <2>4. CASE p = "colPush"
    <3>1. count' >= Need(items, colisions) + (IF items[n].next = NoNext THEN 0 ELSE 1)
      <4>1. CASE items[n].next = NoNext
        BY <1>4, <1>5, <1>6, <4>1
      <4>2. CASE items[n].next # NoNext
        BY <1>4, <1>5, <1>6, <2>1, <2>4, <4>2
      <4> QED BY <4>1, <4>2
    <3>2. Covers("colPush", l, items', colisions', count', sv')
      BY <1>2, <2>2, <3>1 DEF Covers, Loose, Unlinking
    <3>3. Onward("colPush", l) = "colPush"
      BY DEF Onward, CheckPlaces
    <3> QED BY <1>3, <2>1, <2>3, <2>4, <3>2, <3>3, CountStep
  <2>5. CASE p # "colPush"
    <3>1. Onward(p, l) \notin Special
      BY <2>1, <2>2, <2>5 DEF Onward, CheckPlaces, Special, Loose, Unlinking
    <3>2. count' >= Need(items', colisions')
      BY <1>2, <1>4, <1>5, <1>6
    <3>3. Covers(Onward(p, l), l, items', colisions', count', sv')
      BY <3>1, <3>2, PlainCovers
    <3> QED BY <1>3, <2>1, <2>3, <3>3, CountStep
  <2> QED BY <2>4, <2>5
<1>7. CASE ColRead(t)
  <2>1. h.idx \in Nat /\ h.idx >= 1
    BY <1>1, <1>7 DEF ColRead, AfterLook, Step, ThreadOK, Local, Indexed, TouchesItem
  <2>2. items[n] \in Item
    BY <1>7, <2>1, ItemsRead DEF ColRead, InItems
  <2>3. AfterLook(t, "colRead", items[n]) /\ count' = count
    BY <1>7 DEF ColRead, table
  <2> QED BY <1>6, <2>2, <2>3
<1>8. CASE ColCount(t)
  <2>1. AfterLook(t, "colCount", h.cur) /\ count' = count + 1 /\ h.cur \in Item
    BY <1>1, <1>8 DEF ColCount, Local
  <2>2. count' # count
    BY <1>5, <2>1
  <2> HIDE DEF h
  <2> QED BY <1>6, <2>1, <2>2
<1> QED BY <1>7, <1>8

LEMMA PushKeepsCount ==
  ASSUME Inv, SerialInv, CountInv, NEW t \in Threads, ColPush(t)
  PROVE  CountInv'
<1> DEFINE h == loc[t]
           n == h.idx
           it == [key |-> h.key, value |-> h.val, next |-> NoNext]
<1>1. Local(h) /\ items \in Seq(Item) /\ colisions \in Seq(Item)
  BY SerialFacts
<1>2. /\ pc[t] = "colPush" /\ pc' = [pc EXCEPT ![t] = "check"]
      /\ items' = items /\ count' = count /\ colisions' = Append(colisions, it)
  BY DEF ColPush, StepChecked, Step
<1>3. Covers("colPush", h, items, colisions, count, sv) /\ pc[t] # "idle"
  BY <1>2, CountFacts DEF CheckPlaces
<1>4. count >= Need(items, colisions) + (IF items[n].next = NoNext THEN 0 ELSE 1)
  BY <1>3 DEF Covers
<1>5. /\ Cardinality(Bare(items)) \in Nat /\ Len(colisions) \in Nat /\ count \in Nat
  BY NeedCounted
<1> HIDE DEF it
<1>6. Len(colisions') = Len(colisions) + 1
  BY <1>1, <1>2
<1> DEFINE l == PutPosRet(h, Len(colisions'), "colLink")
<1>7. l.idx = n /\ l.ret = "colLink"
  BY <1>1, <1>5, <1>6, PosRetPut
<1>8. loc' = [loc EXCEPT ![t] = l]
  BY LocalsOfThreads DEF ColPush, PutPosRet
<1> HIDE DEF l
<1>9. Onward("check", l) = "colLink"
  BY <1>7 DEF Onward, CheckPlaces
<1>10. count' + (IF items'[n].next = NoNext THEN 1 ELSE 0) >= Need(items', colisions')
  <2>1. CASE items[n].next = NoNext
    BY <1>2, <1>4, <1>5, <1>6, <2>1 DEF Need
  <2>2. CASE items[n].next # NoNext
    BY <1>2, <1>4, <1>5, <1>6, <2>2 DEF Need
  <2> QED BY <2>1, <2>2
<1>11. Covers("colLink", l, items', colisions', count', sv')
  BY <1>7, <1>10 DEF Covers, Loose, Unlinking
<1> QED BY <1>2, <1>3, <1>8, <1>9, <1>11, CountStep

LEMMA CallersKeepCount ==
  ASSUME Serial, Inv, SerialInv, CountInv, NEW t \in Callers, NEW k \in Keys,
         CallGet(t, k) \/ \E v \in Values : CallAdd(t, k, v)
  PROVE  CountInv'
<1>1. t \in Threads
  BY DEF Threads
<1>2. \A u \in Threads : pc[u] = "idle"
  BY DEF CallGet, CallAdd, MayStart
<1>3. count >= Need(items, colisions)
  <2>1. Covers(Onward(pc[t], loc[t]), loc[t], items, colisions, count, sv)
    BY <1>1, <1>2 DEF CountInv
  <2>2. Onward(pc[t], loc[t]) \notin Special
    BY <1>1, <1>2 DEF Onward, CheckPlaces, Special, Loose, Unlinking
  <2> QED BY <2>1, <2>2, PlainCovers
<1>4. PICK p \in {"addSize", "getSize"} : pc' = [pc EXCEPT ![t] = p]
  BY DEF CallGet, CallAdd, Step
<1>9. PICK l : loc' = [loc EXCEPT ![t] = l]
  BY DEF CallGet, CallAdd
<1>5. UNCHANGED <<items, colisions, count>>
  BY DEF CallGet, CallAdd, table
<1>6. Onward(p, l) \notin Special
  BY DEF Onward, CheckPlaces, Special, Loose, Unlinking
<1>7. count' >= Need(items', colisions')
  BY <1>3, <1>5
<1>8. Covers(Onward(p, l), l, items', colisions', count', sv')
  BY <1>6, <1>7, PlainCovers
<1> QED BY <1>1, <1>2, <1>4, <1>8, <1>9, CountStepKeeps

(***************************************************************************)
(* The service thread.                                                     *)
(***************************************************************************)
LEMMA ServiceCounts ==
  ASSUME Inv, SerialInv, NEW p \in ServicePlaces, NEW l, pc[Service] # "idle",
         pc' = [pc EXCEPT ![Service] = p], loc' = [loc EXCEPT ![Service] = l],
         Covers(p, l, items', colisions', count', sv')
  PROVE  CountInv'
<1>1. Service \in Threads /\ Onward(p, l) = p
  BY DEF Threads, Onward, CheckPlaces, ServicePlaces
<1> QED BY <1>1, CountStep

LEMMA ServiceKnows ==
  ASSUME Inv, SerialInv, CountInv, pc[Service] \in ServicePlaces \ {"idle"}
  PROVE  /\ Covers(pc[Service], loc[Service], items, colisions, count, sv)
         /\ pc[Service] \notin Special => count >= Need(items, colisions)
<1>1. Service \in Threads /\ pc[Service] # "idle" /\ pc[Service] \notin CheckPlaces
  BY DEF Threads, CheckPlaces, ServicePlaces
<1>2. Covers(pc[Service], loc[Service], items, colisions, count, sv)
  BY <1>1, CountFacts
<1> QED BY <1>2, PlainCovers

LEMMA FlagsKeepCount ==
  ASSUME Inv, SerialInv, CountInv,
         \/ IncRefuse \/ LockIncrease \/ SetFlag \/ Rendezvous \/ StoreSize \/ ClearFlag
         \/ UnlockIncrease \/ IncDone
  PROVE  CountInv'
<1> DEFINE q == pc[Service]
           l == loc[Service]
<1>1. UNCHANGED <<items, colisions, count, sv, loc>>
  BY DEF IncRefuse, LockIncrease, SetFlag, Rendezvous, StoreSize, ClearFlag, UnlockIncrease,
         IncDone, table
<1>2. loc' = [loc EXCEPT ![Service] = l]
  BY <1>1, ServiceFacts
<1>3. PICK p \in ServicePlaces :
        /\ pc' = [pc EXCEPT ![Service] = p]
        /\ \/ q \in {"increase", "readd"} /\ p \in {"idle", "increased"}
           \/ q = "copyColision" /\ p = "setFlag" /\ sv.i > sv.n
           \/ q \in {"setFlag", "rendezvous"} /\ p \in {"rendezvous", "swapItems"}
           \/ /\ q \in {"storeSize", "clearFlag", "unlock"}
              /\ p \in {"clearFlag", "unlock", "resetColisions"}
  BY DEF IncRefuse, LockIncrease, SetFlag, Rendezvous, StoreSize, ClearFlag, UnlockIncrease,
         IncDone, Step, ServicePlaces
<1>4. q \in ServicePlaces \ {"idle"}
  BY <1>3 DEF ServicePlaces
<1>5. Covers(q, l, items, colisions, count, sv)
  BY <1>4, ServiceKnows
<1>6. Covers(p, l, items, colisions, count, sv)
  <2>1. CASE q \in {"increase", "readd"} /\ p \in {"idle", "increased"}
    <3>1. q \notin Special /\ p \notin Special
      BY <2>1 DEF Special, Loose, Unlinking
    <3> QED BY <1>5, <3>1, PlainCovers
  <2>2. CASE q = "copyColision" /\ p = "setFlag" /\ sv.i > sv.n
    <3>1. count >= Need(items, colisions)
      BY <1>5, <2>2 DEF Covers, Loose, Unlinking
    <3>2. /\ Cardinality(Full(sv.new)) < sv.i /\ sv.i <= sv.n + 1 /\ sv.n = Len(colisions)
      BY <1>5, <2>2 DEF Covers
    <3>3. /\ Cardinality(Full(sv.new)) \in Nat /\ sv.i \in Nat /\ sv.n \in Nat
          /\ Len(colisions) \in Nat
      BY NeedCounted, ServiceFacts DEF SvOK
    <3>4. Cardinality(Full(sv.new)) <= Len(colisions)
      BY <2>2, <3>2, <3>3
    <3> QED BY <2>2, <3>1, <3>4 DEF Covers, Loose, Unlinking
  <2>3. CASE q \in {"setFlag", "rendezvous"} /\ p \in {"rendezvous", "swapItems"}
    <3>1. count >= Need(items, colisions) /\ Cardinality(Full(sv.new)) <= Len(colisions)
      BY <1>5, <2>3 DEF Covers, Loose, Unlinking
    <3> QED BY <2>3, <3>1 DEF Covers, Loose, Unlinking
  <2>4. CASE /\ q \in {"storeSize", "clearFlag", "unlock"}
             /\ p \in {"clearFlag", "unlock", "resetColisions"}
    <3>1. count >= Cardinality(Full(items))
      BY <1>5, <2>4 DEF Covers, Unlinking
    <3> QED BY <2>4, <3>1 DEF Covers, Loose, Unlinking
  <2> QED BY <1>3, <2>1, <2>2, <2>3, <2>4
<1>7. Covers(p, l, items', colisions', count', sv')
  BY <1>1, <1>6
<1> HIDE DEF l
<1> QED BY <1>2, <1>3, <1>4, <1>7, ServiceCounts

(* The new vector has no more full cells than there were collisions, and they are counted. *)
LEMMA SwapsKeepCount ==
  ASSUME Inv, SerialInv, CountInv, SwapItems \/ ResetColisions \/ Readd
  PROVE  CountInv'
<1>1. pc[Service] \in ServicePlaces \ {"idle"}
  BY DEF SwapItems, ResetColisions, Readd, Step, ServicePlaces
<1>2. Covers(pc[Service], loc[Service], items, colisions, count, sv)
  BY <1>1, ServiceKnows
<1>3. /\ Len(colisions) \in Nat /\ count \in Nat /\ Cardinality(Full(sv.new)) \in Nat
      /\ Cardinality(Bare(items)) \in Nat /\ Cardinality(Full(items)) \in Nat
      /\ Cardinality(Bare(items)) <= Cardinality(Full(items))
  BY NeedCounted
<1>4. CASE SwapItems
  <2>1. /\ pc[Service] = "swapItems" /\ pc' = [pc EXCEPT ![Service] = "storeSize"]
        /\ items' = sv.new /\ UNCHANGED <<colisions, count, loc, sv>>
    BY <1>4 DEF SwapItems, Step
  <2>2. count >= Need(items, colisions) /\ Cardinality(Full(sv.new)) <= Len(colisions)
    BY <1>2, <2>1 DEF Covers, Loose, Unlinking
  <2>3. count' >= Cardinality(Full(items'))
    BY <1>3, <2>1, <2>2 DEF Need
  <2>4. Covers("storeSize", loc[Service], items', colisions', count', sv')
    BY <2>3 DEF Covers, Loose, Unlinking
  <2>5. loc' = [loc EXCEPT ![Service] = loc[Service]] /\ "storeSize" \in ServicePlaces
    BY <2>1, ServiceFacts DEF ServicePlaces
  <2> QED BY <1>1, <2>1, <2>4, <2>5, ServiceCounts
<1>5. CASE ResetColisions
  <2>1. /\ pc[Service] = "resetColisions" /\ pc' = [pc EXCEPT ![Service] = "readd"]
        /\ colisions' = <<>> /\ UNCHANGED <<items, count, loc, sv>>
    BY <1>5 DEF ResetColisions, Step
  <2>2. count >= Cardinality(Full(items))
    BY <1>2, <2>1 DEF Covers, Unlinking
  <2>3. Need(items, <<>>) = Cardinality(Bare(items))
    BY <1>3 DEF Need
  <2>4. count' >= Need(items', colisions')
    BY <1>3, <2>1, <2>2, <2>3
  <2>5. "readd" \in ServicePlaces /\ "readd" \notin Special
    BY DEF ServicePlaces, Special, Loose, Unlinking
  <2>6. Covers("readd", loc[Service], items', colisions', count', sv')
    BY <2>4, <2>5, PlainCovers
  <2>7. loc' = [loc EXCEPT ![Service] = loc[Service]]
    BY <2>1, ServiceFacts
  <2> QED BY <1>1, <2>1, <2>5, <2>6, <2>7, ServiceCounts
<1>6. CASE Readd
  <2> DEFINE l == [Idle EXCEPT !.key = sv.tmp[1].key, !.val = sv.tmp[1].value]
  <2>1. /\ pc[Service] = "readd" /\ pc' = [pc EXCEPT ![Service] = "addSize"]
        /\ UNCHANGED <<items, colisions, count>> /\ loc' = [loc EXCEPT ![Service] = l]
    BY <1>6 DEF Readd, Step, table
  <2> HIDE DEF l
  <2>2. "readd" \notin Special /\ "addSize" \notin Special /\ "addSize" \in ServicePlaces
    BY DEF ServicePlaces, Special, Loose, Unlinking
  <2>3. count' >= Need(items', colisions')
    BY <1>2, <2>1, <2>2, PlainCovers
  <2>4. Covers("addSize", l, items', colisions', count', sv')
    BY <2>2, <2>3, PlainCovers
  <2> QED BY <1>1, <2>1, <2>2, <2>4, ServiceCounts
<1> QED BY <1>4, <1>5, <1>6

LEMMA NoFull ==
  ASSUME NEW n \in Nat
  PROVE  Full(createNewVector(n)) = {} /\ Bare(createNewVector(n)) = {}
<1> DEFINE s == createNewVector(n)
<1>1. Len(s) = n
  BY EmptyTable
<1>2. \A i \in 1..n : s[i] = EmptyItem
  BY DEF createNewVector
<1>3. EmptyItem.value = <<>>
  BY DEF EmptyItem
<1> HIDE DEF s
<1>4. Full(s) = {}
  BY <1>1, <1>2, <1>3 DEF Full
<1>5. Bare(s) = {}
  BY <1>4 DEF Bare
<1> QED BY <1>4, <1>5 DEF s

LEMMA AssignKeepsCount ==
  ASSUME Inv, SerialInv, CountInv, Assign
  PROVE  CountInv'
<1> DEFINE l == loc[Service]
<1>1. UNCHANGED loc /\ Service \in Threads
  BY DEF Assign, table, Threads
<1>2. loc' = [loc EXCEPT ![Service] = l]
  BY <1>1, ServiceFacts
<1>3. pc[Service] \in ServicePlaces \ {"idle"}
  BY DEF Assign, Step, ServicePlaces
<1>4. Covers(pc[Service], l, items, colisions, count, sv)
  BY <1>3, ServiceKnows
<1>5. CASE pc[Service] \in {"asgSize", "asgBusy"}
  <2>1. PICK p \in {"asgCount", "idle"} : pc' = [pc EXCEPT ![Service] = p]
    BY <1>5 DEF Assign, Step
  <2>2. UNCHANGED <<items, colisions, count>>
    BY <1>5 DEF Assign, Step, table
  <2>3. p \in ServicePlaces /\ p \notin Special /\ pc[Service] \notin Special
    BY <1>5, <2>1 DEF ServicePlaces, Special, Loose, Unlinking
  <2>4. count' >= Need(items', colisions')
    BY <1>4, <2>2, <2>3, PlainCovers
  <2>5. Covers(p, l, items', colisions', count', sv')
    BY <2>3, <2>4, PlainCovers
  <2> HIDE DEF l
  <2> QED BY <1>2, <1>3, <2>1, <2>3, <2>5, ServiceCounts
<1>6. CASE pc[Service] \in {"asgCount", "asgCapacity"}
  <2>1. PICK p \in {"asgCapacity", "asgItems"} : pc' = [pc EXCEPT ![Service] = p]
    BY <1>6 DEF Assign, Step
  <2>2. Covers(p, l, items', colisions', count', sv') /\ p \in ServicePlaces
    BY <2>1 DEF Covers, Loose, Unlinking, ServicePlaces
  <2> HIDE DEF l
  <2> QED BY <1>2, <1>3, <2>1, <2>2, ServiceCounts
<1>7. CASE pc[Service] = "asgItems"
  <2>1. pc' = [pc EXCEPT ![Service] = "asgColisions"] /\ items' = createNewVector(StartSize)
    BY <1>7 DEF Assign, Step
  <2>2. Full(items') = {}
    BY <2>1, SizesAssumption, NoFull
  <2>3. Covers("asgColisions", l, items', colisions', count', sv')
        /\ "asgColisions" \in ServicePlaces
    BY <2>2 DEF Covers, Loose, Unlinking, ServicePlaces
  <2> HIDE DEF l
  <2> QED BY <1>2, <1>3, <2>1, <2>3, ServiceCounts
<1>8. CASE pc[Service] = "asgColisions"
  <2>1. /\ pc' = [pc EXCEPT ![Service] = "asgBusy"] /\ colisions' = <<>>
        /\ UNCHANGED <<items, count>>
    BY <1>8 DEF Assign, Step
  <2>2. Bare(items) = {} /\ count \in Nat
    BY <1>4, <1>8, NeedCounted DEF Covers, Bare
  <2>3. Need(items, <<>>) = 0
    BY <2>2, FS_EmptySet DEF Need
  <2>4. count' >= Need(items', colisions')
    BY <2>1, <2>2, <2>3
  <2>5. "asgBusy" \in ServicePlaces /\ "asgBusy" \notin Special
    BY DEF ServicePlaces, Special, Loose, Unlinking
  <2>6. Covers("asgBusy", l, items', colisions', count', sv')
    BY <2>4, <2>5, PlainCovers
  <2> HIDE DEF l
  <2> QED BY <1>2, <1>3, <2>1, <2>5, <2>6, ServiceCounts
<1> QED BY <1>5, <1>6, <1>7, <1>8 DEF Assign, Step

(* An item fills at most the cell it is placed in; one without a value fills none. *)
LEMMA PlacedFills ==
  ASSUME SvOK, Len(sv.new) > 0, NEW it \in Item
  PROVE  LET c == Cell(it.key, newSize)
             g == PlaceItem(it)
         IN  /\ Full(g.new) \subseteq Full(sv.new) \cup {c}
             /\ Full(sv.new) = {} /\ it.value = <<>> => Full(g.new) = {}
<1> DEFINE v == sv.new
           c == Cell(it.key, newSize)
           cur == v[c]
           g == PlaceItem(it)
<1>1. v \in Seq(Item) /\ newSize = Len(v) /\ newSize \in Nat /\ newSize > 0
  BY DEF SvOK, newSize
<1>2. it.key \in Keyed /\ it.value \in Seq(Sources)
  BY DEF Item, Keyed
<1>3. c \in 1..Len(v)
  BY <1>1, <1>2, CellsOfKeys
<1>4. cur \in Item /\ (cur.value # <<>> => c \in Full(v))
  BY <1>1, <1>3 DEF Full
<1>5. ASSUME NEW w \in Item, g.new = Written(v, c, w),
             Full(v) = {} /\ it.value = <<>> => w.value = <<>>
      PROVE  /\ Full(g.new) \subseteq Full(v) \cup {c}
             /\ Full(v) = {} /\ it.value = <<>> => Full(g.new) = {}
  <2>1. /\ Full(Written(v, c, w)) \subseteq Full(v) \cup {c}
        /\ w.value = <<>> => Full(Written(v, c, w)) \subseteq Full(v)
    <3> HIDE DEF v, c
    <3> QED BY <1>1, <1>3, <1>5, BareWritten
  <2> QED BY <1>5, <2>1
<1>6. CASE cur.value = <<>>
  <2>1. g = [sv EXCEPT !.new = Written(v, c, it)]
    BY <1>6, Zenon DEF PlaceItem, Written
  <2>2. g.new = Written(v, c, it)
    BY <2>1, Zenon DEF SvOK
  <2> QED BY <1>5, <2>2
<1>7. CASE cur.value # <<>> /\ cur.key # it.key
  <2>1. g = [sv EXCEPT !.tmp = Append(sv.tmp, it)]
    BY <1>7, Zenon DEF PlaceItem
  <2>2. g.new = v
    BY <2>1, Zenon DEF SvOK
  <2> QED BY <2>2
<1>8. CASE cur.value # <<>> /\ cur.key = it.key
  <2> DEFINE x == cur.value \o it.value
             w == [cur EXCEPT !.value = x]
  <2>1. x \in Seq(Sources)
    BY <1>2, <1>4, ConcatProperties DEF Item
  <2>2. g = [sv EXCEPT !.new[c].value = x]
    BY <1>8, Zenon DEF PlaceItem
  <2> HIDE DEF x
  <2>3. w \in Item
    BY <1>4, <2>1 DEF Item
  <2>4. g = [sv EXCEPT !.new = Written(v, c, w)]
    BY <2>2, Zenon DEF Written
  <2>5. g.new = Written(v, c, w)
    BY <2>4, Zenon DEF SvOK
  <2>6. Full(v) # {}
    BY <1>4, <1>8
  <2> HIDE DEF w
  <2> QED BY <1>5, <2>3, <2>5, <2>6
<1> QED BY <1>6, <1>7, <1>8

LEMMA CopyingKeepsCount ==
  ASSUME Inv, SerialInv, CountInv, IncStart \/ CopyItem \/ CountColisions \/ CopyColision
  PROVE  CountInv'
<1> DEFINE l == loc[Service]
<1>1. /\ SvOK /\ size \in Nat /\ size > 0 /\ ServiceOK(pc[Service]) /\ Service \in Threads
      /\ pc = [u \in Threads |-> pc[u]] /\ sv.i \in Nat /\ sv.n \in Nat
      /\ Len(colisions) \in Nat /\ IsFiniteSet(Full(sv.new))
      /\ Cardinality(Full(sv.new)) \in Nat
  BY NeedCounted DEF Inv, TableOK, ThreadsOK, SvOK, Threads
<1>2. UNCHANGED <<items, colisions, count, loc>>
  BY DEF IncStart, CopyItem, CountColisions, CopyColision, table
<1>3. loc' = [loc EXCEPT ![Service] = l]
  BY <1>2, ServiceFacts
<1>4. pc[Service] \in {"increase", "copyItem", "copyColision"}
  BY DEF IncStart, CopyItem, CountColisions, CopyColision, Step
<1>5. pc[Service] \in ServicePlaces \ {"idle"}
  BY <1>4 DEF ServicePlaces
<1>6. Covers(pc[Service], l, items, colisions, count, sv)
  BY <1>5, ServiceKnows
<1>7. count' >= Need(items', colisions')
  BY <1>2, <1>4, <1>6 DEF Covers, Loose, Unlinking
<1>8. ASSUME NEW it \in Item, sv' = [PlaceItem(it) EXCEPT !.i = sv.i + 1],
             pc[Service] \in {"copyItem", "copyColision"}
      PROVE  /\ sv'.i = sv.i + 1 /\ sv'.n = sv.n
             /\ Cardinality(Full(sv'.new)) <= Cardinality(Full(sv.new)) + 1
             /\ Cardinality(Full(sv'.new)) \in Nat
             /\ Full(sv.new) = {} /\ it.value = <<>> => Full(sv'.new) = {}
  <2> DEFINE g == PlaceItem(it)
             c == Cell(it.key, newSize)
  <2>1. Len(sv.new) = 2 * size /\ Len(sv.new) > 0
    BY <1>1, <1>8 DEF ServiceOK, Copying
  <2>2. Multiple(Len(sv.new))
    BY <1>1, <2>1, Doubled DEF Inv, TableOK
  <2>3. {"new", "tmp", "i", "n"} \subseteq DOMAIN g /\ g.n = sv.n
    BY <1>1, <1>8, <2>1, <2>2, ItemPlaced
  <2>4. sv'.i = sv.i + 1 /\ sv'.n = g.n /\ sv'.new = g.new
    BY <1>8, <2>3, Zenon
  <2>5. /\ Full(g.new) \subseteq Full(sv.new) \cup {c}
        /\ Full(sv.new) = {} /\ it.value = <<>> => Full(g.new) = {}
    BY <1>1, <1>8, <2>1, PlacedFills
  <2> HIDE DEF g, c
  <2>6. /\ Cardinality(Full(g.new)) \in Nat
        /\ Cardinality(Full(g.new)) <= Cardinality(Full(sv.new)) + 1
    BY <1>1, <2>5, WithinOneMore
  <2> QED BY <2>3, <2>4, <2>5, <2>6
<1>9. CASE IncStart
  <2>1. /\ pc' = [pc EXCEPT ![Service] = "copyItem"]
        /\ sv'.new = createNewVector(2 * size) /\ 2 * size \in Nat
    BY <1>1, <1>9 DEF IncStart, Step
  <2>2. Full(sv'.new) = {}
    BY <2>1, NoFull
  <2>3. Covers("copyItem", l, items', colisions', count', sv') /\ "copyItem" \in ServicePlaces
    BY <1>7, <2>2 DEF Covers, Loose, Unlinking, ServicePlaces
  <2> HIDE DEF l
  <2> QED BY <1>3, <1>5, <2>1, <2>3, ServiceCounts
<1>10. CASE CopyItem
  <2> DEFINE it == items[sv.i]
             g == IF it.value # <<>> THEN sv ELSE PlaceItem(it)
  <2>1. /\ pc[Service] = "copyItem" /\ sv.i <= sv.n /\ UNCHANGED pc
        /\ pc' = [pc EXCEPT ![Service] = "copyItem"]
    BY <1>1, <1>10 DEF CopyItem
  <2>2. it \in Item
    BY <1>1, <2>1, ItemsRead DEF ServiceOK
  <2>3. Full(sv.new) = {}
    BY <1>6, <2>1 DEF Covers
  <2>4. sv' = [g EXCEPT !.i = sv.i + 1]
    BY <1>10 DEF CopyItem
  <2>5. Full(sv'.new) = {}
    <3>1. CASE it.value # <<>>
      <4>1. sv' = [sv EXCEPT !.i = sv.i + 1]
        BY <2>4, <3>1, Zenon
      <4>2. sv'.new = sv.new
        BY <1>1, <4>1, Zenon DEF SvOK
      <4> QED BY <2>3, <4>2
    <3>2. CASE it.value = <<>>
      <4>1. sv' = [PlaceItem(it) EXCEPT !.i = sv.i + 1]
        BY <2>4, <3>2, Zenon
      <4> HIDE DEF it, g
      <4> QED BY <1>8, <2>1, <2>2, <2>3, <3>2, <4>1
    <3> QED BY <3>1, <3>2
  <2>6. Covers("copyItem", l, items', colisions', count', sv') /\ "copyItem" \in ServicePlaces
    BY <1>7, <2>5 DEF Covers, Loose, Unlinking, ServicePlaces
  <2> HIDE DEF l
  <2> QED BY <1>3, <1>5, <2>1, <2>6, ServiceCounts
<1>11. CASE CountColisions
  <2>1. /\ pc[Service] = "copyItem" /\ pc' = [pc EXCEPT ![Service] = "copyColision"]
        /\ sv' = [sv EXCEPT !.i = 1, !.n = Len(colisions)]
    BY <1>11 DEF CountColisions, Step
  <2>2. sv'.new = sv.new /\ sv'.i = 1 /\ sv'.n = Len(colisions)
    BY <1>1, <2>1, Zenon DEF SvOK
  <2>3. Cardinality(Full(sv'.new)) = 0
    BY <1>6, <2>1, <2>2, FS_EmptySet DEF Covers
  <2>4. /\ Cardinality(Full(sv'.new)) < sv'.i /\ sv'.i <= sv'.n + 1 /\ sv'.n = Len(colisions')
    BY <1>1, <1>2, <2>2, <2>3
  <2>5. Covers("copyColision", l, items', colisions', count', sv')
        /\ "copyColision" \in ServicePlaces
    BY <1>7, <2>4 DEF Covers, Loose, Unlinking, ServicePlaces
  <2> HIDE DEF l
  <2> QED BY <1>3, <1>5, <2>1, <2>5, ServiceCounts
<1>12. CASE CopyColision
  <2> DEFINE it == [colisions[sv.i] EXCEPT !.next = NoNext]
  <2>1. /\ pc[Service] = "copyColision" /\ sv.i <= sv.n
        /\ pc' = [pc EXCEPT ![Service] = "copyColision"]
        /\ sv' = [PlaceItem(it) EXCEPT !.i = sv.i + 1]
    BY <1>1, <1>12 DEF CopyColision
  <2>2. colisions[sv.i] \in Item
    BY <1>1, <2>1, ItemsRead DEF ServiceOK
  <2>3. it \in Item
    BY <2>2 DEF Item, NoNext
  <2> HIDE DEF it
  <2>4. /\ sv'.i = sv.i + 1 /\ sv'.n = sv.n
        /\ Cardinality(Full(sv'.new)) <= Cardinality(Full(sv.new)) + 1
        /\ Cardinality(Full(sv'.new)) \in Nat
    BY <1>8, <2>1, <2>3
  <2>5. Cardinality(Full(sv.new)) < sv.i /\ sv.n = Len(colisions)
    BY <1>6, <2>1 DEF Covers
  <2>6. /\ Cardinality(Full(sv'.new)) < sv'.i /\ sv'.i <= sv'.n + 1 /\ sv'.n = Len(colisions')
    BY <1>1, <1>2, <2>1, <2>4, <2>5
  <2>7. Covers("copyColision", l, items', colisions', count', sv')
        /\ "copyColision" \in ServicePlaces
    BY <1>7, <2>6 DEF Covers, Loose, Unlinking, ServicePlaces
  <2> HIDE DEF l
  <2> QED BY <1>3, <1>5, <2>1, <2>7, ServiceCounts
<1> QED BY <1>9, <1>10, <1>11, <1>12

LEMMA ServiceCallsKeepCount ==
  ASSUME Serial, Inv, SerialInv, CountInv, CallIncrease \/ CallAssign
  PROVE  CountInv'
<1> DEFINE l == loc[Service]
<1>1. \A u \in Threads : pc[u] = "idle"
  BY DEF CallIncrease, CallAssign, MayStart
<1>2. Service \in Threads /\ UNCHANGED <<items, colisions, count, loc>>
  BY DEF CallIncrease, CallAssign, table, Threads
<1>3. loc' = [loc EXCEPT ![Service] = l]
  BY <1>2, ServiceFacts
<1>4. PICK p \in {"increase", "asgSize"} : pc' = [pc EXCEPT ![Service] = p]
  BY DEF CallIncrease, CallAssign, Step
<1>5. Onward(p, l) \notin Special /\ Onward(pc[Service], l) \notin Special
  BY <1>1, <1>2 DEF Onward, CheckPlaces, Special, Loose, Unlinking
<1>6. Covers(Onward(pc[Service], l), l, items, colisions, count, sv)
  BY <1>1, <1>2 DEF CountInv
<1>7. count' >= Need(items', colisions')
  BY <1>2, <1>5, <1>6, PlainCovers
<1>8. Covers(Onward(p, l), l, items', colisions', count', sv')
  BY <1>5, <1>7, PlainCovers
<1> HIDE DEF l
<1> QED BY <1>1, <1>2, <1>3, <1>4, <1>8, CountStepKeeps

(***************************************************************************)
(* The theorem.                                                            *)
(***************************************************************************)
LEMMA InitCountInv == Init => CountInv
<1> SUFFICES ASSUME Init, NEW t \in Threads
             PROVE  Covers(Onward(pc[t], loc[t]), loc[t], items, colisions, count, sv)
  BY DEF CountInv
<1>1. Onward(pc[t], loc[t]) \notin Special
  BY DEF Init, Onward, CheckPlaces, Special, Loose, Unlinking
<1>2. Bare(items) = {}
  BY SizesAssumption, NoFull DEF Init
<1>3. Need(items, colisions) = 0
  BY <1>2, FS_EmptySet DEF Need, Init
<1>4. count >= Need(items, colisions)
  BY <1>3 DEF Init
<1> QED BY <1>1, <1>4, PlainCovers

LEMMA NextCountInv ==
  ASSUME Serial
  PROVE  Inv /\ SerialInv /\ CountInv /\ [Next]_vars => CountInv'
<1> SUFFICES ASSUME Inv, SerialInv, CountInv, [Next]_vars PROVE CountInv'
  OBVIOUS
<1>1. ASSUME NEW t \in Threads, ThreadStep(t) PROVE CountInv'
  BY <1>1, ChecksKeepCount, SizesKeepCount, DecideKeepsCount, PlainKeepsCount,
     WritesKeepCount, CountersKeepCount, LooksKeepCount, PushKeepsCount DEF ThreadStep
<1>2. CASE ServiceStep
  BY <1>2, FlagsKeepCount, AssignKeepsCount, SwapsKeepCount, CopyingKeepsCount
     DEF ServiceStep
<1>3. CASE CallIncrease \/ CallAssign
  BY <1>3, ServiceCallsKeepCount
<1>4. ASSUME NEW t \in Callers, NEW k \in Keys, CallGet(t, k) PROVE CountInv'
  BY <1>4, CallersKeepCount
<1>5. ASSUME NEW t \in Callers, NEW k \in Keys, NEW v \in Values, CallAdd(t, k, v)
      PROVE  CountInv'
  BY <1>5, CallersKeepCount
<1>6. ASSUME UNCHANGED <<items, colisions, count, pc, loc, sv>> PROVE CountInv'
  BY <1>6 DEF CountInv
<1>7. ASSUME NEW n \in 0..Cardinality(Callers), SetBusyThreadCount(n) PROVE CountInv'
  BY <1>6, <1>7 DEF SetBusyThreadCount, table
<1>8. CASE UNCHANGED vars
  BY <1>6, <1>8 DEF vars, table
<1> QED BY <1>1, <1>2, <1>3, <1>4, <1>5, <1>7, <1>8 DEF Next

LEMMA CountInvHolds == ASSUME Serial PROVE Spec => [](Inv /\ SerialInv /\ CountInv)
<1>1. Init => Inv /\ SerialInv /\ CountInv
  BY InitInv, InitSerialInv, InitCountInv
<1>2. Inv /\ SerialInv /\ CountInv /\ [Next]_vars => (Inv /\ SerialInv /\ CountInv)'
  BY NextInv, NextSerialInv, NextCountInv
<1> QED BY <1>1, <1>2, PTL DEF Spec

(* A full cell with a next has a collision of its own. *)
LEMMA FullNeeds ==
  ASSUME Inv, SerialInv
  PROVE  Cardinality(Full(items)) <= Need(items, colisions)
<1> DEFINE S == Full(items) \ Bare(items)
           N == 1..Len(colisions)
           f == [b \in S |-> items[b].next]
<1>1. Linked(items, colisions) /\ items \in Seq(Item) /\ Len(colisions) \in Nat
  BY ItemsRead DEF SerialInv, Sound
<1>2. ASSUME NEW b \in S PROVE /\ items[b].next \in N
                               /\ Home(colisions[items[b].next].key, items) = b
  <2>1. b \in Full(items) /\ b \in 1..Len(items) /\ items[b].next # NoNext
    BY DEF Bare, Full
  <2>2. items[b] \in Item
    BY <1>1, <2>1
  <2>3. items[b].next \in Nat
    BY <2>2 DEF Item
  <2>4. items[b].next >= 1 /\ items[b].next <= Len(colisions)
    BY <1>1, <2>1, <2>3 DEF NoNext, Linked
  <2> QED BY <1>1, <2>1, <2>3, <2>4 DEF Linked
<1>3. f \in [S -> N] /\ \A b \in S : f[b] = items[b].next
  BY <1>2
<1>4. \A a, b \in S : f[a] = f[b] => a = b
  BY <1>2, <1>3
<1> HIDE DEF f
<1>5. f \in Injection(S, N)
  BY <1>3, <1>4 DEF Injection, IsInjective
<1>6. IsFiniteSet(N) /\ Cardinality(N) = Len(colisions)
  <2>1. Len(colisions) \in Int /\ 1 \in Int
    BY <1>1
  <2>2. /\ IsFiniteSet(N)
        /\ Cardinality(N) = IF 1 > Len(colisions) THEN 0 ELSE Len(colisions) - 1 + 1
    BY <2>1, FS_Interval
  <2> HIDE DEF N
  <2> QED BY <1>1, <2>2
<1>7. /\ IsFiniteSet(Full(items)) /\ Cardinality(Full(items)) \in Nat
      /\ IsFiniteSet(Bare(items)) /\ Cardinality(Bare(items)) \in Nat
  BY NeedCounted
<1>8. IsFiniteSet(S) /\ Cardinality(S) <= Cardinality(N)
  BY <1>5, <1>6, FS_Injection
<1>9. Cardinality(S) \in Nat
  BY <1>8, FS_CardinalityType
<1>10. Cardinality(S \cup Bare(items)) = Cardinality(S) + Cardinality(Bare(items))
  <2>1. S \cap Bare(items) = {}
    OBVIOUS
  <2> HIDE DEF S
  <2>2. Cardinality(S \cap Bare(items)) = 0
    BY <2>1, FS_EmptySet
  <2>3. Cardinality(S \cup Bare(items))
          = Cardinality(S) + Cardinality(Bare(items)) - Cardinality(S \cap Bare(items))
    BY <1>7, <1>8, FS_Union
  <2> QED BY <1>7, <1>9, <2>2, <2>3
<1>11. S \cup Bare(items) = Full(items)
  BY DEF Bare
<1> HIDE DEF S, N
<1>12. Cardinality(Full(items)) = Cardinality(S) + Cardinality(Bare(items))
  BY <1>10, <1>11
<1>13. Cardinality(S) <= Len(colisions)
  BY <1>6, <1>8
<1> QED BY <1>1, <1>7, <1>9, <1>12, <1>13 DEF Need

(* CountCoversOccupied: when no two operations overlap, count is never below the number of *)
(* occupied cells between two of them, though increaseTable does not recount.              *)
THEOREM SerialCount == ASSUME Serial PROVE Spec => []CountCoversOccupied
<1>1. Inv /\ SerialInv /\ CountInv => CountCoversOccupied
  <2> SUFFICES ASSUME Inv, SerialInv, CountInv, Quiet PROVE count >= Cardinality(Occupied)
    BY DEF CountCoversOccupied
  <2>1. Service \in Threads /\ \A u \in Threads : pc[u] = "idle"
    BY DEF Quiet, Threads
  <2>2. Onward(pc[Service], loc[Service]) \notin Special
    BY <2>1 DEF Onward, CheckPlaces, Special, Loose, Unlinking
  <2>3. Covers(Onward(pc[Service], loc[Service]), loc[Service], items, colisions, count, sv)
    BY <2>1 DEF CountInv
  <2>4. count >= Need(items, colisions)
    BY <2>2, <2>3, PlainCovers
  <2>5. Occupied = Full(items)
    BY DEF Occupied, Full
  <2>6. /\ count \in Nat /\ Need(items, colisions) \in Nat
        /\ Cardinality(Full(items)) \in Nat
    BY NeedCounted
  <2> QED BY <2>4, <2>5, <2>6, FullNeeds
<1> QED BY <1>1, CountInvHolds, PTL
=============================================================================
