--------------------------- MODULE HashTable_proofs ---------------------------
(***************************************************************************)
(* Theorems about HashTable, for any callers, keys, hashes and sizes: types,*)
(* and where the indexes point that add and get computed from a size read   *)
(* before the table grew.                                                   *)
(***************************************************************************)
EXTENDS HashTable, SequenceTheorems, FiniteSetTheorems, TLAPS

(***************************************************************************)
(* Arithmetic: the remainder by a multiple of n keeps the remainder by n.   *)
(***************************************************************************)
LEMMA SmallMultiple ==
  ASSUME NEW n \in Nat, NEW k \in Int, n * k < n, -n < n * k, n > 0
  PROVE  k = 0
<1>1. k >= 1 => n * k >= n
  OBVIOUS
<1>2. k <= -1 => n * k <= -n
  OBVIOUS
<1> QED BY <1>1, <1>2

LEMMA Division ==
  ASSUME NEW x \in Nat, NEW n \in Nat, n > 0
  PROVE  /\ x \div n \in Nat /\ x % n \in Nat /\ x % n < n
         /\ x = n * (x \div n) + (x % n)
OBVIOUS

LEMMA Remainder ==
  ASSUME NEW n \in Nat, n > 0, NEW q \in Nat, NEW r \in Nat, r < n
  PROVE  (n * q + r) % n = r
<1> DEFINE x == n * q + r
           p == x \div n
           s == x % n
<1>1. x \in Nat
  OBVIOUS
<1>2. p \in Nat /\ s \in Nat /\ s < n /\ x = n * p + s
  BY <1>1, Division
<1> HIDE DEF p, s
<1>3. n * (p - q) = r - s
  <2>1. n * (p - q) = n * p - n * q
    BY <1>2
  <2> QED BY <1>2, <2>1
<1>4. p - q = 0
  <2>1. p - q \in Int /\ n * (p - q) < n /\ -n < n * (p - q)
    BY <1>2, <1>3
  <2> QED BY <2>1, SmallMultiple
<1>5. s = r
  BY <1>2, <1>3, <1>4
<1> QED BY <1>5 DEF s

LEMMA ClassOfMultiple ==
  ASSUME NEW n \in Nat, n > 0, NEW m \in Nat, m > 0, NEW x \in Nat
  PROVE  (x % (m * n)) % n = x % n
<1> DEFINE q == x \div (m * n)
           r == x % (m * n)
           q2 == r \div n
           r2 == r % n
<1>1. m * n \in Nat /\ m * n > 0
  OBVIOUS
<1>2. q \in Nat /\ r \in Nat /\ x = (m * n) * q + r
  BY <1>1, Division
<1> HIDE DEF q, r
<1>3. q2 \in Nat /\ r2 \in Nat /\ r2 < n /\ r = n * q2 + r2
  BY <1>2, Division
<1> HIDE DEF q2, r2
<1>4. m * q + q2 \in Nat /\ x = n * (m * q + q2) + r2
  <2>1. m * q \in Nat /\ (m * n) * q = n * (m * q)
    BY <1>2
  <2>2. n * (m * q + q2) = n * (m * q) + n * q2
    BY <1>2, <1>3, <2>1
  <2> QED BY <1>2, <1>3, <2>1, <2>2
<1>5. x % n = r2
  BY <1>3, <1>4, Remainder
<1> QED BY <1>5 DEF r2, r

(***************************************************************************)
(* The inductive invariant.                                                *)
(***************************************************************************)
Multiple(s) == \E m \in Nat : m > 0 /\ s = m * StartSize
InClass(k, b) == Hash[k] % StartSize = (b - 1) % StartSize
Heads(s) == \A b \in 1..Len(s) : s[b].key # NoKey => InClass(s[b].key, b)

TableOK ==
  /\ items \in Seq(Item) /\ colisions \in Seq(Item)
  /\ size \in Nat /\ size > 0 /\ count \in Nat /\ currentCapacity \in Nat
  /\ increaseInProcess \in BOOLEAN /\ increaseMutex \in {"free", "held"}
  /\ currentStopedThreadCount \in 0..(UIntMod - 1)
  /\ busyThreadCount \in 0..Cardinality(Callers)
  /\ Multiple(size) /\ Heads(items)

(* Where a thread has computed an index it has yet to use. *)
Indexed == TouchesItem \cup CheckPlaces \cup {"addDecide", "colHop", "colCount", "colPush"}

Local(l) ==
  /\ {"key", "val", "idx", "cur", "reg", "pos", "ret", "code"} \subseteq DOMAIN l
  /\ l.key \in Keyed /\ l.val \in Seq(Sources) /\ l.idx \in Nat /\ l.cur \in Item
  /\ l.reg \in Nat /\ l.pos \in Nat

ThreadOK(p, l) ==
  /\ Local(l)
  /\ p \in Indexed => l.idx >= 1 /\ InClass(l.key, l.idx)
  /\ p \in CheckPlaces => l.ret \in TouchesItem
  /\ p \in ReadsColision => l.cur.next >= 1

(* The size is that of the items, but for a few steps of the service. *)
Assigning == {"asgCount", "asgCapacity", "asgItems"}
Copying == {"copyItem", "copyColision", "setFlag", "rendezvous", "swapItems", "storeSize"}
Phases == Assigning \cup Copying \cup {"asgSize", "asgColisions", "asgBusy", "increased"}

ThreadsOK == /\ pc = [t \in Threads |-> pc[t]] /\ loc = [t \in Threads |-> loc[t]]
             /\ \A t \in Threads : ThreadOK(pc[t], loc[t])
             /\ \A t \in Callers : pc[t] \notin Phases

SvOK == /\ {"new", "tmp", "i", "n"} \subseteq DOMAIN sv
        /\ sv.new \in Seq(Item) /\ sv.tmp \in Seq(Item) /\ sv.i \in Nat /\ sv.n \in Nat
        /\ Heads(sv.new)

ServiceOK(p) ==
  /\ p \notin Assigning \cup {"storeSize"} => Len(items) = size
  /\ p = "storeSize" => Len(items) = 2 * size
  /\ p \in Assigning => size = StartSize
  /\ p \in Copying => Len(sv.new) = 2 * size
  /\ p \in {"copyItem", "copyColision"} => sv.i >= 1
  /\ p = "copyItem" => sv.n <= Len(items)
  /\ p = "copyColision" => sv.n <= Len(colisions)
  /\ p \in Phases \ (Copying \cup {"increased"}) => calls.cleared

IndexOK == /\ "cleared" \in DOMAIN calls
           /\ calls.cleared \/ \A t \in Threads : loc[t].idx <= size

Inv == TableOK /\ ThreadsOK /\ SvOK /\ ServiceOK(pc[Service]) /\ IndexOK

LEMMA Wraps == UIntMod \in Nat /\ UIntMod > 0
<1>1. Cardinality(Callers) \in Nat
  BY ThreadsAssumption, FS_CardinalityType
<1> QED BY <1>1, SizesAssumption

LEMMA CellsOfKeys ==
  ASSUME NEW k \in Keyed, NEW s \in Nat, s > 0
  PROVE  /\ Cell(k, s) \in Nat /\ Cell(k, s) >= 1 /\ Cell(k, s) <= s
         /\ Multiple(s) => InClass(k, Cell(k, s))
<1>1. Hash[k] \in Nat
  BY HashAssumption DEF Keyed
<1>2. Hash[k] % s \in Nat /\ Hash[k] % s < s
  BY <1>1, Division
<1>3. ASSUME Multiple(s) PROVE InClass(k, Cell(k, s))
  <2>1. PICK m \in Nat : m > 0 /\ s = m * StartSize
    BY <1>3 DEF Multiple
  <2>2. StartSize \in Nat /\ StartSize > 0
    BY SizesAssumption
  <2>3. (Hash[k] % s) % StartSize = Hash[k] % StartSize
    BY <1>1, <2>1, <2>2, ClassOfMultiple
  <2>4. Cell(k, s) - 1 = Hash[k] % s
    BY <1>2 DEF Cell
  <2> QED BY <2>3, <2>4 DEF InClass
<1> QED BY <1>2, <1>3 DEF Cell

LEMMA EmptyTable ==
  ASSUME NEW s \in Nat
  PROVE  /\ createNewVector(s) \in Seq(Item) /\ Len(createNewVector(s)) = s
         /\ Heads(createNewVector(s))
         /\ EmptyItem \in Item
<1>1. EmptyItem \in Item /\ EmptyItem.key = NoKey
  BY DEF EmptyItem, Item, NoNext
<1> DEFINE v == createNewVector(s)
<1>2. v = [i \in 1..s |-> EmptyItem]
  BY DEF createNewVector
<1>3. v \in Seq(Item) /\ Len(v) = s /\ \A i \in 1..s : v[i] = EmptyItem
  BY <1>1, <1>2
<1> HIDE DEF v
<1>4. Heads(v)
  BY <1>1, <1>3 DEF Heads
<1> QED BY <1>1, <1>3, <1>4 DEF v

LEMMA IdleLocal ==
  /\ Local(Idle) /\ Idle.idx = 0
  /\ \A k \in Keyed, v \in Seq(Sources) : \A b :
       /\ Local([Idle EXCEPT !.key = k, !.val = v]) /\ [Idle EXCEPT !.key = k, !.val = v].idx = 0
       /\ Local([Idle EXCEPT !.key = k]) /\ [Idle EXCEPT !.key = k].idx = 0
       /\ Local([Idle EXCEPT !.key = k, !.val = v, !.before = b])
       /\ [Idle EXCEPT !.key = k, !.val = v, !.before = b].idx = 0
<1>1. EmptyItem \in Item
  BY EmptyTable
<1>2. Local(Idle) /\ Idle.idx = 0
  BY <1>1 DEF Local, Idle, Keyed
<1>3. ASSUME NEW k \in Keyed, NEW v \in Seq(Sources), NEW b
      PROVE  /\ Local([Idle EXCEPT !.key = k, !.val = v]) /\ [Idle EXCEPT !.key = k, !.val = v].idx = 0
             /\ Local([Idle EXCEPT !.key = k]) /\ [Idle EXCEPT !.key = k].idx = 0
             /\ Local([Idle EXCEPT !.key = k, !.val = v, !.before = b])
             /\ [Idle EXCEPT !.key = k, !.val = v, !.before = b].idx = 0
  <2> DEFINE f == [Idle EXCEPT !.key = k, !.val = v]
             g == [Idle EXCEPT !.key = k]
             h == [Idle EXCEPT !.key = k, !.val = v, !.before = b]
  <2>1. DOMAIN f = DOMAIN Idle /\ DOMAIN g = DOMAIN Idle /\ DOMAIN h = DOMAIN Idle
    BY Zenon
  <2>2. f.key = k /\ g.key = k /\ h.key = k
    BY <1>2, Zenon DEF Local
  <2>3. f.val = v /\ g.val = Idle.val /\ h.val = v
    BY <1>2, Zenon DEF Local
  <2>4. f.idx = Idle.idx /\ g.idx = Idle.idx /\ h.idx = Idle.idx
    BY <1>2, Zenon DEF Local
  <2>5. f.cur = Idle.cur /\ g.cur = Idle.cur /\ h.cur = Idle.cur
    BY <1>2, Zenon DEF Local
  <2>6. f.reg = Idle.reg /\ g.reg = Idle.reg /\ h.reg = Idle.reg
    BY <1>2, Zenon DEF Local
  <2>7. f.pos = Idle.pos /\ g.pos = Idle.pos /\ h.pos = Idle.pos
    BY <1>2, Zenon DEF Local
  <2> HIDE DEF f, g, h
  <2>8. Local(f) /\ Local(g) /\ Local(h)
    BY <1>2, <2>1, <2>2, <2>3, <2>4, <2>5, <2>6, <2>7, Zenon DEF Local
  <2>9. f.idx = 0 /\ g.idx = 0 /\ h.idx = 0
    BY <1>2, <2>4
  <2> QED BY <2>8, <2>9, Zenon DEF f, g, h
<1> QED BY <1>2, <1>3

(***************************************************************************)
(* A thread's step on its locals.                                          *)
(***************************************************************************)
PutCur(l, c) == [l EXCEPT !.cur = c]
PutCurRet(l, c, r) == [l EXCEPT !.cur = c, !.ret = r]
PutCurVal(l, c, v) == [l EXCEPT !.cur = c, !.val = v]
PutIdxRet(l, x, r) == [l EXCEPT !.idx = x, !.ret = r]
PutCodeRet(l, d, r) == [l EXCEPT !.code = d, !.ret = r]
PutReg(l, x) == [l EXCEPT !.reg = x]
PutPosRet(l, x, r) == [l EXCEPT !.pos = x, !.ret = r]

LEMMA CurPut ==
  ASSUME NEW l, Local(l), NEW c \in Item
  PROVE  LET g == PutCur(l, c)
         IN  Local(g) /\ g.key = l.key /\ g.idx = l.idx /\ g.cur = c /\ g.ret = l.ret
<1> DEFINE g == PutCur(l, c)
<1>1. DOMAIN g = DOMAIN l
  BY Zenon DEF PutCur
<1>2. g.key = l.key
  BY Zenon DEF Local, PutCur
<1>3. g.val = l.val
  BY Zenon DEF Local, PutCur
<1>4. g.idx = l.idx
  BY Zenon DEF Local, PutCur
<1>5. g.cur = c
  BY Zenon DEF Local, PutCur
<1>6. g.reg = l.reg
  BY Zenon DEF Local, PutCur
<1>7. g.pos = l.pos
  BY Zenon DEF Local, PutCur
<1>8. g.ret = l.ret
  BY Zenon DEF Local, PutCur
<1> HIDE DEF g
<1>9. Local(g)
  BY <1>1, <1>2, <1>3, <1>4, <1>5, <1>6, <1>7, <1>8, Zenon DEF Local
<1> QED BY <1>4, <1>2, <1>5, <1>8, <1>9, Zenon DEF g

LEMMA CurRetPut ==
  ASSUME NEW l, Local(l), NEW c \in Item, NEW r
  PROVE  LET g == PutCurRet(l, c, r)
         IN  Local(g) /\ g.key = l.key /\ g.idx = l.idx /\ g.cur = c /\ g.ret = r
<1> DEFINE g == PutCurRet(l, c, r)
<1>1. DOMAIN g = DOMAIN l
  BY Zenon DEF PutCurRet
<1>2. g.key = l.key
  BY Zenon DEF Local, PutCurRet
<1>3. g.val = l.val
  BY Zenon DEF Local, PutCurRet
<1>4. g.idx = l.idx
  BY Zenon DEF Local, PutCurRet
<1>5. g.cur = c
  BY Zenon DEF Local, PutCurRet
<1>6. g.reg = l.reg
  BY Zenon DEF Local, PutCurRet
<1>7. g.pos = l.pos
  BY Zenon DEF Local, PutCurRet
<1>8. g.ret = r
  BY Zenon DEF Local, PutCurRet
<1> HIDE DEF g
<1>9. Local(g)
  BY <1>1, <1>2, <1>3, <1>4, <1>5, <1>6, <1>7, <1>8, Zenon DEF Local
<1> QED BY <1>4, <1>2, <1>5, <1>8, <1>9, Zenon DEF g

LEMMA CurValPut ==
  ASSUME NEW l, Local(l), NEW c \in Item, NEW v \in Seq(Sources)
  PROVE  LET g == PutCurVal(l, c, v)
         IN  Local(g) /\ g.key = l.key /\ g.idx = l.idx /\ g.cur = c /\ g.ret = l.ret
<1> DEFINE g == PutCurVal(l, c, v)
<1>1. DOMAIN g = DOMAIN l
  BY Zenon DEF PutCurVal
<1>2. g.key = l.key
  BY Zenon DEF Local, PutCurVal
<1>3. g.val = v
  BY Zenon DEF Local, PutCurVal
<1>4. g.idx = l.idx
  BY Zenon DEF Local, PutCurVal
<1>5. g.cur = c
  BY Zenon DEF Local, PutCurVal
<1>6. g.reg = l.reg
  BY Zenon DEF Local, PutCurVal
<1>7. g.pos = l.pos
  BY Zenon DEF Local, PutCurVal
<1>8. g.ret = l.ret
  BY Zenon DEF Local, PutCurVal
<1> HIDE DEF g
<1>9. Local(g)
  BY <1>1, <1>2, <1>3, <1>4, <1>5, <1>6, <1>7, <1>8, Zenon DEF Local
<1> QED BY <1>4, <1>2, <1>5, <1>8, <1>9, Zenon DEF g

LEMMA IdxRetPut ==
  ASSUME NEW l, Local(l), NEW x \in Nat, NEW r
  PROVE  LET g == PutIdxRet(l, x, r)
         IN  Local(g) /\ g.key = l.key /\ g.idx = x /\ g.cur = l.cur /\ g.ret = r
<1> DEFINE g == PutIdxRet(l, x, r)
<1>1. DOMAIN g = DOMAIN l
  BY Zenon DEF PutIdxRet
<1>2. g.key = l.key
  BY Zenon DEF Local, PutIdxRet
<1>3. g.val = l.val
  BY Zenon DEF Local, PutIdxRet
<1>4. g.idx = x
  BY Zenon DEF Local, PutIdxRet
<1>5. g.cur = l.cur
  BY Zenon DEF Local, PutIdxRet
<1>6. g.reg = l.reg
  BY Zenon DEF Local, PutIdxRet
<1>7. g.pos = l.pos
  BY Zenon DEF Local, PutIdxRet
<1>8. g.ret = r
  BY Zenon DEF Local, PutIdxRet
<1> HIDE DEF g
<1>9. Local(g)
  BY <1>1, <1>2, <1>3, <1>4, <1>5, <1>6, <1>7, <1>8, Zenon DEF Local
<1> QED BY <1>4, <1>2, <1>5, <1>8, <1>9, Zenon DEF g

LEMMA CodeRetPut ==
  ASSUME NEW l, Local(l), NEW d, NEW r
  PROVE  LET g == PutCodeRet(l, d, r)
         IN  Local(g) /\ g.key = l.key /\ g.idx = l.idx /\ g.cur = l.cur /\ g.ret = r
<1> DEFINE g == PutCodeRet(l, d, r)
<1>1. DOMAIN g = DOMAIN l
  BY Zenon DEF PutCodeRet
<1>2. g.key = l.key
  BY Zenon DEF Local, PutCodeRet
<1>3. g.val = l.val
  BY Zenon DEF Local, PutCodeRet
<1>4. g.idx = l.idx
  BY Zenon DEF Local, PutCodeRet
<1>5. g.cur = l.cur
  BY Zenon DEF Local, PutCodeRet
<1>6. g.reg = l.reg
  BY Zenon DEF Local, PutCodeRet
<1>7. g.pos = l.pos
  BY Zenon DEF Local, PutCodeRet
<1>8. g.ret = r
  BY Zenon DEF Local, PutCodeRet
<1> HIDE DEF g
<1>9. Local(g)
  BY <1>1, <1>2, <1>3, <1>4, <1>5, <1>6, <1>7, <1>8, Zenon DEF Local
<1> QED BY <1>4, <1>2, <1>5, <1>8, <1>9, Zenon DEF g

LEMMA RegPut ==
  ASSUME NEW l, Local(l), NEW x \in Nat
  PROVE  LET g == PutReg(l, x)
         IN  Local(g) /\ g.key = l.key /\ g.idx = l.idx /\ g.cur = l.cur /\ g.ret = l.ret
<1> DEFINE g == PutReg(l, x)
<1>1. DOMAIN g = DOMAIN l
  BY Zenon DEF PutReg
<1>2. g.key = l.key
  BY Zenon DEF Local, PutReg
<1>3. g.val = l.val
  BY Zenon DEF Local, PutReg
<1>4. g.idx = l.idx
  BY Zenon DEF Local, PutReg
<1>5. g.cur = l.cur
  BY Zenon DEF Local, PutReg
<1>6. g.reg = x
  BY Zenon DEF Local, PutReg
<1>7. g.pos = l.pos
  BY Zenon DEF Local, PutReg
<1>8. g.ret = l.ret
  BY Zenon DEF Local, PutReg
<1> HIDE DEF g
<1>9. Local(g)
  BY <1>1, <1>2, <1>3, <1>4, <1>5, <1>6, <1>7, <1>8, Zenon DEF Local
<1> QED BY <1>4, <1>2, <1>5, <1>8, <1>9, Zenon DEF g

LEMMA PosRetPut ==
  ASSUME NEW l, Local(l), NEW x \in Nat, NEW r
  PROVE  LET g == PutPosRet(l, x, r)
         IN  Local(g) /\ g.key = l.key /\ g.idx = l.idx /\ g.cur = l.cur /\ g.ret = r
<1> DEFINE g == PutPosRet(l, x, r)
<1>1. DOMAIN g = DOMAIN l
  BY Zenon DEF PutPosRet
<1>2. g.key = l.key
  BY Zenon DEF Local, PutPosRet
<1>3. g.val = l.val
  BY Zenon DEF Local, PutPosRet
<1>4. g.idx = l.idx
  BY Zenon DEF Local, PutPosRet
<1>5. g.cur = l.cur
  BY Zenon DEF Local, PutPosRet
<1>6. g.reg = l.reg
  BY Zenon DEF Local, PutPosRet
<1>7. g.pos = x
  BY Zenon DEF Local, PutPosRet
<1>8. g.ret = r
  BY Zenon DEF Local, PutPosRet
<1> HIDE DEF g
<1>9. Local(g)
  BY <1>1, <1>2, <1>3, <1>4, <1>5, <1>6, <1>7, <1>8, Zenon DEF Local
<1> QED BY <1>4, <1>2, <1>5, <1>8, <1>9, Zenon DEF g

LEMMA ThreadStepKeeps ==
  ASSUME Inv, NEW t \in Threads, NEW p, NEW l, ThreadOK(p, l),
         pc' = [pc EXCEPT ![t] = p], loc' = [loc EXCEPT ![t] = l],
         pc[t] \notin Phases, p \notin Phases,
         calls.cleared \/ l.idx <= size,
         UNCHANGED <<size, sv, calls, increaseInProcess, increaseMutex, busyThreadCount>>,
         items' \in Seq(Item), Len(items') = Len(items), Heads(items)',
         colisions' \in Seq(Item), Len(colisions') >= Len(colisions),
         count' \in Nat, currentCapacity' \in Nat,
         currentStopedThreadCount' \in 0..(UIntMod - 1)
  PROVE  Inv'
<1>1. TableOK'
  BY DEF Inv, TableOK, Multiple
<1>2. ThreadsOK'
  <2>1. Callers \subseteq Threads
    BY DEF Threads
  <2> QED BY <2>1 DEF Inv, ThreadsOK
<1>3. SvOK'
  BY DEF Inv, SvOK, Heads
<1>4. IndexOK'
  BY DEF Inv, IndexOK, ThreadsOK
<1>5. ServiceOK(pc[Service])'
  <2>1. /\ pc = [u \in Threads |-> pc[u]] /\ Service \in Threads /\ ServiceOK(pc[Service])
        /\ colisions \in Seq(Item) /\ sv.n \in Nat
    BY DEF Inv, ThreadsOK, TableOK, SvOK, Threads
  <2>2. CASE t = Service
    <3>1. pc'[Service] = p
      BY <2>1, <2>2
    <3>2. Len(items) = size
      BY <2>1, <2>2 DEF ServiceOK, Phases, Copying
    <3> QED BY <2>1, <2>2, <3>1, <3>2 DEF ServiceOK, Phases, Assigning, Copying
  <2>3. CASE t # Service
    <3>1. pc'[Service] = pc[Service]
      BY <2>1, <2>3
    <3>2. Len(colisions') \in Nat /\ Len(colisions) \in Nat
      BY <2>1
    <3> QED BY <2>1, <3>1, <3>2 DEF ServiceOK
  <2> QED BY <2>2, <2>3
<1> QED BY <1>1, <1>2, <1>3, <1>4, <1>5 DEF Inv

(* ... that leaves the table alone. *)
LEMMA LocalStepKeeps ==
  ASSUME Inv, NEW t \in Threads, NEW p, NEW l, ThreadOK(p, l),
         pc' = [pc EXCEPT ![t] = p], loc' = [loc EXCEPT ![t] = l],
         pc[t] \notin Phases, p \notin Phases,
         calls.cleared \/ l.idx <= size,
         UNCHANGED <<table, sv, calls, increaseInProcess, increaseMutex, busyThreadCount>>,
         currentStopedThreadCount' \in 0..(UIntMod - 1)
  PROVE  Inv'
<1>1. /\ UNCHANGED <<items, colisions, size, count, currentCapacity>> /\ TableOK
      /\ colisions \in Seq(Item)
  BY DEF table, Inv, TableOK
<1>2. /\ items' \in Seq(Item) /\ Len(items') = Len(items) /\ colisions' \in Seq(Item)
      /\ Len(colisions') >= Len(colisions) /\ count' \in Nat /\ currentCapacity' \in Nat
  BY <1>1 DEF TableOK
<1>3. Heads(items)'
  BY <1>1 DEF TableOK, Heads
<1> QED BY <1>1, <1>2, <1>3, ThreadStepKeeps

(* What a thread knows before any step of its own. *)
LEMMA ThreadFacts ==
  ASSUME Inv, NEW t \in Threads
  PROVE  /\ ThreadOK(pc[t], loc[t]) /\ Local(loc[t])
         /\ calls.cleared \/ loc[t].idx <= size
         /\ currentStopedThreadCount \in 0..(UIntMod - 1)
<1>1. ThreadsOK /\ TableOK /\ IndexOK
  BY DEF Inv
<1>2. ThreadOK(pc[t], loc[t])
  BY <1>1 DEF ThreadsOK
<1>3. calls.cleared \/ loc[t].idx <= size
  BY <1>1 DEF IndexOK
<1> QED BY <1>1, <1>2, <1>3 DEF ThreadOK, TableOK

LEMMA LocalsOfThreads ==
  ASSUME Inv
  PROVE  /\ loc = [u \in Threads |-> loc[u]]
         /\ \A t \in Threads : loc = [loc EXCEPT ![t] = loc[t]]
BY DEF Inv, ThreadsOK

LEMMA Places ==
  /\ \A p \in TouchesItem : p \in Indexed /\ p \notin CheckPlaces /\ p \notin ReadsColision
                           /\ p \notin Phases
  /\ \A p \in CheckPlaces : p \in Indexed /\ p \notin ReadsColision /\ p \notin Phases
BY DEF TouchesItem, CheckPlaces, ReadsColision, Indexed, Phases, Copying, Assigning

(* checkIncreaseProcess. *)
LEMMA ChecksKeep ==
  ASSUME Inv, NEW t \in Threads,
         CheckFlag(t) \/ LoadStopped(t) \/ StoreStopped(t) \/ PassMutex(t)
  PROVE  Inv'
<1> DEFINE h == loc[t]
<1>1. /\ ThreadOK(pc[t], h) /\ Local(h)
      /\ (calls.cleared \/ h.idx <= size)
      /\ currentStopedThreadCount \in 0..(UIntMod - 1)
  BY ThreadFacts
<1>2. pc[t] \in CheckPlaces
  BY DEF CheckFlag, LoadStopped, StoreStopped, PassMutex, Step, CheckPlaces
<1>3. h.ret \in TouchesItem /\ pc[t] \in Indexed /\ pc[t] \notin Phases
  BY <1>1, <1>2, Places DEF ThreadOK
<1>4. ASSUME NEW p \in CheckPlaces \cup {h.ret}, NEW l, Local(l), l.key = h.key, l.idx = h.idx, l.ret = h.ret
      PROVE  ThreadOK(p, l) /\ p \notin Phases
  BY <1>1, <1>3, <1>4, Places DEF ThreadOK
<1>5. UIntMod \in Nat /\ UIntMod > 0
  BY Wraps
<1>6. CASE CheckFlag(t)
  <2> DEFINE p == IF increaseInProcess THEN "stopLoad" ELSE h.ret
  <2>1. p \in CheckPlaces \cup {h.ret} /\ pc' = [pc EXCEPT ![t] = p] /\ loc' = [loc EXCEPT ![t] = h]
    BY <1>6, LocalsOfThreads DEF CheckFlag, Step, CheckPlaces
  <2> HIDE DEF p
  <2>2. ThreadOK(p, h) /\ p \notin Phases
    BY <1>1, <1>4, <2>1
  <2> QED BY <1>1, <1>3, <1>6, <2>1, <2>2, LocalStepKeeps DEF CheckFlag, stop
<1>7. CASE PassMutex(t)
  <2>1. pc' = [pc EXCEPT ![t] = "goLoad"] /\ loc' = [loc EXCEPT ![t] = h] /\ "goLoad" \in CheckPlaces
    BY <1>7, LocalsOfThreads DEF PassMutex, Step, CheckPlaces
  <2>2. ThreadOK("goLoad", h) /\ "goLoad" \notin Phases
    BY <1>1, <1>4, <2>1
  <2> QED BY <1>1, <1>3, <1>7, <2>1, <2>2, LocalStepKeeps DEF PassMutex, stop
<1>8. CASE LoadStopped(t)
  <2> DEFINE l == PutReg(h, currentStopedThreadCount)
  <2>1. PICK p \in {"stopInc", "goDec"} : pc' = [pc EXCEPT ![t] = p]
    BY <1>8 DEF LoadStopped, Step
  <2>2. loc' = [loc EXCEPT ![t] = l]
    BY <1>8, LocalsOfThreads DEF LoadStopped, PutReg
  <2>3. currentStopedThreadCount \in Nat
    BY <1>1, <1>5
  <2>4. Local(l) /\ l.key = h.key /\ l.idx = h.idx /\ l.ret = h.ret
    BY <1>1, <2>3, RegPut
  <2> HIDE DEF l
  <2>5. ThreadOK(p, l) /\ p \notin Phases
    BY <1>4, <2>4 DEF CheckPlaces
  <2> QED BY <1>1, <1>3, <1>8, <2>1, <2>2, <2>4, <2>5, LocalStepKeeps DEF LoadStopped, stop
<1>9. CASE StoreStopped(t)
  <2> DEFINE l == PutReg(h, 0)
  <2>1. PICK p \in {"stopped", h.ret} : pc' = [pc EXCEPT ![t] = p]
    BY <1>9 DEF StoreStopped, Step
  <2>2. loc' = [loc EXCEPT ![t] = l]
    BY <1>9, LocalsOfThreads DEF StoreStopped, PutReg
  <2>3. Local(l) /\ l.key = h.key /\ l.idx = h.idx /\ l.ret = h.ret
    BY <1>1, RegPut
  <2>4. currentStopedThreadCount' \in 0..(UIntMod - 1)
    <3>1. h.reg \in Nat
      BY <1>1 DEF Local
    <3>2. (h.reg + 1) % UIntMod \in 0..(UIntMod - 1) /\ (h.reg - 1) % UIntMod \in 0..(UIntMod - 1)
      BY <1>5, <3>1
    <3> QED BY <1>9, <3>2 DEF StoreStopped
  <2> HIDE DEF l
  <2>5. ThreadOK(p, l) /\ p \notin Phases
    BY <1>4, <2>3 DEF CheckPlaces
  <2> QED
    BY <1>1, <1>3, <1>9, <2>1, <2>2, <2>3, <2>4, <2>5, LocalStepKeeps DEF StoreStopped
<1> QED BY <1>6, <1>7, <1>8, <1>9

(* A size is read: what it gives is an index below it, and in the key's class. *)
LEMMA SizesKeep ==
  ASSUME Inv, NEW t \in Threads, AddSize(t) \/ GetSize(t)
  PROVE  Inv'
<1> DEFINE h == loc[t]
           x == Cell(h.key, size)
<1>1. /\ Local(h)
      /\ currentStopedThreadCount \in 0..(UIntMod - 1)
  BY ThreadFacts
<1>2. size \in Nat /\ size > 0 /\ Multiple(size) /\ h.key \in Keyed
  BY <1>1 DEF Inv, TableOK, Local
<1>3. x \in Nat /\ x >= 1 /\ x <= size /\ InClass(h.key, x)
  BY <1>2, CellsOfKeys
<1> HIDE DEF x
<1>4. PICK r \in {"addRead", "getRead"} : loc' = [loc EXCEPT ![t] = PutIdxRet(h, x, r)]
  <2>1. PICK r \in {"addRead", "getRead"} : loc' = [loc EXCEPT ![t].idx = x, ![t].ret = r]
    BY DEF AddSize, GetSize, x
  <2>2. loc' = [loc EXCEPT ![t] = PutIdxRet(h, x, r)]
    BY <2>1, LocalsOfThreads DEF PutIdxRet
  <2> QED BY <2>1, <2>2
<1> DEFINE l == PutIdxRet(h, x, r)
<1>5. Local(l) /\ l.key = h.key /\ l.idx = x /\ l.ret = r
  BY <1>1, <1>3, IdxRetPut
<1>6. loc' = [loc EXCEPT ![t] = l]
  BY <1>4
<1> HIDE DEF l
<1>7. ThreadOK("check", l)
  BY <1>3, <1>5 DEF ThreadOK, TouchesItem, ReadsColision
<1>8. /\ pc' = [pc EXCEPT ![t] = "check"] /\ pc[t] \notin Phases /\ "check" \notin Phases
      /\ UNCHANGED <<table, stop, sv, calls>>
  BY DEF AddSize, GetSize, StepChecked, Step, Phases, Copying, Assigning
<1> QED BY <1>1, <1>3, <1>5, <1>6, <1>7, <1>8, LocalStepKeeps DEF stop

LEMMA ItemsRead ==
  ASSUME Inv
  PROVE  /\ \A n \in Nat : n >= 1 /\ n <= Len(items) =>
               /\ items[n] \in Item
               /\ items[n].key # NoKey => InClass(items[n].key, n)
         /\ \A n \in Nat : n >= 1 /\ n <= Len(colisions) => colisions[n] \in Item
         /\ items \in Seq(Item) /\ colisions \in Seq(Item) /\ Heads(items)
         /\ Len(items) \in Nat /\ Len(colisions) \in Nat
         /\ count \in Nat /\ currentCapacity \in Nat
<1>1. items \in Seq(Item) /\ colisions \in Seq(Item) /\ Heads(items)
      /\ count \in Nat /\ currentCapacity \in Nat
  BY DEF Inv, TableOK
<1> QED BY <1>1 DEF Heads

Written(s, n, it) == [s EXCEPT ![n] = it]

LEMMA HeadWritten ==
  ASSUME NEW s \in Seq(Item), Heads(s), NEW n \in Nat, n >= 1, n <= Len(s), NEW it \in Item,
         it.key # NoKey => InClass(it.key, n)
  PROVE  /\ Written(s, n, it) \in Seq(Item) /\ Len(Written(s, n, it)) = Len(s)
         /\ Heads(Written(s, n, it))
<1> DEFINE new == Written(s, n, it)
<1>1. new \in Seq(Item) /\ Len(new) = Len(s)
  BY DEF Written
<1>2. \A b \in 1..Len(s) : new[b] = IF b = n THEN it ELSE s[b]
  BY DEF Written
<1> HIDE DEF new
<1>3. Heads(new)
  BY <1>1, <1>2 DEF Heads
<1> QED BY <1>1, <1>3 DEF new

(* add reads its cell and decides. *)
LEMMA ReadsKeep ==
  ASSUME Inv, NEW t \in Threads, AddRead(t) \/ AddDecide(t)
  PROVE  Inv'
<1> DEFINE h == loc[t]
<1>1. /\ ThreadOK(pc[t], h) /\ Local(h)
      /\ (calls.cleared \/ h.idx <= size)
      /\ currentStopedThreadCount \in 0..(UIntMod - 1)
  BY ThreadFacts
<1>2. pc[t] \in Indexed /\ pc[t] \notin Phases
  BY DEF AddRead, AddDecide, Step, Indexed, TouchesItem, Phases, Copying, Assigning
<1>3. h.idx \in Nat /\ h.idx >= 1 /\ InClass(h.key, h.idx)
  BY <1>1, <1>2 DEF ThreadOK, Local
<1>4. CASE AddRead(t)
  <2> DEFINE c == items[h.idx]
             l == PutCur(h, c)
  <2>1. c \in Item
    BY <1>3, <1>4, ItemsRead DEF AddRead, InItems
  <2>2. Local(l) /\ l.key = h.key /\ l.idx = h.idx
    BY <1>1, <2>1, CurPut
  <2>3. loc' = [loc EXCEPT ![t] = l]
    BY <1>4, LocalsOfThreads DEF AddRead, PutCur
  <2>4. pc' = [pc EXCEPT ![t] = "addDecide"] /\ UNCHANGED <<table, stop, sv, calls>>
    BY <1>4 DEF AddRead, Step
  <2> HIDE DEF l
  <2>5. ThreadOK("addDecide", l) /\ "addDecide" \notin Phases
    BY <1>3, <2>2 DEF ThreadOK, CheckPlaces, ReadsColision, Phases, Copying, Assigning
  <2> QED BY <1>1, <1>2, <2>2, <2>3, <2>4, <2>5, LocalStepKeeps DEF stop
<1>5. CASE AddDecide(t)
  <2>1. PICK p \in {"return", "addStore", "addAppend", "check"}, d \in {0, 1, 2} :
          /\ pc' = [pc EXCEPT ![t] = p]
          /\ loc' = [loc EXCEPT ![t].code = d, ![t].ret = "colRead"]
    BY <1>5 DEF AddDecide, Step
  <2> DEFINE l == PutCodeRet(h, d, "colRead")
  <2>2. Local(l) /\ l.key = h.key /\ l.idx = h.idx /\ l.ret = "colRead"
    BY <1>1, CodeRetPut
  <2>3. loc' = [loc EXCEPT ![t] = l]
    BY <2>1, LocalsOfThreads DEF PutCodeRet
  <2>4. UNCHANGED <<table, stop, sv, calls>>
    BY <1>5 DEF AddDecide
  <2> HIDE DEF l
  <2>5. ThreadOK(p, l) /\ p \notin Phases
    BY <1>3, <2>1, <2>2
       DEF ThreadOK, CheckPlaces, ReadsColision, TouchesItem, Phases, Copying, Assigning
  <2> QED BY <1>1, <1>2, <2>1, <2>2, <2>3, <2>4, <2>5, LocalStepKeeps DEF stop
<1> QED BY <1>4, <1>5

(* A write to a head leaves a key of its class there. *)
LEMMA WritesKeep ==
  ASSUME Inv, NEW t \in Threads, AddStore(t) \/ AddAppend(t) \/ ColAppend(t) \/ ColLink(t)
  PROVE  Inv'
<1> DEFINE h == loc[t]
           n == h.idx
<1>1. /\ ThreadOK(pc[t], h) /\ Local(h)
      /\ (calls.cleared \/ n <= size)
      /\ currentStopedThreadCount \in 0..(UIntMod - 1)
  BY ThreadFacts
<1>2. pc[t] \in Indexed /\ pc[t] \notin Phases
  BY DEF AddStore, AddAppend, ColAppend, ColLink, Step, Indexed, TouchesItem, Phases, Copying,
         Assigning
<1>3. /\ n \in Nat /\ n >= 1 /\ InClass(h.key, n) /\ h.key \in Keyed /\ h.val \in Seq(Sources)
      /\ h.cur \in Item /\ h.pos \in Nat
  BY <1>1, <1>2 DEF ThreadOK, Local
<1>4. n <= Len(items)
  BY DEF AddStore, AddAppend, ColAppend, ColLink, InItems
<1>5. /\ items \in Seq(Item) /\ Heads(items) /\ items[n] \in Item
      /\ items[n].key # NoKey => InClass(items[n].key, n)
      /\ colisions \in Seq(Item) /\ count \in Nat /\ currentCapacity \in Nat
  BY <1>3, <1>4, ItemsRead
<1>6. PICK p \in {"countLoad", "capLoad", "colCap", "return"} : pc' = [pc EXCEPT ![t] = p]
  BY DEF AddStore, AddAppend, ColAppend, ColLink, Step
<1>7. /\ UNCHANGED <<colisions, size, count, currentCapacity, sv, calls, increaseInProcess,
                     increaseMutex, busyThreadCount, currentStopedThreadCount>>
      /\ loc' = [loc EXCEPT ![t] = h]
  BY LocalsOfThreads DEF AddStore, AddAppend, ColAppend, ColLink, stop
<1>8. PICK it \in Item : /\ it.key # NoKey => InClass(it.key, n)
                         /\ items' = [items EXCEPT ![n] = it]
  <2>1. CASE AddStore(t)
    <3> DEFINE it == [key |-> h.key, value |-> h.val, next |-> NoNext]
    <3>1. it \in Item /\ it.key = h.key
      BY <1>3 DEF Item, Keyed, NoNext
    <3> QED BY <1>3, <2>1, <3>1 DEF AddStore
  <2>2. CASE AddAppend(t) \/ ColAppend(t)
    <3> DEFINE v == h.cur.value \o h.val
               it == [items[n] EXCEPT !.value = v]
    <3>1. v \in Seq(Sources)
      BY <1>3, ConcatProperties DEF Item
    <3> HIDE DEF v
    <3>2. it \in Item /\ it.key = items[n].key
      BY <1>5, <3>1 DEF Item
    <3>3. items' = [items EXCEPT ![n] = it]
      BY <1>3, <1>4, <1>5, <2>2 DEF AddAppend, ColAppend, v
    <3> HIDE DEF it
    <3> QED BY <1>5, <3>2, <3>3
  <2>3. CASE ColLink(t)
    <3> DEFINE it == [items[n] EXCEPT !.next = h.pos]
    <3>1. it \in Item /\ it.key = items[n].key
      BY <1>3, <1>5 DEF Item
    <3>2. items' = [items EXCEPT ![n] = it]
      BY <1>3, <1>4, <1>5, <2>3 DEF ColLink
    <3> HIDE DEF it
    <3> QED BY <1>5, <3>1, <3>2
  <2> QED BY <2>1, <2>2, <2>3
<1>9. items' \in Seq(Item) /\ Len(items') = Len(items) /\ Heads(items')
  <2>1. it \in Item /\ (it.key # NoKey => InClass(it.key, n)) /\ items' = Written(items, n, it)
    BY <1>8 DEF Written
  <2> QED BY <1>3, <1>4, <1>5, <2>1, HeadWritten
<1>10. ThreadOK(p, h) /\ p \notin Phases
  BY <1>1, <1>6 DEF ThreadOK, Indexed, TouchesItem, CheckPlaces, ReadsColision, Phases, Copying,
                   Assigning
<1>11. Heads(items)'
  BY <1>9 DEF Heads
<1>12. /\ colisions' \in Seq(Item) /\ Len(colisions') >= Len(colisions)
       /\ count' \in Nat /\ currentCapacity' \in Nat
       /\ currentStopedThreadCount' \in 0..(UIntMod - 1)
  BY <1>1, <1>5, <1>7
<1>13. UNCHANGED <<size, sv, calls, increaseInProcess, increaseMutex, busyThreadCount>>
  BY <1>7
<1> HIDE DEF h
<1> QED BY <1>1, <1>2, <1>6, <1>7, <1>9, <1>10, <1>11, <1>12, <1>13, ThreadStepKeeps

(* A step that changes no vector but the collisions, which it may extend. *)
LEMMA CountingStepKeeps ==
  ASSUME Inv, NEW t \in Threads, NEW p, NEW l, ThreadOK(p, l),
         pc' = [pc EXCEPT ![t] = p], loc' = [loc EXCEPT ![t] = l],
         pc[t] \notin Phases, p \notin Phases,
         calls.cleared \/ l.idx <= size,
         UNCHANGED <<items, size, stop, sv, calls>>,
         colisions' \in Seq(Item), Len(colisions') >= Len(colisions),
         count' \in Nat, currentCapacity' \in Nat
  PROVE  Inv'
<1>1. items \in Seq(Item) /\ Heads(items)
  BY ItemsRead
<1>2. Heads(items)' /\ items' \in Seq(Item) /\ Len(items') = Len(items)
  BY <1>1 DEF Heads
<1>3. currentStopedThreadCount' \in 0..(UIntMod - 1)
  BY ThreadFacts DEF stop
<1>4. UNCHANGED <<size, sv, calls, increaseInProcess, increaseMutex, busyThreadCount>>
  BY DEF stop
<1> QED BY <1>2, <1>3, <1>4, ThreadStepKeeps

LEMMA CountersKeep ==
  ASSUME Inv, NEW t \in Threads, LoadCounter(t) \/ StoreCounter(t) \/ ColCap(t)
  PROVE  Inv'
<1> DEFINE h == loc[t]
<1>1. /\ ThreadOK(pc[t], h) /\ Local(h)
      /\ (calls.cleared \/ h.idx <= size)
      /\ currentStopedThreadCount \in 0..(UIntMod - 1)
  BY ThreadFacts
<1>2. /\ h.reg \in Nat /\ Len(h.val) \in Nat /\ ItemCapacity(h.val) \in Nat
      /\ count \in Nat /\ currentCapacity \in Nat
  <2>1. h.reg \in Nat /\ h.val \in Seq(Sources)
    BY <1>1 DEF Local
  <2> QED BY <2>1, ItemsRead, SizesAssumption DEF ItemCapacity
<1>3. PICK p \in {"countStore", "capStore", "capLoad", "return"} :
        pc' = [pc EXCEPT ![t] = p] /\ pc[t] \notin Phases /\ p \notin Phases
  BY DEF LoadCounter, StoreCounter, ColCap, Step, Phases, Copying, Assigning
<1>4. ASSUME NEW l, Local(l) PROVE ThreadOK(p, l)
  BY <1>3, <1>4 DEF ThreadOK, Indexed, TouchesItem, CheckPlaces, ReadsColision
<1>5. CASE LoadCounter(t)
  <2>1. PICK x \in Nat : loc' = [loc EXCEPT ![t].reg = x]
    BY <1>2, <1>5 DEF LoadCounter
  <2> DEFINE l == PutReg(h, x)
  <2>2. Local(l) /\ l.idx = h.idx
    BY <1>1, RegPut
  <2>3. loc' = [loc EXCEPT ![t] = l]
    BY <2>1, LocalsOfThreads DEF PutReg
  <2>4. UNCHANGED <<table, stop, sv, calls>>
    BY <1>5 DEF LoadCounter
  <2> HIDE DEF l
  <2> QED BY <1>1, <1>3, <1>4, <2>2, <2>3, <2>4, LocalStepKeeps DEF stop
<1>6. CASE StoreCounter(t) \/ ColCap(t)
  <2>1. /\ count' \in Nat /\ currentCapacity' \in Nat
        /\ UNCHANGED <<items, colisions, size, stop, loc, sv, calls>>
    BY <1>2, <1>6 DEF StoreCounter, ColCap
  <2>2. colisions' \in Seq(Item) /\ Len(colisions') >= Len(colisions)
    BY <2>1, ItemsRead
  <2>3. loc' = [loc EXCEPT ![t] = h]
    BY <2>1, LocalsOfThreads
  <2> QED BY <1>1, <1>3, <1>4, <2>1, <2>2, <2>3, CountingStepKeeps
<1> QED BY <1>5, <1>6

(* handleCollision looks at an item. *)
LEMMA LooksKeep ==
  ASSUME Inv, NEW t \in Threads, ColRead(t) \/ ColHop(t) \/ ColCount(t)
  PROVE  Inv'
<1> DEFINE h == loc[t]
<1>1. /\ ThreadOK(pc[t], h) /\ Local(h)
      /\ (calls.cleared \/ h.idx <= size)
      /\ currentStopedThreadCount \in 0..(UIntMod - 1)
  BY ThreadFacts
<1>2. pc[t] \in Indexed /\ pc[t] \notin Phases
  BY DEF ColRead, ColHop, ColCount, AfterLook, Step, Indexed, TouchesItem, Phases, Copying,
         Assigning
<1>3. h.idx \in Nat /\ h.idx >= 1 /\ InClass(h.key, h.idx) /\ h.cur \in Item
  BY <1>1, <1>2 DEF ThreadOK, Local
<1>4. CASE ColHop(t)
  <2> DEFINE c == colisions[h.cur.next]
             l == PutCur(h, c)
  <2>1. h.cur.next \in Nat /\ h.cur.next >= 1
    BY <1>1, <1>3, <1>4 DEF ThreadOK, ColHop, Step, ReadsColision, Item
  <2>2. c \in Item
    BY <1>4, <2>1, ItemsRead DEF ColHop, NextInColisions
  <2>3. Local(l) /\ l.key = h.key /\ l.idx = h.idx
    BY <1>1, <2>2, CurPut
  <2>4. loc' = [loc EXCEPT ![t] = l]
    BY <1>4, LocalsOfThreads DEF ColHop, PutCur
  <2>5. pc' = [pc EXCEPT ![t] = "colCount"] /\ UNCHANGED <<table, stop, sv, calls>>
    BY <1>4 DEF ColHop, Step
  <2> HIDE DEF l
  <2>6. ThreadOK("colCount", l) /\ "colCount" \notin Phases
    BY <1>3, <2>3 DEF ThreadOK, CheckPlaces, ReadsColision, Phases, Copying, Assigning
  <2> QED BY <1>1, <1>2, <2>3, <2>4, <2>5, <2>6, LocalStepKeeps DEF stop
<1>5. ASSUME NEW from, NEW c \in Item, AfterLook(t, from, c),
             UNCHANGED <<items, colisions, size, stop, sv, calls>>,
             count' \in Nat, currentCapacity' \in Nat
      PROVE  Inv'
  <2>1. PICK p \in {"check", "colPush", "colHop"} :
          /\ pc' = [pc EXCEPT ![t] = p]
          /\ p = "colHop" => c.next # NoNext
    BY <1>5 DEF AfterLook, Step
  <2> DEFINE l == PutCurRet(h, c, "colAppend")
  <2>2. Local(l) /\ l.key = h.key /\ l.idx = h.idx /\ l.cur = c /\ l.ret = "colAppend"
    BY <1>1, CurRetPut
  <2>3. loc' = [loc EXCEPT ![t] = l]
    BY <1>5, LocalsOfThreads DEF AfterLook, PutCurRet
  <2> HIDE DEF l
  <2>4. p = "colHop" => c.next >= 1
    BY <2>1 DEF Item, NoNext
  <2>5. ThreadOK(p, l) /\ p \notin Phases
    BY <1>3, <2>1, <2>2, <2>4
       DEF ThreadOK, CheckPlaces, ReadsColision, TouchesItem, Phases, Copying, Assigning
  <2>6. colisions' \in Seq(Item) /\ Len(colisions') >= Len(colisions)
    BY <1>5, ItemsRead
  <2> QED BY <1>1, <1>2, <1>5, <2>1, <2>2, <2>3, <2>5, <2>6, CountingStepKeeps
<1>6. CASE ColRead(t)
  <2>1. items[h.idx] \in Item
    BY <1>3, <1>6, ItemsRead DEF ColRead, InItems
  <2>2. /\ AfterLook(t, "colRead", items[h.idx])
        /\ UNCHANGED <<items, colisions, size, count, currentCapacity, stop, sv, calls>>
    BY <1>6 DEF ColRead, table
  <2>3. count' \in Nat /\ currentCapacity' \in Nat
    BY <2>2, ItemsRead
  <2> QED BY <1>5, <2>1, <2>2, <2>3
<1>7. CASE ColCount(t)
  <2>1. h.val \in Seq(Sources) /\ Overhead \in Nat /\ count \in Nat /\ currentCapacity \in Nat
    BY <1>1, ItemsRead, SizesAssumption DEF Local
  <2>2. count' \in Nat /\ currentCapacity' \in Nat
    BY <1>7, <2>1 DEF ColCount, ItemCapacity
  <2> QED BY <1>3, <1>5, <1>7, <2>2 DEF ColCount
<1> QED BY <1>4, <1>6, <1>7

LEMMA PushKeeps ==
  ASSUME Inv, NEW t \in Threads, ColPush(t)
  PROVE  Inv'
<1> DEFINE h == loc[t]
<1>1. /\ ThreadOK(pc[t], h) /\ Local(h)
      /\ (calls.cleared \/ h.idx <= size)
      /\ currentStopedThreadCount \in 0..(UIntMod - 1)
  BY ThreadFacts
<1>2. pc[t] = "colPush" /\ pc[t] \in Indexed /\ pc[t] \notin Phases
  BY DEF ColPush, StepChecked, Step, Indexed, Phases, Copying, Assigning
<1>3. h.idx >= 1 /\ InClass(h.key, h.idx) /\ h.key \in Keyed /\ h.val \in Seq(Sources)
  BY <1>1, <1>2 DEF ThreadOK, Local
<1> DEFINE it == [key |-> h.key, value |-> h.val, next |-> NoNext]
<1>4. it \in Item
  BY <1>3 DEF Item, Keyed, NoNext
<1>5. colisions' = Append(colisions, it) /\ UNCHANGED <<items, size, count, currentCapacity, stop, sv, calls>>
  BY DEF ColPush
<1> HIDE DEF it
<1>6. colisions' \in Seq(Item) /\ Len(colisions') = Len(colisions) + 1 /\ Len(colisions) \in Nat
  BY <1>4, <1>5, ItemsRead
<1> DEFINE l == PutPosRet(h, Len(colisions'), "colLink")
<1>7. Local(l) /\ l.key = h.key /\ l.idx = h.idx /\ l.ret = "colLink"
  BY <1>1, <1>6, PosRetPut
<1>8. loc' = [loc EXCEPT ![t] = l]
  BY LocalsOfThreads DEF ColPush, PutPosRet
<1> HIDE DEF l
<1>9. ThreadOK("check", l) /\ "check" \notin Phases /\ pc' = [pc EXCEPT ![t] = "check"]
  BY <1>3, <1>7
     DEF ThreadOK, ReadsColision, TouchesItem, Phases, Copying, Assigning, ColPush, StepChecked,
         Step
<1>10. colisions' \in Seq(Item) /\ Len(colisions') >= Len(colisions) /\ count' \in Nat
       /\ currentCapacity' \in Nat
  BY <1>5, <1>6, ItemsRead
<1> QED BY <1>1, <1>2, <1>5, <1>7, <1>8, <1>9, <1>10, CountingStepKeeps

(* get looks at an item. *)
LEMMA GetsKeep ==
  ASSUME Inv, NEW t \in Threads, GetRead(t) \/ GetHop(t)
  PROVE  Inv'
<1> DEFINE h == loc[t]
<1>1. /\ ThreadOK(pc[t], h) /\ Local(h)
      /\ (calls.cleared \/ h.idx <= size)
      /\ currentStopedThreadCount \in 0..(UIntMod - 1)
  BY ThreadFacts
<1>2. pc[t] \in {"getRead", "getHop"} /\ pc[t] \notin Phases
  BY DEF GetRead, GetHop, Phases, Copying, Assigning
<1>3. /\ pc[t] = "getRead" => h.idx \in Nat /\ h.idx >= 1
      /\ pc[t] = "getHop" => h.cur.next \in Nat /\ h.cur.next >= 1
  BY <1>1 DEF ThreadOK, Local, Indexed, TouchesItem, ReadsColision, Item
<1>4. UNCHANGED <<table, stop, sv, calls>>
  BY DEF GetRead, GetHop
<1>5. ASSUME NEW c \in Item, NEW from, GetLook(t, from, c)
      PROVE  Inv'
  <2>1. PICK p \in {"return", "getHop"}, v \in Seq(Sources) :
          /\ pc' = [pc EXCEPT ![t] = p]
          /\ p = "getHop" => c.next # NoNext
          /\ loc' = [loc EXCEPT ![t].cur = c, ![t].val = v]
    <3>1. c.value \in Seq(Sources) /\ <<>> \in Seq(Sources)
      BY DEF Item
    <3> QED BY <1>5, <3>1 DEF GetLook, Step
  <2> DEFINE l == PutCurVal(h, c, v)
  <2>2. Local(l) /\ l.key = h.key /\ l.idx = h.idx /\ l.cur = c
    BY <1>1, CurValPut
  <2>3. loc' = [loc EXCEPT ![t] = l]
    BY <2>1, LocalsOfThreads DEF PutCurVal
  <2> HIDE DEF l
  <2>4. p = "getHop" => c.next >= 1
    BY <2>1 DEF Item, NoNext
  <2>5. ThreadOK(p, l) /\ p \notin Phases
    BY <2>1, <2>2, <2>4
       DEF ThreadOK, CheckPlaces, ReadsColision, Indexed, TouchesItem, Phases, Copying, Assigning
  <2> QED BY <1>1, <1>2, <1>4, <2>1, <2>2, <2>3, <2>5, LocalStepKeeps DEF stop
<1>6. CASE GetHop(t)
  <2>1. colisions[h.cur.next] \in Item
    BY <1>3, <1>6, ItemsRead DEF GetHop, NextInColisions
  <2> QED BY <1>5, <1>6, <2>1 DEF GetHop
<1>7. CASE GetRead(t)
  <2>1. items[h.idx] \in Item
    BY <1>3, <1>7, ItemsRead DEF GetRead, InItems
  <2>2. CASE GetLook(t, "getRead", items[h.idx])
    BY <1>5, <2>1, <2>2
  <2>3. CASE ~GetLook(t, "getRead", items[h.idx])
    <3>1. pc' = [pc EXCEPT ![t] = "return"] /\ loc' = loc
      BY <1>7, <2>3 DEF GetRead, Step
    <3>2. loc' = [loc EXCEPT ![t] = h]
      BY <3>1, LocalsOfThreads
    <3>3. ThreadOK("return", h) /\ "return" \notin Phases
      BY <1>1 DEF ThreadOK, CheckPlaces, ReadsColision, Indexed, TouchesItem, Phases, Copying,
                  Assigning
    <3> QED BY <1>1, <1>2, <1>4, <3>1, <3>2, <3>3, LocalStepKeeps DEF stop
  <2> QED BY <2>2, <2>3
<1> QED BY <1>6, <1>7

(***************************************************************************)
(* Calls and returns.                                                      *)
(***************************************************************************)
LEMMA Outside ==
  ASSUME NEW p, p \in {"idle", "addSize", "getSize", "return", "readd", "increase", "increased"} \cup Phases,
         NEW l, Local(l)
  PROVE  ThreadOK(p, l)
BY DEF ThreadOK, Indexed, TouchesItem, CheckPlaces, ReadsColision, Phases, Copying, Assigning

LEMMA CallsCounted ==
  ASSUME Inv, NEW n, \/ calls' = [calls EXCEPT !.op = n] \/ calls' = [calls EXCEPT !.busy = n]
                    \/ calls' = [calls EXCEPT !.service = n]
  PROVE  "cleared" \in DOMAIN calls' /\ calls'.cleared = calls.cleared
BY DEF Inv, IndexOK

LEMMA CallersKeep ==
  ASSUME Inv, NEW t \in Callers, NEW k \in Keys,
         CallGet(t, k) \/ \E v \in Values : CallAdd(t, k, v)
  PROVE  Inv'
<1>1. k \in Keyed /\ Values \subseteq Seq(Sources) /\ t \in Threads /\ t # Service
  BY ValuesAssumption, ThreadsAssumption DEF Keyed, Threads
<1>0. PICK l : \E p \in {"addSize", "getSize"} :
        /\ pc' = [pc EXCEPT ![t] = p] /\ loc' = [loc EXCEPT ![t] = l]
        /\ Local(l) /\ l.idx = 0
  <2>1. CASE CallGet(t, k)
    <3> DEFINE l == [Idle EXCEPT !.key = k]
    <3>0. <<>> \in Seq(Sources)
      OBVIOUS
    <3>1. Local(l) /\ l.idx = 0
      BY <1>1, <3>0, IdleLocal, Zenon
    <3>2. pc' = [pc EXCEPT ![t] = "getSize"] /\ loc' = [loc EXCEPT ![t] = l]
      BY <2>1 DEF CallGet, Step
    <3> HIDE DEF l
    <3> QED BY <3>1, <3>2
  <2>2. ASSUME NEW v \in Values, CallAdd(t, k, v)
        PROVE  \E l : \E p \in {"addSize", "getSize"} :
                 /\ pc' = [pc EXCEPT ![t] = p] /\ loc' = [loc EXCEPT ![t] = l]
                 /\ Local(l) /\ l.idx = 0
    <3> DEFINE b == IF Serial THEN Lookup(k) ELSE <<>>
               l == [Idle EXCEPT !.key = k, !.val = v, !.before = b]
    <3> HIDE DEF b
    <3>1. Local(l) /\ l.idx = 0
      BY <1>1, IdleLocal
    <3>2. pc' = [pc EXCEPT ![t] = "addSize"] /\ loc' = [loc EXCEPT ![t] = l]
      BY <2>2 DEF CallAdd, Step, b
    <3> HIDE DEF l
    <3> QED BY <3>1, <3>2
  <2> QED BY <2>1, <2>2
<1>2. PICK p \in {"addSize", "getSize"} :
        /\ pc' = [pc EXCEPT ![t] = p] /\ loc' = [loc EXCEPT ![t] = l]
        /\ Local(l) /\ l.idx = 0
  BY <1>0
<1>3. ThreadOK(p, l) /\ p \notin Phases
  BY <1>2, Outside DEF Phases, Copying, Assigning
<1>4. UNCHANGED <<table, stop, sv>> /\ calls' = [calls EXCEPT !.op = calls.op + 1]
  BY DEF CallGet, CallAdd
<1>5. "cleared" \in DOMAIN calls' /\ calls'.cleared = calls.cleared
  BY <1>4, CallsCounted
<1>6. UNCHANGED <<items, colisions, size, count, currentCapacity, increaseInProcess, increaseMutex,
                  currentStopedThreadCount, busyThreadCount, sv>>
  BY <1>4 DEF table, stop
<1>7. TableOK'
  BY <1>6 DEF Inv, TableOK, Multiple, Heads
<1>8. ThreadsOK'
  <2>1. Callers \subseteq Threads
    BY DEF Threads
  <2> QED BY <1>1, <1>2, <1>3, <2>1 DEF Inv, ThreadsOK
<1>9. SvOK'
  BY <1>6 DEF Inv, SvOK, Heads
<1>10. ServiceOK(pc[Service])'
  <2>1. pc'[Service] = pc[Service]
    BY <1>1, <1>2 DEF Inv, ThreadsOK, Threads
  <2> QED BY <1>5, <1>6, <2>1 DEF Inv, ServiceOK
<1>11. IndexOK'
  <2>1. size \in Nat
    BY DEF Inv, TableOK
  <2> QED BY <1>1, <1>2, <1>5, <1>6, <2>1 DEF Inv, IndexOK, ThreadsOK
<1> QED BY <1>7, <1>8, <1>9, <1>10, <1>11 DEF Inv

LEMMA BusyKeeps ==
  ASSUME Inv, NEW n \in 0..Cardinality(Callers), SetBusyThreadCount(n)
  PROVE  Inv'
<1>1. /\ busyThreadCount' = n /\ calls' = [calls EXCEPT !.busy = calls.busy + 1]
      /\ UNCHANGED <<items, colisions, size, count, currentCapacity, increaseInProcess,
                     increaseMutex, currentStopedThreadCount, pc, loc, sv>>
  BY DEF SetBusyThreadCount, table
<1>2. "cleared" \in DOMAIN calls' /\ calls'.cleared = calls.cleared
  BY <1>1, CallsCounted
<1>3. TableOK'
  BY <1>1 DEF Inv, TableOK, Multiple, Heads
<1>4. ThreadsOK' /\ IndexOK'
  BY <1>1, <1>2 DEF Inv, ThreadsOK, IndexOK
<1>5. SvOK'
  BY <1>1 DEF Inv, SvOK, Heads
<1>6. ServiceOK(pc[Service])'
  BY <1>1, <1>2 DEF Inv, ServiceOK
<1> QED BY <1>3, <1>4, <1>5, <1>6 DEF Inv

(***************************************************************************)
(* The service thread.                                                     *)
(***************************************************************************)
LEMMA ServiceStepKeeps ==
  ASSUME Inv, NEW p, NEW l, ThreadOK(p, l),
         pc' = [pc EXCEPT ![Service] = p], loc' = [loc EXCEPT ![Service] = l],
         TableOK', SvOK', ServiceOK(p)', IndexOK'
  PROVE  Inv'
<1>1. Service \in Threads /\ Service \notin Callers /\ Callers \subseteq Threads
  BY ThreadsAssumption DEF Threads
<1>2. ThreadsOK'
  BY <1>1 DEF Inv, ThreadsOK
<1>3. pc'[Service] = p
  BY <1>1 DEF Inv, ThreadsOK
<1>4. ServiceOK(pc[Service])'
  BY <1>3
<1> QED BY <1>2, <1>4 DEF Inv

LEMMA ReturnKeeps ==
  ASSUME Inv, NEW t \in Threads, Return(t)
  PROVE  Inv'
<1>1. loc' = [loc EXCEPT ![t] = Idle] /\ UNCHANGED <<table, stop, calls>>
  BY DEF Return
<1>2. Local(Idle) /\ Idle.idx = 0 /\ size \in Nat
  BY IdleLocal DEF Inv, TableOK
<1>3. CASE pc[t] = "return"
  <2>1. PICK p \in {"readd", "idle"} : pc' = [pc EXCEPT ![t] = p] /\ UNCHANGED sv
    BY <1>3 DEF Return, Step
  <2>2. ThreadOK(p, Idle) /\ p \notin Phases /\ pc[t] \notin Phases
    BY <1>2, <1>3, <2>1, Outside DEF Phases, Copying, Assigning
  <2>3. currentStopedThreadCount' \in 0..(UIntMod - 1)
    BY <1>1, ThreadFacts DEF stop
  <2>4. UNCHANGED <<table, sv, calls, increaseInProcess, increaseMutex, busyThreadCount>>
    BY <1>1, <2>1 DEF stop
  <2>5. Idle.idx <= size
    BY <1>2
  <2> QED BY <1>1, <2>1, <2>2, <2>3, <2>4, <2>5, LocalStepKeeps
<1>4. CASE pc[t] # "return"
  <2>1. pc[t] = "increased" /\ pc' = [pc EXCEPT ![t] = "idle"] /\ sv' = NoIncrease
    BY <1>4 DEF Return, Step
  <2>2. t = Service
    BY <2>1 DEF Inv, ThreadsOK, Threads, Phases
  <2>3. UNCHANGED <<items, colisions, size, count, currentCapacity, increaseInProcess,
                    increaseMutex, currentStopedThreadCount, busyThreadCount, calls>>
    BY <1>1 DEF table, stop
  <2>4. TableOK'
    BY <2>3 DEF Inv, TableOK, Multiple, Heads
  <2>5. SvOK'
    <3>1. /\ {"new", "tmp", "i", "n"} \subseteq DOMAIN NoIncrease /\ NoIncrease.new = <<>>
          /\ NoIncrease.tmp = <<>> /\ NoIncrease.i = 0 /\ NoIncrease.n = 0
      BY DEF NoIncrease
    <3> QED BY <2>1, <3>1 DEF SvOK, Heads
  <2>6. ServiceOK("idle")'
    <3>1. Len(items) = size
      BY <2>1, <2>2 DEF Inv, ServiceOK, Assigning
    <3> QED BY <2>3, <3>1 DEF ServiceOK, Phases, Assigning, Copying
  <2>7. IndexOK'
    BY <1>1, <1>2, <2>3 DEF Inv, IndexOK, ThreadsOK
  <2> QED BY <1>1, <1>2, <2>1, <2>2, <2>4, <2>5, <2>6, <2>7, Outside, ServiceStepKeeps
<1> QED BY <1>3, <1>4

LEMMA ItemPlaced ==
  ASSUME SvOK, Len(sv.new) > 0, Multiple(Len(sv.new)), NEW it \in Item
  PROVE  LET g == PlaceItem(it)
         IN  /\ {"new", "tmp", "i", "n"} \subseteq DOMAIN g
             /\ g.new \in Seq(Item) /\ Len(g.new) = Len(sv.new) /\ Heads(g.new)
             /\ g.tmp \in Seq(Item) /\ g.n = sv.n /\ g.i = sv.i
<1> DEFINE v == sv.new
           c == Cell(it.key, newSize)
           cur == v[c]
           g == PlaceItem(it)
<1>1. v \in Seq(Item) /\ Heads(v) /\ newSize = Len(v) /\ newSize \in Nat /\ newSize > 0
      /\ sv.tmp \in Seq(Item)
  BY DEF SvOK, newSize
<1>2. it.key \in Keyed /\ it.value \in Seq(Sources)
  BY DEF Item, Keyed
<1>3. c \in Nat /\ c >= 1 /\ c <= Len(v) /\ InClass(it.key, c)
  BY <1>1, <1>2, CellsOfKeys DEF newSize
<1>4. cur \in Item /\ (cur.key # NoKey => InClass(cur.key, c))
  BY <1>1, <1>3 DEF Heads
<1>5. ASSUME NEW w \in Item, w.key # NoKey => InClass(w.key, c), g = [sv EXCEPT !.new = Written(v, c, w)]
      PROVE  /\ {"new", "tmp", "i", "n"} \subseteq DOMAIN g
             /\ g.new \in Seq(Item) /\ Len(g.new) = Len(v) /\ Heads(g.new)
             /\ g.tmp \in Seq(Item) /\ g.n = sv.n /\ g.i = sv.i
  <2> DEFINE x == Written(v, c, w)
  <2>1. x \in Seq(Item) /\ Len(x) = Len(v) /\ Heads(x)
    BY <1>1, <1>3, <1>5, HeadWritten
  <2> HIDE DEF x
  <2>2. DOMAIN g = DOMAIN sv /\ g.new = x /\ g.tmp = sv.tmp /\ g.n = sv.n /\ g.i = sv.i
    BY <1>5, Zenon DEF SvOK, x
  <2> HIDE DEF g
  <2> QED BY <1>1, <2>1, <2>2 DEF SvOK
<1>6. CASE cur.value = <<>>
  <2>1. g = [sv EXCEPT !.new = Written(v, c, it)]
    BY <1>6, Zenon DEF PlaceItem, Written
  <2> QED BY <1>3, <1>5, <2>1
<1>7. CASE cur.value # <<>> /\ cur.key # it.key
  <2> DEFINE x == Append(sv.tmp, it)
  <2>1. x \in Seq(Item)
    BY <1>1
  <2> HIDE DEF x
  <2>2. g = [sv EXCEPT !.tmp = x]
    BY <1>7, Zenon DEF PlaceItem, x
  <2>3. DOMAIN g = DOMAIN sv /\ g.new = v /\ g.tmp = x /\ g.n = sv.n /\ g.i = sv.i
    BY <2>2, Zenon DEF SvOK
  <2> HIDE DEF g
  <2>4. /\ {"new", "tmp", "i", "n"} \subseteq DOMAIN g
        /\ g.new \in Seq(Item) /\ Len(g.new) = Len(v) /\ Heads(g.new)
        /\ g.tmp \in Seq(Item) /\ g.n = sv.n /\ g.i = sv.i
    BY <1>1, <2>1, <2>3 DEF SvOK
  <2> QED BY <2>4 DEF g
<1>8. CASE cur.value # <<>> /\ cur.key = it.key
  <2> DEFINE x == cur.value \o it.value
             w == [cur EXCEPT !.value = x]
  <2>1. x \in Seq(Sources)
    BY <1>2, <1>4, ConcatProperties DEF Item
  <2>2. g = [sv EXCEPT !.new[c].value = x]
    BY <1>8, Zenon DEF PlaceItem
  <2> HIDE DEF x
  <2>3. w \in Item /\ w.key = cur.key
    BY <1>4, <2>1 DEF Item
  <2>4. g = [sv EXCEPT !.new = Written(v, c, w)]
    BY <2>2, Zenon DEF Written
  <2> HIDE DEF w
  <2> QED BY <1>4, <1>5, <2>3, <2>4
<1> QED BY <1>6, <1>7, <1>8

(* What the service knows before any step of its own. *)
LEMMA ServiceFacts ==
  ASSUME Inv
  PROVE  /\ TableOK /\ SvOK /\ ServiceOK(pc[Service]) /\ IndexOK
         /\ Local(loc[Service]) /\ loc = [loc EXCEPT ![Service] = loc[Service]]
         /\ Len(items) \in Nat /\ Len(colisions) \in Nat /\ Len(sv.new) \in Nat
         /\ Len(items) > 0 \/ pc[Service] \in Assigning
         /\ StartSize \in Nat /\ StartSize > 0 /\ Multiple(StartSize)
<1>1. Service \in Threads
  BY DEF Threads
<1>2. Local(loc[Service]) /\ loc = [loc EXCEPT ![Service] = loc[Service]]
  BY <1>1, ThreadFacts, LocalsOfThreads
<1>3. Len(items) \in Nat /\ Len(colisions) \in Nat /\ Len(sv.new) \in Nat
  BY DEF Inv, TableOK, SvOK
<1>4. Len(items) > 0 \/ pc[Service] \in Assigning
  <2>1. size \in Nat /\ size > 0 /\ 2 * size > 0
    BY DEF Inv, TableOK
  <2> QED BY <2>1 DEF Inv, ServiceOK
<1>5. StartSize \in Nat /\ StartSize > 0 /\ Multiple(StartSize)
  <2>1. StartSize \in Nat /\ StartSize > 0 /\ StartSize = 1 * StartSize
    BY SizesAssumption
  <2> QED BY <2>1 DEF Multiple
<1> QED BY <1>2, <1>3, <1>4, <1>5 DEF Inv

LEMMA Doubled ==
  ASSUME NEW s \in Nat, s > 0, Multiple(s)
  PROVE  2 * s \in Nat /\ 2 * s > 0 /\ Multiple(2 * s)
<1>1. PICK m \in Nat : m > 0 /\ s = m * StartSize
  BY DEF Multiple
<1>2. StartSize \in Nat
  BY SizesAssumption
<1>3. 2 * m \in Nat /\ 2 * m > 0 /\ 2 * s = (2 * m) * StartSize
  BY <1>1, <1>2
<1> QED BY <1>3 DEF Multiple

(* Steps of increaseTable that leave the vectors and the size alone. *)
Quietly == UNCHANGED <<items, colisions, size, count, currentCapacity, currentStopedThreadCount,
                       busyThreadCount, calls, loc>>

LEMMA QuietStepKeeps ==
  ASSUME Inv, NEW p, p \in {"idle", "readd", "increase", "increased"} \cup Phases,
         pc' = [pc EXCEPT ![Service] = p], Quietly,
         increaseInProcess' \in BOOLEAN, increaseMutex' \in {"free", "held"},
         SvOK', ServiceOK(p)'
  PROVE  Inv'
<1>1. TableOK'
  BY DEF Inv, TableOK, Multiple, Heads, Quietly
<1>2. IndexOK'
  BY DEF Inv, IndexOK, Quietly
<1>3. loc' = [loc EXCEPT ![Service] = loc[Service]]
  BY ServiceFacts DEF Quietly
<1>4. ThreadOK(p, loc[Service])
  BY ServiceFacts, Outside
<1> QED BY <1>1, <1>2, <1>3, <1>4, ServiceStepKeeps

(* ... and the locals of increaseTable. *)
LEMMA FlagsKeep ==
  ASSUME Inv, \/ IncRefuse \/ LockIncrease \/ SetFlag \/ Rendezvous \/ ClearFlag
              \/ UnlockIncrease \/ IncDone
  PROVE  Inv'
<1>1. TableOK /\ SvOK /\ ServiceOK(pc[Service])
  BY ServiceFacts
<1>2. Quietly /\ UNCHANGED sv
  BY DEF IncRefuse, LockIncrease, SetFlag, Rendezvous, ClearFlag, UnlockIncrease, IncDone,
         table, stop, Quietly
<1>3. increaseInProcess' \in BOOLEAN /\ increaseMutex' \in {"free", "held"}
  BY <1>1 DEF IncRefuse, LockIncrease, SetFlag, Rendezvous, ClearFlag, UnlockIncrease, IncDone,
              table, stop, TableOK
<1>4. SvOK'
  BY <1>1, <1>2 DEF SvOK, Heads
<1>5. PICK p \in {"idle", "setFlag", "rendezvous", "swapItems", "unlock", "resetColisions",
                  "increased"} :
        /\ pc' = [pc EXCEPT ![Service] = p]
        /\ pc[Service] \in {"increase", "copyColision", "setFlag", "rendezvous", "clearFlag",
                            "unlock", "readd"}
        /\ p \in Copying => pc[Service] \in Copying
  BY DEF IncRefuse, LockIncrease, SetFlag, Rendezvous, ClearFlag, UnlockIncrease, IncDone, Step,
         Copying
<1>6. ServiceOK(p)'
  BY <1>1, <1>2, <1>5 DEF ServiceOK, Quietly, Phases, Assigning, Copying
<1>7. ThreadOK(p, loc[Service])
  BY <1>5, ServiceFacts
     DEF ThreadOK, Indexed, TouchesItem, CheckPlaces, ReadsColision
<1>8. TableOK' /\ IndexOK'
  BY <1>2, <1>3, ServiceFacts DEF TableOK, IndexOK, Multiple, Heads, Quietly
<1>9. loc' = [loc EXCEPT ![Service] = loc[Service]]
  BY <1>2, ServiceFacts DEF Quietly
<1> QED BY <1>4, <1>5, <1>6, <1>7, <1>8, <1>9, ServiceStepKeeps

LEMMA StartKeeps ==
  ASSUME Inv, IncStart
  PROVE  Inv'
<1>1. TableOK /\ SvOK /\ ServiceOK(pc[Service]) /\ size \in Nat
  BY ServiceFacts DEF TableOK
<1>2. pc[Service] = "increase" /\ pc' = [pc EXCEPT ![Service] = "copyItem"]
  BY DEF IncStart, Step
<1>3. Quietly /\ increaseInProcess' \in BOOLEAN /\ increaseMutex' \in {"free", "held"}
  BY <1>1 DEF IncStart, table, stop, Quietly, TableOK
<1>4. Len(items) = size
  BY <1>1, <1>2 DEF ServiceOK, Assigning
<1>5. /\ {"new", "tmp", "i", "n"} \subseteq DOMAIN sv'
      /\ sv'.new = createNewVector(2 * size) /\ sv'.tmp = <<>> /\ sv'.i = 1 /\ sv'.n = size
  BY DEF IncStart
<1>6. 2 * size \in Nat
  BY <1>1
<1>7. SvOK'
  <2>1. sv'.new \in Seq(Item) /\ Heads(sv'.new)
    BY <1>5, <1>6, EmptyTable DEF Heads
  <2>2. sv'.tmp \in Seq(Item) /\ sv'.i \in Nat /\ sv'.n \in Nat
    BY <1>1, <1>5
  <2> QED BY <1>5, <2>1, <2>2 DEF SvOK, Heads
<1>8. ServiceOK("copyItem")'
  BY <1>1, <1>3, <1>4, <1>5, <1>6, EmptyTable DEF ServiceOK, Quietly, Phases, Assigning, Copying
<1> QED BY <1>2, <1>3, <1>7, <1>8, QuietStepKeeps DEF Phases, Copying

(* One more item or collision is placed, or skipped. *)
LEMMA PlacingKeeps ==
  ASSUME Inv, NEW p \in {"copyItem", "copyColision"}, pc[Service] = p, UNCHANGED <<table, stop, pc, loc, calls>>,
         NEW it \in Item, NEW g, g \in {sv, PlaceItem(it)}, sv' = [g EXCEPT !.i = sv.i + 1]
  PROVE  Inv'
<1>1. TableOK /\ SvOK /\ ServiceOK(pc[Service]) /\ size \in Nat /\ size > 0 /\ Multiple(size)
      /\ sv.i \in Nat /\ sv.n \in Nat
  BY ServiceFacts DEF TableOK, SvOK
<1>2. Len(sv.new) = 2 * size /\ sv.i >= 1
  BY <1>1 DEF ServiceOK, Copying
<1>3. Len(sv.new) > 0 /\ Multiple(Len(sv.new))
  BY <1>1, <1>2, Doubled
<1>4. /\ {"new", "tmp", "i", "n"} \subseteq DOMAIN g
      /\ g.new \in Seq(Item) /\ Len(g.new) = Len(sv.new) /\ Heads(g.new)
      /\ g.tmp \in Seq(Item) /\ g.n = sv.n /\ g.i = sv.i
  BY <1>1, <1>3, ItemPlaced DEF SvOK
<1>5. /\ DOMAIN sv' = DOMAIN g /\ sv'.i = sv.i + 1 /\ sv'.n = g.n /\ sv'.new = g.new
      /\ sv'.tmp = g.tmp
  BY <1>4, Zenon
<1>6. SvOK'
  BY <1>1, <1>4, <1>5 DEF SvOK, Heads
<1>7. Quietly /\ increaseInProcess' \in BOOLEAN /\ increaseMutex' \in {"free", "held"}
  BY <1>1 DEF table, stop, Quietly, TableOK
<1>8. sv'.i >= 1 /\ sv'.n = sv.n /\ Len(sv'.new) = 2 * size
  BY <1>1, <1>2, <1>4, <1>5
<1>9. ServiceOK(p)'
  BY <1>1, <1>7, <1>8 DEF ServiceOK, Quietly, Phases, Assigning, Copying
<1>10. pc' = [pc EXCEPT ![Service] = p]
  <2>1. Service \in Threads
    BY DEF Threads
  <2> QED BY <2>1 DEF Inv, ThreadsOK
<1> QED BY <1>6, <1>7, <1>9, <1>10, QuietStepKeeps DEF Phases, Copying

LEMMA CopyingKeeps ==
  ASSUME Inv, CopyItem \/ CountColisions \/ CopyColision
  PROVE  Inv'
<1>1. /\ TableOK /\ SvOK /\ ServiceOK(pc[Service]) /\ sv.i \in Nat /\ sv.n \in Nat
      /\ Len(items) \in Nat /\ Len(colisions) \in Nat
  BY ServiceFacts DEF SvOK
<1>2. CASE CopyItem
  <2>1. pc[Service] = "copyItem" /\ sv.i <= sv.n /\ UNCHANGED <<table, stop, pc, loc, calls>>
    BY <1>2 DEF CopyItem
  <2>2. items[sv.i] \in Item
    BY <1>1, <2>1, ItemsRead DEF ServiceOK
  <2> DEFINE g == IF items[sv.i].value # <<>> THEN sv ELSE PlaceItem(items[sv.i])
  <2>3. sv' = [g EXCEPT !.i = sv.i + 1]
    BY <1>2 DEF CopyItem
  <2>4. g \in {sv, PlaceItem(items[sv.i])}
    BY Zenon
  <2> HIDE DEF g
  <2> QED BY <2>1, <2>2, <2>3, <2>4, PlacingKeeps
<1>3. CASE CopyColision
  <2>1. pc[Service] = "copyColision" /\ sv.i <= sv.n /\ UNCHANGED <<table, stop, pc, loc, calls>>
    BY <1>3 DEF CopyColision
  <2> DEFINE it == [colisions[sv.i] EXCEPT !.next = NoNext]
             g == PlaceItem(it)
  <2>2. colisions[sv.i] \in Item
    BY <1>1, <2>1, ItemsRead DEF ServiceOK
  <2>3. it \in Item
    BY <2>2 DEF Item, NoNext
  <2>4. sv' = [g EXCEPT !.i = sv.i + 1]
    BY <1>3 DEF CopyColision
  <2> HIDE DEF it
  <2>5. g \in {sv, PlaceItem(it)}
    BY Zenon
  <2> HIDE DEF g
  <2> QED BY <2>1, <2>3, <2>4, <2>5, PlacingKeeps
<1>4. CASE CountColisions
  <2>1. pc[Service] = "copyItem" /\ pc' = [pc EXCEPT ![Service] = "copyColision"]
    BY <1>4 DEF CountColisions, Step
  <2>2. Quietly /\ increaseInProcess' \in BOOLEAN /\ increaseMutex' \in {"free", "held"}
    BY <1>1, <1>4 DEF CountColisions, table, stop, Quietly, TableOK
  <2>3. sv' = [sv EXCEPT !.i = 1, !.n = Len(colisions)]
    BY <1>4 DEF CountColisions
  <2>4. /\ DOMAIN sv' = DOMAIN sv /\ sv'.i = 1 /\ sv'.n = Len(colisions) /\ sv'.new = sv.new
        /\ sv'.tmp = sv.tmp
    BY <1>1, <2>3, Zenon DEF SvOK
  <2>5. SvOK'
    BY <1>1, <2>4 DEF SvOK, Heads
  <2>6. ServiceOK("copyColision")'
    BY <1>1, <2>1, <2>2, <2>4 DEF ServiceOK, Quietly, Phases, Assigning, Copying
  <2> QED BY <2>1, <2>2, <2>5, <2>6, QuietStepKeeps DEF Phases, Copying
<1> QED BY <1>2, <1>3, <1>4

(* The new vector replaces the old, then its size, then the collisions go. *)
LEMMA SwapsKeep ==
  ASSUME Inv, SwapItems \/ StoreSize \/ ResetColisions
  PROVE  Inv'
<1>1. /\ TableOK /\ SvOK /\ ServiceOK(pc[Service]) /\ IndexOK
      /\ size \in Nat /\ size > 0 /\ Multiple(size) /\ Len(sv.new) \in Nat
  BY ServiceFacts DEF TableOK
<1>2. 2 * size \in Nat /\ 2 * size > 0 /\ 2 * size >= size /\ Multiple(2 * size)
  BY <1>1, Doubled
<1>3. UNCHANGED <<count, currentCapacity, increaseInProcess, increaseMutex,
                  currentStopedThreadCount, busyThreadCount, sv, loc, calls>>
  BY DEF SwapItems, StoreSize, ResetColisions, stop
<1>4. loc' = [loc EXCEPT ![Service] = loc[Service]] /\ Local(loc[Service])
  BY <1>3, ServiceFacts
<1>5. SvOK'
  BY <1>1, <1>3 DEF SvOK, Heads
<1>6. CASE SwapItems
  <2>1. /\ pc[Service] = "swapItems" /\ pc' = [pc EXCEPT ![Service] = "storeSize"]
        /\ items' = sv.new /\ UNCHANGED <<colisions, size>>
    BY <1>6 DEF SwapItems, Step
  <2>2. Len(sv.new) = 2 * size /\ sv.new \in Seq(Item) /\ Heads(sv.new)
    BY <1>1, <2>1 DEF ServiceOK, Copying, SvOK
  <2>3. TableOK'
    BY <1>1, <1>3, <2>1, <2>2 DEF TableOK, Multiple, Heads
  <2>4. ServiceOK("storeSize")'
    BY <1>3, <2>1, <2>2 DEF ServiceOK, Phases, Assigning, Copying
  <2>5. IndexOK'
    BY <1>1, <1>3, <2>1 DEF IndexOK
  <2>6. ThreadOK("storeSize", loc[Service])
    BY <1>4, Outside DEF Phases, Copying
  <2> QED BY <1>4, <1>5, <2>1, <2>3, <2>4, <2>5, <2>6, ServiceStepKeeps
<1>7. CASE StoreSize
  <2>1. /\ pc[Service] = "storeSize" /\ pc' = [pc EXCEPT ![Service] = "clearFlag"]
        /\ size' = Len(sv.new) /\ UNCHANGED <<items, colisions>>
    BY <1>7 DEF StoreSize, Step, newSize
  <2>2. Len(sv.new) = 2 * size /\ Len(items) = 2 * size
    BY <1>1, <2>1 DEF ServiceOK, Copying
  <2>3. TableOK'
    BY <1>1, <1>2, <1>3, <2>1, <2>2 DEF TableOK, Multiple, Heads
  <2>4. ServiceOK("clearFlag")'
    BY <1>3, <2>1, <2>2 DEF ServiceOK, Phases, Assigning, Copying
  <2>5. IndexOK'
    <3>1. \A t \in Threads : loc[t].idx \in Nat
      BY DEF Inv, ThreadsOK, ThreadOK, Local
    <3> QED BY <1>1, <1>2, <1>3, <2>1, <2>2, <3>1 DEF IndexOK
  <2>6. ThreadOK("clearFlag", loc[Service])
    BY <1>4 DEF ThreadOK, Indexed, TouchesItem, CheckPlaces, ReadsColision
  <2> QED BY <1>4, <1>5, <2>1, <2>3, <2>4, <2>5, <2>6, ServiceStepKeeps
<1>8. CASE ResetColisions
  <2>1. /\ pc[Service] = "resetColisions" /\ pc' = [pc EXCEPT ![Service] = "readd"]
        /\ colisions' = <<>> /\ UNCHANGED <<items, size>>
    BY <1>8 DEF ResetColisions, Step
  <2>2. TableOK'
    BY <1>1, <1>3, <2>1 DEF TableOK, Multiple, Heads
  <2>3. ServiceOK("readd")'
    BY <1>1, <1>3, <2>1 DEF ServiceOK, Phases, Assigning, Copying
  <2>4. IndexOK'
    BY <1>1, <1>3, <2>1 DEF IndexOK
  <2>5. ThreadOK("readd", loc[Service])
    BY <1>4, Outside
  <2> QED BY <1>4, <1>5, <2>1, <2>2, <2>3, <2>4, <2>5, ServiceStepKeeps
<1> QED BY <1>6, <1>7, <1>8

LEMMA ReaddKeeps ==
  ASSUME Inv, Readd
  PROVE  Inv'
<1>1. /\ TableOK /\ SvOK /\ ServiceOK(pc[Service]) /\ IndexOK /\ size \in Nat
  BY ServiceFacts DEF TableOK
<1>2. /\ pc[Service] = "readd" /\ pc' = [pc EXCEPT ![Service] = "addSize"] /\ sv.tmp # <<>>
      /\ sv' = [sv EXCEPT !.tmp = Tail(sv.tmp)]
      /\ UNCHANGED <<items, colisions, size, count, currentCapacity, increaseInProcess,
                     increaseMutex, currentStopedThreadCount, busyThreadCount, calls>>
  BY DEF Readd, Step, table, stop
<1>3. sv.tmp \in Seq(Item) /\ sv.tmp[1] \in Item /\ Tail(sv.tmp) \in Seq(Item)
  BY <1>1, <1>2 DEF SvOK
<1> DEFINE k == sv.tmp[1].key
           v == sv.tmp[1].value
           l == [Idle EXCEPT !.key = k, !.val = v]
<1>4. k \in Keyed /\ v \in Seq(Sources)
  BY <1>3 DEF Item, Keyed
<1>5. loc' = [loc EXCEPT ![Service] = l]
  BY DEF Readd
<1> HIDE DEF k, v
<1>6. Local(l) /\ l.idx = 0
  BY <1>4, IdleLocal
<1> HIDE DEF l
<1>7. DOMAIN sv' = DOMAIN sv /\ sv'.new = sv.new /\ sv'.tmp = Tail(sv.tmp) /\ sv'.i = sv.i
      /\ sv'.n = sv.n
  BY <1>1, <1>2, Zenon DEF SvOK
<1>8. SvOK'
  BY <1>1, <1>3, <1>7 DEF SvOK, Heads
<1>9. TableOK'
  BY <1>1, <1>2 DEF TableOK, Multiple, Heads
<1>10. ServiceOK("addSize")'
  BY <1>1, <1>2 DEF ServiceOK, Phases, Assigning, Copying
<1>11. IndexOK'
  BY <1>1, <1>2, <1>5, <1>6 DEF IndexOK, Inv, ThreadsOK
<1>12. ThreadOK("addSize", l)
  BY <1>6, Outside
<1> QED BY <1>2, <1>5, <1>8, <1>9, <1>10, <1>11, <1>12, ServiceStepKeeps

(* The assignment of a new table, one member at a time. *)
LEMMA AssignKeeps ==
  ASSUME Inv, Assign
  PROVE  Inv'
<1>1. /\ TableOK /\ SvOK /\ ServiceOK(pc[Service]) /\ IndexOK
      /\ StartSize \in Nat /\ StartSize > 0 /\ Multiple(StartSize)
  BY ServiceFacts
<1>2. UNCHANGED <<increaseInProcess, increaseMutex, currentStopedThreadCount, sv, loc, calls>>
  BY DEF Assign, stop, table
<1>3. calls.cleared
  BY <1>1 DEF Assign, Step, ServiceOK, Phases, Assigning, Copying
<1>4. IndexOK' /\ SvOK'
  BY <1>1, <1>2, <1>3 DEF IndexOK, SvOK, Heads
<1>5. loc' = [loc EXCEPT ![Service] = loc[Service]] /\ Local(loc[Service])
  BY <1>2, ServiceFacts
<1>6. Cardinality(Callers) \in Nat
  BY ThreadsAssumption, FS_CardinalityType
<1>7. ASSUME NEW from, NEW p, Step(Service, from, p),
             p \in {"idle", "asgCount", "asgCapacity", "asgItems", "asgColisions", "asgBusy"},
             TableOK', ServiceOK(p)'
      PROVE  Inv'
  <2>1. ThreadOK(p, loc[Service])
    BY <1>5, <1>7, Outside DEF Phases, Assigning
  <2> QED BY <1>4, <1>5, <1>7, <2>1, ServiceStepKeeps DEF Step
<1>8. CASE pc[Service] = "asgSize"
  <2>1. /\ Step(Service, "asgSize", "asgCount") /\ size' = StartSize
        /\ UNCHANGED <<items, colisions, count, currentCapacity, busyThreadCount>>
    BY <1>8 DEF Assign, Step, stop
  <2>2. TableOK'
    BY <1>1, <1>2, <2>1 DEF TableOK, Multiple, Heads
  <2>3. ServiceOK("asgCount")'
    BY <1>2, <1>3, <2>1 DEF ServiceOK, Phases, Assigning, Copying
  <2> QED BY <1>7, <2>1, <2>2, <2>3
<1>9. CASE pc[Service] = "asgCount" \/ pc[Service] = "asgCapacity"
  <2>1. PICK p \in {"asgCapacity", "asgItems"} :
          /\ Step(Service, pc[Service], p) /\ count' \in Nat /\ currentCapacity' \in Nat
          /\ UNCHANGED <<items, colisions, size, busyThreadCount>>
    BY <1>1, <1>9 DEF Assign, Step, stop, TableOK
  <2>2. TableOK'
    BY <1>1, <1>2, <2>1 DEF TableOK, Multiple, Heads
  <2>3. size = StartSize
    BY <1>1, <1>9 DEF ServiceOK, Assigning
  <2>4. ServiceOK(p)'
    BY <1>2, <1>3, <2>1, <2>3 DEF ServiceOK, Phases, Assigning, Copying
  <2> QED BY <1>7, <2>1, <2>2, <2>4
<1>10. CASE pc[Service] = "asgItems"
  <2>1. /\ Step(Service, "asgItems", "asgColisions") /\ items' = createNewVector(StartSize)
        /\ UNCHANGED <<colisions, size, count, currentCapacity, busyThreadCount>>
    BY <1>10 DEF Assign, Step, stop
  <2>2. items' \in Seq(Item) /\ Len(items') = StartSize /\ Heads(items')
    BY <1>1, <2>1, EmptyTable
  <2>3. TableOK'
    BY <1>1, <1>2, <2>1, <2>2 DEF TableOK, Multiple, Heads
  <2>4. size = StartSize
    BY <1>1, <1>10 DEF ServiceOK, Assigning
  <2>5. ServiceOK("asgColisions")'
    BY <1>2, <1>3, <2>1, <2>2, <2>4 DEF ServiceOK, Phases, Assigning, Copying
  <2> QED BY <1>7, <2>1, <2>3, <2>5
<1>11. CASE pc[Service] = "asgColisions" \/ pc[Service] = "asgBusy"
  <2>1. PICK p \in {"asgBusy", "idle"} :
          /\ Step(Service, pc[Service], p) /\ colisions' \in Seq(Item)
          /\ busyThreadCount' \in 0..Cardinality(Callers)
          /\ UNCHANGED <<items, size, count, currentCapacity>>
    <3>1. CASE pc[Service] = "asgColisions"
      <4>1. /\ Step(Service, "asgColisions", "asgBusy") /\ colisions' = <<>>
            /\ UNCHANGED <<items, size, count, currentCapacity, busyThreadCount>>
        BY <3>1 DEF Assign, Step, stop
      <4>2. colisions' \in Seq(Item)
        BY <4>1
      <4> QED BY <1>1, <3>1, <4>1, <4>2 DEF TableOK
    <3>2. CASE pc[Service] = "asgBusy"
      <4>1. /\ Step(Service, "asgBusy", "idle") /\ busyThreadCount' = 0
            /\ UNCHANGED <<items, colisions, size, count, currentCapacity>>
        BY <3>2 DEF Assign, Step, table
      <4> QED BY <1>1, <1>6, <3>2, <4>1 DEF TableOK
    <3> QED BY <1>11, <3>1, <3>2
  <2>2. TableOK'
    BY <1>1, <1>2, <2>1 DEF TableOK, Multiple, Heads
  <2>3. Len(items) = size
    BY <1>1, <1>11 DEF ServiceOK, Assigning
  <2>4. ServiceOK(p)'
    BY <1>2, <1>3, <2>1, <2>3 DEF ServiceOK, Phases, Assigning, Copying
  <2> QED BY <1>7, <2>1, <2>2, <2>4
<1> QED BY <1>8, <1>9, <1>10, <1>11 DEF Assign, Step

LEMMA ServiceCallsKeep ==
  ASSUME Inv, CallIncrease \/ CallAssign
  PROVE  Inv'
<1>1. /\ TableOK /\ SvOK /\ ServiceOK(pc[Service]) /\ IndexOK
      /\ loc = [loc EXCEPT ![Service] = loc[Service]] /\ Local(loc[Service])
  BY ServiceFacts
<1>2. /\ pc[Service] = "idle"
      /\ UNCHANGED <<items, colisions, size, count, currentCapacity, increaseInProcess,
                     increaseMutex, currentStopedThreadCount, busyThreadCount, sv, loc>>
  BY DEF CallIncrease, CallAssign, Step, table, stop
<1>3. TableOK' /\ SvOK' /\ Len(items) = size
  BY <1>1, <1>2 DEF TableOK, SvOK, Multiple, Heads, ServiceOK, Assigning
<1>4. PICK p \in {"increase", "asgSize"} :
        /\ pc' = [pc EXCEPT ![Service] = p]
        /\ "cleared" \in DOMAIN calls'
        /\ calls'.cleared \/ calls'.cleared = calls.cleared
        /\ p = "asgSize" => calls'.cleared
  <2>1. CASE CallIncrease
    <3>1. calls' = [calls EXCEPT !.service = calls.service + 1]
      BY <2>1 DEF CallIncrease
    <3>2. "cleared" \in DOMAIN calls' /\ calls'.cleared = calls.cleared
      BY <3>1, CallsCounted
    <3>3. pc' = [pc EXCEPT ![Service] = "increase"]
      BY <2>1 DEF CallIncrease, Step
    <3> QED BY <3>2, <3>3
  <2>2. CASE CallAssign
    <3>1. calls' = [calls EXCEPT !.service = calls.service + 1, !.cleared = TRUE]
      BY <2>2 DEF CallAssign
    <3>2. "cleared" \in DOMAIN calls' /\ calls'.cleared
      BY <1>1, <3>1, Zenon DEF IndexOK
    <3>3. pc' = [pc EXCEPT ![Service] = "asgSize"]
      BY <2>2 DEF CallAssign, Step
    <3> QED BY <3>2, <3>3
  <2> QED BY <2>1, <2>2
<1>5. ServiceOK(p)'
  BY <1>2, <1>3, <1>4 DEF ServiceOK, Phases, Assigning, Copying
<1>6. IndexOK'
  <2>1. "cleared" \in DOMAIN calls'
    BY <1>4, Zenon
  <2>2. CASE calls'.cleared
    BY <2>1, <2>2, Zenon DEF IndexOK
  <2>3. CASE ~calls'.cleared
    <3>1. ~calls.cleared
      BY <1>4, <2>3, Zenon
    <3>2. \A t \in Threads : loc[t].idx <= size
      BY <1>1, <3>1, Zenon DEF IndexOK
    <3>3. \A t \in Threads : loc'[t].idx <= size'
      BY <1>2, <3>2
    <3> QED BY <2>1, <3>3, Zenon DEF IndexOK
  <2> QED BY <2>2, <2>3
<1>7. ThreadOK(p, loc[Service])
  BY <1>1, <1>4, Outside DEF Phases
<1>8. loc' = [loc EXCEPT ![Service] = loc[Service]]
  BY <1>1, <1>2
<1> QED BY <1>3, <1>4, <1>5, <1>6, <1>7, <1>8, ServiceStepKeeps

(***************************************************************************)
(* The theorems.                                                           *)
(***************************************************************************)
LEMMA InitInv == Init => Inv
<1> SUFFICES ASSUME Init PROVE Inv
  OBVIOUS
<1>1. StartSize \in Nat /\ StartSize > 0 /\ StartSize = 1 * StartSize /\ Multiple(StartSize)
  <2>1. StartSize \in Nat /\ StartSize > 0 /\ StartSize = 1 * StartSize
    BY SizesAssumption
  <2> QED BY <2>1 DEF Multiple
<1>2. Cardinality(Callers) \in Nat /\ UIntMod \in Nat /\ UIntMod > 0
  BY ThreadsAssumption, FS_CardinalityType, Wraps
<1>3. TableOK
  <2>1. items = createNewVector(StartSize) /\ size = StartSize
    BY DEF Init
  <2>2. items \in Seq(Item) /\ Heads(items)
    BY <1>1, <2>1, EmptyTable
  <2>3. /\ colisions \in Seq(Item) /\ size \in Nat /\ size > 0 /\ count \in Nat
        /\ currentCapacity \in Nat /\ Multiple(size)
    BY <1>1, <2>1 DEF Init
  <2>4. currentStopedThreadCount \in 0..(UIntMod - 1) /\ busyThreadCount \in 0..Cardinality(Callers)
    BY <1>2 DEF Init
  <2>5. increaseInProcess \in BOOLEAN /\ increaseMutex \in {"free", "held"}
    BY DEF Init
  <2> QED BY <2>2, <2>3, <2>4, <2>5 DEF TableOK
<1>4. \A t \in Threads : ThreadOK("idle", Idle)
  BY IdleLocal, Outside
<1>5. ThreadsOK
  <2>1. Callers \subseteq Threads
    BY DEF Threads
  <2> QED BY <1>4, <2>1 DEF Init, ThreadsOK, Phases, Assigning, Copying
<1>6. SvOK
  <2>1. /\ {"new", "tmp", "i", "n"} \subseteq DOMAIN NoIncrease /\ NoIncrease.new = <<>>
        /\ NoIncrease.tmp = <<>> /\ NoIncrease.i = 0 /\ NoIncrease.n = 0
    BY DEF NoIncrease
  <2> QED BY <2>1 DEF Init, SvOK, Heads
<1>7. ServiceOK(pc[Service])
  <2>1. pc[Service] = "idle" /\ Len(items) = size
    BY <1>1, EmptyTable DEF Init, Threads
  <2> QED BY <2>1 DEF ServiceOK, Phases, Assigning, Copying
<1>8. IndexOK
  <2>1. \A t \in Threads : loc[t] = Idle
    BY DEF Init
  <2>2. Idle.idx <= size
    <3>1. size = StartSize
      BY DEF Init
    <3>2. Idle.idx = 0
      BY IdleLocal, Zenon
    <3> QED BY <1>1, <3>1, <3>2
  <2>3. \A t \in Threads : loc[t].idx <= size
    BY <2>1, <2>2
  <2>4. "cleared" \in DOMAIN calls
    BY DEF Init
  <2> QED BY <2>3, <2>4 DEF IndexOK
<1> QED BY <1>3, <1>5, <1>6, <1>7, <1>8 DEF Inv

LEMMA NextInv == Inv /\ [Next]_vars => Inv'
<1> SUFFICES ASSUME Inv, [Next]_vars PROVE Inv'
  OBVIOUS
<1>1. ASSUME NEW t \in Threads, ThreadStep(t) PROVE Inv'
  BY <1>1, ChecksKeep, SizesKeep, ReadsKeep, WritesKeep, CountersKeep, LooksKeep, PushKeeps,
     GetsKeep, ReturnKeeps DEF ThreadStep
<1>2. CASE ServiceStep
  BY <1>2, FlagsKeep, StartKeeps, CopyingKeeps, SwapsKeep, ReaddKeeps, AssignKeeps
     DEF ServiceStep
<1>3. CASE CallIncrease \/ CallAssign
  BY <1>3, ServiceCallsKeep
<1>4. ASSUME NEW t \in Callers, NEW k \in Keys, CallGet(t, k) PROVE Inv'
  BY <1>4, CallersKeep
<1>5. ASSUME NEW t \in Callers, NEW k \in Keys, NEW v \in Values, CallAdd(t, k, v) PROVE Inv'
  BY <1>5, CallersKeep
<1>6. ASSUME NEW n \in 0..Cardinality(Callers), SetBusyThreadCount(n) PROVE Inv'
  BY <1>6, BusyKeeps
<1>7. CASE UNCHANGED vars
  <2>1. UNCHANGED <<items, colisions, size, count, currentCapacity, increaseInProcess,
                    increaseMutex, currentStopedThreadCount, busyThreadCount, pc, loc, sv, calls>>
    BY <1>7 DEF vars, table, stop
  <2>2. TableOK'
    BY <2>1 DEF Inv, TableOK, Multiple, Heads
  <2>3. ThreadsOK' /\ IndexOK'
    BY <2>1 DEF Inv, ThreadsOK, IndexOK
  <2>4. SvOK' /\ ServiceOK(pc[Service])'
    BY <2>1 DEF Inv, SvOK, Heads, ServiceOK
  <2> QED BY <2>2, <2>3, <2>4 DEF Inv
<1> QED BY <1>1, <1>2, <1>3, <1>4, <1>5, <1>6, <1>7 DEF Next

LEMMA InvHolds == Spec => []Inv
BY InitInv, NextInv, PTL DEF Spec

(* TypeOK, for any callers, keys, sources and sizes (HashTable.h). *)
THEOREM TableTyped == Spec => []TypeOK
<1>1. Inv => TypeOK
  BY DEF Inv, TypeOK, TableOK, ThreadsOK, ThreadOK, Local
<1> QED BY <1>1, InvHolds, PTL

(* IndexInRange: unless the table is replaced, no thread uses an index past the end of   *)
(* items, though it was computed from a size read before the table grew (HashTable::add).*)
THEOREM StaleIndexInRange == Spec => []IndexInRange
<1>1. Inv => IndexInRange
  <2> SUFFICES ASSUME Inv, ~calls.cleared, NEW t \in Threads PROVE InItems(t)
    BY DEF IndexInRange
  <2>1. loc[t].idx <= size /\ loc[t].idx \in Nat /\ size \in Nat /\ Len(items) \in Nat
    BY DEF Inv, IndexOK, TableOK, ThreadsOK, ThreadOK, Local
  <2>2. Len(items) = size \/ Len(items) = 2 * size
    BY DEF Inv, ServiceOK, Phases, Assigning, Copying
  <2> QED BY <2>1, <2>2 DEF InItems
<1> QED BY <1>1, InvHolds, PTL

(* HeadInClass: however stale the index a key was written at, the key stays among the    *)
(* cells of its hash modulo the start size, for the sizes are doubled (increaseTable).   *)
THEOREM StaleIndexInClass == Spec => []HeadInClass
<1>1. Inv => HeadInClass
  BY DEF Inv, TableOK, Heads, HeadInClass, InClass
<1> QED BY <1>1, InvHolds, PTL
=============================================================================
