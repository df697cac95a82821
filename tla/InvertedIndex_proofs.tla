------------------------ MODULE InvertedIndex_proofs ------------------------
(***************************************************************************)
(* Proofs about InvertedIndex, for any callers, words, queries and bounds:  *)
(* words and ids stay sound unless two adds have been giving out ids at     *)
(* once; the service thread outlives its run's requests, leaves nothing     *)
(* queued behind, and handles every exception once.                         *)
(***************************************************************************)
EXTENDS InvertedIndex, SequenceTheorems, TLAPS

(* Initially no word is known and nobody gives out an id. *)
LEMMA InitIds == Init => IdInv
<1> SUFFICES ASSUME Init PROVE IdInv
  OBVIOUS
<1>1. IdsTyped
  <2>1. dictionary \in [Words -> Seq(Nat \ {0})] /\ todo \in [Callers -> Seq(Words)]
    BY DEF Init
  <2>2. pc \in [Callers -> CallerPC]
    BY DEF Init, CallerPC
  <2>5. id \in [Callers -> Nat]
    BY DEF Init
  <2>3. \A c \in Callers : pc[c] = "idle"
    BY DEF Init
  <2>4. dictIdCounter \in Nat \ {0}
    BY DEF Init
  <2>6. raced \in BOOLEAN
    BY Zenon DEF Init
  <2> QED
    BY <2>1, <2>2, <2>3, <2>4, <2>5, <2>6 DEF IdsTyped, GivingId
<1>2. OneGiver /\ UnknownUntilAdded /\ IdsCounted
  BY DEF Init, OneGiver, UnknownUntilAdded, IdsCounted, IdsOf, GivingId
<1>3. WordIdsSound
  BY DEF Init, WordIdsSound, IdsOf
<1> QED
  BY <1>1, <1>2, <1>3 DEF IdInv

(* A step of the service or the server thread forgets words and gives none an
   id. *)
LEMMA ForgettingKeepsIds ==
  ASSUME IdInv,
         UNCHANGED <<dictIdCounter, pc, todo, id, raced>>,
         dictionary' \in [Words -> Seq(Nat \ {0})],
         \A w \in Words : dictionary'[w] = dictionary[w] \/ dictionary'[w] = <<>>
  PROVE  IdInv'
<1>1. IdsTyped'
  BY DEF IdInv, IdsTyped
<1>2. \A w \in Words : IdsOf(w)' \subseteq IdsOf(w)
  BY DEF IdsOf
<1>3. ASSUME ~raced' PROVE (OneGiver /\ UnknownUntilAdded /\ IdsCounted)'
  <2>1. OneGiver /\ UnknownUntilAdded /\ IdsCounted
    BY <1>3 DEF IdInv
  <2>2. OneGiver'
    BY <2>1 DEF OneGiver
  <2>3. UnknownUntilAdded'
    <3> SUFFICES ASSUME NEW c \in Callers
                 PROVE  /\ pc[c] \in {"readId", "dictAdd"} => dictionary'[todo[c][1]] = <<>>
                        /\ pc[c] = "dictAdd" => id[c] = dictIdCounter
      BY DEF UnknownUntilAdded
    <3>1. pc[c] = "dictAdd" => id[c] = dictIdCounter
      BY <2>1 DEF UnknownUntilAdded
    <3>2. ASSUME pc[c] \in {"readId", "dictAdd"} PROVE dictionary'[todo[c][1]] = <<>>
      <4>1. todo[c][1] \in Words
        BY <3>2 DEF IdInv, IdsTyped, GivingId
      <4> QED
        BY <3>2, <4>1, <2>1 DEF UnknownUntilAdded
    <3> QED
      BY <3>1, <3>2
  <2>4. IdsCounted'
    BY <1>2, <2>1 DEF IdsCounted
  <2> QED
    BY <2>2, <2>3, <2>4
<1>4. WordIdsSound'
  <2>1. CASE raced
    BY <2>1 DEF WordIdsSound
  <2>2. CASE ~raced
    <3>1. \A w \in Words : Len(dictionary[w]) <= 1
                           /\ \A v \in Words \ {w} : IdsOf(v) \cap IdsOf(w) = {}
      BY <2>2 DEF IdInv, WordIdsSound
    <3>2. \A w \in Words : Len(dictionary'[w]) <= 1
      BY <3>1
    <3>3. \A w \in Words : \A v \in Words \ {w} : IdsOf(v)' \cap IdsOf(w)' = {}
      BY <3>1, <1>2
    <3> QED
      BY <3>2, <3>3 DEF WordIdsSound
  <2> QED
    BY <2>1, <2>2
<1> QED
  BY <1>1, <1>3, <1>4 DEF IdInv

(* WordIdsSound is about the dictionary and the history alone. *)
LEMMA SameDictionary ==
  ASSUME WordIdsSound, dictionary' = dictionary, raced' = raced
  PROVE  WordIdsSound'
<1>1. \A w \in Words : IdsOf(w)' = IdsOf(w)
  BY DEF IdsOf
<1>2. CASE raced
  BY <1>2 DEF WordIdsSound
<1>3. CASE ~raced
  BY <1>1, <1>3 DEF WordIdsSound
<1> QED
  BY <1>2, <1>3

(* A caller moves outside the places where ids are given: to none of
   readId, dictAdd and count, or not at all. *)
LEMMA MovingKeepsIds ==
  ASSUME IdInv, NEW c \in Callers, NEW l \in CallerPC, l \notin GivingId,
         pc[c] # "count", l = "tableAdd" => todo'[c] # <<>>,
         pc' = [pc EXCEPT ![c] = l],
         todo' \in [Callers -> Seq(Words)], id' \in [Callers -> Nat],
         \A d \in Callers \ {c} : todo'[d] = todo[d] /\ id'[d] = id[d],
         UNCHANGED <<dictionary, dictIdCounter, raced>>
  PROVE  IdInv'
<1>1. \A d \in Callers : d # c => pc'[d] = pc[d]
  BY DEF IdInv, IdsTyped
<1>2. pc'[c] = l
  BY DEF IdInv, IdsTyped
<1>3. IdsTyped'
  BY <1>1, <1>2 DEF IdInv, IdsTyped, GivingId
<1>4. (raced \/ (OneGiver /\ UnknownUntilAdded /\ IdsCounted))'
  <2> SUFFICES ASSUME OneGiver, UnknownUntilAdded, IdsCounted
               PROVE  OneGiver' /\ UnknownUntilAdded' /\ IdsCounted'
    BY DEF IdInv
  <2>1. OneGiver'
    BY <1>1, <1>2 DEF OneGiver
  <2>2. UnknownUntilAdded'
    BY <1>1, <1>2 DEF UnknownUntilAdded, GivingId
  <2>3. IdsCounted'
    BY <1>1 DEF IdsCounted, IdsOf
  <2> QED
    BY <2>1, <2>2, <2>3
<1>5. WordIdsSound'
  BY SameDictionary DEF IdInv
<1> QED
  BY <1>3, <1>4, <1>5 DEF IdInv

(* Each step of a caller. *)
LEMMA CallerKeepsIds ==
  ASSUME IdInv, NEW c \in Callers,
         CallerStep(c) \/ \E query \in Queries : CallAdd(c, query)
  PROVE  IdInv'
<1> USE DEF GivingId
<1> DEFINE word == todo[c][1]
<1>1. /\ dictionary \in [Words -> Seq(Nat \ {0})] /\ dictIdCounter \in Nat \ {0}
      /\ pc \in [Callers -> CallerPC] /\ todo \in [Callers -> Seq(Words)]
      /\ id \in [Callers -> Nat] /\ WordIdsSound
      /\ \A d \in Callers : pc[d] \in GivingId \cup {"tableAdd"} => todo[d] # <<>>
      /\ \A d \in Callers : pc[d] = "dictAdd" => id[d] # 0
  BY DEF IdInv, IdsTyped
<1>2. ASSUME NEW query \in Queries, CallAdd(c, query) PROVE IdInv'
  <2>1. query \in Seq(Words)
    BY QueriesAssumption
  <2>2. /\ pc[c] = "idle" /\ pc' = [pc EXCEPT ![c] = "word"]
        /\ todo' = [todo EXCEPT ![c] = query] /\ UNCHANGED <<dictionary, dictIdCounter, raced, id>>
    BY <1>2 DEF CallAdd, Goto, index
  <2>3. "word" \in CallerPC /\ "word" \notin GivingId
    BY DEF CallerPC
  <2>4. /\ todo' \in [Callers -> Seq(Words)] /\ id' \in [Callers -> Nat]
        /\ \A d \in Callers \ {c} : todo'[d] = todo[d] /\ id'[d] = id[d]
    BY <1>1, <2>1, <2>2
  <2> QED
    BY <2>2, <2>3, <2>4, MovingKeepsIds
<1>3. CASE DictGet(c)
  <2>1. /\ pc[c] = "word"
        /\ UNCHANGED <<dictionary, dictIdCounter, todo>>
    BY <1>3 DEF DictGet, Goto, index
  <2>2. CASE todo[c] = <<>>
    <3>1. pc' = [pc EXCEPT ![c] = "idle"] /\ UNCHANGED <<id, raced>>
      BY <1>3, <2>2 DEF DictGet, Goto
    <3>2. "idle" \in CallerPC /\ "idle" \notin GivingId
      BY DEF CallerPC
    <3> QED
      BY <1>1, <2>1, <3>1, <3>2, MovingKeepsIds
  <2>3. CASE todo[c] # <<>> /\ dictionary[word] # <<>>
    <3>1. /\ pc' = [pc EXCEPT ![c] = "tableAdd"] /\ UNCHANGED raced
          /\ id' = [id EXCEPT ![c] = dictionary[word][1]]
      BY <1>3, <2>3 DEF DictGet, Goto
    <3>2. "tableAdd" \in CallerPC /\ "tableAdd" \notin GivingId
      BY DEF CallerPC
    <3>3. word \in Words
      BY <1>1, <2>3
    <3>4. dictionary[word][1] \in Nat
      BY <1>1, <2>3, <3>3
    <3>5. /\ id' \in [Callers -> Nat]
          /\ \A d \in Callers \ {c} : id'[d] = id[d]
      BY <1>1, <3>1, <3>4
    <3>6. todo'[c] # <<>>
      BY <2>1, <2>3
    <3> QED
      BY <1>1, <2>1, <3>1, <3>2, <3>5, <3>6, MovingKeepsIds
  <2>4. CASE todo[c] # <<>> /\ dictionary[word] = <<>>
    <3>1. /\ pc' = [pc EXCEPT ![c] = "readId"] /\ UNCHANGED id
          /\ raced' = (raced \/ \E d \in Callers \ {c} : pc[d] \in GivingId)
      BY <1>3, <2>4, Zenon DEF DictGet, Goto
    <3>2. pc'[c] = "readId" /\ \A d \in Callers : d # c => pc'[d] = pc[d]
      BY <1>1, <3>1
    <3>3. raced' \in BOOLEAN
      BY <3>1, Zenon
    <3>4. pc' \in [Callers -> CallerPC]
      BY <1>1, <3>1 DEF CallerPC
    <3>5. IdsTyped'
      BY <1>1, <2>1, <2>4, <3>1, <3>2, <3>3, <3>4 DEF IdsTyped
    <3>6. ASSUME ~raced'
          PROVE  ~raced /\ \A d \in Callers : d # c => pc[d] \notin GivingId
      BY <3>1, <3>6, Zenon
    <3>7. ASSUME ~raced' PROVE (OneGiver /\ UnknownUntilAdded /\ IdsCounted)'
      <4>1. ~raced /\ \A d \in Callers : d # c => pc[d] \notin GivingId
        BY <3>6, <3>7
      <4>2. IdsCounted
        BY <4>1 DEF IdInv
      <4>3. OneGiver'
        BY <3>2, <4>1 DEF OneGiver
      <4>4. UnknownUntilAdded'
        BY <2>1, <2>4, <3>2, <4>1 DEF UnknownUntilAdded
      <4>5. IdsCounted'
        BY <2>1, <3>2, <4>1, <4>2 DEF IdsCounted, IdsOf
      <4> QED
        BY <4>3, <4>4, <4>5
    <3>8. WordIdsSound'
      <4>1. CASE raced'
        BY <4>1 DEF WordIdsSound
      <4>2. CASE ~raced'
        <5>1. \A w \in Words : IdsOf(w)' = IdsOf(w)
          BY <2>1 DEF IdsOf
        <5> QED
          BY <1>1, <2>1, <3>6, <4>2, <5>1 DEF WordIdsSound
      <4> QED
        BY <4>1, <4>2
    <3> QED
      BY <3>5, <3>7, <3>8 DEF IdInv
  <2> QED
    BY <2>2, <2>3, <2>4
<1>4. CASE ReadId(c)
  <2>1. /\ pc[c] = "readId" /\ pc' = [pc EXCEPT ![c] = "dictAdd"]
        /\ id' = [id EXCEPT ![c] = dictIdCounter]
        /\ UNCHANGED <<dictionary, dictIdCounter, todo, raced>>
    BY <1>4 DEF ReadId, Goto, index
  <2>2. /\ pc'[c] = "dictAdd" /\ id'[c] = dictIdCounter
        /\ \A d \in Callers : d # c => pc'[d] = pc[d] /\ id'[d] = id[d]
    BY <1>1, <2>1
  <2>3. pc' \in [Callers -> CallerPC] /\ id' \in [Callers -> Nat]
    BY <1>1, <2>1 DEF CallerPC
  <2>4. IdsTyped'
    BY <2>1, <2>2, <2>3 DEF IdInv, IdsTyped
  <2>5. ASSUME OneGiver, UnknownUntilAdded, IdsCounted
        PROVE  OneGiver' /\ UnknownUntilAdded' /\ IdsCounted'
    <3>1. OneGiver'
      BY <2>1, <2>2, <2>5 DEF OneGiver
    <3>2. UnknownUntilAdded'
      BY <2>1, <2>2, <2>5 DEF UnknownUntilAdded
    <3>3. IdsCounted'
      BY <2>1, <2>2, <2>5 DEF IdsCounted, IdsOf
    <3> QED
      BY <3>1, <3>2, <3>3
  <2>6. WordIdsSound'
    BY <2>1, <1>1, SameDictionary
  <2> QED
    BY <2>1, <2>4, <2>5, <2>6 DEF IdInv
<1>5. CASE DictAdd(c)
  <2>1. /\ pc[c] = "dictAdd" /\ word \in Words /\ id[c] \in Nat \ {0}
        /\ UNCHANGED <<dictIdCounter, todo, id, raced>>
    BY <1>1, <1>5 DEF DictAdd, Goto
  <2>2. CASE /\ pc' = [pc EXCEPT ![c] = "count"]
             /\ dictionary' = [dictionary EXCEPT ![word] = Append(dictionary[word], id[c])]
    <3>1. pc'[c] = "count" /\ \A d \in Callers : d # c => pc'[d] = pc[d]
      BY <1>1, <2>2
    <3>2. pc' \in [Callers -> CallerPC]
      BY <1>1, <2>2 DEF CallerPC
    <3>3. Append(dictionary[word], id[c]) \in Seq(Nat \ {0})
      BY <1>1, <2>1
    <3>4. dictionary' \in [Words -> Seq(Nat \ {0})]
      BY <1>1, <2>2, <3>3
    <3>5. IdsTyped'
      BY <2>1, <3>1, <3>2, <3>4 DEF IdInv, IdsTyped
    <3>6. ASSUME OneGiver, UnknownUntilAdded, IdsCounted
          PROVE  /\ id[c] = dictIdCounter
                 /\ \A w \in Words : w = word =>
                       Len(dictionary'[w]) = 1 /\ IdsOf(w)' = {dictIdCounter}
                 /\ \A w \in Words : w # word =>
                       dictionary'[w] = dictionary[w] /\ IdsOf(w)' = IdsOf(w)
                 /\ \A w \in Words : \A n \in IdsOf(w) : n < dictIdCounter
                 /\ \A d \in Callers : d # c => pc[d] \notin GivingId
      <4>1. id[c] = dictIdCounter /\ dictionary[word] = <<>>
        BY <2>1, <3>6 DEF UnknownUntilAdded
      <4>2. dictionary'[word] = <<dictIdCounter>>
        BY <1>1, <2>1, <2>2, <4>1
      <4>3. ASSUME NEW w \in Words, w = word
            PROVE  Len(dictionary'[w]) = 1 /\ IdsOf(w)' = {dictIdCounter}
        <5>1. /\ Len(<<dictIdCounter>>) = 1 /\ DOMAIN <<dictIdCounter>> = {1}
              /\ <<dictIdCounter>>[1] = dictIdCounter
          OBVIOUS
        <5>2. dictionary'[w] = <<dictIdCounter>>
          BY <4>2, <4>3
        <5>3. Len(dictionary'[w]) = 1 /\ DOMAIN dictionary'[w] = {1} /\ dictionary'[w][1] = dictIdCounter
          BY <5>1, <5>2
        <5> QED
          BY <5>3 DEF IdsOf
      <4>4. \A w \in Words : w # word =>
              dictionary'[w] = dictionary[w] /\ IdsOf(w)' = IdsOf(w)
        BY <1>1, <2>2 DEF IdsOf
      <4>5. \A d \in Callers : d # c => pc[d] \notin GivingId
        BY <2>1, <3>6 DEF OneGiver
      <4>6. \A w \in Words : \A n \in IdsOf(w) : n < dictIdCounter
        BY <2>1, <3>6, <4>5 DEF IdsCounted
      <4> QED
        BY <4>1, <4>2, <4>3, <4>4, <4>5, <4>6
    <3>7. ASSUME OneGiver, UnknownUntilAdded, IdsCounted
          PROVE  OneGiver' /\ UnknownUntilAdded' /\ IdsCounted'
      <4>1. OneGiver'
        BY <3>1, <3>6, <3>7 DEF OneGiver
      <4>2. UnknownUntilAdded'
        BY <3>1, <3>6, <3>7 DEF UnknownUntilAdded
      <4>3. IdsCounted'
        BY <2>1, <3>1, <3>6, <3>7 DEF IdsCounted
      <4> QED
        BY <4>1, <4>2, <4>3
    <3>8. WordIdsSound'
      <4>1. CASE raced
        BY <2>1, <4>1 DEF WordIdsSound
      <4>2. CASE ~raced
        <5>1. OneGiver /\ UnknownUntilAdded /\ IdsCounted
          BY <4>2 DEF IdInv
        <5>2. \A w \in Words : Len(dictionary'[w]) <= 1
          <6> SUFFICES ASSUME NEW w \in Words PROVE Len(dictionary'[w]) <= 1
            OBVIOUS
          <6>1. CASE w = word
            <7>1. Len(dictionary'[w]) = 1
              BY <3>6, <5>1, <6>1
            <7> QED
              BY <7>1
          <6>2. CASE w # word
            BY <1>1, <3>6, <4>2, <5>1, <6>2 DEF WordIdsSound
          <6> QED
            BY <6>1, <6>2
        <5>3. \A w \in Words : \A v \in Words \ {w} : IdsOf(v)' \cap IdsOf(w)' = {}
          <6> SUFFICES ASSUME NEW w \in Words, NEW v \in Words \ {w}
                       PROVE  IdsOf(v)' \cap IdsOf(w)' = {}
            OBVIOUS
          <6>1. IdsOf(v) \cap IdsOf(w) = {}
            BY <1>1, <4>2 DEF WordIdsSound
          <6>2. dictIdCounter \notin IdsOf(v) /\ dictIdCounter \notin IdsOf(w)
            BY <1>1, <3>6, <5>1
          <6>3. CASE v = word
            <7>1. IdsOf(v)' = {dictIdCounter} /\ IdsOf(w)' = IdsOf(w)
              BY <3>6, <5>1, <6>3
            <7> QED
              BY <6>2, <7>1
          <6>4. CASE w = word
            <7>1. IdsOf(w)' = {dictIdCounter} /\ IdsOf(v)' = IdsOf(v)
              BY <3>6, <5>1, <6>4
            <7> QED
              BY <6>2, <7>1
          <6>5. CASE v # word /\ w # word
            <7>1. IdsOf(w)' = IdsOf(w) /\ IdsOf(v)' = IdsOf(v)
              BY <3>6, <5>1, <6>5
            <7> QED
              BY <6>1, <7>1
          <6> QED
            BY <6>3, <6>4, <6>5
        <5> QED
          BY <5>2, <5>3 DEF WordIdsSound
      <4> QED
        BY <4>1, <4>2
    <3> QED
      BY <2>1, <3>5, <3>7, <3>8 DEF IdInv
  <2>3. ASSUME NEW l \in {"FULL_DICT", "MAX_DICT"},
               pc' = [pc EXCEPT ![c] = l], UNCHANGED dictionary
        PROVE  IdInv'
    <3>1. l \in CallerPC /\ l \notin GivingId
      BY DEF CallerPC, Kinds
    <3> QED
      BY <1>1, <2>1, <2>3, <3>1, MovingKeepsIds
  <2> QED
    BY <1>5, <2>2, <2>3 DEF DictAdd, Goto
<1>6. CASE Count(c)
  <2>1. /\ pc[c] = "count" /\ pc' = [pc EXCEPT ![c] = "tableAdd"]
        /\ dictIdCounter' = dictIdCounter + 1
        /\ UNCHANGED <<dictionary, todo, id, raced>>
    BY <1>6 DEF Count, Goto
  <2>2. pc'[c] = "tableAdd" /\ \A d \in Callers : d # c => pc'[d] = pc[d]
    BY <1>1, <2>1
  <2>3. pc' \in [Callers -> CallerPC]
    BY <1>1, <2>1 DEF CallerPC
  <2>4. IdsTyped'
    BY <2>1, <2>2, <2>3 DEF IdInv, IdsTyped
  <2>5. ASSUME OneGiver, UnknownUntilAdded, IdsCounted
        PROVE  OneGiver' /\ UnknownUntilAdded' /\ IdsCounted'
    <3>1. \A d \in Callers : pc'[d] \notin GivingId
      BY <2>1, <2>2, <2>5 DEF OneGiver
    <3>2. OneGiver' /\ UnknownUntilAdded'
      BY <3>1 DEF OneGiver, UnknownUntilAdded
    <3>3. \A w \in Words : \A n \in IdsOf(w) : n < dictIdCounter'
      <4> SUFFICES ASSUME NEW w \in Words, NEW n \in IdsOf(w) PROVE n < dictIdCounter'
        OBVIOUS
      <4>1. n < dictIdCounter \/ n = dictIdCounter
        BY <2>5 DEF IdsCounted
      <4>2. n \in Nat
        BY <1>1 DEF IdsOf
      <4> QED
        BY <1>1, <2>1, <4>1, <4>2
    <3>4. IdsCounted'
      BY <2>1, <3>3 DEF IdsCounted, IdsOf
    <3> QED
      BY <3>2, <3>4
  <2>6. WordIdsSound'
    BY <2>1, <1>1, SameDictionary
  <2> QED
    BY <2>1, <2>4, <2>5, <2>6 DEF IdInv
<1>7. CASE TableAdd(c)
  <2>1. pc[c] = "tableAdd" /\ UNCHANGED <<dictionary, dictIdCounter, raced>>
    BY <1>7 DEF TableAdd, Goto
  <2>2. PICK l \in {"word", "FULL_TABLE", "MAX_TABLE"} : pc' = [pc EXCEPT ![c] = l]
    BY <1>7 DEF TableAdd, Goto
  <2>3. l \in CallerPC /\ l \notin GivingId
    BY DEF CallerPC, Kinds
  <2>4. \/ id' = [id EXCEPT ![c] = 0] /\ todo' = [todo EXCEPT ![c] = Tail(todo[c])]
        \/ UNCHANGED <<todo, id>>
    BY <1>7 DEF TableAdd
  <2>5. /\ id' \in [Callers -> Nat]
        /\ \A d \in Callers \ {c} : id'[d] = id[d]
    BY <1>1, <2>4
  <2>6. Tail(todo[c]) \in Seq(Words)
    BY <1>1, <2>1
  <2>7. /\ todo' \in [Callers -> Seq(Words)]
        /\ \A d \in Callers \ {c} : todo'[d] = todo[d]
    BY <1>1, <2>4, <2>6
  <2> QED
    BY <2>1, <2>2, <2>3, <2>5, <2>7, MovingKeepsIds
<1>8. CASE RaiseRefusal(c)
  <2>1. /\ pc[c] \in Kinds /\ pc' = [pc EXCEPT ![c] = "notify"]
        /\ UNCHANGED <<dictionary, dictIdCounter, todo, id, raced>>
    BY <1>8 DEF RaiseRefusal, index
  <2>2. /\ pc[c] # "count" /\ "notify" \in CallerPC /\ "notify" \notin GivingId
    BY <2>1 DEF CallerPC, Kinds
  <2> QED
    BY <1>1, <2>1, <2>2, MovingKeepsIds
<1>9. CASE Notify(c)
  <2>1. /\ pc[c] = "notify" /\ pc' = [pc EXCEPT ![c] = "idle"]
        /\ todo' = [todo EXCEPT ![c] = <<>>] /\ id' = [id EXCEPT ![c] = 0]
        /\ UNCHANGED <<dictionary, dictIdCounter, raced>>
    BY <1>9 DEF Notify, Goto, index
  <2>2. "idle" \in CallerPC /\ "idle" \notin GivingId
    BY DEF CallerPC
  <2>3. /\ todo' \in [Callers -> Seq(Words)] /\ id' \in [Callers -> Nat]
        /\ \A d \in Callers \ {c} : todo'[d] = todo[d] /\ id'[d] = id[d]
    BY <1>1, <2>1
  <2> QED
    BY <2>1, <2>2, <2>3, MovingKeepsIds
<1> QED
  BY <1>2, <1>3, <1>4, <1>5, <1>6, <1>7, <1>8, <1>9 DEF CallerStep

(* Each step of the service thread forgets words at most. *)
LEMMA ServiceKeepsIds ==
  ASSUME IdInv, ServiceStep \/ SpuriousWakeup
  PROVE  IdInv'
<1>1. dictionary \in [Words -> Seq(Nat \ {0})]
  BY DEF IdInv, IdsTyped
<1>2. UNCHANGED <<dictIdCounter, pc, todo, id, raced>>
  BY DEF ServiceStep, SpuriousWakeup, index, caller, Enter, CheckFinish, PredSize, PredFinish,
         Doze, ReadSize, Back, Grow, GrowRefused, SaveTable, ChangeFiles, ClearTable,
         ClearDictionary, Pop
<1>3. ASSUME UNCHANGED dictionary PROVE IdInv'
  BY <1>1, <1>2, <1>3, ForgettingKeepsIds
<1>4. CASE Grow
  <2>1. CASE UNCHANGED dictionary
    BY <2>1, <1>3
  <2>2. ASSUME NEW kept \in SUBSET Words,
               dictionary' = [w \in Words |-> IF w \in kept THEN dictionary[w] ELSE <<>>]
        PROVE  IdInv'
    BY <1>1, <1>2, <2>2, ForgettingKeepsIds
  <2> QED
    BY <1>4, <2>1, <2>2 DEF Grow
<1>5. CASE ClearDictionary
  <2>1. dictionary' = [w \in Words |-> <<>>]
    BY <1>5 DEF ClearDictionary
  <2> QED
    BY <1>2, <2>1, ForgettingKeepsIds
<1>6. CASE ServiceStep /\ ~Grow /\ ~ClearDictionary
  BY <1>3, <1>6 DEF ServiceStep, index, Enter, CheckFinish, PredSize, PredFinish, Doze, ReadSize,
         Back, GrowRefused, SaveTable, ChangeFiles, ClearTable, Pop
<1>7. CASE SpuriousWakeup
  BY <1>3, <1>7 DEF SpuriousWakeup, index
<1> QED
  BY <1>4, <1>5, <1>6, <1>7

(* So does each step of the server thread. *)
LEMMA ServerKeepsIds ==
  ASSUME IdInv, MainStep \/ StartRun \/ PoolJoined
  PROVE  IdInv'
<1>1. dictionary \in [Words -> Seq(Nat \ {0})]
  BY DEF IdInv, IdsTyped
<1>2. UNCHANGED <<dictIdCounter, pc, todo, id, raced>>
  BY DEF MainStep, StartRun, PoolJoined, Drained, SetFinish, NotifyService, ServiceJoined,
         index, caller
<1>3. \/ UNCHANGED dictionary
      \/ dictionary' = [w \in Words |-> <<>>]
  BY DEF MainStep, StartRun, PoolJoined, Drained, SetFinish, NotifyService, ServiceJoined, index
<1>4. CASE UNCHANGED dictionary
  BY <1>1, <1>2, <1>4, ForgettingKeepsIds
<1>5. CASE dictionary' = [w \in Words |-> <<>>]
  BY <1>2, <1>5, ForgettingKeepsIds
<1> QED
  BY <1>3, <1>4, <1>5

LEMMA AlwaysIds == Spec => []IdInv
<1>1. IdInv /\ [Next]_vars => IdInv'
  <2> SUFFICES ASSUME IdInv, [Next]_vars PROVE IdInv'
    OBVIOUS
  <2>1. CASE UNCHANGED vars
    <3>1. UNCHANGED <<dictionary, dictIdCounter, pc, todo, id, raced>>
      BY <2>1 DEF vars, index, caller
    <3>2. dictionary' \in [Words -> Seq(Nat \ {0})]
      BY <3>1 DEF IdInv, IdsTyped
    <3> QED
      BY <3>1, <3>2, ForgettingKeepsIds
  <2>2. ASSUME NEW c \in Callers,
               CallerStep(c) \/ \E query \in Queries : CallAdd(c, query)
        PROVE  IdInv'
    BY <2>2, CallerKeepsIds
  <2>3. CASE ServiceStep \/ SpuriousWakeup
    BY <2>3, ServiceKeepsIds
  <2>4. CASE MainStep \/ StartRun \/ PoolJoined
    BY <2>4, ServerKeepsIds
  <2> QED
    BY <2>1, <2>2, <2>3, <2>4 DEF Next
<1> QED
  BY <1>1, InitIds, PTL DEF Spec

(* For every number of callers and words, and for any queries: unless two adds
   have been between finding a word unknown and counting its id at once, a word
   has at most one id and shares it with no other, whatever the service thread
   grows, loses and clears meanwhile. *)
THEOREM WordIds == Spec => []WordIdsSound
<1>1. IdInv => WordIdsSound
  BY DEF IdInv
<1> QED
  BY <1>1, AlwaysIds, PTL

(***************************************************************************)
(* The service thread.                                                     *)
(***************************************************************************)
Mains == {"start", "serve", "drain", "setFinish", "notifyService", "join"}

(* Between taking an exception from the back and popping the front. *)
Handling == {"handle", "clearTable", "clearDict", "pop"}

(* A run and its service: FINISH is either of the run before, and about to be
   overwritten, or the run's own. *)
Together ==
  /\ main \in Mains
  /\ main = "start" => service \in {"idle", "done"}
  /\ main \in {"serve", "drain", "setFinish"} =>
       service \notin {"idle", "done"} /\ (serviceFinish => service = "enter")

(* Once the pool is joined nobody is inside add; the service alone pops, so that
   what it has seen queued stays until then. *)
CallersGone == main # "serve" => \A c \in Callers : pc[c] = "idle"
BackReady == service \in Handling \cup {"back"} => exceptionQueue # <<>>
DrainedStays ==
  ~evenNonEmptyQueue /\ main \in {"setFinish", "notifyService", "join"}
    => exceptionQueue = <<>>

QueueTyped == raised \in Nat /\ exceptionQueue \in Seq([kind : Kinds, n : Nat])

ServiceInv == QueueTyped /\ Together /\ CallersGone /\ BackReady /\ DrainedStays

-----------------------------------------------------------------------------
LEMMA InitService == Init => ServiceInv
BY DEF Init, ServiceInv, Together, CallersGone, BackReady, DrainedStays, Mains, Handling,
            QueueTyped

(* A queue with something appended, or with something left behind its front, is  *)
(* not empty.                                                                    *)
LEMMA QueueLaws ==
  ASSUME NEW S, NEW q \in Seq(S), NEW x \in S
  PROVE  /\ Append(q, x) # <<>>
         /\ q # <<>> => Tail(q) \in Seq(S)
         /\ Len(q) > 1 => Tail(q) # <<>>
<1>1. Len(Append(q, x)) = Len(q) + 1 /\ Len(q) \in Nat
  OBVIOUS
<1>2. q # <<>> => Tail(q) \in Seq(S) /\ Len(Tail(q)) = Len(q) - 1
  OBVIOUS
<1> QED BY <1>1, <1>2

LEMMA RaiseTyped ==
  ASSUME QueueTyped, NEW kind \in Kinds, Raise(kind)
  PROVE  QueueTyped'
<1>1. [kind |-> kind, n |-> raised + 1] \in [kind : Kinds, n : Nat]
  BY DEF QueueTyped
<1> QED BY <1>1 DEF QueueTyped, Raise

(* The steps of a caller wake the service at most, and queue at most one more
   exception, while the run is being served. *)
LEMMA CallerService ==
  ASSUME ServiceInv, NEW c \in Callers,
         CallerStep(c) \/ \E query \in Queries : CallAdd(c, query)
  PROVE  ServiceInv'
<1>1. main = "serve" /\ UNCHANGED control
  <2>1. CASE \E query \in Queries : CallAdd(c, query)
    BY <2>1 DEF CallAdd
  <2>2. CASE CallerStep(c)
    <3>1. pc[c] # "idle"
      BY <2>2 DEF CallerStep, DictGet, ReadId, DictAdd, Count, TableAdd, RaiseRefusal, Notify,
                  Goto, Kinds
    <3>2. UNCHANGED control
      BY <2>2 DEF CallerStep, DictGet, ReadId, DictAdd, Count, TableAdd, RaiseRefusal, Notify
    <3> QED BY <3>1, <3>2 DEF ServiceInv, CallersGone
  <2> QED BY <2>1, <2>2
<1>2. service' = service \/ (service = "asleep" /\ service' = "predSize")
  BY DEF CallerStep, CallAdd, DictGet, ReadId, DictAdd, Count, TableAdd, RaiseRefusal, Notify, Wake
<1>3. UNCHANGED <<exceptionQueue, raised>> \/ \E kind \in Kinds : Raise(kind)
  BY DEF CallerStep, CallAdd, DictGet, ReadId, DictAdd, Count, TableAdd, RaiseRefusal, Notify,
         queue
<1>4. exceptionQueue # <<>> => exceptionQueue' # <<>>
  <2>1. ASSUME NEW kind \in Kinds, Raise(kind)
        PROVE  exceptionQueue' # <<>>
    <3>1. [kind |-> kind, n |-> raised + 1] \in [kind : Kinds, n : Nat]
      BY DEF ServiceInv, QueueTyped
    <3> QED BY <2>1, <3>1, QueueLaws DEF ServiceInv, QueueTyped, Raise
  <2> QED BY <1>3, <2>1
<1>5. QueueTyped'
  BY <1>3, RaiseTyped DEF ServiceInv, QueueTyped
<1>6. Together'
  BY <1>1, <1>2 DEF ServiceInv, Together, control, Mains
<1>7. BackReady'
  BY <1>2, <1>4 DEF ServiceInv, BackReady, Handling
<1>8. CallersGone' /\ DrainedStays'
  BY <1>1 DEF CallersGone, DrainedStays, control
<1> QED BY <1>5, <1>6, <1>7, <1>8 DEF ServiceInv

(* The service: what it found queued is still there when it pops. *)
LEMMA ServiceService ==
  ASSUME ServiceInv, ServiceStep \/ SpuriousWakeup
  PROVE  ServiceInv'
<1> USE DEF Handling
<1>0. /\ QueueTyped /\ Together /\ CallersGone /\ BackReady /\ DrainedStays
      /\ exceptionQueue \in Seq([kind : Kinds, n : Nat])
  BY DEF ServiceInv, QueueTyped
<1>1. UNCHANGED <<main, evenNonEmptyQueue, pc>>
  BY DEF ServiceStep, SpuriousWakeup, control, caller, Enter, CheckFinish, PredSize, PredFinish,
         Doze, ReadSize, Back, Grow, GrowRefused, SaveTable, ChangeFiles, ClearTable,
         ClearDictionary, Pop
<1>2. CallersGone'
  BY <1>0, <1>1 DEF CallersGone
<1>3. Together'
  BY <1>0, <1>1 DEF ServiceStep, SpuriousWakeup, control, Enter, CheckFinish, PredSize,
         PredFinish, Doze, ReadSize, Back, Grow, GrowRefused, SaveTable, ChangeFiles,
         ClearTable, ClearDictionary, Pop, At, Together, Mains
<1>4. CASE \E kind \in Kinds : Raise(kind) /\ service = "handle"
  <2>1. QueueTyped' /\ exceptionQueue' # <<>>
    BY <1>0, <1>4, RaiseTyped DEF Raise
  <2>2. DrainedStays'
    BY <1>0, <1>1, <1>4 DEF BackReady, DrainedStays
  <2> QED BY <1>2, <1>3, <2>1, <2>2 DEF ServiceInv, BackReady
<1>5. CASE Pop
  <2>1. /\ service = "pop" /\ exceptionQueue # <<>> /\ exceptionQueue' = Tail(exceptionQueue)
        /\ service' = IF Len(exceptionQueue) > 1 THEN "back" ELSE "check"
        /\ raised' = raised
    BY <1>0, <1>5 DEF Pop, At, BackReady
  <2>2. /\ exceptionQueue' \in Seq([kind : Kinds, n : Nat])
        /\ Len(exceptionQueue) > 1 => exceptionQueue' # <<>>
    <3>1. [kind |-> "MAX_DICT", n |-> 0] \in [kind : Kinds, n : Nat]
      BY DEF Kinds
    <3> QED BY <1>0, <2>1, <3>1, QueueLaws
  <2>3. QueueTyped' /\ BackReady'
    BY <1>0, <2>1, <2>2 DEF QueueTyped, BackReady
  <2>4. DrainedStays'
    BY <1>0, <1>1, <2>1 DEF DrainedStays
  <2> QED BY <1>2, <1>3, <2>3, <2>4 DEF ServiceInv
<1>6. CASE UNCHANGED <<exceptionQueue, raised>>
  <2>1. QueueTyped' /\ DrainedStays'
    BY <1>0, <1>1, <1>6 DEF QueueTyped, DrainedStays
  <2>2. service' \in Handling \cup {"back"} => exceptionQueue # <<>>
    BY <1>0, <1>6 DEF BackReady, ServiceStep, SpuriousWakeup, Enter, CheckFinish, PredSize,
           PredFinish, Doze, ReadSize, Back, Grow, GrowRefused, SaveTable, ChangeFiles,
           ClearTable, ClearDictionary, Pop, At
  <2> QED BY <1>2, <1>3, <1>6, <2>1, <2>2 DEF ServiceInv, BackReady
<1>7. UNCHANGED <<exceptionQueue, raised>> \/ Pop
      \/ \E kind \in Kinds : Raise(kind) /\ service = "handle"
  BY DEF ServiceStep, SpuriousWakeup, queue, Enter, CheckFinish, PredSize, PredFinish,
         Doze, ReadSize, Back, Grow, GrowRefused, SaveTable, ChangeFiles, ClearTable,
         ClearDictionary, At, Kinds
<1> QED BY <1>4, <1>5, <1>6, <1>7

LEMMA ServerService ==
  ASSUME ServiceInv, MainStep \/ StartRun \/ PoolJoined
  PROVE  ServiceInv'
<1> USE DEF Handling, Mains
<1>1. UNCHANGED <<exceptionQueue, raised, pc, evenNonEmptyQueue>>
  BY DEF MainStep, StartRun, PoolJoined, Drained, SetFinish, NotifyService, ServiceJoined,
         queue, caller
<1>2. QueueTyped'
  BY <1>1 DEF ServiceInv, QueueTyped
<1>3. Together'
  BY DEF ServiceInv, Together, MainStep, StartRun, PoolJoined, Drained, SetFinish,
         NotifyService, ServiceJoined, Wake
<1>4. CallersGone'
  BY <1>1 DEF ServiceInv, CallersGone, MainStep, StartRun, PoolJoined, Drained, SetFinish,
         NotifyService, ServiceJoined
<1>5. BackReady'
  BY <1>1 DEF ServiceInv, BackReady, MainStep, StartRun, PoolJoined, Drained, SetFinish,
         NotifyService, ServiceJoined, Wake
<1>6. DrainedStays'
  BY <1>1 DEF ServiceInv, DrainedStays, MainStep, StartRun, PoolJoined, Drained, SetFinish,
         NotifyService, ServiceJoined
<1> QED BY <1>2, <1>3, <1>4, <1>5, <1>6 DEF ServiceInv

LEMMA StepService ==
  ASSUME ServiceInv, [Next]_vars
  PROVE  ServiceInv'
<1>1. CASE UNCHANGED vars
  BY <1>1 DEF vars, queue, control, caller, ServiceInv, QueueTyped, Together, CallersGone,
              BackReady, DrainedStays
<1> QED BY <1>1, CallerService, ServiceService, ServerService DEF Next

LEMMA AlwaysService == Spec => []ServiceInv
BY InitService, StepService, PTL DEF Spec

(* The service of a run does not end before the run shuts it down: the FINISH  *)
(* of the run before is overwritten before it is read (serviceLoop).           *)
THEOREM ServesRun == Spec => []ServesUntilShutdown
<1>1. ServiceInv => ServesUntilShutdown
  BY DEF ServiceInv, Together, ServesUntilShutdown
<1> QED BY <1>1, AlwaysService, PTL

(* Once shutdownService(false, _) has seen the queue empty, it stays so: nobody *)
(* is inside add, and a handler that could raise has its own exception queued.  *)
THEOREM ShutdownLeavesEmpty == Spec => []ShutdownEmptiesQueue
<1>1. ServiceInv => ShutdownEmptiesQueue
  BY DEF ServiceInv, DrainedStays, ShutdownEmptiesQueue
<1> QED BY <1>1, AlwaysService, PTL

-----------------------------------------------------------------------------
(***************************************************************************)
(* While add has raised no exception beside a queued one, the queue holds   *)
(* none, one, or, while the service handles the first, the one that handler *)
(* has raised behind it; what is queued is handled exactly if the service   *)
(* is at it.                                                                *)
(***************************************************************************)
Element == [kind : Kinds, n : Nat]
Busy == service \in Handling

None == exceptionQueue = <<>> /\ ~Busy
One  == \E x \in Element : exceptionQueue = <<x>> /\ (x.n \in handled <=> Busy)
Two  == \E x, y \in Element : /\ exceptionQueue = <<x, y>>
                              /\ x.n \in handled /\ y.n \notin handled
                              /\ Busy /\ service # "handle"

Once == /\ 1 .. raised = QueuedNumbers \cup handled
        /\ ~again
        /\ None \/ One \/ Two

OnceInv == crowded \/ Once

LEMMA Numbers ==
  /\ exceptionQueue = <<>> => QueuedNumbers = {}
  /\ \A x : exceptionQueue = <<x>> => QueuedNumbers = {x.n}
  /\ \A x, y : exceptionQueue = <<x, y>> => QueuedNumbers = {x.n, y.n}
<1>1. DOMAIN <<>> = {}
  OBVIOUS
<1>2. ASSUME NEW x PROVE DOMAIN <<x>> = {1} /\ <<x>>[1] = x
  OBVIOUS
<1>3. ASSUME NEW x, NEW y PROVE DOMAIN <<x, y>> = {1, 2} /\ <<x, y>>[1] = x /\ <<x, y>>[2] = y
  OBVIOUS
<1> QED BY <1>1, <1>2, <1>3 DEF QueuedNumbers

LEMMA NumbersNext ==
  /\ exceptionQueue' = <<>> => QueuedNumbers' = {}
  /\ \A x : exceptionQueue' = <<x>> => QueuedNumbers' = {x.n}
  /\ \A x, y : exceptionQueue' = <<x, y>> => QueuedNumbers' = {x.n, y.n}
<1>1. DOMAIN <<>> = {}
  OBVIOUS
<1>2. ASSUME NEW x PROVE DOMAIN <<x>> = {1} /\ <<x>>[1] = x
  OBVIOUS
<1>3. ASSUME NEW x, NEW y PROVE DOMAIN <<x, y>> = {1, 2} /\ <<x, y>>[1] = x /\ <<x, y>>[2] = y
  OBVIOUS
<1> QED BY <1>1, <1>2, <1>3 DEF QueuedNumbers

(* The next exception has a number nobody has handled. *)
LEMMA RaiseOnce ==
  ASSUME ServiceInv, Once, NEW kind \in Kinds, Raise(kind), UNCHANGED <<handled, again>>
  PROVE  LET new == [kind |-> kind, n |-> raised + 1]
         IN  /\ new \in Element /\ new.n \notin handled
             /\ exceptionQueue' = Append(exceptionQueue, new)
             /\ 1 .. raised' = (1 .. raised) \cup {new.n}
<1>1. raised \in Nat /\ handled \subseteq 1 .. raised
  BY DEF ServiceInv, QueueTyped, Once
<1>2. raised + 1 \notin handled /\ 1 .. raised + 1 = (1 .. raised) \cup {raised + 1}
  BY <1>1
<1> QED BY <1>1, <1>2 DEF Raise, Element

(* add raises an exception while none is queued: the service is at none. *)
LEMMA RefusalOnce ==
  ASSUME ServiceInv, Once, NEW kind \in Kinds, Raise(kind), exceptionQueue = <<>>,
         UNCHANGED <<handled, again, service>>
  PROVE  Once'
<1> DEFINE new == [kind |-> kind, n |-> raised + 1]
<1>1. /\ new \in Element /\ new.n \notin handled
      /\ exceptionQueue' = Append(exceptionQueue, new)
      /\ 1 .. raised' = (1 .. raised) \cup {new.n}
  BY RaiseOnce
<1> HIDE DEF new
<1>2. exceptionQueue' = <<new>>
  BY <1>1
<1>3. QueuedNumbers' = {new.n} /\ QueuedNumbers = {}
  BY <1>2, Numbers, NumbersNext
<1>4. ~Busy'
  BY DEF ServiceInv, BackReady, Busy
<1>5. One'
  BY <1>1, <1>2, <1>4 DEF One
<1> QED BY <1>1, <1>3, <1>5 DEF Once

(* A handler raises one while its own is queued. *)
LEMMA HandlerOnce ==
  ASSUME ServiceInv, Once, NEW kind \in Kinds, Raise(kind), service = "handle",
         service' \in Handling \ {"handle"}, UNCHANGED <<handled, again>>
  PROVE  Once'
<1> DEFINE new == [kind |-> kind, n |-> raised + 1]
<1>1. /\ new \in Element /\ new.n \notin handled
      /\ exceptionQueue' = Append(exceptionQueue, new)
      /\ 1 .. raised' = (1 .. raised) \cup {new.n}
  BY RaiseOnce
<1> HIDE DEF new
<1>2. PICK x \in Element : exceptionQueue = <<x>> /\ x.n \in handled
  BY DEF Once, None, One, Two, Busy, Handling
<1>3. exceptionQueue' = <<x, new>>
  <2>1. <<x>> \in Seq(Element) /\ Len(<<x>>) = 1 /\ <<x>>[1] = x
    OBVIOUS
  <2>2. <<x, new>> \in Seq(Element) /\ Len(<<x, new>>) = 2
        /\ <<x, new>>[1] = x /\ <<x, new>>[2] = new
    BY <1>1
  <2>3. /\ Append(<<x>>, new) \in Seq(Element) /\ Len(Append(<<x>>, new)) = 2
        /\ Append(<<x>>, new)[1] = x /\ Append(<<x>>, new)[2] = new
    BY <1>1, <2>1
  <2>4. \A i \in 1 .. 2 : Append(<<x>>, new)[i] = <<x, new>>[i]
    BY <2>2, <2>3
  <2>5. Append(<<x>>, new) = <<x, new>>
    BY <2>2, <2>3, <2>4, SeqEqual
  <2> QED BY <1>1, <1>2, <2>5
<1>4. QueuedNumbers = {x.n} /\ QueuedNumbers' = {x.n, new.n}
  BY <1>2, <1>3, Numbers, NumbersNext
<1>5. Two'
  BY <1>1, <1>2, <1>3 DEF Two, Busy
<1>6. 1 .. raised' = QueuedNumbers' \cup handled'
  BY <1>1, <1>4 DEF Once
<1>7. ~again'
  BY Zenon DEF Once
<1> QED BY <1>5, <1>6, <1>7 DEF Once

LEMMA BackOnce ==
  ASSUME ServiceInv, Once, Back
  PROVE  Once'
<1>1. /\ service = "back" /\ service' = "handle" /\ UNCHANGED <<exceptionQueue, raised>>
      /\ e' = exceptionQueue[Len(exceptionQueue)] /\ handled' = handled \cup {e'.n}
  BY DEF Back, At, queue
<1>2. again' = (again \/ e'.n \in handled)
  BY DEF Back
<1>3. PICK x \in Element : exceptionQueue = <<x>> /\ x.n \notin handled
  BY <1>1 DEF ServiceInv, BackReady, Once, None, One, Two, Busy, Handling
<1>4. Len(exceptionQueue) = 1 /\ e' = x
  BY <1>1, <1>3
<1>5. QueuedNumbers = {x.n} /\ QueuedNumbers' = {x.n}
  BY <1>1, <1>3, Numbers, NumbersNext
<1>6. One'
  BY <1>1, <1>3, <1>4 DEF One, Busy, Handling
<1>7. 1 .. raised' = QueuedNumbers' \cup handled'
  BY <1>1, <1>4, <1>5 DEF Once
<1>8. ~again'
  BY <1>2, <1>3, <1>4, Zenon DEF Once
<1> QED BY <1>6, <1>7, <1>8 DEF Once

LEMMA PopOnce ==
  ASSUME ServiceInv, Once, Pop
  PROVE  Once'
<1>1. /\ service = "pop" /\ service' \notin Handling
      /\ exceptionQueue' = Tail(exceptionQueue) /\ UNCHANGED <<raised, handled>>
  BY DEF Pop, At, history, Handling
<1>2. ~again'
  BY Zenon DEF Pop, history, Once
<1>3. CASE One
  <2>1. PICK x \in Element : exceptionQueue = <<x>> /\ x.n \in handled
    BY <1>1, <1>3 DEF One, Busy, Handling
  <2>2. exceptionQueue' = <<>>
    BY <1>1, <2>1
  <2>3. QueuedNumbers = {x.n} /\ QueuedNumbers' = {}
    BY <2>1, <2>2, Numbers, NumbersNext
  <2> QED BY <1>1, <1>2, <2>1, <2>2, <2>3 DEF Once, None, Busy
<1>4. CASE Two
  <2>1. PICK x \in Element, y \in Element :
          exceptionQueue = <<x, y>> /\ x.n \in handled /\ y.n \notin handled
    BY <1>4 DEF Two
  <2>2. exceptionQueue' = <<y>>
    BY <1>1, <2>1
  <2>3. QueuedNumbers = {x.n, y.n} /\ QueuedNumbers' = {y.n}
    BY <2>1, <2>2, Numbers, NumbersNext
  <2>4. One'
    BY <1>1, <2>1, <2>2 DEF One, Busy
  <2> QED BY <1>1, <1>2, <2>1, <2>3, <2>4 DEF Once
<1> QED BY <1>1, <1>3, <1>4 DEF Once, None, Busy, Handling

(* The other steps queue, pop and handle nothing. *)
LEMMA SameOnce ==
  ASSUME Once, UNCHANGED <<exceptionQueue, raised, handled, again>>,
         Busy' <=> Busy, service' = "handle" => service = "handle"
  PROVE  Once'
<1>1. QueuedNumbers' = QueuedNumbers
  BY DEF QueuedNumbers
<1>2. None' \/ One' \/ Two'
  BY DEF Once, None, One, Two, Busy
<1>3. ~again'
  BY Zenon DEF Once
<1> QED BY <1>1, <1>2, <1>3 DEF Once

LEMMA StepOnce ==
  ASSUME ServiceInv, OnceInv, [Next]_vars
  PROVE  OnceInv'
<1> SUFFICES ASSUME ~crowded' PROVE Once'
  BY DEF OnceInv
<1> USE DEF Handling
<1>1. ASSUME NEW c \in Callers,
             CallerStep(c) \/ \E query \in Queries : CallAdd(c, query)
      PROVE  Once'
  <2>1. UNCHANGED <<handled, again>>
    BY <1>1 DEF CallerStep, CallAdd, DictGet, ReadId, DictAdd, Count, TableAdd, RaiseRefusal,
                Notify, history
  <2>2. CASE RaiseRefusal(c)
    <3>1. crowded' = (crowded \/ exceptionQueue # <<>>)
      BY <2>2 DEF RaiseRefusal
    <3>2. exceptionQueue = <<>>
      BY <3>1, Zenon
    <3>3. ~crowded
      BY <3>1, Zenon
    <3>4. pc[c] \in Kinds /\ Raise(pc[c]) /\ service' = service
      BY <2>2 DEF RaiseRefusal
    <3> QED BY <2>1, <3>2, <3>3, <3>4, RefusalOnce DEF OnceInv
  <2>3. CASE ~RaiseRefusal(c)
    <3>1. UNCHANGED queue /\ (service' = service \/ (service = "asleep" /\ service' = "predSize"))
      BY <1>1, <2>3 DEF CallerStep, CallAdd, DictGet, ReadId, DictAdd, Count, TableAdd, Notify, Wake
    <3>2. UNCHANGED <<exceptionQueue, raised>> /\ Once
      BY <3>1 DEF queue, OnceInv
    <3> QED BY <2>1, <3>1, <3>2, SameOnce DEF Busy
  <2> QED BY <2>2, <2>3
<1>2. CASE ServiceStep \/ SpuriousWakeup
  <2>1. crowded' = crowded
    BY <1>2 DEF ServiceStep, SpuriousWakeup, queue, Enter, CheckFinish, PredSize, PredFinish,
                Doze, ReadSize, Back, Grow, GrowRefused, SaveTable, ChangeFiles, ClearTable,
                ClearDictionary, Pop
  <2>2. Once
    BY <2>1, Zenon DEF OnceInv
  <2>3. CASE Back
    BY <2>2, <2>3, BackOnce
  <2>4. CASE Pop
    BY <2>2, <2>4, PopOnce
  <2>5. ASSUME ~Back
        PROVE  UNCHANGED <<handled, again>>
    BY <1>2, <2>5 DEF ServiceStep, SpuriousWakeup, history, Enter, CheckFinish, PredSize,
                PredFinish, Doze, ReadSize, Grow, GrowRefused, SaveTable, ChangeFiles,
                ClearTable, ClearDictionary, Pop
  <2>6. CASE ~Back /\ ~Pop /\ UNCHANGED queue
    <3>1. UNCHANGED <<exceptionQueue, raised>>
      BY <2>6 DEF queue
    <3>2. (Busy' <=> Busy) /\ (service' = "handle" => service = "handle")
      BY <1>2, <2>6 DEF Busy, ServiceStep, SpuriousWakeup, At, Enter, CheckFinish, PredSize,
                PredFinish, Doze, ReadSize, Grow, GrowRefused, SaveTable, ChangeFiles,
                ClearTable, ClearDictionary
    <3> QED BY <2>2, <2>5, <2>6, <3>1, <3>2, SameOnce
  <2>7. CASE ~Back /\ ~Pop /\ ~UNCHANGED queue
    <3>1. GrowRefused \/ (SaveTable /\ Raise("MAX_MEMORY"))
      BY <1>2, <2>7 DEF ServiceStep, SpuriousWakeup, Enter, CheckFinish, PredSize,
                PredFinish, Doze, ReadSize, Grow, SaveTable, ChangeFiles, ClearTable,
                ClearDictionary
    <3>2. \E kind \in Kinds : Raise(kind) /\ service = "handle" /\ service' \in {"pop", "clearTable"}
      BY <3>1 DEF GrowRefused, SaveTable, At, Kinds
    <3> QED BY <2>2, <2>5, <2>7, <3>2, HandlerOnce
  <2> QED BY <2>3, <2>4, <2>6, <2>7
<1>3. CASE MainStep \/ StartRun \/ PoolJoined
  <2>1. UNCHANGED <<queue, history>>
    BY <1>3 DEF MainStep, StartRun, PoolJoined, Drained, SetFinish, NotifyService, ServiceJoined
  <2>2. UNCHANGED <<exceptionQueue, raised, handled, again>>
    BY <2>1 DEF queue, history
  <2>3. Once
    BY <2>1, Zenon DEF queue, OnceInv
  <2>4. (Busy' <=> Busy) /\ (service' = "handle" => service = "handle")
    BY <1>3 DEF ServiceInv, Together, Busy, MainStep, StartRun, PoolJoined, Drained, SetFinish,
                NotifyService, ServiceJoined, Wake
  <2> QED BY <2>2, <2>3, <2>4, SameOnce
<1>4. CASE UNCHANGED vars
  <2>1. UNCHANGED <<exceptionQueue, raised, handled, again, service, crowded>>
    BY <1>4 DEF vars, queue, history
  <2>2. Once
    BY <2>1, Zenon DEF OnceInv
  <2> QED BY <2>1, <2>2, SameOnce DEF Busy
<1> QED BY <1>1, <1>2, <1>3, <1>4 DEF Next

(* Every exception raised is queued or handled, and none is handled twice,     *)
(* unless add raised one beside a queued one (serviceLoop handles the newest   *)
(* and pops the oldest).                                                       *)
THEOREM HandledOnce == Spec => []HandledUnlessCrowded
<1>1. Init => OnceInv
  <2> SUFFICES ASSUME Init PROVE Once
    BY DEF OnceInv
  <2>1. exceptionQueue = <<>> /\ raised = 0 /\ handled = {} /\ service = "idle"
    BY DEF Init
  <2>2. ~again
    BY Zenon DEF Init
  <2>3. None /\ QueuedNumbers = {} /\ 1 .. raised = {}
    BY <2>1, Numbers DEF None, Busy, Handling
  <2> QED BY <2>1, <2>2, <2>3 DEF Once
<1>2. OnceInv => HandledUnlessCrowded
  BY Zenon DEF OnceInv, Once, HandledUnlessCrowded
<1> QED BY <1>1, <1>2, StepOnce, AlwaysService, PTL DEF Spec

-----------------------------------------------------------------------------
(***************************************************************************)
(* Types.  Those of the words and ids are part of IdInv; an exception at    *)
(* hand or queued has a number that was given out.                          *)
(***************************************************************************)
QueueSound ==
  /\ raised \in Nat /\ exceptionQueue \in Seq(Exceptions)
  /\ e \in Exceptions \cup {NoException}
  /\ handled \subseteq 1 .. raised

TablesTyped ==
  /\ table \subseteq Nat \ {0}
  /\ \A c \in Callers : pc[c] \in {"count", "tableAdd"} => id[c] # 0

FlagsTyped == serviceFinish \in BOOLEAN /\ evenNonEmptyQueue \in BOOLEAN

TypeInv == QueueSound /\ TablesTyped /\ FlagsTyped

LEMMA RaiseSound ==
  ASSUME QueueSound, NEW kind \in Kinds, Raise(kind), UNCHANGED <<e, handled>>
  PROVE  QueueSound'
<1> DEFINE x == [kind |-> kind, n |-> raised + 1]
           S == Exceptions
           T == Exceptions'
<1>1. raised \in Nat /\ raised' = raised + 1 /\ exceptionQueue' = Append(exceptionQueue, x)
  BY DEF QueueSound, Raise
<1>2. 1 .. raised \subseteq 1 .. raised' /\ raised + 1 \in 1 .. raised' /\ raised' \in Nat
  BY <1>1
<1>3. S \subseteq T /\ x \in T
  BY <1>2 DEF Exceptions
<1>4. exceptionQueue \in Seq(S) /\ e \in S \cup {NoException} /\ handled \subseteq 1 .. raised
  BY DEF QueueSound
<1> HIDE DEF x, S, T
<1>5. exceptionQueue \in Seq(T)
  BY <1>3, <1>4
<1>6. exceptionQueue' \in Seq(T)
  BY <1>1, <1>3, <1>5
<1>7. e' \in T \cup {NoException}' /\ handled' \subseteq 1 .. raised'
  BY <1>2, <1>3, <1>4 DEF NoException
<1> QED BY <1>2, <1>6, <1>7 DEF QueueSound, T

LEMMA QueueStaysSound ==
  ASSUME ServiceInv, QueueSound, [Next]_vars
  PROVE  QueueSound'
<1>0. raised \in Nat /\ exceptionQueue \in Seq(Exceptions) /\ handled \subseteq 1 .. raised
      /\ e \in Exceptions \cup {NoException}
  BY DEF QueueSound
<1>1. CASE Back
  <2>1. exceptionQueue # <<>> /\ e' = exceptionQueue[Len(exceptionQueue)]
        /\ handled' = handled \cup {e'.n} /\ UNCHANGED <<exceptionQueue, raised>>
    BY <1>1 DEF Back, At, queue, ServiceInv, BackReady
  <2>2. Len(exceptionQueue) \in 1 .. Len(exceptionQueue)
    BY <1>0, <2>1
  <2>3. e' \in Exceptions
    BY <1>0, <2>1, <2>2
  <2>4. e'.n \in 1 .. raised
    BY <2>3 DEF Exceptions
  <2>5. Exceptions' = Exceptions
    BY <2>1 DEF Exceptions
  <2> QED BY <1>0, <2>1, <2>3, <2>4, <2>5 DEF QueueSound
<1>2. CASE Pop
  <2>1. exceptionQueue # <<>> /\ exceptionQueue' = Tail(exceptionQueue)
        /\ e' = NoException /\ UNCHANGED <<handled, raised>>
    BY <1>2 DEF Pop, At, history, ServiceInv, BackReady, Handling
  <2>2. exceptionQueue' \in Seq(Exceptions)
    BY <1>0, <2>1
  <2>3. Exceptions' = Exceptions
    BY <2>1 DEF Exceptions
  <2> QED BY <1>0, <2>1, <2>2, <2>3 DEF QueueSound, NoException
<1>3. CASE UNCHANGED <<exceptionQueue, raised, e, handled>>
  <2>1. Exceptions' = Exceptions
    BY <1>3 DEF Exceptions
  <2> QED BY <1>0, <1>3, <2>1 DEF QueueSound, NoException
<1>4. \/ Back \/ Pop \/ UNCHANGED <<exceptionQueue, raised, e, handled>>
      \/ \E kind \in Kinds : Raise(kind) /\ UNCHANGED <<e, handled>>
  <2>1. ASSUME NEW c \in Callers, CallerStep(c) \/ \E query \in Queries : CallAdd(c, query)
        PROVE  \/ UNCHANGED <<exceptionQueue, raised, e, handled>>
               \/ \E kind \in Kinds : Raise(kind) /\ UNCHANGED <<e, handled>>
    BY <2>1 DEF CallerStep, CallAdd, DictGet, ReadId, DictAdd, Count, TableAdd, RaiseRefusal,
                Notify, queue, history
  <2>2. CASE ServiceStep \/ SpuriousWakeup
    BY <2>2 DEF ServiceStep, SpuriousWakeup, queue, history, Enter, CheckFinish, PredSize,
         PredFinish, Doze, ReadSize, Grow, GrowRefused, SaveTable, ChangeFiles, ClearTable,
         ClearDictionary, Kinds
  <2>3. CASE MainStep \/ StartRun \/ PoolJoined
    BY <2>3 DEF MainStep, StartRun, PoolJoined, Drained, SetFinish, NotifyService,
         ServiceJoined, queue, history
  <2>4. CASE UNCHANGED vars
    BY <2>4 DEF vars, queue, history
  <2> QED BY <2>1, <2>2, <2>3, <2>4 DEF Next
<1> QED BY <1>1, <1>2, <1>3, <1>4, RaiseSound

(* An id that is about to be counted, or added to the table, is one. *)
LEMMA CallerTables ==
  ASSUME IdInv, TablesTyped, NEW c \in Callers,
         CallerStep(c) \/ \E query \in Queries : CallAdd(c, query)
  PROVE  TablesTyped'
<1>1. /\ pc \in [Callers -> CallerPC] /\ id \in [Callers -> Nat]
      /\ dictionary \in [Words -> Seq(Nat \ {0})] /\ todo \in [Callers -> Seq(Words)]
      /\ pc[c] = "dictAdd" => id[c] # 0
      /\ pc[c] \in {"count", "tableAdd"} => id[c] # 0
  BY DEF IdInv, IdsTyped, TablesTyped
<1>2. table' = table \/ (pc[c] = "tableAdd" /\ table' = table \cup {id[c]})
  BY DEF CallerStep, CallAdd, DictGet, ReadId, DictAdd, Count, TableAdd, RaiseRefusal, Notify,
         Goto, index
<1>3. table' \subseteq Nat \ {0}
  BY <1>1, <1>2 DEF TablesTyped
<1>4. ASSUME NEW d \in Callers, d # c PROVE pc'[d] = pc[d] /\ id'[d] = id[d]
  BY <1>1, <1>4 DEF CallerStep, CallAdd, DictGet, ReadId, DictAdd, Count, TableAdd, RaiseRefusal,
                    Notify, Goto, caller
<1>5. ASSUME pc'[c] \in {"count", "tableAdd"} PROVE id'[c] # 0
  <2>1. CASE DictGet(c)
    <3>1. /\ todo[c] # <<>> /\ dictionary[todo[c][1]] # <<>>
          /\ id' = [id EXCEPT ![c] = dictionary[todo[c][1]][1]]
      BY <1>1, <1>5, <2>1 DEF DictGet, Goto
    <3>2. todo[c][1] \in Words
      <4>1. todo[c] \in Seq(Words) /\ todo[c] # <<>>
        BY <1>1, <3>1
      <4> QED BY <4>1
    <3>3. dictionary[todo[c][1]] \in Seq(Nat \ {0})
      BY <1>1, <3>2
    <3>4. dictionary[todo[c][1]][1] \in Nat \ {0}
      BY <3>1, <3>3
    <3> QED BY <1>1, <3>1, <3>4
  <2>2. CASE DictAdd(c)
    BY <1>1, <1>5, <2>2 DEF DictAdd, Goto
  <2>3. CASE Count(c)
    BY <1>1, <2>3 DEF Count, Goto
  <2>4. CASE ~(DictGet(c) \/ DictAdd(c) \/ Count(c))
    <3>1. PICK p \in {"word", "dictAdd", "FULL_TABLE", "MAX_TABLE", "notify", "idle"} :
            pc' = [pc EXCEPT ![c] = p]
      BY <2>4 DEF CallerStep, CallAdd, ReadId, TableAdd, RaiseRefusal, Notify, Goto
    <3> QED BY <1>1, <1>5, <3>1
  <2> QED BY <2>1, <2>2, <2>3, <2>4
<1> QED BY <1>3, <1>4, <1>5 DEF TablesTyped

LEMMA StepTyped ==
  ASSUME IdInv, ServiceInv, TypeInv, [Next]_vars
  PROVE  TypeInv'
<1>1. QueueSound'
  BY QueueStaysSound DEF TypeInv
<1>2. TablesTyped'
  <2>1. ASSUME NEW c \in Callers, CallerStep(c) \/ \E query \in Queries : CallAdd(c, query)
        PROVE  TablesTyped'
    BY <2>1, CallerTables DEF TypeInv
  <2>2. ASSUME table' \subseteq table, UNCHANGED <<pc, id>>
        PROVE  TablesTyped'
    BY <2>2 DEF TypeInv, TablesTyped
  <2>3. CASE ServiceStep \/ SpuriousWakeup
    <3>1. table' \subseteq table /\ UNCHANGED <<pc, id>>
      BY <2>3 DEF ServiceStep, SpuriousWakeup, index, caller, Enter, CheckFinish, PredSize,
         PredFinish, Doze, ReadSize, Back, Grow, GrowRefused, SaveTable, ChangeFiles,
         ClearTable, ClearDictionary, Pop
    <3> QED BY <2>2, <3>1
  <2>4. CASE MainStep \/ StartRun \/ PoolJoined
    <3>1. table' \subseteq table /\ UNCHANGED <<pc, id>>
      BY <2>4 DEF MainStep, StartRun, PoolJoined, Drained, SetFinish, NotifyService,
         ServiceJoined, index, caller
    <3> QED BY <2>2, <3>1
  <2>5. CASE UNCHANGED vars
    BY <2>2, <2>5 DEF vars, index, caller
  <2> QED BY <2>1, <2>3, <2>4, <2>5 DEF Next
<1>3. FlagsTyped'
  <2>1. ASSUME NEW c \in Callers, CallerStep(c) \/ \E query \in Queries : CallAdd(c, query)
        PROVE  UNCHANGED control
    BY <2>1 DEF CallerStep, CallAdd, DictGet, ReadId, DictAdd, Count, TableAdd, RaiseRefusal,
                Notify
  <2>2. CASE ServiceStep \/ SpuriousWakeup
    BY <2>2 DEF TypeInv, FlagsTyped, ServiceStep, SpuriousWakeup, control, Enter, CheckFinish,
         PredSize, PredFinish, Doze, ReadSize, Back, Grow, GrowRefused, SaveTable,
         ChangeFiles, ClearTable, ClearDictionary, Pop
  <2>3. CASE MainStep \/ StartRun \/ PoolJoined
    BY <2>3 DEF TypeInv, FlagsTyped, MainStep, StartRun, PoolJoined, Drained, SetFinish,
         NotifyService, ServiceJoined
  <2>4. CASE UNCHANGED control
    BY <2>4 DEF TypeInv, FlagsTyped, control
  <2> QED BY <2>1, <2>2, <2>3, <2>4 DEF Next, vars
<1> QED BY <1>1, <1>2, <1>3 DEF TypeInv

(* TypeOK: for any callers, words and queries the members and locals keep their types, ids  *)
(* count from 1, and every exception queued or at hand was raised.                          *)
THEOREM IndexTyped == Spec => []TypeOK
<1>1. Init => TypeInv
  <2>1. Init => QueueSound
    BY DEF Init, QueueSound
  <2>2. Init => TablesTyped
    BY DEF Init, TablesTyped
  <2>3. Init => FlagsTyped
    BY Zenon DEF Init, FlagsTyped
  <2> QED BY <2>1, <2>2, <2>3 DEF TypeInv
<1>2. IdInv /\ TypeInv => TypeOK
  BY DEF IdInv, IdsTyped, TypeInv, QueueSound, TablesTyped, FlagsTyped, TypeOK
<1> QED BY <1>1, <1>2, StepTyped, AlwaysIds, AlwaysService, PTL DEF Spec
=============================================================================
