------------------------------ MODULE SourceMap ------------------------------
(***************************************************************************)
(* What HashTable.h promises those who call add and get one after another,  *)
(* without cells, links and counters: a map from keys to their sources.     *)
(*                                                                         *)
(* It is a map with two weaknesses.  Keys that may share a cell can come    *)
(* in each other's way, and then one of them is set aside; and growing      *)
(* the table loses every key that was not.                                 *)
(***************************************************************************)
EXTENDS Integers, Sequences

CONSTANTS
  Threads,
  Keys,
  Sources,
  Class         \* Class[k]: the keys that may share a cell with key k

VARIABLES
  stored,       \* stored[k]: the sources of key k, none if it is not there
  aside,        \* the keys that have been set aside
  op            \* op[t]: what thread t asked for, then what it was answered

vars == <<stored, aside, op>>

NoOp == [at |-> "none"]
Requests == [at : {"add"}, key : Keys, val : Seq(Sources)] \cup [at : {"get"}, key : Keys]

Init == /\ stored = [k \in Keys |-> <<>>]
        /\ aside = {}
        /\ op = [t \in Threads |-> NoOp]

Alone == \A t \in Threads : op[t] = NoOp
Answered(t, answer) == op' = [op EXCEPT ![t] = answer]
Added(t, code) == Answered(t, [at |-> "added", code |-> code])

\* The keys there are that may be in the way of key k.
Rivals(k) == {l \in Class[k] \ {k} : stored[l] # <<>>}

Call(t) == /\ Alone
           /\ op'[t] \in Requests /\ op' = [op EXCEPT ![t] = op'[t]]
           /\ UNCHANGED <<stored, aside>>

\* add: the sources are appended to those of the key.
Put(t) == /\ op[t].at = "add"
          /\ stored' = [stored EXCEPT ![op[t].key] = @ \o op[t].val]
          /\ Added(t, 0)
          /\ UNCHANGED aside

\* A new key is set aside if another is in its way.
SetAside(t) == /\ op[t].at = "add" /\ stored[op[t].key] = <<>> /\ Rivals(op[t].key) # {}
               /\ aside' = aside \cup {op[t].key}
               /\ UNCHANGED <<stored, op>>

\* Two rivals are too many: the new key takes the place of the one that was set aside.
Displace(t) ==
  /\ op[t].at = "add" /\ stored[op[t].key] = <<>> /\ op[t].key \in aside
  /\ \E l \in Rivals(op[t].key) \cap aside :
       /\ Rivals(op[t].key) # {l}
       /\ stored' = [stored EXCEPT ![op[t].key] = op[t].val, ![l] = <<>>]
  /\ Added(t, 0)
  /\ UNCHANGED aside

\* What is appended to a key that was set aside replaces what its rival had.
Misplace(t) ==
  /\ op[t].at = "add" /\ op[t].key \in aside
  /\ \E l \in Rivals(op[t].key) :
       stored' = [stored EXCEPT ![l] = stored[op[t].key] \o op[t].val]
  /\ Added(t, 0)
  /\ UNCHANGED aside

\* add refuses, with code 1 only a key that is not there.
Refuse(t) == /\ op[t].at = "add"
             /\ \/ Added(t, 1) /\ stored[op[t].key] = <<>>
                \/ Added(t, 2)
             /\ UNCHANGED <<stored, aside>>

Answer(t) == /\ op[t].at = "get"
             /\ Answered(t, [at |-> "got", val |-> stored[op[t].key]])
             /\ UNCHANGED <<stored, aside>>

Return(t) == /\ op[t].at \in {"added", "got"}
             /\ Answered(t, NoOp)
             /\ UNCHANGED <<stored, aside>>

\* The table grows, or is replaced by a new one: at best what was set aside is there after.
Rebuild == /\ Alone
           /\ stored' \in [Keys -> Seq(Sources)]
           /\ \A k \in Keys \ aside : stored'[k] = <<>>
           /\ aside' = {}
           /\ UNCHANGED op

Next == \/ \E t \in Threads : \/ Call(t) \/ Put(t) \/ SetAside(t) \/ Displace(t)
                              \/ Misplace(t) \/ Refuse(t) \/ Answer(t) \/ Return(t)
        \/ Rebuild

Spec == Init /\ [][Next]_vars
=============================================================================
