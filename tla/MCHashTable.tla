---------------------------- MODULE MCHashTable ----------------------------
(* Instances of HashTable for TLC. *)
EXTENDS HashTable, TLC

CONSTANTS k1, k2, k3, c1, c2, a

(* k1 and k2 share a cell of a table of two, and part when it grows to four;
   k3 shares k1's cell in both and has one of its own among eight. *)
MCHash ==
  [k \in Keys \cup {NoKey} |-> CASE k = k1 -> 1 [] k = k2 -> 3 [] k = k3 -> 5 [] OTHER -> 0]

MCValues == {<<a>>, <<>>}
MCOneValue == {<<a>>}
=============================================================================
