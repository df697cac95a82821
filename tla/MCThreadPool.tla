---------------------------- MODULE MCThreadPool ----------------------------
(* Instances of ThreadPool for TLC. *)
EXTENDS ThreadPool, TLC

CONSTANTS w1, w2

(* The two workers run the same code and no property names one. *)
Symmetry == Permutations(Workers)
=============================================================================
