---- MODULE MCServerRun ----
(* An instance of ServerRun for TLC. *)
EXTENDS ServerRun

MCOtherFiles == {<<"cache", "Test", 1>>}
MCSizes == {2}
MCThreadSymmetry == Permutations(Threads)
=============================
