----------------------------- MODULE MCTaskLife ------------------------------
(* Instance of TaskLife for TLC. *)
EXTENDS TaskLife, TLC
Symmetry == Permutations(Tasks)
=============================================================================
