----------------------------- MODULE MCWorkDeque -----------------------------
(* Instance of WorkDeque for TLC; the thieves are interchangeable. *)
EXTENDS WorkDeque, TLC
Symmetry == Permutations(Thieves)

\* Behaviours are followed until a thief is fooled by a counter that went
\* round: the properties say nothing of what comes after.
UntilFooled == ~fooled
=============================================================================
