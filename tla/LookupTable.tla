----------------------------- MODULE LookupTable -----------------------------
(***************************************************************************)
(* The look-up table of a task, src/src/trie.c: for each block of the grid *)
(* the metadata of its last use, in a table of two levels whose second     *)
(* levels are created when they are first needed.  The operators take the  *)
(* table and return the table, or a node of it.                            *)
(***************************************************************************)
EXTENDS Integers

CONSTANTS UpSize,     \* 1 << UP_BITS: entries of the first level
          DownSize,   \* 1 << DOWN_BITS: entries of a second level
          NULL

ASSUME TableAssumption == UpSize \in Nat \ {0} /\ DownSize \in Nat \ {0}

FirstLevel(x)  == x \div DownSize
SecondLevel(x) == x - FirstLevel(x) * DownSize

Ups   == 0 .. UpSize - 1
Downs == 0 .. DownSize - 1

NewTrie == [u \in Ups |-> NULL]

NewLevel == [d \in Downs |-> NULL]

\* Variant: the second level is created anew at each use.
GetOrCreateAnew(trie, index) == [trie EXCEPT ![FirstLevel(index)] = NewLevel]

\* What get_or_create_node leaves behind: the second level exists.
GetOrCreate(trie, index) ==
  IF trie[FirstLevel(index)] = NULL
  THEN [trie EXCEPT ![FirstLevel(index)] = NewLevel]
  ELSE trie

\* What it returns, and get_node without creating anything.
GetNode(trie, index) ==
  IF trie[FirstLevel(index)] = NULL THEN NULL
  ELSE trie[FirstLevel(index)][SecondLevel(index)]

SetNode(trie, index, node) ==
  [trie EXCEPT ![FirstLevel(index)] =
     [@ EXCEPT ![SecondLevel(index)] = node]]
=============================================================================
