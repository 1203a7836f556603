------------------------------ MODULE DequeSpec ------------------------------
(***************************************************************************)
(* What the work-stealing deque of a worker promises to its callers.       *)
(*                                                                         *)
(* The deque is a bounded sequence of tasks.  Its owner appends at the     *)
(* bottom and removes the latest element; any thread removes the oldest.   *)
(* A task the full deque refuses is run by its owner at once.  Tasks are   *)
(* numbered in the order in which the owner offers them.                   *)
(***************************************************************************)
EXTENDS Naturals, Sequences

CONSTANTS Size,       \* capacity of the deque (MAX_QUEUE_ENTRIES)
          MaxTasks    \* bound: number of tasks the owner offers

VARIABLES items,      \* the queued tasks, oldest first
          offered,    \* number of tasks offered so far
          taken       \* taken[x]: how often x was handed to an executor

vars == <<items, offered, taken>>

Init ==
  /\ items = <<>>
  /\ offered = 0
  /\ taken = [x \in 1..MaxTasks |-> 0]

HandOut(x) == taken' = [taken EXCEPT ![x] = @ + 1]

Push ==
  /\ offered < MaxTasks
  /\ Len(items) < Size
  /\ offered' = offered + 1
  /\ items' = Append(items, offered + 1)
  /\ UNCHANGED taken

Refuse ==
  /\ offered < MaxTasks
  /\ Len(items) = Size
  /\ offered' = offered + 1
  /\ HandOut(offered + 1)
  /\ UNCHANGED items

PopLatest ==
  /\ items # <<>>
  /\ HandOut(items[Len(items)])
  /\ items' = SubSeq(items, 1, Len(items) - 1)
  /\ UNCHANGED offered

StealOldest ==
  /\ items # <<>>
  /\ HandOut(Head(items))
  /\ items' = Tail(items)
  /\ UNCHANGED offered

Next == Push \/ Refuse \/ PopLatest \/ StealOldest

Spec == Init /\ [][Next]_vars
=============================================================================
