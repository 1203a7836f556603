------------------------------ MODULE WorkDeque ------------------------------
(***************************************************************************)
(* The fixed-size work-stealing deque of src/src/queue.c, one access to    *)
(* shared memory per step.                                                 *)
(*                                                                         *)
(* One owner calls enqueue and dequeue_front; the thieves call             *)
(* dequeue_back.  bottom and top are uint8_t counters over an array of 128 *)
(* entries: here counters modulo 2 * Size over an array of Size entries,   *)
(* the same ratio, so that wrap-around is part of the model.               *)
(*                                                                         *)
(* Memory is sequentially consistent: the owner fences between its store   *)
(* of bottom and its load of top, and between its store of an entry and    *)
(* of bottom; the thieves' loads are volatile and x86 keeps them in order. *)
(***************************************************************************)
EXTENDS Naturals, Sequences

CONSTANTS Size,       \* MAX_QUEUE_ENTRIES, a power of two
          Thieves,    \* threads that steal from this deque
          MaxTasks,   \* bound: number of tasks the owner offers
          NoTask      \* NULL

ASSUME DequeAssumption ==
  /\ Size \in Nat \ {0}
  /\ MaxTasks \in Nat
  /\ NoTask \notin 1..MaxTasks

VARIABLES bottom, top, entries,
          owner,      \* program counter and locals of the owner
          thief,      \* program counter and locals of each thief
          offered,    \* history: number of tasks offered to enqueue
          taken,      \* history: taken[x], how often x reached an executor
          lapped,     \* history: the thieves since whose load of top the
                      \* counter came back to the value they loaded
          fooled      \* history: a lapped thief won its CAS

rounds == <<lapped, fooled>>
vars == <<bottom, top, entries, owner, thief, offered, taken, rounds>>

-----------------------------------------------------------------------------
Tasks    == 1..MaxTasks
Modulus  == 2 * Size                 \* 256 for a uint8_t
Counters == 0..(Modulus - 1)
Plus1Unwrapped(c) == c + 1           \* variant: a counter that never wraps
Plus1(c)  == (c + 1) % Modulus
Minus1(c) == (c + Modulus - 1) % Modulus
Index(c)  == c % Size                \* c & (size - 1)

\* (b ^ t) == size: the counters differ in the highest bit and nowhere else.
Full(b, t)  == b # t /\ Index(b) = Index(t)
EmptyUnreserved(b, t) == b = t       \* variant: ignores a reserved bottom
Empty(b, t) == b = t \/ Plus1(b) = t

\* The program starts at 0; an idle deque that was used before rests at any
\* equal pair of counters.
Init ==
  /\ top \in Counters
  /\ bottom = top
  /\ entries = [i \in 0..(Size - 1) |-> NoTask]
  /\ owner = [pc |-> "idle", b |-> 0, t |-> 0, val |-> NoTask]
  /\ thief = [p \in Thieves |-> [pc |-> "idle", t |-> 0, val |-> NoTask]]
  /\ offered = 0
  /\ taken = [x \in Tasks |-> 0]
  /\ lapped = {}
  /\ fooled = FALSE

HandOut(x) == taken' = [taken EXCEPT ![x] = @ + 1]

\* Who of these thieves, when top advances, has been or is now lapped.
Overtaken(thieves) ==
  {p \in thieves : \/ p \in lapped
                   \/ thief[p].pc # "idle" /\ thief[p].t = Plus1(top)}

-----------------------------------------------------------------------------
(* enqueue, called by schedule_task on the owner's own deque *)

Resting == owner.pc \in {"idle", "null"}

\* The deque is full: enqueue returns 0 and schedule_task runs the task.
EnqueueFull ==
  /\ Resting
  /\ offered < MaxTasks
  /\ Full(bottom, top)
  /\ offered' = offered + 1
  /\ HandOut(offered + 1)
  /\ owner' = [owner EXCEPT !.pc = "idle"]
  /\ UNCHANGED <<bottom, top, entries, thief, rounds>>

EnqueueBegin ==
  /\ Resting
  /\ offered < MaxTasks
  /\ ~Full(bottom, top)
  /\ owner' = [owner EXCEPT !.pc = "store", !.b = bottom]
  /\ UNCHANGED <<bottom, top, entries, thief, offered, taken, rounds>>

EnqueueStore ==
  /\ owner.pc = "store"
  /\ entries' = [entries EXCEPT ![Index(owner.b)] = offered + 1]
  /\ owner' = [owner EXCEPT !.pc = "advance"]
  /\ UNCHANGED <<bottom, top, thief, offered, taken, rounds>>

EnqueueAdvance ==
  /\ owner.pc = "advance"
  /\ bottom' = Plus1(owner.b)
  /\ offered' = offered + 1
  /\ owner' = [owner EXCEPT !.pc = "idle"]
  /\ UNCHANGED <<top, entries, thief, taken, rounds>>

-----------------------------------------------------------------------------
(* dequeue_front, called by pop_task *)

PopReserve ==
  /\ Resting
  /\ bottom' = Minus1(bottom)
  /\ owner' = [owner EXCEPT !.pc = "reserved", !.b = Minus1(bottom)]
  /\ UNCHANGED <<top, entries, thief, offered, taken, rounds>>

\* Loads top.  The owner alone writes entries, so its load of the entry can
\* be part of this step.
PopEmpty ==
  /\ owner.pc = "reserved"
  /\ Plus1(owner.b) = top
  /\ owner' = [owner EXCEPT !.pc = "restore", !.t = top, !.val = NoTask]
  /\ UNCHANGED <<bottom, top, entries, thief, offered, taken, rounds>>

PopUncontended ==
  /\ owner.pc = "reserved"
  /\ Plus1(owner.b) # top
  /\ owner.b # top
  /\ HandOut(entries[Index(owner.b)])
  /\ owner' = [owner EXCEPT !.pc = "idle"]
  /\ UNCHANGED <<bottom, top, entries, thief, offered, rounds>>

PopLast ==
  /\ owner.pc = "reserved"
  /\ owner.b = top
  /\ owner' = [owner EXCEPT !.pc = "cas", !.t = top,
                            !.val = entries[Index(owner.b)]]
  /\ UNCHANGED <<bottom, top, entries, thief, offered, taken, rounds>>

\* Variant: takes the last element without racing for it.
PopCasWonUnraced ==
  /\ owner.pc = "cas"
  /\ HandOut(owner.val)
  /\ owner' = [owner EXCEPT !.pc = "restore", !.t = Plus1(owner.t)]
  /\ UNCHANGED <<bottom, top, entries, thief, offered, rounds>>

PopCasWon ==
  /\ owner.pc = "cas"
  /\ top = owner.t
  /\ top' = Plus1(top)
  /\ lapped' = Overtaken(Thieves)
  /\ HandOut(owner.val)
  /\ owner' = [owner EXCEPT !.pc = "restore", !.t = Plus1(owner.t)]
  /\ UNCHANGED <<bottom, entries, thief, offered, fooled>>

PopCasLost ==
  /\ owner.pc = "cas"
  /\ top # owner.t
  /\ owner' = [owner EXCEPT !.pc = "restore", !.t = Plus1(owner.t),
                            !.val = NoTask]
  /\ UNCHANGED <<bottom, top, entries, thief, offered, taken, rounds>>

\* Queue->bottom = t on the empty path, = t + 1 after the race for the last
\* element; owner.t already holds the value to store.
PopRestore ==
  /\ owner.pc = "restore"
  /\ bottom' = owner.t
  /\ owner' = [owner EXCEPT !.pc = IF owner.val = NoTask THEN "null" ELSE "idle",
                            !.val = NoTask]
  /\ UNCHANGED <<top, entries, thief, offered, taken, rounds>>

-----------------------------------------------------------------------------
(* dequeue_back, called by steal_task *)

StealLoadTop(p) ==
  /\ thief[p].pc = "idle"
  /\ thief' = [thief EXCEPT ![p].pc = "bottom", ![p].t = top]
  /\ UNCHANGED <<bottom, top, entries, owner, offered, taken, fooled>>
  /\ lapped' = lapped \ {p}

StealLoadBottom(p) ==
  /\ thief[p].pc = "bottom"
  /\ thief' = [thief EXCEPT ![p].pc = IF Empty(bottom, thief[p].t)
                                      THEN "idle" ELSE "entry"]
  /\ UNCHANGED <<bottom, top, entries, owner, offered, taken, rounds>>

StealLoadEntry(p) ==
  /\ thief[p].pc = "entry"
  /\ thief' = [thief EXCEPT ![p].pc = "cas",
                            ![p].val = entries[Index(thief[p].t)]]
  /\ UNCHANGED <<bottom, top, entries, owner, offered, taken, rounds>>

StealCasWon(p) ==
  /\ thief[p].pc = "cas"
  /\ top = thief[p].t
  /\ top' = Plus1(top)
  /\ lapped' = Overtaken(Thieves \ {p})
  /\ fooled' = (fooled \/ p \in lapped)
  /\ HandOut(thief[p].val)
  /\ thief' = [thief EXCEPT ![p].pc = "idle", ![p].val = NoTask]
  /\ UNCHANGED <<bottom, entries, owner, offered>>

StealCasLost(p) ==
  /\ thief[p].pc = "cas"
  /\ top # thief[p].t
  /\ thief' = [thief EXCEPT ![p].pc = "idle", ![p].val = NoTask]
  /\ UNCHANGED <<bottom, top, entries, owner, offered, taken, rounds>>

-----------------------------------------------------------------------------
Enqueue      == EnqueueFull \/ EnqueueBegin \/ EnqueueStore \/ EnqueueAdvance
DequeueFront == PopReserve \/ PopEmpty \/ PopUncontended \/ PopLast
                  \/ PopCasWon \/ PopCasLost \/ PopRestore
DequeueBack(p) == StealLoadTop(p) \/ StealLoadBottom(p) \/ StealLoadEntry(p)
                    \/ StealCasWon(p) \/ StealCasLost(p)

Next == Enqueue \/ DequeueFront \/ \E p \in Thieves : DequeueBack(p)

Spec == Init /\ [][Next]_vars

-----------------------------------------------------------------------------
(* Properties *)

TypeOK ==
  /\ bottom \in Counters /\ top \in Counters
  /\ entries \in [0..(Size - 1) -> Tasks \cup {NoTask}]
  /\ owner \in [pc : {"idle", "null", "store", "advance", "reserved", "cas",
                      "restore"},
                b : Counters, t : Counters, val : Tasks \cup {NoTask}]
  /\ thief \in [Thieves -> [pc : {"idle", "bottom", "entry", "cas"},
                            t : Counters, val : Tasks \cup {NoTask}]]
  /\ offered \in 0..MaxTasks
  /\ taken \in [Tasks -> Nat]
  /\ lapped \subseteq Thieves /\ fooled \in BOOLEAN

\* While dequeue_front has lowered bottom but not yet decided, the element it
\* reserved is still in the deque.
LogicalBottom == IF owner.pc \in {"reserved", "cas", "restore"}
                 THEN Plus1(bottom) ELSE bottom

Items == [i \in 1..((LogicalBottom + Modulus - top) % Modulus) |->
            entries[Index(top + i - 1)]]

\* Every task offered to the deque is either still in it, once, or was handed
\* to exactly one executor ("we must make sure that either us or a thief will
\* succeed", queue.c:204): the owner's race with the thieves for the last
\* element, and the thieves' races with each other, neither duplicate nor lose
\* a task, and dequeue_front returns NULL only when no task is left (the
\* assertion at runtime.c:453).  The one exception is a thief that sleeps
\* between its loads and its CAS while the uint8_t top goes once round
\* (queue.c:251).
ExactlyOnce ==
  ~fooled =>
    \A x \in 1..offered :
      LET queued == {i \in DOMAIN Items : Items[i] = x}
      IN  \/ taken[x] = 1 /\ queued = {}
          \/ taken[x] = 0 /\ owner.pc # "null" /\ \E i \in queued : queued = {i}

\* The step-by-step deque implements the atomic one until then: elements leave
\* at the bottom latest first, at the top oldest first, a task is refused only
\* when Size tasks are queued.
Abstract == INSTANCE DequeSpec WITH items <- Items
Refinement == Abstract!Init /\ [][fooled' \/ Abstract!Next]_(Abstract!vars)
=============================================================================
