----------------------------- MODULE NotifyStack -----------------------------
(***************************************************************************)
(* The to_notify stack of a task (src/src/stack.c), one access to shared   *)
(* memory per step.                                                        *)
(*                                                                         *)
(* The creators of tasks push the task they create on the stacks of the    *)
(* tasks it depends on; the one core that releases the owner of the stack  *)
(* locks it, for good, and pops what it holds.  Nodes come from malloc and *)
(* are given back with free, so an address is used again.                  *)
(*                                                                         *)
(* In partee the pushers of one stack run the same parent task, hence one  *)
(* after the other; the code does not rely on it, and neither does this    *)
(* module.                                                                 *)
(***************************************************************************)
EXTENDS Naturals, FiniteSets

CONSTANTS Pushers,    \* calls of stack_push, each for a task of its own
          Nodes,      \* addresses malloc returns
          Null,       \* NULL
          Locked      \* STACK_LOCKED, ((void*)-1)

ASSUME StackAssumption ==
  /\ Null # Locked
  /\ {Null, Locked} \cap Nodes = {}
  /\ Null \notin Pushers        \* no task is at NULL: it marks a free node
  /\ IsFiniteSet(Nodes)

VARIABLES top,        \* stack->top
          nodes,      \* the nodes: [task, next], task = Null when free
          pusher,     \* program counter and locals of each stack_push
          locker,     \* program counter and locals of fire_dependencies
          popped      \* history: how often each pusher's task was popped

vars == <<top, nodes, pusher, locker, popped>>

Addresses == Nodes \cup {Null}
Free == {n \in Nodes : nodes[n].task = Null}

Init ==
  /\ top = Null
  /\ nodes = [n \in Nodes |-> [task |-> Null, next |-> Null]]
  /\ pusher = [p \in Pushers |-> [pc |-> "load", top |-> Null, tmp |-> Null]]
  /\ locker = [pc |-> "load", top |-> Null]
  /\ popped = [p \in Pushers |-> 0]

-----------------------------------------------------------------------------
(* stack_push *)

PushLoad(p) ==
  /\ pusher[p].pc = "load"
  /\ pusher' = [pusher EXCEPT ![p].pc = IF top = Locked THEN "refused" ELSE "alloc",
                              ![p].top = top]
  /\ UNCHANGED <<top, nodes, locker, popped>>

PushAlloc(p) ==
  /\ pusher[p].pc = "alloc"
  /\ \E n \in Free :
       /\ nodes' = [nodes EXCEPT ![n] = [task |-> p, next |-> pusher[p].top]]
       /\ pusher' = [pusher EXCEPT ![p].pc = "cas", ![p].tmp = n]
  /\ UNCHANGED <<top, locker, popped>>

PushCasWon(p) ==
  /\ pusher[p].pc = "cas"
  /\ top = pusher[p].top
  /\ top' = pusher[p].tmp
  /\ pusher' = [pusher EXCEPT ![p].pc = "accepted", ![p].tmp = Null]
  /\ UNCHANGED <<nodes, locker, popped>>

\* Variant: retries without linking the node to the new top.
PushCasLostUnlinked(p) ==
  /\ pusher[p].pc = "cas"
  /\ top \notin {pusher[p].top, Locked}
  /\ pusher' = [pusher EXCEPT ![p].top = top]
  /\ UNCHANGED <<top, nodes, locker, popped>>

\* Variant: retries although top is the lock.
PushCasLostIgnoresLock(p) ==
  /\ pusher[p].pc = "cas"
  /\ top # pusher[p].top
  /\ pusher' = [pusher EXCEPT ![p].top = top]
  /\ nodes' = [nodes EXCEPT ![pusher[p].tmp].next = top]
  /\ UNCHANGED <<top, locker, popped>>

PushCasLost(p) ==
  /\ pusher[p].pc = "cas"
  /\ top \notin {pusher[p].top, Locked}
  /\ pusher' = [pusher EXCEPT ![p].top = top]
  /\ nodes' = [nodes EXCEPT ![pusher[p].tmp].next = top]
  /\ UNCHANGED <<top, locker, popped>>

\* Variant: a push that meets the lock reports success.
PushCasLockedAccepts(p) ==
  /\ pusher[p].pc = "cas"
  /\ top = Locked
  /\ nodes' = [nodes EXCEPT ![pusher[p].tmp] = [task |-> Null, next |-> Null]]
  /\ pusher' = [pusher EXCEPT ![p].pc = "accepted", ![p].tmp = Null]
  /\ UNCHANGED <<top, locker, popped>>

\* The CAS meets the lock: free the node and report it to the caller.
PushCasLocked(p) ==
  /\ pusher[p].pc = "cas"
  /\ top = Locked
  /\ nodes' = [nodes EXCEPT ![pusher[p].tmp] = [task |-> Null, next |-> Null]]
  /\ pusher' = [pusher EXCEPT ![p].pc = "refused", ![p].tmp = Null]
  /\ UNCHANGED <<top, locker, popped>>

-----------------------------------------------------------------------------
(* stack_lock, then the loop of fire_dependencies over stack_pop *)

LockLoad ==
  /\ locker.pc = "load"
  /\ locker' = [pc |-> "cas", top |-> top]
  /\ UNCHANGED <<top, nodes, pusher, popped>>

\* Variant: stores the lock whatever top has become.
LockCasWonBlind ==
  /\ locker.pc = "cas"
  /\ top' = Locked
  /\ locker' = [locker EXCEPT !.pc = "pop"]
  /\ UNCHANGED <<nodes, pusher, popped>>

LockCasWon ==
  /\ locker.pc = "cas"
  /\ top = locker.top
  /\ top' = Locked
  /\ locker' = [locker EXCEPT !.pc = "pop"]
  /\ UNCHANGED <<nodes, pusher, popped>>

\* Variant: retries with the same stale top.
LockCasLostStale ==
  /\ locker.pc = "cas"
  /\ top # locker.top
  /\ UNCHANGED vars

LockCasLost ==
  /\ locker.pc = "cas"
  /\ top # locker.top
  /\ locker' = [locker EXCEPT !.top = top]
  /\ UNCHANGED <<top, nodes, pusher, popped>>

Pop ==
  /\ locker.pc = "pop"
  /\ locker.top # Null
  /\ LET node == nodes[locker.top] IN
       /\ popped' = [popped EXCEPT ![node.task] = @ + 1]
       /\ nodes' = [nodes EXCEPT ![locker.top] = [task |-> Null, next |-> Null]]
       /\ locker' = [locker EXCEPT !.top = node.next]
  /\ UNCHANGED <<top, pusher>>

PopEmpty ==
  /\ locker.pc = "pop"
  /\ locker.top = Null
  /\ locker' = [locker EXCEPT !.pc = "done"]
  /\ UNCHANGED <<top, nodes, pusher, popped>>

-----------------------------------------------------------------------------
Push(p) == PushLoad(p) \/ PushAlloc(p) \/ PushCasWon(p) \/ PushCasLost(p)
             \/ PushCasLocked(p)
Notify  == LockLoad \/ LockCasWon \/ LockCasLost \/ Pop \/ PopEmpty

Finished ==
  /\ locker.pc = "done"
  /\ \A p \in Pushers : pusher[p].pc \in {"accepted", "refused"}
  /\ UNCHANGED vars

Next == Notify \/ Finished \/ \E p \in Pushers : Push(p)

\* A thread inside stack.c is not suspended for ever: the loops take no locks
\* and do not block.
Fairness == WF_vars(Notify) /\ \A p \in Pushers : WF_vars(Push(p))

Spec == Init /\ [][Next]_vars /\ Fairness

-----------------------------------------------------------------------------
(* Properties *)

TypeOK ==
  /\ top \in Addresses \cup {Locked}
  /\ nodes \in [Nodes -> [task : Pushers \cup {Null}, next : Addresses]]
  /\ pusher \in [Pushers -> [pc : {"load", "alloc", "cas", "accepted", "refused"},
                             top : Addresses \cup {Locked}, tmp : Addresses]]
  /\ locker \in [pc : {"load", "cas", "pop", "done"}, top : Addresses]
  /\ popped \in [Pushers -> Nat]

\* stack_push returns 1 exactly for the tasks the release of the owner will
\* notify: a task whose push was accepted is counted in waitfor, so one that
\* is never popped would wait for ever and one popped twice would start
\* before its other dependencies (stack.c:20-21, deps.c:670-701).
DeliveredOnceIffAccepted ==
  locker.pc = "done" =>
    \A p \in Pushers :
      /\ pusher[p].pc = "accepted" => popped[p] = 1
      /\ pusher[p].pc # "accepted" => popped[p] = 0

\* No node is freed while another thread can still reach it, or lost: nodes in
\* use are the private nodes of the pushers, one each, and those linked below
\* top or below what remains to pop.
Chain ==
  LET reach[k \in 0..Cardinality(Nodes)] ==
        IF k = 0 THEN {IF top = Locked THEN locker.top ELSE top} \ {Null}
        ELSE reach[k - 1] \cup ({nodes[n].next : n \in reach[k - 1]} \ {Null})
  IN  reach[Cardinality(Nodes)]

NodesAccounted ==
  LET private == {pusher[p].tmp : p \in {q \in Pushers : pusher[q].pc = "cas"}}
  IN  /\ Chain \cup private = Nodes \ Free
      /\ Chain \cap private = {}

\* stack_lock and every push terminate, and what was accepted is delivered:
\* a failed CAS means another push succeeded, and pushes are finitely many.
EveryoneServed ==
  <>[](/\ locker.pc = "done"
       /\ \A p \in Pushers : pusher[p].pc \in {"accepted", "refused"})

\* The stack implements the registration list of NotifySpec.
In(state) == {p \in Pushers : pusher[p].pc = state}
Abstract == INSTANCE NotifySpec WITH
              accepted <- In("accepted"), refused <- In("refused"),
              delivered <- {p \in Pushers : popped[p] > 0},
              closed <- (top = Locked)
Refinement == Abstract!Spec
=============================================================================
