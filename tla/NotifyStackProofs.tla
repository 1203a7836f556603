-------------------------- MODULE NotifyStackProofs --------------------------
(***************************************************************************)
(* Proofs about NotifyStack, for any sets of pushers and of addresses.     *)
(*                                                                         *)
(* The list below top has no bound and is walked by pointers, so the       *)
(* invariant numbers its nodes: `depth' gives each linked node the length  *)
(* of the list that starts at it, 0 to every other node.                   *)
(***************************************************************************)
EXTENDS NotifyStack, FiniteSetTheorems, TLAPS

-----------------------------------------------------------------------------
(* The inductive invariant *)

\* Where the list starts: in the stack until it is locked, then in the local
\* variable of the loop that pops.
First == IF top = Locked THEN locker.top ELSE top

Used(n) == nodes[n].task # Null

\* Linked nodes are those whose push succeeded.
Linked(n) == Used(n) /\ pusher[nodes[n].task].pc = "accepted"

\* depth numbers the linked nodes size, ..., 1 from First to the last one.
Numbering(depth, size) ==
  /\ depth \in [Nodes -> Nat]
  /\ \A n \in Nodes : depth[n] <= size
  /\ \A n \in Nodes : depth[n] > 0 <=> Linked(n)
  /\ \A m, n \in Nodes : depth[m] = depth[n] /\ depth[m] > 0 => m = n
  /\ \A i \in 1..size : \E n \in Nodes : depth[n] = i
  /\ \A n \in Nodes : depth[n] = 1 => nodes[n].next = Null
  /\ \A n \in Nodes : depth[n] > 1 =>
       /\ nodes[n].next \in Nodes
       /\ depth[nodes[n].next] = depth[n] - 1
  /\ size = 0 => First = Null
  /\ size > 0 => First \in Nodes /\ depth[First] = size

Listed == \E size \in Nat : \E depth \in [Nodes -> Nat] : Numbering(depth, size)

\* The lock is taken once, by the thread that then pops.
LockOwned ==
  /\ top = Locked <=> locker.pc \in {"pop", "done"}
  /\ locker.pc = "done" => locker.top = Null

\* A push that is about to try its CAS owns the node it allocated, which
\* points at the top it expects.
Private ==
  \A p \in Pushers :
    /\ pusher[p].pc \in {"alloc", "cas"} => pusher[p].top # Locked
    /\ pusher[p].pc = "cas" =>
         /\ pusher[p].tmp \in Nodes
         /\ nodes[pusher[p].tmp] = [task |-> p, next |-> pusher[p].top]

\* A task has one node at most, and only between its allocation and its pop.
Owned ==
  /\ \A m, n \in Nodes : Used(m) /\ nodes[m].task = nodes[n].task => m = n
  /\ \A n \in Nodes : Used(n) =>
       /\ pusher[nodes[n].task].pc \in {"cas", "accepted"}
       /\ popped[nodes[n].task] = 0

\* What was accepted is in the list or has been popped once.
Kept ==
  \A p \in Pushers :
    /\ popped[p] \in {0, 1}
    /\ pusher[p].pc # "accepted" => popped[p] = 0
    /\ pusher[p].pc = "accepted" /\ popped[p] = 0 =>
         \E n \in Nodes : nodes[n].task = p

IInv == TypeOK /\ LockOwned /\ Private /\ Owned /\ Kept /\ Listed

-----------------------------------------------------------------------------
(* Assignments to two fields of one pusher *)

PusherType == [pc : {"load", "alloc", "cas", "accepted", "refused"},
               top : Addresses \cup {Locked}, tmp : Addresses]

\* p moves to pc with the given locals, the other pushers stay.
Moves(p, pc, t, m) ==
  /\ pusher' \in [Pushers -> PusherType]
  /\ pusher'[p].pc = pc /\ pusher'[p].top = t /\ pusher'[p].tmp = m
  /\ \A q \in Pushers : q # p => pusher'[q] = pusher[q]

\* A pusher that sets its pc and its loaded top moves to those values.
LEMMA MovePcTop ==
  ASSUME pusher \in [Pushers -> PusherType], NEW p \in Pushers,
         NEW x \in {"load", "alloc", "cas", "accepted", "refused"},
         NEW y \in Addresses \cup {Locked},
         pusher' = [pusher EXCEPT ![p].pc = x, ![p].top = y]
  PROVE  Moves(p, x, y, pusher[p].tmp)
<1> DEFINE g == [pusher EXCEPT ![p].pc = x]
<1> DEFINE h == [g EXCEPT ![p].top = y]
<1>1. /\ g \in [Pushers -> PusherType]
      /\ g[p].pc = x /\ g[p].tmp = pusher[p].tmp
      /\ \A q \in Pushers : q # p => g[q] = pusher[q]
  BY DEF PusherType
<1>2. /\ h \in [Pushers -> PusherType]
      /\ h[p].pc = x /\ h[p].top = y /\ h[p].tmp = pusher[p].tmp
      /\ \A q \in Pushers : q # p => h[q] = pusher[q]
  <2>1. g[p] \in PusherType
    BY <1>1
  <2> HIDE DEF g
  <2>2. h = [q \in Pushers |-> IF q = p THEN [g[p] EXCEPT !.top = y] ELSE g[q]]
    BY <1>1
  <2>3. /\ [g[p] EXCEPT !.top = y] \in PusherType
        /\ [g[p] EXCEPT !.top = y].pc = g[p].pc
        /\ [g[p] EXCEPT !.top = y].top = y
        /\ [g[p] EXCEPT !.top = y].tmp = g[p].tmp
    BY <2>1 DEF PusherType
  <2> HIDE DEF h
  <2> QED BY <1>1, <2>2, <2>3
<1>3. pusher' = h
  BY Zenon
<1> QED BY <1>2, <1>3, Zenon DEF Moves

\* A pusher that sets its pc and its node moves to those values.
LEMMA MovePcTmp ==
  ASSUME pusher \in [Pushers -> PusherType], NEW p \in Pushers,
         NEW x \in {"load", "alloc", "cas", "accepted", "refused"},
         NEW y \in Addresses,
         pusher' = [pusher EXCEPT ![p].pc = x, ![p].tmp = y]
  PROVE  Moves(p, x, pusher[p].top, y)
<1> DEFINE g == [pusher EXCEPT ![p].pc = x]
<1> DEFINE h == [g EXCEPT ![p].tmp = y]
<1>1. /\ g \in [Pushers -> PusherType]
      /\ g[p].pc = x /\ g[p].top = pusher[p].top
      /\ \A q \in Pushers : q # p => g[q] = pusher[q]
  BY DEF PusherType
<1>2. /\ h \in [Pushers -> PusherType]
      /\ h[p].pc = x /\ h[p].top = pusher[p].top /\ h[p].tmp = y
      /\ \A q \in Pushers : q # p => h[q] = pusher[q]
  <2>1. g[p] \in PusherType
    BY <1>1
  <2> HIDE DEF g
  <2>2. h = [q \in Pushers |-> IF q = p THEN [g[p] EXCEPT !.tmp = y] ELSE g[q]]
    BY <1>1
  <2>3. /\ [g[p] EXCEPT !.tmp = y] \in PusherType
        /\ [g[p] EXCEPT !.tmp = y].pc = g[p].pc
        /\ [g[p] EXCEPT !.tmp = y].tmp = y
        /\ [g[p] EXCEPT !.tmp = y].top = g[p].top
    BY <2>1 DEF PusherType
  <2> HIDE DEF h
  <2> QED BY <1>1, <2>2, <2>3
<1>3. pusher' = h
  BY Zenon
<1> QED BY <1>2, <1>3, Zenon DEF Moves

\* How each step of stack_push moves its pusher.
LEMMA PushMoves ==
  ASSUME TypeOK, NEW p \in Pushers
  PROVE  /\ PushLoad(p) =>
              Moves(p, IF top = Locked THEN "refused" ELSE "alloc", top, pusher[p].tmp)
         /\ PushAlloc(p) =>
              \E n \in Free :
                 /\ nodes' = [nodes EXCEPT ![n] = [task |-> p, next |-> pusher[p].top]]
                 /\ Moves(p, "cas", pusher[p].top, n)
         /\ PushCasWon(p) => Moves(p, "accepted", pusher[p].top, Null)
         /\ PushCasLost(p) => Moves(p, "cas", top, pusher[p].tmp)
         /\ PushCasLocked(p) => Moves(p, "refused", pusher[p].top, Null)
<1>1. pusher \in [Pushers -> PusherType] /\ top \in Addresses \cup {Locked}
  BY DEF TypeOK, PusherType
<1>2. PushLoad(p) =>
        Moves(p, IF top = Locked THEN "refused" ELSE "alloc", top, pusher[p].tmp)
  <2> DEFINE x == IF top = Locked THEN "refused" ELSE "alloc"
  <2>1. x \in {"load", "alloc", "cas", "accepted", "refused"}
    OBVIOUS
  <2>2. PushLoad(p) => pusher' = [pusher EXCEPT ![p].pc = x, ![p].top = top]
    BY Zenon DEF PushLoad
  <2> HIDE DEF x
  <2>3. PushLoad(p) => Moves(p, x, top, pusher[p].tmp)
    BY <1>1, <2>1, <2>2, MovePcTop
  <2> QED BY <2>3 DEF x
<1>3. ASSUME PushAlloc(p)
      PROVE  \E n \in Free :
               /\ nodes' = [nodes EXCEPT ![n] = [task |-> p, next |-> pusher[p].top]]
               /\ Moves(p, "cas", pusher[p].top, n)
  <2>1. PICK n \in Free :
          /\ nodes' = [nodes EXCEPT ![n] = [task |-> p, next |-> pusher[p].top]]
          /\ pusher' = [pusher EXCEPT ![p].pc = "cas", ![p].tmp = n]
    BY <1>3, Zenon DEF PushAlloc
  <2>2. n \in Addresses
    BY DEF Free, Addresses
  <2>3. Moves(p, "cas", pusher[p].top, n)
    BY <1>1, <2>1, <2>2, MovePcTmp
  <2> QED BY <2>1, <2>3
<1>4. /\ PushCasWon(p) => Moves(p, "accepted", pusher[p].top, Null)
      /\ PushCasLocked(p) => Moves(p, "refused", pusher[p].top, Null)
  <2>1. Null \in Addresses
    BY DEF Addresses
  <2> QED BY <1>1, <2>1, MovePcTmp DEF PushCasWon, PushCasLocked
<1>5. PushCasLost(p) => Moves(p, "cas", top, pusher[p].tmp)
  BY <1>1 DEF PushCasLost, Moves, PusherType
<1> QED BY <1>2, <1>3, <1>4, <1>5

-----------------------------------------------------------------------------
(* The steps preserve it *)

\* At the start every list is empty and no node is in use.
LEMMA InitIInv == Init => IInv
<1> SUFFICES ASSUME Init PROVE IInv
  OBVIOUS
<1>1. TypeOK
  BY DEF Init, TypeOK, Addresses
<1>2. LockOwned /\ Private /\ Owned /\ Kept
  BY StackAssumption DEF Init, LockOwned, Private, Owned, Used, Kept
<1>3. Numbering([n \in Nodes |-> 0], 0)
  BY StackAssumption DEF Init, Numbering, Linked, Used, First
<1> QED
  BY <1>1, <1>2, <1>3 DEF IInv, Listed

\* No step of stack_push leaves the types.
LEMMA PushTypeStep ==
  ASSUME TypeOK, Private, NEW p \in Pushers, Push(p)
  PROVE  TypeOK'
<1> DEFINE NodeType == [task : Pushers \cup {Null}, next : Addresses]
<1>1. SUFFICES /\ top' \in Addresses \cup {Locked}
               /\ nodes' \in [Nodes -> NodeType]
               /\ pusher' \in [Pushers -> PusherType]
               /\ UNCHANGED <<locker, popped>>
  BY DEF TypeOK, PusherType
<1>2. CASE PushLoad(p)
  BY <1>2, PushMoves DEF PushLoad, Moves, TypeOK
<1>3. CASE PushAlloc(p)
  <2>1. PICK n \in Free :
          /\ nodes' = [nodes EXCEPT ![n] = [task |-> p, next |-> pusher[p].top]]
          /\ Moves(p, "cas", pusher[p].top, n)
    BY <1>3, PushMoves
  <2>2. pusher[p].top \in Addresses
    BY <1>3 DEF PushAlloc, Private, TypeOK
  <2>3. nodes' \in [Nodes -> NodeType]
    BY <2>1, <2>2 DEF TypeOK
  <2> QED BY <1>3, <2>1, <2>3 DEF PushAlloc, Moves, TypeOK
<1>4. CASE PushCasWon(p)
  <2>1. top' \in Addresses
    BY <1>4 DEF PushCasWon, TypeOK
  <2> QED BY <1>4, <2>1, PushMoves DEF PushCasWon, Moves, TypeOK
<1>5. CASE PushCasLost(p)
  <2>1. nodes' \in [Nodes -> NodeType]
    BY <1>5 DEF PushCasLost, TypeOK
  <2> QED BY <1>5, <2>1, PushMoves DEF PushCasLost, Moves, TypeOK
<1>6. CASE PushCasLocked(p)
  <2>1. nodes' \in [Nodes -> NodeType]
    BY <1>6 DEF PushCasLocked, TypeOK, Addresses
  <2> QED BY <1>6, <2>1, PushMoves DEF PushCasLocked, Moves, TypeOK
<1> QED BY <1>2, <1>3, <1>4, <1>5, <1>6 DEF Push

\* No step of the task that notifies leaves the types.
LEMMA NotifyTypeStep ==
  ASSUME TypeOK, LockOwned, Notify
  PROVE  TypeOK'
<1> USE DEF TypeOK, Addresses
<1>1. CASE LockLoad
  BY <1>1 DEF LockLoad, LockOwned
<1>2. CASE LockCasWon
  BY <1>2 DEF LockCasWon
<1>3. CASE LockCasLost
  BY <1>3 DEF LockCasLost, LockOwned
<1>4. CASE Pop
  <2>1. locker.top \in Nodes
    BY <1>4 DEF Pop
  <2>2. nodes' \in [Nodes -> [task : Pushers \cup {Null}, next : Nodes \cup {Null}]]
    BY <1>4 DEF Pop
  <2>3. popped' \in [Pushers -> Nat]
    <3> DEFINE task == nodes[locker.top].task
    <3>1. popped' = [popped EXCEPT ![task] = popped[task] + 1]
      BY <1>4 DEF Pop
    <3> HIDE DEF task
    <3>2. CASE task \in Pushers
      BY <3>1, <3>2
    <3>3. CASE task \notin Pushers
      BY <3>1, <3>3
    <3> QED BY <3>2, <3>3
  <2>4. locker' \in [pc : {"load", "cas", "pop", "done"}, top : Nodes \cup {Null}]
    BY <1>4, <2>1 DEF Pop
  <2> QED BY <1>4, <2>2, <2>3, <2>4 DEF Pop
<1>5. CASE PopEmpty
  BY <1>5 DEF PopEmpty
<1> QED BY <1>1, <1>2, <1>3, <1>4, <1>5 DEF Notify

\* A step that moves neither the start of the list nor a linked node keeps the
\* numbering.
LEMMA ListedFrame ==
  ASSUME Listed, First' = First,
         \A n \in Nodes : Linked(n)' <=> Linked(n),
         \A n \in Nodes : Linked(n) => nodes'[n].next = nodes[n].next
  PROVE  Listed'
<1>1. PICK size \in Nat, depth \in [Nodes -> Nat] : Numbering(depth, size)
  BY DEF Listed
<1>2. Numbering(depth, size)'
  BY <1>1 DEF Numbering
<1> QED BY <1>2 DEF Listed

\* The load of the first node reads and leaves everything in place.
LEMMA PushLoadStep ==
  ASSUME IInv, NEW p \in Pushers, PushLoad(p), TypeOK'
  PROVE  IInv'
<1> USE DEF IInv, PushLoad
<1>1. LockOwned' /\ Private'
  BY DEF LockOwned, Private, TypeOK
<1>2. Owned' /\ Kept'
  BY DEF Owned, Kept, Used, TypeOK
<1>3. Listed'
  <2>1. \A n \in Nodes : Linked(n)' <=> Linked(n)
    BY DEF Linked, Used, TypeOK
  <2> QED BY <2>1, ListedFrame DEF First
<1> QED BY <1>1, <1>2, <1>3

\* The private nodes of two pushers differ: each holds its pusher's task.
LEMMA PrivateTask ==
  ASSUME Private, NEW q \in Pushers, pusher[q].pc = "cas"
  PROVE  pusher[q].tmp \in Nodes /\ nodes[pusher[q].tmp].task = q
<1>1. nodes[pusher[q].tmp] = [task |-> q, next |-> pusher[q].top]
  BY DEF Private
<1> QED BY <1>1 DEF Private

\* A node that malloc hands out is private to its pusher.
LEMMA PushAllocStep ==
  ASSUME IInv, NEW p \in Pushers, PushAlloc(p), TypeOK'
  PROVE  IInv'
<1> USE DEF IInv
<1>1. PICK n \in Free :
        /\ nodes' = [nodes EXCEPT ![n] = [task |-> p, next |-> pusher[p].top]]
        /\ Moves(p, "cas", pusher[p].top, n)
  BY PushMoves
<1>2. /\ n \in Nodes /\ ~Used(n)
      /\ nodes'[n] = [task |-> p, next |-> pusher[p].top]
      /\ \A m \in Nodes : m # n => nodes'[m] = nodes[m]
      /\ UNCHANGED <<top, locker, popped>>
      /\ pusher[p].pc = "alloc"
  BY <1>1 DEF Free, Used, TypeOK, PushAlloc
<1>3. /\ pusher'[p].pc = "cas" /\ pusher'[p].tmp = n /\ pusher'[p].top = pusher[p].top
      /\ \A q \in Pushers : q # p => pusher'[q] = pusher[q]
  BY <1>1 DEF Moves
<1>4. \A m \in Nodes : nodes[m].task # p
  BY <1>2, StackAssumption DEF Owned, Used
<1>5a. LockOwned'
  BY <1>2 DEF LockOwned
<1>5. Kept'
  <2>1. ASSUME NEW q \in Pushers
        PROVE  /\ popped'[q] \in {0, 1}
               /\ pusher'[q].pc # "accepted" => popped'[q] = 0
    BY <1>2, <1>3 DEF Kept
  <2>2. ASSUME NEW q \in Pushers, pusher'[q].pc = "accepted" /\ popped'[q] = 0
        PROVE  \E m \in Nodes : nodes'[m].task = q
    <3>1. PICK m \in Nodes : nodes[m].task = q
      BY <1>2, <1>3, <2>2 DEF Kept
    <3>2. m # n
      BY <1>2, <3>1, StackAssumption DEF Used
    <3> QED BY <1>2, <3>1, <3>2
  <2> QED BY <2>1, <2>2 DEF Kept
<1>6. Private'
  <2>1. ASSUME NEW q \in Pushers
        PROVE  /\ pusher'[q].pc \in {"alloc", "cas"} => pusher'[q].top # Locked
               /\ pusher'[q].pc = "cas" =>
                    /\ pusher'[q].tmp \in Nodes
                    /\ nodes'[pusher'[q].tmp] = [task |-> q, next |-> pusher'[q].top]
    <3>1. CASE q = p
      BY <1>2, <1>3, <3>1 DEF Private
    <3>2. CASE q # p
      <4>1. pusher[q].pc = "cas" => pusher[q].tmp # n
        <5>1. pusher[q].pc = "cas" => nodes[pusher[q].tmp].task = q
          BY PrivateTask
        <5>2. nodes[n].task = Null /\ q # Null
          BY <1>2, StackAssumption DEF Used
        <5> QED BY <5>1, <5>2
      <4> QED BY <1>2, <1>3, <3>2, <4>1 DEF Private
    <3> QED BY <3>1, <3>2
  <2> QED BY <2>1 DEF Private
<1>7. Owned'
  <2>1. \A l, m \in Nodes : Used(m)' /\ nodes'[l].task = nodes'[m].task => l = m
    BY <1>2, <1>4 DEF Owned, Used
  <2>2. ASSUME NEW m \in Nodes, Used(m)'
        PROVE  /\ pusher'[nodes'[m].task].pc \in {"cas", "accepted"}
               /\ popped'[nodes'[m].task] = 0
    <3>1. CASE m = n
      BY <1>2, <1>3, <3>1 DEF Kept
    <3>2. CASE m # n
      <4>1. nodes[m].task \in Pushers /\ nodes[m].task # p
        BY <1>2, <1>4, <2>2, <3>2 DEF Used, TypeOK
      <4> QED BY <1>2, <1>3, <2>2, <3>2, <4>1 DEF Owned, Used
    <3> QED BY <3>1, <3>2
  <2> QED BY <2>1, <2>2 DEF Owned
<1>8. Listed'
  <2>1. \A m \in Nodes : Linked(m)' <=> Linked(m)
    BY <1>2, <1>3, <1>4, StackAssumption DEF Linked, Used, TypeOK
  <2>2. \A m \in Nodes : Linked(m) => nodes'[m].next = nodes[m].next
    BY <1>2 DEF Linked
  <2> QED BY <1>2, <2>1, <2>2, ListedFrame DEF First
<1> QED BY <1>5, <1>5a, <1>6, <1>7, <1>8

\* The CAS that wins makes the private node the first of the list.
LEMMA PushCasWonStep ==
  ASSUME IInv, NEW p \in Pushers, PushCasWon(p), TypeOK'
  PROVE  IInv'
<1> USE DEF IInv
<1>1. /\ pusher'[p].pc = "accepted"
      /\ \A q \in Pushers : q # p => pusher'[q] = pusher[q]
  BY PushMoves DEF Moves
<1>2. PICK n \in Nodes :
        /\ nodes[n] = [task |-> p, next |-> pusher[p].top]
        /\ pusher[p].pc = "cas" /\ pusher[p].top = top /\ top # Locked
        /\ top' = n /\ n # Locked /\ n # Null
        /\ UNCHANGED <<nodes, locker, popped>>
  BY StackAssumption DEF PushCasWon, Private
<1>3. LockOwned' /\ Private'
  BY <1>1, <1>2 DEF LockOwned, Private
<1>4. Owned' /\ Kept'
  BY <1>1, <1>2, StackAssumption DEF Owned, Kept, Used, TypeOK
<1>5. Listed'
  <2>1. PICK size \in Nat, depth \in [Nodes -> Nat] : Numbering(depth, size)
    BY DEF Listed
  <2>2. Linked(n)' /\ ~Linked(n) /\ \A m \in Nodes : m # n => (Linked(m)' <=> Linked(m))
    <3>1. Linked(n)' /\ ~Linked(n)
      BY <1>1, <1>2, StackAssumption DEF Linked, Used
    <3>2. ASSUME NEW m \in Nodes, m # n PROVE Linked(m)' <=> Linked(m)
      <4>1. nodes[m].task # p
        BY <1>2, <3>2, StackAssumption DEF Owned, Used
      <4>2. Used(m) => nodes[m].task \in Pushers
        BY DEF Used, TypeOK
      <4> QED BY <1>1, <1>2, <4>1, <4>2 DEF Linked, Used
    <3> QED BY <3>1, <3>2
  <2>3. depth[n] = 0
    BY <1>2, <2>1, <2>2 DEF Numbering
  <2>4. PICK new \in [Nodes -> Nat] :
          new[n] = size + 1 /\ \A m \in Nodes : m # n => new[m] = depth[m]
    <3> DEFINE f == [depth EXCEPT ![n] = size + 1]
    <3>1. f \in [Nodes -> Nat] /\ f[n] = size + 1 /\ \A m \in Nodes : m # n => f[m] = depth[m]
      BY <1>2
    <3> QED BY <3>1
  <2>5. nodes[n].next = (IF size = 0 THEN Null ELSE First) /\ First = top /\ First' = n
    BY <1>2, <2>1 DEF Numbering, First
  <2>6. ASSUME NEW i \in 1..(size + 1) PROVE \E m \in Nodes : new[m] = i
    <3>1. CASE i = size + 1
      BY <1>2, <2>4, <3>1
    <3>2. CASE i \in 1..size
      <4>1. PICK m \in Nodes : depth[m] = i
        BY <2>1, <3>2 DEF Numbering
      <4>2. m # n
        BY <2>3, <3>2, <4>1
      <4> QED BY <2>4, <4>1, <4>2
    <3> QED BY <3>1, <3>2
  <2>7. \A m \in Nodes : new[m] > 1 => nodes[m].next \in Nodes /\ new[nodes[m].next] = new[m] - 1
    <3>1. CASE size = 0
      BY <1>2, <2>1, <2>3, <2>4, <3>1 DEF Numbering
    <3>2. CASE size > 0
      <4>1. nodes[n].next = First /\ First \in Nodes /\ depth[First] = size /\ First # n
        BY <1>2, <2>1, <2>3, <2>5, <3>2 DEF Numbering
      <4>2. \A m \in Nodes : m # n /\ depth[m] > 1 =>
               nodes[m].next \in Nodes /\ depth[nodes[m].next] = depth[m] - 1 /\ nodes[m].next # n
        BY <1>2, <2>1, <2>3 DEF Numbering
      <4> QED BY <1>2, <2>4, <4>1, <4>2
    <3> QED BY <2>1, <3>1, <3>2
  <2>8. \A m \in Nodes : new[m] = 1 => nodes[m].next = Null
    BY <1>2, <2>1, <2>4, <2>5 DEF Numbering
  <2>9. \A m \in Nodes : new[m] <= size + 1
    BY <1>2, <2>1, <2>4 DEF Numbering
  <2>10. \A m \in Nodes : new[m] > 0 <=> Linked(m)'
    BY <1>2, <2>1, <2>2, <2>4 DEF Numbering
  <2>11. \A l, m \in Nodes : new[l] = new[m] /\ new[l] > 0 => l = m
    BY <1>2, <2>1, <2>4 DEF Numbering
  <2>12. Numbering(new, size + 1)'
    BY <1>2, <2>4, <2>5, <2>6, <2>7, <2>8, <2>9, <2>10, <2>11 DEF Numbering
  <2> QED BY <2>4, <2>12 DEF Listed
<1> QED BY <1>3, <1>4, <1>5

\* The CAS that fails leaves the list and the private node.
LEMMA PushCasLostStep ==
  ASSUME IInv, NEW p \in Pushers, PushCasLost(p), TypeOK'
  PROVE  IInv'
<1> USE DEF IInv
<1> DEFINE n == pusher[p].tmp
<1>1. /\ pusher'[p].pc = "cas" /\ pusher'[p].top = top /\ pusher'[p].tmp = n
      /\ \A q \in Pushers : q # p => pusher'[q] = pusher[q]
  BY PushMoves DEF Moves
<1>2. /\ n \in Nodes /\ nodes[n] = [task |-> p, next |-> pusher[p].top]
      /\ pusher[p].pc = "cas" /\ top # Locked
      /\ UNCHANGED <<top, locker, popped>>
  BY DEF PushCasLost, Private
<1>3. /\ nodes'[n] = [task |-> p, next |-> top]
      /\ \A m \in Nodes : m # n => nodes'[m] = nodes[m]
  BY <1>2 DEF PushCasLost, TypeOK
<1> HIDE DEF n
<1>4. LockOwned' /\ Private'
  BY <1>1, <1>2, <1>3 DEF LockOwned, Private
<1>5. \A m \in Nodes : nodes'[m].task = nodes[m].task
  BY <1>2, <1>3
<1>6. Owned' /\ Kept'
  BY <1>1, <1>2, <1>5 DEF Owned, Kept, Used, TypeOK
<1>7. Listed'
  <2>1. \A m \in Nodes : Linked(m)' <=> Linked(m)
    BY <1>1, <1>2, <1>5 DEF Linked, Used, TypeOK
  <2>2. ~Linked(n)
    BY <1>2 DEF Linked
  <2> QED BY <1>2, <1>3, <2>1, <2>2, ListedFrame DEF First
<1> QED BY <1>4, <1>6, <1>7

\* A pusher that finds the stack locked frees its private node.
LEMMA PushCasLockedStep ==
  ASSUME IInv, NEW p \in Pushers, PushCasLocked(p), TypeOK'
  PROVE  IInv'
<1> USE DEF IInv
<1>1. PICK n \in Nodes : n = pusher[p].tmp
  BY DEF PushCasLocked, Private
<1>2. /\ pusher'[p].pc = "refused"
      /\ \A q \in Pushers : q # p => pusher'[q] = pusher[q]
  BY PushMoves DEF Moves
<1>3. /\ nodes[n].task = p /\ pusher[p].pc = "cas" /\ Used(n)
      /\ UNCHANGED <<top, locker, popped>>
  BY <1>1, PrivateTask, StackAssumption DEF PushCasLocked, Used
<1>4. /\ nodes'[n] = [task |-> Null, next |-> Null]
      /\ \A m \in Nodes : m # n => nodes'[m] = nodes[m]
  BY <1>1 DEF PushCasLocked, TypeOK
<1>5. \A m \in Nodes : m # n => nodes[m].task # p
  BY <1>3 DEF Owned
<1>6. nodes'[n].task = Null /\ ~Used(n)' /\ ~Linked(n)'
  BY <1>4 DEF Used, Linked
<1>7. LockOwned'
  BY <1>3 DEF LockOwned
<1>8. Private'
  <2>1. \A q \in Pushers : q # p /\ pusher[q].pc = "cas" => pusher[q].tmp # n
    BY <1>3, PrivateTask
  <2> QED BY <1>2, <1>4, <2>1 DEF Private
<1>9. Owned'
  <2>1. ASSUME NEW m \in Nodes, Used(m)'
        PROVE  m # n /\ nodes'[m] = nodes[m] /\ Used(m) /\ nodes[m].task \in Pushers \ {p}
    BY <1>4, <1>5, <1>6, <2>1 DEF Used, TypeOK
  <2>2. \A l, m \in Nodes : Used(l)' /\ nodes'[l].task = nodes'[m].task => l = m
    BY <2>1 DEF Owned, Used
  <2>3. \A m \in Nodes : Used(m)' =>
          /\ pusher'[nodes'[m].task].pc \in {"cas", "accepted"}
          /\ popped'[nodes'[m].task] = 0
    BY <1>2, <1>3, <2>1 DEF Owned
  <2> QED BY <2>2, <2>3 DEF Owned
<1>10. Kept'
  <2>1. ASSUME NEW q \in Pushers
        PROVE  /\ popped'[q] \in {0, 1}
               /\ pusher'[q].pc # "accepted" => popped'[q] = 0
    BY <1>2, <1>3 DEF Kept
  <2>2. ASSUME NEW q \in Pushers, pusher'[q].pc = "accepted" /\ popped'[q] = 0
        PROVE  \E m \in Nodes : nodes'[m].task = q
    <3>1. q # p /\ pusher[q].pc = "accepted" /\ popped[q] = 0
      BY <1>2, <1>3, <2>2
    <3>2. PICK m \in Nodes : nodes[m].task = q
      BY <3>1 DEF Kept
    <3> QED BY <1>3, <1>4, <3>1, <3>2
  <2> QED BY <2>1, <2>2 DEF Kept
<1>11. Listed'
  <2>1. ~Linked(n)
    BY <1>3 DEF Linked
  <2>2. ASSUME NEW m \in Nodes, m # n PROVE Linked(m)' <=> Linked(m)
    <3>1. Used(m) => nodes[m].task \in Pushers \ {p}
      BY <1>5, <2>2 DEF Used, TypeOK
    <3> QED BY <1>2, <1>4, <2>2, <3>1 DEF Linked, Used
  <2> QED BY <1>3, <1>4, <1>6, <2>1, <2>2, ListedFrame DEF First
<1> QED BY <1>7, <1>8, <1>9, <1>10, <1>11

\* stack_lock takes the whole list over to the task that notifies.
LEMMA LockStep ==
  ASSUME IInv, LockLoad \/ LockCasWon \/ LockCasLost \/ PopEmpty, TypeOK'
  PROVE  IInv'
<1> USE DEF IInv, LockLoad, LockCasWon, LockCasLost, PopEmpty
<1>1. UNCHANGED <<nodes, pusher, popped>>
  OBVIOUS
<1>2. LockOwned'
  BY StackAssumption DEF LockOwned, TypeOK, Addresses
<1>3. Private' /\ Owned' /\ Kept'
  BY <1>1 DEF Private, Owned, Kept, Used
<1>4. First' = First
  BY <1>2 DEF First, LockOwned, TypeOK
<1>5. Listed'
  BY <1>1, <1>4, ListedFrame DEF Linked, Used
<1> QED BY <1>2, <1>3, <1>5

\* stack_pop unlinks and frees the first node of the list taken over.
LEMMA PopStep ==
  ASSUME IInv, Pop, TypeOK'
  PROVE  IInv'
<1> USE DEF IInv
<1>1. PICK size \in Nat, depth \in [Nodes -> Nat] : Numbering(depth, size)
  BY DEF Listed
<1>2. PICK n \in Nodes : n = locker.top
  BY DEF Pop, TypeOK, Addresses
<1>3. /\ First = n /\ size > 0 /\ depth[n] = size /\ Linked(n)
      /\ top = Locked /\ UNCHANGED <<top, pusher>>
  BY <1>1, <1>2, StackAssumption DEF Numbering, First, Pop, LockOwned
<1>4. PICK p \in Pushers : p = nodes[n].task
  BY <1>3 DEF Linked, Used, TypeOK
<1>5. /\ pusher[p].pc = "accepted" /\ popped[p] = 0 /\ p # Null
      /\ \A m \in Nodes : m # n => nodes[m].task # p
  BY <1>3, <1>4 DEF Linked, Owned, Used
<1>6. /\ nodes'[n] = [task |-> Null, next |-> Null]
      /\ \A m \in Nodes : m # n => nodes'[m] = nodes[m]
  BY <1>2 DEF Pop, TypeOK
<1>7. popped'[p] = 1 /\ \A q \in Pushers : q # p => popped'[q] = popped[q]
  BY <1>2, <1>4, <1>5 DEF Pop, TypeOK
<1>8. locker'.pc = "pop" /\ locker'.top = nodes[n].next /\ First' = locker'.top
  BY <1>2, <1>3 DEF Pop, TypeOK, First
<1>9. LockOwned'
  BY <1>3, <1>8 DEF LockOwned
<1>10. Private'
  <2>1. \A q \in Pushers : pusher[q].pc = "cas" => pusher[q].tmp # n
    BY <1>4, <1>5, PrivateTask
  <2> QED BY <1>3, <1>6, <2>1 DEF Private
<1>11. ~Used(n)' /\ \A m \in Nodes : m # n => nodes'[m].task = nodes[m].task /\ (Used(m)' <=> Used(m))
  BY <1>6 DEF Used
<1>12. Owned'
  <2>1. \A l, m \in Nodes : Used(l)' /\ nodes'[l].task = nodes'[m].task => l = m
    BY <1>11 DEF Owned, Used
  <2>2. ASSUME NEW m \in Nodes, Used(m)'
        PROVE  /\ pusher'[nodes'[m].task].pc \in {"cas", "accepted"}
               /\ popped'[nodes'[m].task] = 0
    <3>1. m # n /\ nodes[m].task \in Pushers \ {p} /\ Used(m)
      BY <1>5, <1>11, <2>2 DEF Used, TypeOK
    <3> QED BY <1>3, <1>7, <1>11, <3>1 DEF Owned
  <2> QED BY <2>1, <2>2 DEF Owned
<1>13. Kept'
  <2>1. ASSUME NEW q \in Pushers
        PROVE  /\ popped'[q] \in {0, 1}
               /\ pusher'[q].pc # "accepted" => popped'[q] = 0
    BY <1>3, <1>5, <1>7 DEF Kept
  <2>2. ASSUME NEW q \in Pushers, pusher'[q].pc = "accepted" /\ popped'[q] = 0
        PROVE  \E m \in Nodes : nodes'[m].task = q
    <3>1. q # p /\ pusher[q].pc = "accepted" /\ popped[q] = 0
      BY <1>3, <1>7, <2>2
    <3>2. PICK m \in Nodes : nodes[m].task = q
      BY <3>1 DEF Kept
    <3> QED BY <1>4, <1>6, <3>1, <3>2
  <2> QED BY <2>1, <2>2 DEF Kept
<1>14. Listed'
  <2>1. PICK new \in [Nodes -> Nat] :
          new[n] = 0 /\ \A m \in Nodes : m # n => new[m] = depth[m]
    <3> DEFINE f == [depth EXCEPT ![n] = 0]
    <3>1. f \in [Nodes -> Nat] /\ f[n] = 0 /\ \A m \in Nodes : m # n => f[m] = depth[m]
      BY <1>2
    <3> QED BY <3>1
  <2>2. ~Linked(n)' /\ \A m \in Nodes : m # n => (Linked(m)' <=> Linked(m))
    BY <1>3, <1>11 DEF Linked
  <2>3. \A m \in Nodes : m # n => depth[m] < size
    BY <1>1, <1>3 DEF Numbering
  <2>4. \A m \in Nodes : new[m] > 0 <=> Linked(m)'
    BY <1>1, <2>1, <2>2 DEF Numbering
  <2>5. \A l, m \in Nodes : new[l] = new[m] /\ new[l] > 0 => l = m
    BY <1>1, <2>1 DEF Numbering
  <2>6. ASSUME NEW i \in 1..(size - 1) PROVE \E m \in Nodes : new[m] = i
    <3>1. PICK m \in Nodes : depth[m] = i
      BY <1>1 DEF Numbering
    <3> QED BY <1>3, <2>1, <3>1
  <2>7. \A m \in Nodes : new[m] = 1 => nodes'[m].next = Null
    BY <1>1, <1>6, <2>1 DEF Numbering
  <2>8. ASSUME NEW m \in Nodes, new[m] > 1
        PROVE  nodes'[m].next \in Nodes /\ new[nodes'[m].next] = new[m] - 1
    <3>1. m # n /\ depth[m] = new[m] /\ nodes'[m] = nodes[m]
      BY <1>6, <2>1, <2>8
    <3>2. nodes[m].next \in Nodes /\ depth[nodes[m].next] = depth[m] - 1
      BY <1>1, <2>8, <3>1 DEF Numbering
    <3>3. nodes[m].next # n
      BY <1>3, <2>3, <3>1, <3>2
    <3> QED BY <2>1, <3>1, <3>2, <3>3
  <2>9. /\ size = 1 => First' = Null
        /\ size > 1 => First' \in Nodes /\ new[First'] = size - 1
    <3>1. size = 1 => nodes[n].next = Null
      BY <1>1, <1>3 DEF Numbering
    <3>2. size > 1 => nodes[n].next \in Nodes /\ depth[nodes[n].next] = size - 1
      BY <1>1, <1>3 DEF Numbering
    <3>3. size > 1 => nodes[n].next # n
      BY <1>3, <3>2
    <3> QED BY <1>8, <2>1, <3>1, <3>2, <3>3
  <2>10. size - 1 \in Nat /\ \A m \in Nodes : new[m] <= size - 1
    BY <1>3, <2>1, <2>3
  <2>11. Numbering(new, size - 1)'
    BY <1>3, <2>4, <2>5, <2>6, <2>7, <2>8, <2>9, <2>10 DEF Numbering
  <2> QED BY <2>10, <2>11 DEF Listed
<1> QED BY <1>9, <1>10, <1>12, <1>13, <1>14

\* Every step preserves the invariant.
LEMMA NextStep ==
  ASSUME IInv, [Next]_vars
  PROVE  IInv'
<1>1. CASE UNCHANGED vars
  <2>1. TypeOK' /\ LockOwned' /\ Private'
    BY <1>1 DEF vars, IInv, TypeOK, LockOwned, Private
  <2>2. Owned' /\ Kept'
    BY <1>1 DEF vars, IInv, Owned, Used, Kept
  <2>3. Listed'
    BY <1>1, ListedFrame DEF vars, IInv, Linked, Used, First
  <2> QED BY <2>1, <2>2, <2>3 DEF IInv
<1>2. ASSUME NEW p \in Pushers, Push(p) PROVE IInv'
  <2>1. TypeOK'
    BY <1>2, PushTypeStep DEF IInv
  <2> QED
    BY <1>2, <2>1, PushLoadStep, PushAllocStep, PushCasWonStep, PushCasLostStep,
       PushCasLockedStep DEF Push
<1>3. CASE Notify
  <2>1. TypeOK'
    BY <1>3, NotifyTypeStep DEF IInv
  <2> QED BY <1>3, <2>1, LockStep, PopStep DEF Notify
<1> QED BY <1>1, <1>2, <1>3 DEF Next, Finished

\* The invariant holds in every state of stack.c's operations.
LEMMA Invariant == Spec => []IInv
<1> QED BY InitIInv, NextStep, PTL DEF Spec

\* Every shared word and every local variable of stack.c keeps its range: in
\* particular the lock value is never handed out as the address of a node.
THEOREM TypeCorrect == Spec => []TypeOK
<1>1. IInv => TypeOK
  BY DEF IInv
<1> QED BY <1>1, Invariant, PTL

-----------------------------------------------------------------------------
(* What the invariant says of the properties *)

\* For any number of concurrent pushes and whatever addresses malloc reuses: a
\* task whose stack_push returned 1 is popped exactly once, the others never.
THEOREM DeliveredOnce == Spec => []DeliveredOnceIffAccepted
<1>1. ASSUME IInv PROVE DeliveredOnceIffAccepted
  <2> USE <1>1 DEF IInv
  <2> SUFFICES ASSUME locker.pc = "done", NEW p \in Pushers
               PROVE  /\ pusher[p].pc = "accepted" => popped[p] = 1
                      /\ pusher[p].pc # "accepted" => popped[p] = 0
    BY DEF DeliveredOnceIffAccepted
  <2>1. First = Null
    BY DEF LockOwned, First
  <2>2. PICK size \in Nat, depth \in [Nodes -> Nat] : Numbering(depth, size)
    BY DEF Listed
  <2>3. size = 0
    BY <2>1, <2>2, StackAssumption DEF Numbering
  <2>4. \A n \in Nodes : ~Linked(n)
    BY <2>2, <2>3 DEF Numbering
  <2>5. pusher[p].pc = "accepted" => \A n \in Nodes : nodes[n].task # p
    BY <2>4, StackAssumption DEF Linked, Used
  <2> QED BY <2>5 DEF Kept
<1> QED BY <1>1, Invariant, PTL

-----------------------------------------------------------------------------
(* The nodes reached by following `next' *)

\* The least element of a set of numbers: what stands for an induction here.
LEMMA LeastNumber ==
  ASSUME NEW S \in SUBSET Nat, S # {}
  PROVE  \E x \in S : \A y \in S : x <= y
<1> DEFINE T == {0..x : x \in S}
<1>1. \A x \in S : 0..x \in FiniteSubsetsOf(Nat)
  <2> SUFFICES ASSUME NEW x \in S PROVE 0..x \in FiniteSubsetsOf(Nat)
    OBVIOUS
  <2>1. x \in Int
    OBVIOUS
  <2>2. IsFiniteSet(0..x)
    BY <2>1, FS_Interval
  <2> QED BY <2>2 DEF FiniteSubsetsOf
<1>2. T \subseteq FiniteSubsetsOf(Nat) /\ T # {}
  BY <1>1
<1>3. PICK t \in T : \A y \in T : ~(<<y, t>> \in StrictSubsetOrdering(Nat))
  <2> HIDE DEF T
  <2> QED BY <1>2, FS_StrictSubsetOrderingWellFounded, WFMin
<1>4. PICK x \in S : t = 0..x
  OBVIOUS
<1>5. ASSUME NEW y \in S PROVE x <= y
  <2>1. SUFFICES ASSUME y < x PROVE FALSE
    OBVIOUS
  <2>2. 0..y \in T
    OBVIOUS
  <2>3. 0..y \subseteq 0..x /\ x \notin 0..y /\ x \in 0..x
    BY <2>1
  <2>4. <<0..y, 0..x>> \in StrictSubsetOrdering(Nat)
    <3>1. 0..y \subseteq Nat /\ 0..x \subseteq Nat
      OBVIOUS
    <3> QED BY <2>3, <3>1 DEF StrictSubsetOrdering
  <2> QED BY <1>3, <1>4, <2>2, <2>4
<1> QED BY <1>5

\* There are not more numbers than nodes.
LEMMA NumberingBound ==
  ASSUME NEW size \in Nat, NEW depth \in [Nodes -> Nat], Numbering(depth, size)
  PROVE  Cardinality(Nodes) \in Nat /\ size <= Cardinality(Nodes)
<1> DEFINE at == [i \in 1..size |-> CHOOSE n \in Nodes : depth[n] = i]
<1>1. \A i \in 1..size : at[i] \in Nodes /\ depth[at[i]] = i
  BY DEF Numbering
<1>2. at \in [1..size -> Nodes]
  BY <1>1
<1> HIDE DEF at
<1>3. at \in Injection(1..size, Nodes)
  BY <1>1, <1>2 DEF Injection, IsInjective
<1>4. Cardinality(1..size) <= Cardinality(Nodes)
  BY <1>3, FS_Injection, StackAssumption
<1>5. Cardinality(1..size) = size
  BY FS_Interval
<1>6. Cardinality(Nodes) \in Nat
  BY FS_CardinalityType, StackAssumption
<1> QED BY <1>4, <1>5, <1>6

\* One more step along `next' from the nodes numbered down to `low'.
LEMMA NextNumber ==
  ASSUME NEW size \in Nat, NEW depth \in [Nodes -> Nat], Numbering(depth, size),
         NEW low \in Int, low <= size,
         NEW S, S = {n \in Nodes : depth[n] > 0 /\ depth[n] >= low}
  PROVE  S \cup ({nodes[n].next : n \in S} \ {Null})
           = {n \in Nodes : depth[n] > 0 /\ depth[n] >= low - 1}
<1>1. ASSUME NEW n \in S, nodes[n].next # Null
      PROVE  /\ nodes[n].next \in Nodes
             /\ depth[nodes[n].next] > 0 /\ depth[nodes[n].next] >= low - 1
  BY <1>1 DEF Numbering
<1>2. ASSUME NEW m \in Nodes, depth[m] > 0, depth[m] = low - 1
      PROVE  m \in {nodes[n].next : n \in S} \ {Null}
  <2>1. PICK n \in Nodes : depth[n] = low
    BY <1>2 DEF Numbering
  <2>2. nodes[n].next \in Nodes /\ depth[nodes[n].next] = low - 1
    BY <1>2, <2>1 DEF Numbering
  <2>3. nodes[n].next = m
    BY <1>2, <2>2 DEF Numbering
  <2> QED BY <1>2, <2>1, <2>3, StackAssumption
<1>3. ASSUME NEW m \in S \cup ({nodes[n].next : n \in S} \ {Null})
      PROVE  m \in Nodes /\ depth[m] > 0 /\ depth[m] >= low - 1
  BY <1>1
<1>4. ASSUME NEW m \in Nodes, depth[m] > 0, depth[m] >= low - 1
      PROVE  m \in S \cup ({nodes[n].next : n \in S} \ {Null})
  BY <1>2, <1>4
<1> QED BY <1>3, <1>4

\* Following `next' from First meets exactly the numbered nodes.
LEMMA ChainIsLinked ==
  ASSUME IInv
  PROVE  Chain = {n \in Nodes : Linked(n)}
<1>1. PICK size \in Nat, depth \in [Nodes -> Nat] : Numbering(depth, size)
  BY DEF IInv, Listed
<1> DEFINE N == Cardinality(Nodes)
           Body(f, k) == IF k = 0 THEN {First} \ {Null}
                         ELSE f[k - 1] \cup ({nodes[n].next : n \in f[k - 1]} \ {Null})
           Near(k) == {n \in Nodes : depth[n] > 0 /\ depth[n] >= size - k}
           near == [k \in 0..N |-> Near(k)]
           reach == CHOOSE f : f = [k \in 0..N |-> Body(f, k)]
<1>2. N \in Nat /\ size <= N
  BY <1>1, NumberingBound
<1>3. Near(0) = {First} \ {Null}
  BY <1>1, StackAssumption DEF Numbering
<1>4. ASSUME NEW k \in 1..N PROVE Near(k) = Near(k - 1) \cup ({nodes[n].next : n \in Near(k - 1)} \ {Null})
  <2> DEFINE low == size - (k - 1)
  <2>1. low \in Int /\ low <= size
    BY <1>2
  <2>2. Near(k - 1) = {n \in Nodes : depth[n] > 0 /\ depth[n] >= low}
    OBVIOUS
  <2>3. Near(k) = {n \in Nodes : depth[n] > 0 /\ depth[n] >= low - 1}
    BY <1>2
  <2> HIDE DEF low, Near
  <2> QED BY <1>1, <2>1, <2>2, <2>3, NextNumber
<1>5. near = [k \in 0..N |-> Body(near, k)]
  BY <1>2, <1>3, <1>4
<1>6. reach = [k \in 0..N |-> Body(reach, k)]
  BY <1>5
<1>7. \A k \in 0..N : reach[k] = near[k]
  <2> HIDE DEF near, reach, N
  <2> DEFINE Bad == {k \in 0..N : reach[k] # near[k]}
  <2>1. SUFFICES ASSUME Bad # {} PROVE FALSE
    OBVIOUS
  <2>2. PICK k \in Bad : \A j \in Bad : k <= j
    <3>1. Bad \in SUBSET Nat
      BY <1>2
    <3> HIDE DEF Bad
    <3> QED BY <2>1, <3>1, LeastNumber
  <2>3. reach[k] = Body(reach, k) /\ near[k] = Body(near, k)
    BY <1>5, <1>6
  <2>4. k # 0
    BY <2>3
  <2>5. k - 1 \in 0..N /\ k - 1 \notin Bad
    BY <1>2, <2>2, <2>4
  <2>6. reach[k - 1] = near[k - 1]
    BY <2>5
  <2> QED BY <2>3, <2>4, <2>6
<1>8. Chain = reach[N]
  BY DEF Chain, First
<1>9. Near(N) = {n \in Nodes : Linked(n)}
  BY <1>1, <1>2 DEF Numbering
<1> QED BY <1>2, <1>7, <1>8, <1>9

\* No node leaks and none is freed while it can be reached: the nodes in use
\* are the ones below First and one private node per pusher about to link it.
THEOREM NodesNeverLost == Spec => []NodesAccounted
<1>1. ASSUME IInv PROVE NodesAccounted
  <2> USE <1>1 DEF IInv
  <2> DEFINE private == {pusher[p].tmp : p \in {q \in Pushers : pusher[q].pc = "cas"}}
  <2>1. Chain = {n \in Nodes : Linked(n)}
    BY ChainIsLinked
  <2>2. Nodes \ Free = {n \in Nodes : Used(n)}
    BY DEF Free, Used
  <2>3. \A n \in Nodes : n \in private => Used(n) /\ ~Linked(n)
    BY PrivateTask, StackAssumption DEF Used, Linked
  <2>4. private \subseteq Nodes
    BY PrivateTask
  <2>5. ASSUME NEW n \in Nodes, Used(n), ~Linked(n) PROVE n \in private
    <3>1. PICK p \in Pushers : p = nodes[n].task
      BY <2>5 DEF Used, TypeOK
    <3>2. pusher[p].pc = "cas"
      BY <2>5, <3>1 DEF Owned, Linked
    <3>3. nodes[pusher[p].tmp].task = nodes[n].task /\ pusher[p].tmp \in Nodes
      BY <3>1, <3>2, PrivateTask
    <3>4. pusher[p].tmp = n
      BY <2>5, <3>3 DEF Owned, Used
    <3> QED BY <3>2, <3>4
  <2> HIDE DEF private
  <2>6. Chain \cup private = Nodes \ Free /\ Chain \cap private = {}
    <3>1. Chain \subseteq Nodes \ Free
      BY <2>1, <2>2 DEF Linked
    <3> QED BY <2>1, <2>2, <2>3, <2>4, <2>5, <3>1
  <2> QED BY <2>6 DEF NodesAccounted, private
<1> QED BY <1>1, Invariant, PTL

-----------------------------------------------------------------------------
(* Refinement of NotifySpec *)

Delivered == {p \in Pushers : popped[p] > 0}

\* Every step of stack.c is a step of NotifySpec, or invisible there.
LEMMA StepRefines ==
  ASSUME IInv, [Next]_vars
  PROVE  [Abstract!Next]_(Abstract!vars)
<1> USE DEF IInv
<1>1. TypeOK /\ IInv' /\ TypeOK'
  BY NextStep
<1>2. CASE UNCHANGED vars \/ Finished
  BY <1>2 DEF vars, Finished, Abstract!vars, In
<1>3. ASSUME NEW p \in Pushers, Push(p)
      PROVE  [Abstract!Next]_(Abstract!vars)
  <2>1. UNCHANGED <<popped, Delivered>>
    BY <1>3 DEF Push, PushLoad, PushAlloc, PushCasWon, PushCasLost, PushCasLocked, Delivered
  <2>2. CASE (PushLoad(p) /\ top # Locked) \/ PushAlloc(p) \/ PushCasLost(p)
    <3>1. UNCHANGED top
      BY <2>2 DEF PushLoad, PushAlloc, PushCasLost
    <3>2. pusher[p].pc \notin {"accepted", "refused"} /\ pusher'[p].pc \notin {"accepted", "refused"}
          /\ \A q \in Pushers : q # p => pusher'[q] = pusher[q]
      BY <2>2, PushMoves DEF Moves, PushLoad, PushAlloc, PushCasLost
    <3>3. UNCHANGED <<In("accepted"), In("refused")>>
      BY <3>2 DEF In
    <3> QED BY <2>1, <3>1, <3>3 DEF Abstract!vars, Delivered
  <2>3. CASE (PushLoad(p) /\ top = Locked) \/ PushCasLocked(p)
    <3>1. top = Locked /\ top' = Locked
      BY <2>3 DEF PushLoad, PushCasLocked
    <3>2. pusher[p].pc \notin {"accepted", "refused"} /\ pusher'[p].pc = "refused"
          /\ \A q \in Pushers : q # p => pusher'[q] = pusher[q]
      BY <2>3, PushMoves DEF Moves, PushLoad, PushCasLocked
    <3>3. /\ p \notin In("accepted") \cup In("refused")
          /\ In("accepted")' = In("accepted") /\ In("refused")' = In("refused") \cup {p}
      BY <3>2 DEF In
    <3>4. Abstract!Refuse(p)
      BY <2>1, <3>1, <3>3 DEF Abstract!Refuse, Delivered
    <3> QED BY <3>4 DEF Abstract!Next
  <2>4. CASE PushCasWon(p)
    <3>1. top # Locked /\ top' # Locked
      BY <2>4, StackAssumption DEF PushCasWon, Private
    <3>2. pusher[p].pc = "cas" /\ pusher'[p].pc = "accepted"
          /\ \A q \in Pushers : q # p => pusher'[q] = pusher[q]
      BY <2>4, PushMoves DEF Moves, PushCasWon
    <3>3. /\ p \notin In("accepted") \cup In("refused")
          /\ In("refused")' = In("refused") /\ In("accepted")' = In("accepted") \cup {p}
      BY <3>2 DEF In
    <3>4. Abstract!Accept(p)
      BY <2>1, <3>1, <3>3 DEF Abstract!Accept, Delivered
    <3> QED BY <3>4 DEF Abstract!Next
  <2> QED BY <1>3, <2>2, <2>3, <2>4 DEF Push
<1>4. CASE Notify
  <2>1. UNCHANGED pusher /\ UNCHANGED <<In("accepted"), In("refused")>>
    BY <1>4 DEF Notify, LockLoad, LockCasWon, LockCasLost, Pop, PopEmpty, In
  <2>2. CASE LockLoad \/ LockCasLost \/ PopEmpty
    <3>1. UNCHANGED <<top, popped>>
      BY <2>2 DEF LockLoad, LockCasLost, PopEmpty
    <3> QED BY <2>1, <3>1 DEF Abstract!vars
  <2>3. CASE LockCasWon
    <3>1. top # Locked /\ top' = Locked /\ UNCHANGED popped
      BY <2>3 DEF LockCasWon, LockOwned
    <3>2. Abstract!Close
      BY <2>1, <3>1 DEF Abstract!Close
    <3> QED BY <3>2 DEF Abstract!Next
  <2>4. CASE Pop
    <3>1. PICK n \in Nodes : n = locker.top
      BY <2>4 DEF Pop, TypeOK, Addresses
    <3>2. top = Locked /\ top' = Locked
      BY <2>4 DEF Pop, LockOwned
    <3>3. Linked(n)
      <4>1. PICK size \in Nat, depth \in [Nodes -> Nat] : Numbering(depth, size)
        BY DEF Listed
      <4> QED BY <3>1, <3>2, <4>1, StackAssumption DEF Numbering, First
    <3>4. PICK p \in Pushers : p = nodes[n].task
      BY <3>3 DEF Linked, Used, TypeOK
    <3>5. popped' = [popped EXCEPT ![p] = popped[p] + 1]
      BY <2>4, <3>1, <3>4 DEF Pop
    <3>6. pusher[p].pc = "accepted" /\ popped[p] = 0
      BY <3>3, <3>4 DEF Linked, Owned
    <3>7. popped'[p] = 1 /\ \A q \in Pushers : q # p => popped'[q] = popped[q]
      BY <3>5, <3>6 DEF TypeOK
    <3>8. p \in In("accepted") \ Delivered /\ Delivered' = Delivered \cup {p}
      BY <3>6, <3>7 DEF In, Delivered
    <3>9. Abstract!Deliver(p)
      BY <2>1, <3>2, <3>8 DEF Abstract!Deliver, Delivered
    <3> QED BY <3>9 DEF Abstract!Next
  <2> QED BY <1>4, <2>2, <2>3, <2>4 DEF Notify
<1> QED BY <1>2, <1>3, <1>4 DEF Next

\* stack.c implements the registration list of NotifySpec: each step is one
\* atomic registration, refusal, closing or delivery, or invisible.
THEOREM StackImplementsList == Spec => Refinement
<1>1. Init => Abstract!Init
  BY StackAssumption DEF Init, Abstract!Init, In
<1>2. IInv /\ [Next]_vars => [Abstract!Next]_(Abstract!vars)
  BY StepRefines
<1> QED BY <1>1, <1>2, Invariant, PTL DEF Spec, Refinement, Abstract!Spec
=============================================================================
