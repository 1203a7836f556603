--------------------------- MODULE TaskMemoryProofs ---------------------------
(***************************************************************************)
(* Proofs about TaskLife: who may use a descriptor, who releases it, and   *)
(* that the descriptors implement the task graph.  The results are about   *)
(* programs that call tpc_sync before they return, and                     *)
(* NothingStaysUnreleased also about the others on a machine without store *)
(* buffers.                                                                *)
(***************************************************************************)
EXTENDS TaskLifeProofs

USE LifeAssumption
USE DEF All, Goto, CREATING, CREATED, SCHEDULED, EXECUTED, RELEASING, COMPLETE

-----------------------------------------------------------------------------
(* The inductive invariant, on top of IInv *)

\* A body that returned has no children left; the main program never has
\* behind tpc_shutdown's tpc_sync.
ChildlessInv ==
  \A p \in All :
    /\ p = Main \/ SyncBeforeReturn
    /\ pc[p] \notin Running \cup {"idle"}
    => children[p] = 0

\* Tasks register with siblings only.
SiblingsInv ==
  /\ \A r \in notify : parent[r[1]] = parent[r[2]] /\ parent[r[1]] \in All
  /\ \A a \in All : pc[a] = "await" => parent[cur[a]] = parent[rel[a]]

\* With a sync, a task whose EXECUTED is delayed goes on to release itself.
BufferedInv ==
  \A t \in buffered :
    /\ StoreBuffers
    /\ SyncBeforeReturn =>
         pc[t] = "check" \/ (pc[t] = "claim" /\ rel[t] = t)

MInv == ChildlessInv /\ SiblingsInv /\ BufferedInv

LEMMA InitMInv == Init => MInv
BY DEF Init, MInv, ChildlessInv, SiblingsInv, BufferedInv

\* A child of p that did not report keeps the counter of p above zero.
LEMMA ChildCounts ==
  ASSUME IInv, NEW c \in Tasks, parent[c] \in All, Unreported(c)
  PROVE  children[parent[c]] > 0
<1>1. c \in Untold(parent[c])
  BY DEF Untold
<1>2. Cardinality(Untold(parent[c])) # 0
  BY <1>1, UntoldFinite, FS_EmptySet
<1> QED
  BY <1>2 DEF IInv, TypeOK, ChildrenCounted

LEMMA ChildlessStep ==
  ASSUME IInv, MInv, [Next]_vars
  PROVE  ChildlessInv'
<1> SUFFICES ASSUME NEW p \in All, p = Main \/ SyncBeforeReturn,
                    pc'[p] \notin Running \cup {"idle"}
             PROVE  children'[p] = 0
  BY DEF ChildlessInv
<1> USE DEF IInv, MInv
<1>1. CASE UNCHANGED vars
  BY <1>1 DEF vars, ChildlessInv
<1>2. CASE Shutdown
  BY <1>2 DEF Shutdown, TypeOK, ChildlessInv
<1>3. CASE Teardown \/ Terminated
  BY <1>3 DEF Teardown, Terminated, vars, TypeOK, ChildlessInv, Running
<1>4. ASSUME NEW a \in All, Tell(a)
      PROVE  children'[p] = 0
  <2>1. rel[a] \in Tasks /\ parent[rel[a]] \in All /\ Unreported(rel[a])
    BY <1>4 DEF Tell, LocalsInv, Releasing, Unreported
  <2>2. children[parent[rel[a]]] > 0
    BY <2>1, ChildCounts
  <2>3. pc[p] \notin Running \cup {"idle"}
    BY <1>4 DEF Tell, TypeOK, Running
  <2>4. children[p] = 0
    BY <2>3 DEF ChildlessInv
  <2> QED
    BY <1>4, <2>1, <2>2, <2>4 DEF Tell, TypeOK
<1>5. ASSUME NEW a \in All, Advance(a), ~Tell(a)
      PROVE  children'[p] = 0
  <2>1. children' = children
    BY <1>5 DEF Advance, PublishReady, ScheduleReady, StoreWaitfor, Publish,
                CheckChildren, Claim, Lock, Fire, Await, Complete, Look
  <2>2. pc[p] \notin Running \cup {"idle"}
    BY <1>5 DEF Advance, PublishReady, ScheduleReady, StoreWaitfor, Publish,
                CheckChildren, Claim, Lock, Fire, Await, Complete, Look,
                TypeOK, Running
  <2> QED
    BY <2>1, <2>2 DEF ChildlessInv
<1>6. ASSUME NEW a \in All, NEW t \in Tasks, Call(a, t) \/ Register(a, t)
      PROVE  children'[p] = 0
  BY <1>6 DEF Call, Register, TypeOK, Running, ChildlessInv
<1>7. ASSUME NEW t \in Tasks, Start(t) \/ Return(t) \/ Drain(t)
      PROVE  children'[p] = 0
  BY <1>7 DEF Start, Return, Drain, TypeOK, Running, ChildlessInv
<1> QED
  BY <1>1, <1>2, <1>3, <1>4, <1>5, <1>6, <1>7 DEF Next

LEMMA SiblingsStep ==
  ASSUME IInv, MInv, [Next]_vars
  PROVE  SiblingsInv'
<1> USE DEF IInv, MInv
<1>1. CASE UNCHANGED vars
  BY <1>1 DEF vars, SiblingsInv
<1>2. CASE Shutdown \/ Teardown \/ Terminated
  BY <1>2 DEF Shutdown, Teardown, Terminated, vars, TypeOK, SiblingsInv
<1>3. ASSUME NEW a \in All, Fire(a)
      PROVE  SiblingsInv'
  <2>1. PICK r \in notify : /\ r[1] = rel[a] /\ notify' = notify \ {r}
                            /\ cur' = [cur EXCEPT ![a] = r[2]]
    BY <1>3 DEF Fire
  <2> QED
    BY <1>3, <2>1 DEF Fire, TypeOK, SiblingsInv
<1>4. ASSUME NEW a \in All, Advance(a), ~Fire(a)
      PROVE  SiblingsInv'
  <2>1. UNCHANGED <<notify, parent>>
    BY <1>4 DEF Advance, PublishReady, ScheduleReady, StoreWaitfor, Publish,
                CheckChildren, Claim, Lock, Await, Complete, Tell, Look
  <2>2. ASSUME NEW b \in All, pc'[b] = "await"
        PROVE  pc[b] = "await" /\ cur'[b] = cur[b] /\ rel'[b] = rel[b]
    BY <1>4, <2>2
    DEF Advance, PublishReady, ScheduleReady, StoreWaitfor, Publish,
        CheckChildren, Claim, Lock, Await, Complete, Tell, Look, TypeOK
  <2> QED
    BY <2>1, <2>2 DEF SiblingsInv
<1>5. ASSUME NEW a \in All, NEW t \in Tasks, Call(a, t)
      PROVE  SiblingsInv'
  <2>1. \A r \in notify : r[1] # t /\ r[2] # t
    BY <1>5 DEF Call, TypeOK, SiblingsInv
  <2>2. ASSUME NEW b \in All, pc'[b] = "await"
        PROVE  /\ pc[b] = "await" /\ cur'[b] = cur[b] /\ rel'[b] = rel[b]
               /\ parent[rel[b]] \in All /\ rel[b] \in Tasks /\ cur[b] \in Tasks
    BY <1>5, <2>2 DEF Call, TypeOK, LocalsInv, Releasing
  <2> QED
    BY <1>5, <2>1, <2>2 DEF Call, TypeOK, SiblingsInv
<1>6. ASSUME NEW a \in All, NEW o \in Tasks, Register(a, o)
      PROVE  SiblingsInv'
  <2>1. parent[cur[a]] = a /\ parent[o] = a
    BY <1>6 DEF Register, LocalsInv, Creating
  <2> QED
    BY <1>6, <2>1 DEF Register, SiblingsInv
<1>7. ASSUME NEW t \in Tasks, Start(t) \/ Return(t) \/ Drain(t)
      PROVE  SiblingsInv'
  BY <1>7 DEF Start, Return, Drain, TypeOK, SiblingsInv
<1> QED
  BY <1>1, <1>2, <1>3, <1>4, <1>5, <1>6, <1>7 DEF Next

LEMMA BufferedStep ==
  ASSUME IInv, MInv, [Next]_vars
  PROVE  BufferedInv'
<1> SUFFICES ASSUME NEW t \in buffered'
             PROVE  /\ StoreBuffers
                    /\ SyncBeforeReturn =>
                         pc'[t] = "check" \/ (pc'[t] = "claim" /\ rel'[t] = t)
  BY DEF BufferedInv
<1> USE DEF IInv, MInv
<1>1. CASE UNCHANGED vars
  BY <1>1 DEF vars, BufferedInv
<1>2. CASE Shutdown \/ Teardown \/ Terminated
  BY <1>2 DEF Shutdown, Teardown, Terminated, vars, TypeOK, BufferedInv
<1>3. ASSUME NEW a \in All, CheckChildren(a)
      PROVE  /\ StoreBuffers
             /\ SyncBeforeReturn =>
                  pc'[t] = "check" \/ (pc'[t] = "claim" /\ rel'[t] = t)
  <2>1. t \in Tasks /\ t \in buffered
    BY <1>3 DEF CheckChildren, TypeOK
  <2>2. CASE t = a
    <3>1. SyncBeforeReturn => children[t] = 0
      BY <1>3, <2>1, <2>2 DEF CheckChildren, ChildlessInv, Running
    <3> QED
      BY <1>3, <2>1, <2>2, <3>1 DEF CheckChildren, TypeOK, BufferedInv
  <2>3. CASE t # a
    BY <1>3, <2>1, <2>3 DEF CheckChildren, TypeOK, BufferedInv
  <2> QED
    BY <2>2, <2>3
<1>4. ASSUME NEW a \in All, Advance(a), ~CheckChildren(a)
      PROVE  /\ StoreBuffers
             /\ SyncBeforeReturn =>
                  pc'[t] = "check" \/ (pc'[t] = "claim" /\ rel'[t] = t)
  BY <1>4 DEF Advance, PublishReady, ScheduleReady, StoreWaitfor, Publish,
              Claim, Lock, Fire, Await, Complete, Tell, Look, TypeOK, BufferedInv
<1>5. ASSUME NEW a \in All, NEW c \in Tasks, Call(a, c) \/ Register(a, c)
      PROVE  /\ StoreBuffers
             /\ SyncBeforeReturn =>
                  pc'[t] = "check" \/ (pc'[t] = "claim" /\ rel'[t] = t)
  BY <1>5 DEF Call, Register, TypeOK, BufferedInv
<1>6. ASSUME NEW s \in Tasks, Start(s) \/ Return(s) \/ Drain(s)
      PROVE  /\ StoreBuffers
             /\ SyncBeforeReturn =>
                  pc'[t] = "check" \/ (pc'[t] = "claim" /\ rel'[t] = t)
  BY <1>6 DEF Start, Return, Drain, TypeOK, BufferedInv
<1> QED
  BY <1>1, <1>2, <1>3, <1>4, <1>5, <1>6 DEF Next

LEMMA MemoryInvariant == Spec => [](IInv /\ MInv)
<1>1. IInv /\ MInv /\ [Next]_vars => MInv'
  BY ChildlessStep, SiblingsStep, BufferedStep DEF MInv
<1> QED
  BY <1>1, InitMInv, InvariantHolds, PTL DEF Spec

-----------------------------------------------------------------------------
(* What follows *)

\* With a sync, a task past its body has no child that did not report.
LEMMA AllReported ==
  ASSUME IInv, MInv, SyncBeforeReturn,
         NEW t \in Tasks, pc[t] \notin Running \cup {"idle"},
         NEW c \in Tasks, parent[c] = t
  PROVE  ~Unreported(c)
<1>1. children[t] = 0
  BY DEF MInv, ChildlessInv
<1> QED
  BY <1>1, ChildCounts

\* When a task begins its release, its children are complete and have told it,
\* if programs call tpc_sync before a task returns (runtime.c:274).
THEOREM ChildrenReleasedFirst ==
  ASSUME SyncBeforeReturn
  PROVE  Spec => []ReleasedAfterChildren
<1>1. IInv /\ MInv => ReleasedAfterChildren
  <2> SUFFICES ASSUME IInv, MInv, NEW t \in Tasks, status[t] >= RELEASING,
                      NEW c \in Untold(t)
               PROVE  FALSE
    BY DEF ReleasedAfterChildren
  <2>1. pc[t] \notin Running \cup {"idle"}
    BY DEF IInv, TypeOK, StageInv
  <2>2. c \in Tasks /\ parent[c] = t /\ Unreported(c)
    BY DEF Untold
  <2> QED
    BY <2>1, <2>2, AllReported
<1> QED
  BY <1>1, MemoryInvariant, PTL

\* A descriptor that did not report keeps its parent, and its own memory.
LEMMA UnreportedIsHeld ==
  ASSUME IInv, MInv, SyncBeforeReturn, NEW t \in Tasks, parent[t] \in All,
         Unreported(t)
  PROVE  ~Gone(t)
<1>1. children[parent[t]] > 0
  BY ChildCounts
<1>2. CASE parent[t] = Main
  <2>1. pc[Main] # "end"
    BY <1>1, <1>2 DEF MInv, ChildlessInv, Running
  <2> QED
    BY <1>2, <2>1 DEF Gone
<1>3. CASE parent[t] \in Tasks
  <2>1. status[parent[t]] # COMPLETE
    BY <1>1, <1>3 DEF IInv, TypeOK, StageInv, MInv, ChildlessInv
  <2> QED
    BY <1>3, <2>1 DEF Gone
<1> QED
  BY <1>2, <1>3

-----------------------------------------------------------------------------
(* No release is lost *)

\* Somebody is about to look at t, which was executed.
Watched(t) ==
  \E a \in All :
    \/ a = t /\ pc[a] = "check"
    \/ pc[a] = "claim" /\ rel[a] = t
    \/ pc[a] = "look" /\ num[a] = 0 /\ parent[rel[a]] = t

\* A step that makes t a task to be released has it watched, and no step
\* looks away from it.
LEMMA WatchedStep ==
  ASSUME SyncBeforeReturn \/ ~StoreBuffers,
         IInv, MInv, NoLostRelease, [Next]_vars,
         NEW t \in Tasks, status'[t] = EXECUTED, children'[t] = 0
  PROVE  Watched(t)'
<1> USE DEF IInv, MInv
<1>1. CASE UNCHANGED vars
  BY <1>1 DEF vars, NoLostRelease, Watched
<1>2. CASE Shutdown \/ Teardown \/ Terminated
  <2>1. Watched(t)
    BY <1>2 DEF Shutdown, Teardown, Terminated, vars, NoLostRelease, Watched
  <2>2. PICK a \in All :
          \/ a = t /\ pc[a] = "check"
          \/ pc[a] = "claim" /\ rel[a] = t
          \/ pc[a] = "look" /\ num[a] = 0 /\ parent[rel[a]] = t
    BY <2>1 DEF Watched
  <2> QED
    BY <1>2, <2>2 DEF Shutdown, Teardown, Terminated, vars, TypeOK, Watched
<1>3. ASSUME NEW s \in Tasks, Return(s) \/ Drain(s), s = t
      PROVE  Watched(t)'
  BY <1>3 DEF Return, Drain, TypeOK, StageInv, BufferedInv, Running, Watched
<1>4. ASSUME NEW s \in Tasks, Start(s) \/ Return(s) \/ Drain(s),
             ~Start(s) => s # t
      PROVE  Watched(t)'
  <2>1. status[t] = EXECUTED /\ children[t] = 0
    BY <1>4 DEF Start, Return, Drain, TypeOK
  <2>2. PICK a \in All :
          \/ a = t /\ pc[a] = "check"
          \/ pc[a] = "claim" /\ rel[a] = t
          \/ pc[a] = "look" /\ num[a] = 0 /\ parent[rel[a]] = t
    BY <2>1 DEF NoLostRelease
  <2>3. a # s \/ ~(Start(s) \/ Return(s))
    BY <1>4, <2>2 DEF Start, Return
  <2> QED
    BY <1>4, <2>2, <2>3 DEF Start, Return, Drain, TypeOK, Watched
<1>5. ASSUME NEW b \in All, NEW c \in Tasks, Call(b, c) \/ Register(b, c)
      PROVE  Watched(t)'
  <2>1. status[t] = EXECUTED /\ children[t] = 0
    BY <1>5 DEF Call, Register, TypeOK
  <2>2. PICK a \in All :
          \/ a = t /\ pc[a] = "check"
          \/ pc[a] = "claim" /\ rel[a] = t
          \/ pc[a] = "look" /\ num[a] = 0 /\ parent[rel[a]] = t
    BY <2>1 DEF NoLostRelease
  <2>3. a # b
    BY <1>5, <2>2 DEF Call, Register
  <2>4. pc[a] = "look" => rel[a] \in Tasks /\ parent[rel[a]] \in All
    BY DEF LocalsInv, Releasing
  <2> QED
    BY <1>5, <2>2, <2>3, <2>4 DEF Call, Register, TypeOK, Watched
<1>6. ASSUME NEW b \in All, Tell(b)
      PROVE  Watched(t)'
  <2>1. rel[b] \in Tasks /\ parent[rel[b]] \in All
    BY <1>6 DEF Tell, LocalsInv, Releasing
  <2>2. CASE parent[rel[b]] = t
    BY <1>6, <2>1, <2>2 DEF Tell, TypeOK, Watched
  <2>3. CASE parent[rel[b]] # t
    <3>1. status[t] = EXECUTED /\ children[t] = 0
      BY <1>6, <2>1, <2>3 DEF Tell, TypeOK
    <3>2. PICK a \in All :
            \/ a = t /\ pc[a] = "check"
            \/ pc[a] = "claim" /\ rel[a] = t
            \/ pc[a] = "look" /\ num[a] = 0 /\ parent[rel[a]] = t
      BY <3>1 DEF NoLostRelease
    <3>3. a # b
      BY <1>6, <3>2 DEF Tell
    <3> QED
      BY <1>6, <3>2, <3>3 DEF Tell, TypeOK, Watched
  <2> QED
    BY <2>2, <2>3
<1>7. ASSUME NEW b \in All, Advance(b), ~Tell(b)
      PROVE  Watched(t)'
  <2>1. status[t] = EXECUTED /\ children[t] = 0
    BY <1>7 DEF Advance, PublishReady, ScheduleReady, StoreWaitfor, Publish,
                CheckChildren, Claim, Lock, Fire, Await, Complete, Look, TypeOK
  <2>2. PICK a \in All :
          \/ a = t /\ pc[a] = "check"
          \/ pc[a] = "claim" /\ rel[a] = t
          \/ pc[a] = "look" /\ num[a] = 0 /\ parent[rel[a]] = t
    BY <2>1 DEF NoLostRelease
  <2>3. CASE a # b
    BY <1>7, <2>2, <2>3
    DEF Advance, PublishReady, ScheduleReady, StoreWaitfor, Publish,
        CheckChildren, Claim, Lock, Fire, Await, Complete, Look, TypeOK, Watched
  <2>4. CASE a = b
    <3>1. CheckChildren(b) \/ Claim(b) \/ Look(b)
      BY <1>7, <2>2, <2>4
      DEF Advance, PublishReady, ScheduleReady, StoreWaitfor, Publish,
          Lock, Fire, Await, Complete
    <3>2. CASE CheckChildren(b)
      BY <2>1, <2>2, <2>4, <3>2 DEF CheckChildren, TypeOK, Watched
    <3>3. CASE Claim(b)
      BY <1>7, <2>1, <2>2, <2>4, <3>3 DEF Claim, TypeOK
    <3>4. CASE Look(b)
      BY <2>1, <2>2, <2>4, <3>4 DEF Look, TypeOK, Watched
    <3> QED
      BY <3>1, <3>2, <3>3, <3>4
  <2> QED
    BY <2>3, <2>4
<1> QED
  BY <1>1, <1>2, <1>3, <1>4, <1>5, <1>6, <1>7 DEF Next

\* A task that was executed and whose children all reported has somebody who
\* will release it (runtime.c:243-288, 397), if programs call tpc_sync before
\* a task returns or the machine does not delay the store of EXECUTED.
THEOREM NothingStaysUnreleased ==
  ASSUME SyncBeforeReturn \/ ~StoreBuffers
  PROVE  Spec => []NoLostRelease
<1>1. Init => NoLostRelease
  BY DEF Init, NoLostRelease
<1>2. IInv /\ MInv /\ NoLostRelease /\ [Next]_vars => NoLostRelease'
  <2> SUFFICES ASSUME IInv, MInv, NoLostRelease, [Next]_vars,
                      NEW t \in Tasks, status'[t] = EXECUTED, children'[t] = 0
               PROVE  Watched(t)'
    BY DEF NoLostRelease, Watched
  <2> QED
    BY WatchedStep
<1> QED
  BY <1>1, <1>2, MemoryInvariant, PTL DEF Spec
-----------------------------------------------------------------------------
(* The tree of tasks *)

\* No task is its own ancestor: whatever tasks one collects, the parent of one
\* of them is not collected.
RootedInv == \A S \in SUBSET Tasks : S # {} => \E t \in S : parent[t] \notin S

\* Parents run or ran.
AncestryInv == \A t \in Tasks : parent[t] \in Tasks => status[parent[t]] >= SCHEDULED

\* Only the task its parent just creates is CREATING.
CreationInv ==
  \A t \in Tasks : parent[t] \in All /\ status[t] = CREATING =>
    pc[parent[t]] \in {"deps", "publish"} /\ cur[parent[t]] = t

\* Tasks depend on siblings that were published before.
DependsInv ==
  \A w \in Tasks : \A o \in dependsOn[w] :
    parent[o] = parent[w] /\ parent[o] \in All /\ status[o] >= CREATED

TInv == RootedInv /\ AncestryInv /\ CreationInv /\ DependsInv

\* At the start there is no task.
LEMMA InitTInv == Init => TInv
BY DEF Init, TInv, RootedInv, AncestryInv, CreationInv, DependsInv

\* A new task has no children yet.
LEMMA RootedCall ==
  ASSUME IInv, TInv, NEW a \in All, NEW t \in Tasks, Call(a, t)
  PROVE  RootedInv'
<1> SUFFICES ASSUME NEW S \in SUBSET Tasks, S # {}
             PROVE  \E u \in S : parent'[u] \notin S
  BY DEF RootedInv
<1>1. parent[t] = None /\ t # a /\ parent' = [parent EXCEPT ![t] = a] /\ t # None
  BY DEF Call
<1>2. parent \in [Tasks -> All \cup {None}]
  BY DEF IInv, TypeOK
<1>3. CASE t \notin S
  BY <1>1, <1>2, <1>3 DEF TInv, RootedInv
<1>4. CASE S = {t}
  BY <1>1, <1>2, <1>4
<1>5. CASE t \in S /\ S # {t}
  <2>1. PICK u \in S \ {t} : parent[u] \notin S \ {t}
    BY <1>5 DEF TInv, RootedInv
  <2>2. parent[u] # t
    BY <1>1, <2>1 DEF IInv, TypeOK, StageInv, TInv, AncestryInv
  <2> QED
    BY <1>1, <1>2, <2>1, <2>2
<1> QED
  BY <1>3, <1>4, <1>5

\* No step takes back a status, a parent or a registration, but for the steps
\* that create a task.
LEMMA TreeFrame ==
  ASSUME IInv, TInv, parent' = parent, dependsOn' = dependsOn,
         \A t \in Tasks : status'[t] >= status[t],
         \A t \in Tasks : status'[t] = CREATING /\ parent[t] \in All =>
           /\ pc'[parent[t]] \in {"deps", "publish"}
           /\ cur'[parent[t]] = cur[parent[t]],
         \A t \in Tasks : status'[t] \in Int
  PROVE  TInv'
<1>1. \A t \in Tasks : status[t] \in Nat
  BY DEF IInv, TypeOK
<1>2. RootedInv'
  BY DEF TInv, RootedInv
<1>3. AncestryInv'
  BY <1>1 DEF TInv, AncestryInv
<1>4. CreationInv'
  <2>1. \A t \in Tasks : status'[t] = CREATING => status[t] = CREATING
    BY <1>1
  <2> QED
    BY <2>1 DEF TInv, CreationInv
<1>5. DependsInv'
  <2>1. \A w \in Tasks : \A o \in dependsOn[w] : o \in Tasks
    BY DEF IInv, TypeOK
  <2> QED
    BY <1>1, <2>1 DEF TInv, DependsInv
<1> QED
  BY <1>2, <1>3, <1>4, <1>5 DEF TInv

\* Every step preserves it.
LEMMA TreeStep ==
  ASSUME IInv, TInv, [Next]_vars
  PROVE  TInv'
<1> USE DEF IInv
<1>1. CASE UNCHANGED vars
  BY <1>1 DEF vars, TInv, RootedInv, AncestryInv, CreationInv, DependsInv
<1>2. CASE Shutdown \/ Teardown \/ Terminated
  <2>1. /\ UNCHANGED <<parent, dependsOn, status, cur>>
        /\ \A b \in All : pc[b] \in {"deps", "publish"} => pc'[b] = pc[b]
    BY <1>2 DEF Shutdown, Teardown, Terminated, vars, TypeOK
  <2>2. \A t \in Tasks : status[t] = CREATING /\ parent[t] \in All =>
           pc'[parent[t]] \in {"deps", "publish"}
    BY <2>1 DEF TInv, CreationInv
  <2> QED
    BY <2>1, <2>2, TreeFrame DEF TypeOK
<1>3. ASSUME NEW a \in All, Advance(a)
      PROVE  TInv'
  <2>1. UNCHANGED <<parent, dependsOn>>
    BY <1>3 DEF Advance, PublishReady, ScheduleReady, StoreWaitfor, Publish,
                CheckChildren, Claim, Lock, Fire, Await, Complete, Tell, Look
  <2>2. \A t \in Tasks : status'[t] >= status[t] /\ status'[t] \in Int
    BY <1>3 DEF Advance, PublishReady, ScheduleReady, StoreWaitfor, Publish,
                CheckChildren, Claim, Lock, Fire, Await, Complete, Tell, Look,
                TypeOK, LocalsInv, Creating, Releasing
  <2>3. ASSUME NEW t \in Tasks, status'[t] = CREATING, parent[t] \in All
        PROVE  /\ pc'[parent[t]] \in {"deps", "publish"}
               /\ cur'[parent[t]] = cur[parent[t]]
    <3>1. status[t] = CREATING
      BY <2>2, <2>3 DEF TypeOK
    <3>2. pc[parent[t]] \in {"deps", "publish"} /\ cur[parent[t]] = t
      BY <2>3, <3>1 DEF TInv, CreationInv
    <3>3. CASE parent[t] # a
      BY <1>3, <2>3, <3>2, <3>3
      DEF Advance, PublishReady, ScheduleReady, StoreWaitfor, Publish,
          CheckChildren, Claim, Lock, Fire, Await, Complete, Tell, Look, TypeOK
    <3>4. CASE parent[t] = a
      BY <1>3, <2>3, <3>2, <3>4
      DEF Advance, PublishReady, ScheduleReady, StoreWaitfor, Publish,
          CheckChildren, Claim, Lock, Fire, Await, Complete, Tell, Look, TypeOK
    <3> QED
      BY <3>3, <3>4
  <2> QED
    BY <2>1, <2>2, <2>3, TreeFrame
<1>4. ASSUME NEW a \in All, NEW t \in Tasks, Call(a, t)
      PROVE  TInv'
  <2>1. RootedInv'
    BY <1>4, RootedCall
  <2>2. parent[t] = None /\ pc[a] = "run" /\ t # a /\ status[t] = CREATING
    BY <1>4 DEF Call, StageInv
  <2>3. status' = status
    BY <1>4, <2>2 DEF Call, TypeOK
  <2>4. AncestryInv'
    BY <1>4, <2>2, <2>3 DEF Call, TypeOK, StageInv, Running, TInv, AncestryInv
  <2>5. CreationInv'
    BY <1>4, <2>2, <2>3 DEF Call, TypeOK, TInv, CreationInv
  <2>6. DependsInv'
    BY <1>4, <2>2, <2>3 DEF Call, TypeOK, CountersInv, TInv, DependsInv
  <2> QED
    BY <2>1, <2>4, <2>5, <2>6 DEF TInv
<1>5. ASSUME NEW a \in All, NEW o \in Tasks, Register(a, o)
      PROVE  TInv'
  <2>1. cur[a] \in Tasks /\ parent[cur[a]] = a /\ parent[o] = a /\ o # cur[a]
    BY <1>5 DEF Register, LocalsInv, Creating
  <2>2. status[o] >= CREATED
    BY <2>1 DEF TInv, CreationInv, TypeOK
  <2>3. DependsInv'
    BY <1>5, <2>1, <2>2 DEF Register, TypeOK, TInv, DependsInv
  <2> QED
    BY <1>5, <2>3 DEF Register, TInv, RootedInv, AncestryInv, CreationInv
<1>6. ASSUME NEW t \in Tasks, Start(t) \/ Return(t) \/ Drain(t)
      PROVE  TInv'
  <2>1. UNCHANGED <<parent, dependsOn, cur>>
    BY <1>6 DEF Start, Return, Drain
  <2>2. \A u \in Tasks : status'[u] >= status[u] /\ status'[u] \in Int
    BY <1>6 DEF Start, Return, Drain, TypeOK, StageInv, Running
  <2>3. \A b \in All : pc[b] \in {"deps", "publish"} => pc'[b] = pc[b]
    BY <1>6 DEF Start, Return, Drain, TypeOK
  <2>4. \A u \in Tasks : status'[u] = CREATING => status[u] = CREATING
    BY <2>2 DEF TypeOK
  <2>5. \A u \in Tasks : status'[u] = CREATING /\ parent[u] \in All =>
           pc'[parent[u]] \in {"deps", "publish"}
    BY <2>3, <2>4 DEF TInv, CreationInv
  <2> QED
    BY <2>1, <2>2, <2>5, TreeFrame
<1> QED
  BY <1>1, <1>2, <1>3, <1>4, <1>5, <1>6 DEF Next

\* The three parts of the invariant of programs that call tpc_sync.
LEMMA TreeInvariant == Spec => [](IInv /\ MInv /\ TInv)
<1>1. IInv /\ TInv /\ [Next]_vars => TInv'
  BY TreeStep
<1> QED
  BY <1>1, InitTInv, MemoryInvariant, PTL DEF Spec

-----------------------------------------------------------------------------
(* What is in memory *)

\* A child that did not report finds its parent in memory, too.
LEMMA ParentIsHeld ==
  ASSUME IInv, MInv, TInv, SyncBeforeReturn, NEW t \in Tasks, parent[t] \in All,
         Unreported(t)
  PROVE  ~Gone(parent[t])
<1> USE DEF IInv, MInv, TInv
<1>1. CASE parent[t] = Main
  BY <1>1 DEF Gone
<1>2. CASE parent[t] \in Tasks
  <2> DEFINE p == parent[t]
  <2>1. children[p] > 0
    BY ChildCounts
  <2>2. pc[p] \in Running \cup {"idle"}
    BY <1>2, <2>1 DEF ChildlessInv
  <2>3. status[p] <= SCHEDULED
    BY <1>2, <2>2 DEF StageInv, TypeOK
  <2>4. parent[p] \in All
    BY <1>2, <2>3 DEF AncestryInv, StageInv, TypeOK
  <2> QED
    BY <1>2, <2>3, <2>4, UnreportedIsHeld DEF Unreported, TypeOK
<1> QED
  BY <1>1, <1>2

\* An activity that starts, runs, creates, notifies or completes a task finds
\* the descriptors in place (runtime.c:120, 270-272 and 860, deps.c:678 and
\* 705), if programs call tpc_sync before a task returns.
THEOREM HeldWhileUsed ==
  ASSUME SyncBeforeReturn
  PROVE  Spec => []AliveWhenUsed
<1>1. IInv /\ MInv /\ TInv => AliveWhenUsed
  <2> SUFFICES ASSUME IInv, MInv, TInv, NEW a \in All,
                      pc[a] \notin {"check", "claim", "look"},
                      NEW t \in Touched(a)
               PROVE  ~Gone(t)
    BY DEF AliveWhenUsed
  <2> USE DEF IInv, MInv
  <2>1. ASSUME \/ pc[a] \in Running
               \/ pc[a] = "idle" /\ status[a] = SCHEDULED
        PROVE  ~Gone(a)
    <3>1. CASE a = Main
      BY <3>1 DEF Gone
    <3>2. CASE a \in Tasks
      <4>1. status[a] = SCHEDULED /\ parent[a] \in All
        BY <2>1, <3>2 DEF StageInv, TypeOK
      <4> QED
        BY <3>2, <4>1, UnreportedIsHeld DEF Unreported
    <3> QED
      BY <3>1, <3>2
  <2>2. ASSUME pc[a] \in Running, t \in Tasks, parent[t] = a
        PROVE  ~Gone(t)
    <3>1. a \in Tasks => status[a] = SCHEDULED
      BY <2>2 DEF StageInv, Running
    <3> QED
      BY <2>2, <3>1 DEF Gone, Running
  <2>3. ASSUME pc[a] \in Creating
        PROVE  cur[a] \in Tasks /\ parent[cur[a]] = a /\ pc[a] \in Running
    BY <2>3 DEF LocalsInv, Creating, Running
  <2>4. ASSUME pc[a] \in {"lock", "fire", "await", "tell"}
        PROVE  /\ rel[a] \in Tasks /\ parent[rel[a]] \in All /\ Unreported(rel[a])
               /\ ~Gone(rel[a]) /\ ~Gone(parent[rel[a]])
    <3>1. rel[a] \in Tasks /\ parent[rel[a]] \in All
      BY <2>4 DEF LocalsInv, Releasing
    <3>2. Unreported(rel[a])
      BY <2>4, <3>1 DEF LocalsInv, Unreported
    <3> QED
      BY <3>1, <3>2, UnreportedIsHeld, ParentIsHeld
  <2>5. ASSUME NEW w \in Tasks, parent[w] = parent[rel[a]],
               pc[a] \in {"fire", "await"}
        PROVE  ~Gone(w)
    <3>1. rel[a] \in Tasks /\ parent[rel[a]] \in All /\ ~Gone(rel[a])
      BY <2>4, <2>5
    <3>2. rel[a] # Main /\ w # Main /\ parent[rel[a]] # None
      BY <3>1
    <3> QED
      BY <2>5, <3>1, <3>2 DEF Gone
  <2>6. ASSUME pc[a] = "await"
        PROVE  ~Gone(cur[a])
    <3>1. cur[a] \in Tasks /\ parent[cur[a]] = parent[rel[a]]
      BY <2>6 DEF LocalsInv, SiblingsInv
    <3> QED
      BY <2>5, <2>6, <3>1
  <2>7. ASSUME pc[a] = "fire", NEW r \in notify, r[1] = rel[a]
        PROVE  ~Gone(r[2])
    <3>1. r[2] \in Tasks /\ parent[r[2]] = parent[rel[a]]
      BY <2>7 DEF TypeOK, SiblingsInv
    <3> QED
      BY <2>5, <2>7, <3>1
  <2>8. a \notin buffered
    BY DEF BufferedInv
  <2> QED
    BY <2>1, <2>2, <2>3, <2>4, <2>6, <2>7, <2>8 DEF Touched, Running, Creating
<1> QED
  BY <1>1, TreeInvariant, PTL

-----------------------------------------------------------------------------
(* Refinement of TaskGraph *)

\* The phase of a task is told by its status and its activity.
Phases ==
  /\ Phase(Main) = IF pc[Main] \in Running THEN "running" ELSE "finished"
  /\ \A t \in Tasks :
       Phase(t) = IF status[t] = CREATING THEN "absent"
                  ELSE IF pc[t] = "idle" THEN "waiting"
                  ELSE IF pc[t] \in Running THEN "running"
                  ELSE IF status[t] < RELEASING THEN "finished" ELSE "released"

LEMMA PhaseOf == IInv => Phases
BY DEF IInv, StageInv, Phase, Phases

\* The phases before a step, and after it.
LEMMA PhasesOf ==
  ASSUME IInv, IInv'
  PROVE  Phases /\ Phases'
<1>1. (IInv => Phases)'
  BY PhaseOf, PTL
<1> QED
  BY <1>1, PhaseOf

\* A step that leaves phases and what is published leaves the graph.
LEMMA Quiet ==
  ASSUME \A t \in All : Phase(t)' = Phase(t),
         \A t \in Tasks : Phase(t) # "absent" =>
           parent'[t] = parent[t] /\ dependsOn'[t] = dependsOn[t]
  PROVE  UNCHANGED Graph!vars
<1> DEFINE P(t) == IF Phase(t) = "absent" THEN None ELSE parent[t]
           D(t) == IF Phase(t) = "absent" THEN {} ELSE dependsOn[t]
<1>1. \A t \in Tasks : P(t)' = P(t) /\ D(t)' = D(t)
  OBVIOUS
<1>2. [t \in All |-> Phase(t)]' = [t \in All |-> Phase(t)]
  OBVIOUS
<1>3. [t \in Tasks |-> P(t)]' = [t \in Tasks |-> P(t)]
  BY <1>1
<1>4. [t \in Tasks |-> D(t)]' = [t \in Tasks |-> D(t)]
  BY <1>1
<1> QED
  BY <1>2, <1>3, <1>4 DEF Graph!vars

\* Only the phase of t changes, from one that is in the graph to another.
Moves(t, x) ==
  /\ Phase(t)' = x /\ x # "absent" /\ Phase(t) # "absent"
  /\ \A u \in All : u # t => Phase(u)' = Phase(u)
  /\ UNCHANGED <<parent, dependsOn>>

\* What a move does to the variables of the graph.
LEMMA MoveInGraph ==
  ASSUME NEW t \in All, NEW x, Moves(t, x)
  PROVE  /\ [u \in All |-> Phase(u)]' = [[u \in All |-> Phase(u)] EXCEPT ![t] = x]
         /\ UNCHANGED <<[u \in Tasks |-> IF Phase(u) = "absent" THEN None ELSE parent[u]],
                        [u \in Tasks |-> IF Phase(u) = "absent" THEN {} ELSE dependsOn[u]]>>
<1> DEFINE P(u) == IF Phase(u) = "absent" THEN None ELSE parent[u]
           D(u) == IF Phase(u) = "absent" THEN {} ELSE dependsOn[u]
<1>1. \A u \in Tasks : P(u)' = P(u) /\ D(u)' = D(u)
  BY DEF Moves
<1>2. [u \in All |-> Phase(u)]' = [[u \in All |-> Phase(u)] EXCEPT ![t] = x]
  BY DEF Moves
<1>3. [u \in Tasks |-> P(u)]' = [u \in Tasks |-> P(u)]
  BY <1>1
<1>4. [u \in Tasks |-> D(u)]' = [u \in Tasks |-> D(u)]
  BY <1>1
<1> QED
  BY <1>2, <1>3, <1>4

\* The steps the graph does not see: they leave every phase, and touch the
\* parent and the registrations of a task under creation only.
LEMMA QuietSteps ==
  ASSUME IInv, IInv',
         \/ Teardown \/ Terminated \/ UNCHANGED vars
         \/ \E a \in All :
              \/ ScheduleReady(a) \/ StoreWaitfor(a) \/ CheckChildren(a)
              \/ Claim(a) /\ status[rel[a]] # EXECUTED
              \/ Lock(a) \/ Fire(a) \/ Await(a) \/ Complete(a) \/ Tell(a) \/ Look(a)
              \/ \E t \in Tasks : Call(a, t) \/ Register(a, t)
         \/ \E t \in Tasks : Drain(t)
  PROVE  UNCHANGED Graph!vars
<1> USE DEF IInv
<1>0. Phases /\ Phases'
  BY PhasesOf
<1>1. CASE Teardown \/ Terminated \/ UNCHANGED vars
  <2>1. /\ UNCHANGED <<status, parent, dependsOn>>
        /\ \A t \in All : 
             \/ pc'[t] = pc[t]
             \/ t = Main /\ (pc[t] \in Running <=> pc'[t] \in Running)
    BY <1>1 DEF Teardown, Terminated, vars, TypeOK, Running
  <2>2. \A t \in All : Phase(t)' = Phase(t)
    BY <1>0, <2>1 DEF Phases
  <2> QED
    BY <2>1, <2>2, Quiet
<1>2. ASSUME NEW a \in All,
             \/ StoreWaitfor(a) \/ CheckChildren(a)
             \/ Claim(a) /\ status[rel[a]] # EXECUTED
             \/ Lock(a) \/ Fire(a) \/ Tell(a) \/ Look(a)
      PROVE  UNCHANGED Graph!vars
  <2>1. /\ UNCHANGED <<status, parent, dependsOn>>
        /\ \A t \in All : t # a => pc'[t] = pc[t]
        /\ pc[a] \in Running <=> pc'[a] \in Running
        /\ pc[a] # "idle" /\ pc'[a] # "idle"
    BY <1>2 DEF StoreWaitfor, CheckChildren, Claim, Lock, Fire, Tell, Look,
                TypeOK, Running
  <2>2. \A t \in All : Phase(t)' = Phase(t)
    BY <1>0, <2>1 DEF Phases
  <2> QED
    BY <2>1, <2>2, Quiet
<1>3. ASSUME NEW a \in All, ScheduleReady(a) \/ Await(a)
      PROVE  UNCHANGED Graph!vars
  <2>1. /\ UNCHANGED <<parent, dependsOn>>
        /\ \A t \in All : t # a => pc'[t] = pc[t]
        /\ pc[a] \in Running <=> pc'[a] \in Running
        /\ pc[a] # "idle" /\ pc'[a] # "idle"
    BY <1>3 DEF ScheduleReady, Await, TypeOK, Running
  <2>2. \A t \in Tasks : status'[t] = status[t] \/
          (status[t] = CREATED /\ status'[t] = SCHEDULED)
    BY <1>3 DEF ScheduleReady, Await, TypeOK
  <2>3. \A t \in All : Phase(t)' = Phase(t)
    <3>1. Phase(Main)' = Phase(Main)
      BY <1>0, <2>1 DEF Phases
    <3>2. ASSUME NEW t \in Tasks
          PROVE  Phase(t)' = Phase(t)
      <4>1. status[t] < RELEASING <=> status'[t] < RELEASING
        BY <2>2 DEF TypeOK
      <4>2. status[t] = CREATING <=> status'[t] = CREATING
        BY <2>2 DEF TypeOK
      <4> QED
        BY <1>0, <2>1, <4>1, <4>2 DEF Phases
    <3> QED
      BY <3>1, <3>2
  <2> QED
    BY <2>1, <2>3, Quiet
<1>4. ASSUME NEW a \in All, Complete(a)
      PROVE  UNCHANGED Graph!vars
  <2>1. /\ UNCHANGED <<parent, dependsOn>>
        /\ \A t \in All : t # a => pc'[t] = pc[t]
        /\ pc[a] = "fire" /\ pc'[a] = "tell"
        /\ \A t \in Tasks : status'[t] = status[t] \/
              (status[t] = RELEASING /\ status'[t] = COMPLETE)
    BY <1>4 DEF Complete, TypeOK, LocalsInv
  <2>2. \A t \in All : Phase(t)' = Phase(t)
    BY <1>0, <2>1 DEF Phases, Running
  <2> QED
    BY <2>1, <2>2, Quiet
<1>5. ASSUME NEW a \in All, NEW c \in Tasks, Call(a, c)
      PROVE  UNCHANGED Graph!vars
  <2>1. /\ status[c] = CREATING /\ status' = status
        /\ \A t \in All : t # a => pc'[t] = pc[t]
        /\ pc[a] = "run" /\ pc'[a] = "deps"
        /\ UNCHANGED dependsOn /\ \A t \in Tasks : t # c => parent'[t] = parent[t]
    BY <1>5 DEF Call, TypeOK, StageInv
  <2>2. \A t \in All : Phase(t)' = Phase(t)
    BY <1>0, <2>1 DEF Phases, Running
  <2>3. Phase(c) = "absent"
    BY <1>0, <2>1 DEF Phases
  <2> QED
    BY <2>1, <2>2, <2>3, Quiet
<1>6. ASSUME NEW a \in All, NEW o \in Tasks, Register(a, o)
      PROVE  UNCHANGED Graph!vars
  <2>1. /\ UNCHANGED <<status, parent, pc>>
        /\ cur[a] \in Tasks /\ status[cur[a]] = CREATING
        /\ \A t \in Tasks : t # cur[a] => dependsOn'[t] = dependsOn[t]
    BY <1>6 DEF Register, TypeOK, LocalsInv, Creating
  <2>2. \A t \in All : Phase(t)' = Phase(t)
    BY <1>0, <2>1 DEF Phases
  <2>3. Phase(cur[a]) = "absent"
    BY <1>0, <2>1 DEF Phases
  <2> QED
    BY <2>1, <2>2, <2>3, Quiet
<1>7. ASSUME NEW s \in Tasks, Drain(s)
      PROVE  UNCHANGED Graph!vars
  <2>1. /\ UNCHANGED <<parent, dependsOn, pc>>
        /\ status[s] = SCHEDULED /\ status'[s] = EXECUTED
        /\ pc[s] \in {"check", "claim", "done"}
        /\ \A t \in Tasks : t # s => status'[t] = status[t]
    BY <1>7 DEF Drain, TypeOK, StageInv
  <2>2. \A t \in All : Phase(t)' = Phase(t)
    BY <1>0, <2>1 DEF Phases, Running
  <2> QED
    BY <2>1, <2>2, Quiet
<1> QED
  BY <1>1, <1>2, <1>3, <1>4, <1>5, <1>6, <1>7

\* CREATED_TASK makes the task under creation a child in the graph, waiting
\* for siblings that are in the graph.
LEMMA PublishSpawns ==
  ASSUME IInv, IInv', TInv, NEW a \in All, PublishReady(a) \/ Publish(a)
  PROVE  \E c \in Tasks : Graph!Spawn(a, c)
<1>c. PICK c \in Tasks : c = cur[a]
  BY DEF PublishReady, Publish, IInv, LocalsInv, Creating
<1> DEFINE P(u) == IF Phase(u) = "absent" THEN None ELSE parent[u]
           D(u) == IF Phase(u) = "absent" THEN {} ELSE dependsOn[u]
<1>0. Phases /\ Phases'
  BY PhasesOf
<1>1. /\ c \in Tasks /\ parent[c] = a /\ pc[c] = "idle" /\ status[c] = CREATING
      /\ pc[a] \in Running /\ pc'[a] \in Running
      /\ \A t \in All : t # a => pc'[t] = pc[t]
      /\ status' = [status EXCEPT ![c] = CREATED]
      /\ UNCHANGED <<parent, dependsOn>>
  BY <1>c DEF PublishReady, Publish, IInv, TypeOK, LocalsInv, Creating, Running
<1>2. Phase(a) = "running"
  BY <1>0, <1>1 DEF Phases, IInv, StageInv
<1>3. Phase(c) = "absent" /\ Phase(c)' = "waiting" /\ c # a
  BY <1>0, <1>1, <1>2 DEF Phases, IInv, TypeOK, Running
<1>4. \A t \in All : t # c => Phase(t)' = Phase(t)
  BY <1>0, <1>1 DEF Phases, IInv, TypeOK, Running
<1>5. ASSUME NEW o \in dependsOn[c]
      PROVE  o \in Tasks /\ P(o) = a
  <2>1. o \in Tasks /\ parent[o] = a /\ status[o] >= CREATED
    BY <1>1 DEF IInv, TypeOK, TInv, DependsInv
  <2>2. Phase(o) # "absent"
    BY <1>0, <2>1 DEF Phases
  <2> QED
    BY <2>1, <2>2
<1>6. [u \in All |-> Phase(u)]' = [[u \in All |-> Phase(u)] EXCEPT ![c] = "waiting"]
  BY <1>3, <1>4
<1>7. P(c)' = a /\ D(c)' = dependsOn[c]
  BY <1>1, <1>3
<1>8. \A u \in Tasks : u # c => P(u)' = P(u) /\ D(u)' = D(u)
  BY <1>1, <1>4
<1>9. [u \in Tasks |-> P(u)]' = [[u \in Tasks |-> P(u)] EXCEPT ![c] = a]
  BY <1>1, <1>7, <1>8
<1>10. [u \in Tasks |-> D(u)]' = [[u \in Tasks |-> D(u)] EXCEPT ![c] = dependsOn[c]]
  BY <1>1, <1>7, <1>8
<1>11. dependsOn[c] \in SUBSET Graph!Siblings(a)
  BY <1>5 DEF Graph!Siblings
<1> QED
  BY <1>1, <1>2, <1>3, <1>6, <1>9, <1>10, <1>11 DEF Graph!Spawn

\* execute_task starts a task whose dependencies were all released.
LEMMA StartStarts ==
  ASSUME IInv, IInv', NEW t \in Tasks, Start(t)
  PROVE  Graph!Start(t)
<1>0. Phases /\ Phases'
  BY PhasesOf
<1>1. /\ pc[t] = "idle" /\ pc'[t] = "run" /\ status[t] = SCHEDULED
      /\ \A u \in All : u # t => pc'[u] = pc[u]
      /\ UNCHANGED <<status, parent, dependsOn>>
  BY DEF Start, IInv, TypeOK
<1>2. Phase(t) = "waiting" /\ Moves(t, "running")
  BY <1>0, <1>1 DEF Phases, Moves, Running
<1>3. ASSUME NEW d \in dependsOn[t]
      PROVE  d \in Tasks /\ Phase(d) = "released"
  <2>1. d \in Tasks /\ status[d] >= RELEASING
    BY <1>1, ScheduledIsFree DEF DependenciesRespected, IInv, TypeOK
  <2>2. pc[d] # "idle" /\ pc[d] \notin Running /\ status[d] \in Nat
    BY <2>1 DEF IInv, TypeOK, StageInv
  <2> QED
    BY <1>0, <2>1, <2>2 DEF Phases
<1> QED
  BY <1>2, <1>3, MoveInGraph DEF Graph!Start

\* A body that returns finishes its task.
LEMMA ReturnFinishes ==
  ASSUME IInv, IInv', NEW t \in Tasks, Return(t)
  PROVE  Graph!Finish(t)
<1>0. Phases /\ Phases'
  BY PhasesOf
<1>1. /\ pc[t] = "run" /\ pc'[t] = "check"
      /\ status[t] = SCHEDULED /\ status'[t] \in {SCHEDULED, EXECUTED}
      /\ \A u \in All : u # t => pc'[u] = pc[u] /\ status'[u] = status[u]
      /\ UNCHANGED <<parent, dependsOn>>
  BY DEF Return, IInv, TypeOK, StageInv, Running
<1>2. Phase(t) = "running" /\ Moves(t, "finished")
  BY <1>0, <1>1 DEF Phases, Moves, Running
<1> QED
  BY <1>2, MoveInGraph DEF Graph!Finish

\* The CAS to RELEASING releases a task all of whose children were released.
LEMMA ClaimReleases ==
  ASSUME SyncBeforeReturn, IInv, IInv', MInv,
         NEW a \in All, Claim(a), status[rel[a]] = EXECUTED
  PROVE  rel[a] \in Tasks /\ Graph!Release(rel[a])
<1>t. PICK t \in Tasks : t = rel[a]
  BY DEF Claim, IInv, LocalsInv
<1>0. Phases /\ Phases'
  BY PhasesOf
<1>1. /\ t \in Tasks /\ status[t] = EXECUTED /\ status'[t] = RELEASING
      /\ pc[a] = "claim" /\ pc'[a] = "lock"
      /\ \A u \in All : u # a => pc'[u] = pc[u]
      /\ \A u \in All : u # t => status'[u] = status[u]
      /\ UNCHANGED <<parent, dependsOn>>
  BY <1>t DEF Claim, IInv, TypeOK, LocalsInv
<1>2. pc[t] # "idle" /\ pc[t] \notin Running
  BY <1>1 DEF IInv, StageInv
<1>3. Phase(t) = "finished" /\ Phase(t)' = "released"
  BY <1>0, <1>1, <1>2 DEF Phases, Running
<1>4. \A u \in All : u # t => Phase(u)' = Phase(u)
  BY <1>0, <1>1 DEF Phases, Running
<1>5. Moves(t, "released")
  BY <1>1, <1>3, <1>4 DEF Moves
<1>6. ASSUME NEW c \in Tasks, parent[c] = t
      PROVE  Phase(c) = "released"
  <2>1. status[c] = COMPLETE
    BY <1>1, <1>2, <1>6, AllReported DEF Unreported, IInv, TypeOK
  <2>2. pc[c] # "idle" /\ pc[c] \notin Running
    BY <2>1 DEF IInv, StageInv
  <2> QED
    BY <1>0, <2>1, <2>2 DEF Phases
<1>7. \A c \in Graph!Siblings(t) : c \in Tasks /\ Phase(c) = "released"
  BY <1>1, <1>6 DEF Graph!Siblings
<1> QED
  BY <1>t, <1>1, <1>3, <1>5, <1>7, MoveInGraph DEF Graph!Release

\* When the main program has no children left, no task is left at all.
LEMMA NoneLeft ==
  ASSUME SyncBeforeReturn, IInv, MInv, TInv, children[Main] = 0
  PROVE  \A t \in Tasks : parent[t] # None => ~Unreported(t)
<1> DEFINE S == {t \in Tasks : parent[t] # None /\ Unreported(t)}
<1> SUFFICES ASSUME S # {} PROVE FALSE
  OBVIOUS
<1>1. PICK t \in S : parent[t] \notin S
  BY DEF TInv, RootedInv
<1>2. parent[t] \in All /\ children[parent[t]] > 0
  BY <1>1, ChildCounts DEF IInv, TypeOK
<1>3. PICK p \in Tasks : p = parent[t]
  BY <1>2 DEF IInv, TypeOK
<1>4. status[p] >= SCHEDULED /\ parent[p] # None
  BY <1>1, <1>3 DEF TInv, AncestryInv, IInv, StageInv
<1>5. ~Unreported(p)
  BY <1>1, <1>3, <1>4
<1>6. pc[p] \notin Running \cup {"idle"}
  BY <1>5 DEF Unreported, IInv, TypeOK, StageInv
<1> QED
  BY <1>2, <1>3, <1>6 DEF MInv, ChildlessInv

\* tpc_shutdown gets past its tpc_sync when every task was released.
LEMMA ShutdownShutsDown ==
  ASSUME SyncBeforeReturn, IInv, IInv', MInv, TInv, Shutdown
  PROVE  Graph!Shutdown
<1>0. Phases /\ Phases'
  BY PhasesOf
<1>1. /\ pc[Main] = "run" /\ pc'[Main] = "barrier" /\ children[Main] = 0
      /\ \A u \in All : u # Main => pc'[u] = pc[u]
      /\ UNCHANGED <<status, parent, dependsOn>>
  BY DEF Shutdown, IInv, TypeOK
<1>2. Phase(Main) = "running" /\ Moves(Main, "finished")
  BY <1>0, <1>1 DEF Phases, Moves, Running
<1>3. ASSUME NEW t \in Tasks
      PROVE  Phase(t) \in {"absent", "released"}
  <2>1. CASE parent[t] = None
    BY <1>0, <2>1 DEF Phases, IInv, StageInv
  <2>2. CASE parent[t] # None
    <3>1. status[t] = COMPLETE
      BY <1>1, <2>2, NoneLeft DEF Unreported, IInv, TypeOK
    <3>2. pc[t] # "idle" /\ pc[t] \notin Running
      BY <3>1 DEF IInv, StageInv
    <3> QED
      BY <1>0, <3>1, <3>2 DEF Phases
  <2> QED
    BY <2>1, <2>2
<1> QED
  BY <1>2, <1>3, MoveInGraph DEF Graph!Shutdown

LEMMA GraphInit == Init => Graph!Init
BY DEF Init, Graph!Init, Phase, Running

\* Every step is a step of the graph, or invisible there.
LEMMA GraphStep ==
  ASSUME SyncBeforeReturn, IInv, IInv', MInv, TInv, [Next]_vars
  PROVE  [Graph!Next]_(Graph!vars)
<1>1. CASE Shutdown
  BY <1>1, ShutdownShutsDown DEF Graph!Next
<1>2. CASE Teardown \/ Terminated \/ UNCHANGED vars
  BY <1>2, QuietSteps
<1>3. ASSUME NEW a \in All, PublishReady(a) \/ Publish(a)
      PROVE  Graph!Next
  BY <1>3, PublishSpawns DEF Graph!Next
<1>4. ASSUME NEW a \in All, Claim(a)
      PROVE  [Graph!Next]_(Graph!vars)
  BY <1>4, ClaimReleases, QuietSteps DEF Graph!Next
<1>5. ASSUME NEW a \in All, Advance(a)
      PROVE  [Graph!Next]_(Graph!vars)
  BY <1>3, <1>4, <1>5, QuietSteps DEF Advance
<1>6. ASSUME NEW a \in All, NEW t \in Tasks, Call(a, t) \/ Register(a, t)
      PROVE  UNCHANGED Graph!vars
  BY <1>6, QuietSteps
<1>7. ASSUME NEW t \in Tasks, Start(t) \/ Return(t) \/ Drain(t)
      PROVE  [Graph!Next]_(Graph!vars)
  BY <1>7, StartStarts, ReturnFinishes, QuietSteps DEF Graph!Next
<1> QED
  BY <1>1, <1>2, <1>5, <1>6, <1>7 DEF Next

\* The handlers of runtime.c and deps.c, one access to shared memory per step,
\* implement the task graph, store buffers or not: a task starts after the
\* ones it depends on were released, is released after its children, and
\* tpc_shutdown comes after all, if programs call tpc_sync before a task
\* returns.
THEOREM LifeImplementsGraph ==
  ASSUME SyncBeforeReturn
  PROVE  Spec => Refinement
<1>1. Init => Graph!Init
  BY GraphInit
<1>2. IInv /\ IInv' /\ MInv /\ TInv /\ [Next]_vars => [Graph!Next]_(Graph!vars)
  BY GraphStep
<1> QED
  BY <1>1, <1>2, TreeInvariant, PTL DEF Spec, Graph!Spec, Refinement
=============================================================================
