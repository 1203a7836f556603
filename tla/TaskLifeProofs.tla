--------------------------- MODULE TaskLifeProofs ---------------------------
(***************************************************************************)
(* Proofs about TaskLife, for every set of tasks, every bound on the       *)
(* registrations, with and without store buffers, and for programs that    *)
(* call tpc_sync before they return and programs that do not.              *)
(***************************************************************************)
EXTENDS TaskLife, FiniteSetTheorems, TLAPS

USE LifeAssumption
USE DEF All, Goto, CREATING, CREATED, SCHEDULED, EXECUTED, RELEASING, COMPLETE

-----------------------------------------------------------------------------
(* The inductive invariant *)

Creating == {"deps", "publish", "schedule"}

\* What the locals of an activity point to, at each of its steps.
LocalsInv ==
  \A a \in All :
    /\ pc[a] \in Creating =>
         /\ cur[a] \in Tasks /\ parent[cur[a]] = a /\ pc[cur[a]] = "idle"
         /\ status[cur[a]] = IF pc[a] = "schedule" THEN CREATED ELSE CREATING
    /\ pc[a] \in Releasing \cup {"claim"} =>
         rel[a] \in Tasks /\ parent[rel[a]] \in All
    /\ pc[a] \in {"lock", "fire", "await"} => status[rel[a]] = RELEASING
    /\ pc[a] \in {"tell", "look"} => status[rel[a]] = COMPLETE
    /\ pc[a] = "await" =>
         cur[a] \in Tasks /\ 0 < num[a] /\ num[a] <= fired[cur[a]]

\* How the status of a task and the progress of its own activity agree.
StageInv ==
  /\ status[Main] = SCHEDULED
  /\ pc[Main] \in Running \cup {"barrier", "end"}
  /\ \A t \in Tasks :
       /\ parent[t] = None => status[t] = CREATING /\ fired[t] = 0 /\ waitfor[t] = 0
       /\ pc[t] = "idle" => status[t] <= SCHEDULED
       /\ pc[t] # "idle" => status[t] >= SCHEDULED
       /\ pc[t] \in Running => status[t] = SCHEDULED
       /\ t \in buffered => status[t] = SCHEDULED /\ pc[t] \in {"check", "claim", "done"}
       /\ pc[t] \notin {"barrier", "end"}

\* The counters of a task under creation, and of a published one.
CountersInv ==
  /\ IsFiniteSet(notify)
  /\ \A w \in Tasks :
       /\ parent[w] = None => Outstanding(w) = {} /\ dependsOn[w] = {}
       /\ status[w] >= SCHEDULED => Outstanding(w) = {}
  /\ \A a \in All :
       /\ pc[a] = "deps" =>
            /\ waitfor[cur[a]] = 0
            /\ \A r \in Outstanding(cur[a]) : r[3] < num[a]
       /\ pc[a] = "publish" =>
            waitfor[cur[a]] = fired[cur[a]] + Cardinality(Outstanding(cur[a]))
       /\ pc[a] = "schedule" => waitfor[cur[a]] = 0

\* A task is on the stack of each task it waits for until that one releases.
RegisteredInv ==
  \A w \in Tasks : \A o \in dependsOn[w] :
    status[o] >= RELEASING \/ \E r \in notify : r[1] = o /\ r[2] = w

IInv ==
  /\ TypeOK /\ LocalsInv /\ StageInv
  /\ NotificationsCounted /\ CountersInv /\ RegisteredInv
  /\ ChildrenCounted /\ ReleasedOnce

-----------------------------------------------------------------------------
(* The initial states *)

LEMMA InitIInv == Init => IInv
<1> SUFFICES ASSUME Init PROVE IInv
  OBVIOUS
<1>1. TypeOK
  BY DEF Init, TypeOK, Running, Releasing
<1>2. LocalsInv
  BY DEF Init, LocalsInv, Creating, Releasing
<1>3. StageInv
  BY DEF Init, StageInv, Running
<1>4. \A w \in Tasks : Outstanding(w) = {}
  BY DEF Init, Outstanding
<1>5. NotificationsCounted
  BY DEF Init, NotificationsCounted
<1>6. CountersInv
  BY <1>4, FS_EmptySet DEF Init, CountersInv
<1>7. RegisteredInv
  BY DEF Init, RegisteredInv
<1>8. \A p \in All : Untold(p) = {}
  BY DEF Init, Untold
<1>9. ChildrenCounted
  BY <1>8, FS_EmptySet DEF Init, ChildrenCounted
<1>10. ReleasedOnce
  BY DEF Init, ReleasedOnce, Releasing
<1> QED
  BY <1>1, <1>2, <1>3, <1>5, <1>6, <1>7, <1>9, <1>10 DEF IInv

-----------------------------------------------------------------------------
(* What an action need not be asked about if it leaves the counters alone *)

\* The registrations of a task are finitely many, and none if the count is 0.
LEMMA OutstandingFinite ==
  ASSUME CountersInv, NEW w
  PROVE  /\ IsFiniteSet(Outstanding(w))
         /\ Cardinality(Outstanding(w)) \in Nat
         /\ Cardinality(Outstanding(w)) = 0 => Outstanding(w) = {}
<1>1. Outstanding(w) \subseteq notify /\ IsFiniteSet(notify)
  BY DEF Outstanding, CountersInv
<1>2. IsFiniteSet(Outstanding(w))
  BY <1>1, FS_Subset
<1> QED
  BY <1>2, FS_CardinalityType, FS_EmptySet

\* The notifications stay counted when neither the stacks nor the counters
\* change, no task is published or scheduled, and no creator moves on.
LEMMA CountingFrame ==
  ASSUME TypeOK, NotificationsCounted, CountersInv, RegisteredInv,
         UNCHANGED <<waitfor, fired, parent, notify, dependsOn>>,
         \A w \in Tasks : /\ status'[w] >= CREATED => status[w] >= CREATED
                          /\ status'[w] >= SCHEDULED => status[w] >= SCHEDULED
                          /\ status[w] >= RELEASING => status'[w] >= RELEASING,
         \A a \in All : pc'[a] \in Creating =>
                          pc'[a] = pc[a] /\ cur'[a] = cur[a] /\ num'[a] = num[a]
  PROVE  NotificationsCounted' /\ CountersInv' /\ RegisteredInv'
<1>1. \A w : Outstanding(w)' = Outstanding(w)
  BY DEF Outstanding
<1>2. NotificationsCounted'
  BY <1>1 DEF NotificationsCounted, Creating
<1>3. CountersInv'
  BY <1>1 DEF CountersInv, Creating
<1>4. RegisteredInv'
  BY DEF RegisteredInv, TypeOK
<1> QED
  BY <1>2, <1>3, <1>4

\* The children that did not report are finitely many.
LEMMA UntoldFinite ==
  ASSUME NEW p
  PROVE  IsFiniteSet(Untold(p))
BY FS_Subset DEF Untold

\* The children stay counted when none is created and none reports.
LEMMA ChildrenFrame ==
  ASSUME ChildrenCounted, UNCHANGED <<children, parent>>,
         \A c \in Tasks : Unreported(c)' <=> Unreported(c)
  PROVE  ChildrenCounted'
<1>1. \A p : Untold(p)' = Untold(p)
  BY DEF Untold
<1> QED
  BY <1>1 DEF ChildrenCounted

\* No second releaser appears when no activity begins or changes a release.
LEMMA ReleasingFrame ==
  ASSUME ReleasedOnce,
         \A a \in All : pc'[a] \in Releasing =>
                          pc[a] \in Releasing /\ rel'[a] = rel[a]
  PROVE  ReleasedOnce'
BY DEF ReleasedOnce

-----------------------------------------------------------------------------
(* One lemma per action *)

\* The parent counts a new child.
LEMMA CallIInv ==
  ASSUME IInv, NEW a \in All, NEW t \in Tasks, Call(a, t)
  PROVE  IInv'
<1> USE DEF IInv
<1>a. /\ status[t] = CREATING /\ fired[t] = 0 /\ waitfor[t] = 0 /\ pc[t] = "idle"
      /\ Outstanding(t) = {} /\ dependsOn[t] = {}
      /\ a \in Tasks \cup {Main} /\ pc[a] = "run" /\ status' = status
  BY DEF Call, TypeOK, StageInv, CountersInv
<1>b. \A w : Outstanding(w)' = Outstanding(w)
  BY DEF Call, Outstanding
<1>1. TypeOK'
  BY <1>a DEF Call, TypeOK, Running, Releasing
<1>2. LocalsInv'
  BY <1>a DEF Call, TypeOK, LocalsInv, Creating, Releasing
<1>3. StageInv'
  BY <1>a DEF Call, TypeOK, StageInv, Running
<1>4. NotificationsCounted' /\ CountersInv' /\ RegisteredInv'
  <2>1. NotificationsCounted'
    <3>1. ASSUME NEW w \in Tasks, status'[w] >= CREATED
          PROVE  waitfor'[w] = fired'[w] + Cardinality(Outstanding(w)')
      BY <1>a, <1>b, <3>1 DEF Call, NotificationsCounted
    <3>2. cur'[a] = t /\ num'[a] = fired'[t] + Cardinality(Outstanding(t)')
      <4>1. Cardinality(Outstanding(t)') = 0
        BY <1>a, <1>b, FS_EmptySet
      <4>2. cur'[a] = t /\ num'[a] = 0 /\ fired'[t] = 0
        BY <1>a DEF Call, TypeOK
      <4> QED
        BY <4>1, <4>2
    <3>3. ASSUME NEW b \in All, b # a, pc'[b] = "deps"
          PROVE  num'[b] = fired'[cur'[b]] + Cardinality(Outstanding(cur[b])')
      BY <1>b, <3>3 DEF Call, TypeOK, NotificationsCounted
    <3> QED
      BY <3>1, <3>2, <3>3 DEF NotificationsCounted
  <2>2. CountersInv'
    BY <1>a, <1>b DEF Call, TypeOK, CountersInv
  <2>3. RegisteredInv'
    BY <1>a DEF Call, RegisteredInv
  <2> QED
    BY <2>1, <2>2, <2>3
<1>5. ChildrenCounted'
  <2>1. \A c \in Tasks : Unreported(c)' <=> Unreported(c)
    BY <1>a DEF Call, TypeOK, Unreported
  <2>2. Unreported(t) /\ t \notin Untold(a)
    BY <1>a DEF Call, Untold, Unreported
  <2>3. Untold(a)' = Untold(a) \cup {t}
    BY <2>1, <2>2 DEF Call, TypeOK, Untold
  <2>4. \A p \in All : p # a => Untold(p)' = Untold(p)
    BY <2>1 DEF Call, TypeOK, Untold
  <2>5. Cardinality(Untold(a)') = Cardinality(Untold(a)) + 1
    BY <2>2, <2>3, UntoldFinite, FS_AddElement
  <2> QED
    BY <2>4, <2>5 DEF Call, TypeOK, ChildrenCounted
<1>6. ReleasedOnce'
  BY ReleasingFrame DEF Call, TypeOK, Releasing
<1> QED
  BY <1>1, <1>2, <1>3, <1>4, <1>5, <1>6

\* The new task is pushed on the stack of a sibling.
LEMMA RegisterIInv ==
  ASSUME IInv, NEW a \in All, NEW o \in Tasks, Register(a, o)
  PROVE  IInv'
<1> USE DEF IInv
<1>w. PICK w \in Tasks, k \in Nat : w = cur[a] /\ k = num[a]
  BY DEF Register, TypeOK, LocalsInv, Creating
<1> DEFINE r == <<o, w, k>>
<1>a. /\ parent[w] = a /\ status[w] = CREATING /\ cur'[a] = w /\ num'[a] = k + 1
      /\ \A b \in All : b # a /\ pc[b] \in Creating => cur[b] # w
  BY <1>w DEF Register, TypeOK, LocalsInv, Creating
<1>b. /\ \A q \in Outstanding(w) : q[3] < k
      /\ r \notin Outstanding(w) /\ notify' = notify \cup {r}
  <2>1. \A q \in Outstanding(w) : q[3] < k
    BY <1>w DEF Register, CountersInv
  <2>2. r[3] = k /\ ~(k < k)
    OBVIOUS
  <2> QED
    BY <1>w, <2>1, <2>2 DEF Register
<1>c. /\ Outstanding(w)' = Outstanding(w) \cup {r}
      /\ \A v : v # w => Outstanding(v)' = Outstanding(v)
  BY <1>b DEF Outstanding
<1>d. Cardinality(Outstanding(w)') = Cardinality(Outstanding(w)) + 1
  BY <1>b, <1>c, OutstandingFinite, FS_AddElement
<1>1. TypeOK'
  BY <1>w DEF Register, TypeOK, Running, Releasing
<1>2. LocalsInv'
  BY DEF Register, TypeOK, LocalsInv, Creating, Releasing
<1>3. StageInv'
  BY DEF Register, TypeOK, LocalsInv, StageInv, Creating, Running, Releasing
<1>4. NotificationsCounted' /\ CountersInv' /\ RegisteredInv'
  <2>1. NotificationsCounted'
    <3>1. ASSUME NEW v \in Tasks, status'[v] >= CREATED
          PROVE  waitfor'[v] = fired'[v] + Cardinality(Outstanding(v)')
      BY <1>a, <1>c, <3>1 DEF Register, NotificationsCounted
    <3>2. num'[a] = fired'[w] + Cardinality(Outstanding(w)')
      BY <1>w, <1>a, <1>d, OutstandingFinite DEF Register, TypeOK, NotificationsCounted
    <3>3. ASSUME NEW b \in All, b # a, pc'[b] = "deps"
          PROVE  num'[b] = fired'[cur'[b]] + Cardinality(Outstanding(cur[b])')
      BY <1>a, <1>c, <3>3 DEF Register, TypeOK, NotificationsCounted, Creating
    <3> QED
      BY <1>a, <3>1, <3>2, <3>3 DEF NotificationsCounted
  <2>2. CountersInv'
    <3>1. IsFiniteSet(notify')
      BY <1>b, FS_AddElement DEF CountersInv
    <3>2. ASSUME NEW v \in Tasks
          PROVE  /\ parent'[v] = None => Outstanding(v)' = {} /\ dependsOn'[v] = {}
                 /\ status'[v] >= SCHEDULED => Outstanding(v)' = {}
      BY <1>w, <1>a, <1>c DEF Register, TypeOK, CountersInv
    <3>3. ASSUME NEW b \in All, b # a
          PROVE  /\ pc'[b] = "deps" =>
                      /\ waitfor'[cur'[b]] = 0
                      /\ \A q \in Outstanding(cur[b])' : q[3] < num'[b]
                 /\ pc'[b] = "publish" =>
                      waitfor'[cur'[b]] = fired'[cur'[b]] + Cardinality(Outstanding(cur[b])')
                 /\ pc'[b] = "schedule" => waitfor'[cur'[b]] = 0
      BY <1>a, <1>c, <3>3 DEF Register, TypeOK, CountersInv, Creating
    <3>4. /\ pc'[a] = "deps" /\ waitfor'[w] = 0
          /\ \A q \in Outstanding(w)' : q[3] < num'[a]
      <4>1. \A q \in Outstanding(w) : q[3] < k /\ q[3] \in Nat
        BY <1>b DEF TypeOK, Outstanding
      <4>2. r[3] = k
        OBVIOUS
      <4> QED
        BY <1>w, <1>a, <1>c, <4>1, <4>2 DEF Register, CountersInv
    <3> QED
      BY <1>a, <3>1, <3>2, <3>3, <3>4 DEF CountersInv
  <2>3. RegisteredInv'
    <3> SUFFICES ASSUME NEW v \in Tasks, NEW p \in dependsOn'[v]
                 PROVE  status'[p] >= RELEASING \/ \E q \in notify' : q[1] = p /\ q[2] = v
      BY DEF RegisteredInv
    <3>1. CASE v = w /\ p = o
      BY <1>b, <3>1
    <3>2. CASE p \in dependsOn[v]
      BY <1>b, <3>2 DEF Register, RegisteredInv
    <3> QED
      BY <1>w, <3>1, <3>2 DEF Register, TypeOK
  <2> QED
    BY <2>1, <2>2, <2>3
<1>5. ChildrenCounted'
  BY ChildrenFrame DEF Register, TypeOK, LocalsInv, StageInv, Unreported, Running, Releasing
<1>6. ReleasedOnce'
  BY ReleasingFrame DEF Register, TypeOK, Releasing
<1> QED
  BY <1>1, <1>2, <1>3, <1>4, <1>5, <1>6

\* A task without dependencies is published.
LEMMA PublishReadyIInv ==
  ASSUME IInv, NEW a \in All, PublishReady(a)
  PROVE  IInv'
<1> USE DEF IInv
<1> DEFINE w == cur[a]
<1>a. /\ w \in Tasks /\ parent[w] = a /\ status[w] = CREATING /\ pc[w] = "idle"
      /\ \A b \in All : b # a /\ pc[b] \in Creating => cur[b] # w
  BY DEF PublishReady, LocalsInv, Creating
<1>b. /\ Cardinality(Outstanding(w)) = 0
      /\ fired[w] = 0 /\ waitfor[w] = 0 /\ Outstanding(w) = {}
  BY <1>a, OutstandingFinite DEF PublishReady, TypeOK, NotificationsCounted, CountersInv
<1>c. \A v : Outstanding(v)' = Outstanding(v)
  BY DEF PublishReady, Outstanding
<1>1. TypeOK'
  BY <1>a DEF PublishReady, TypeOK, Running, Releasing
<1>2. LocalsInv'
  BY <1>a DEF PublishReady, TypeOK, LocalsInv, Creating, Releasing
<1>3. StageInv'
  BY <1>a DEF PublishReady, TypeOK, StageInv, Running
<1>4. NotificationsCounted' /\ CountersInv' /\ RegisteredInv'
  <2>1. NotificationsCounted'
    BY <1>a, <1>b, <1>c DEF PublishReady, TypeOK, NotificationsCounted
  <2>2. CountersInv'
    BY <1>a, <1>b, <1>c DEF PublishReady, TypeOK, CountersInv
  <2>3. RegisteredInv'
    BY <1>a DEF PublishReady, TypeOK, RegisteredInv
  <2> QED
    BY <2>1, <2>2, <2>3
<1>5. ChildrenCounted'
  BY <1>a, ChildrenFrame DEF PublishReady, TypeOK, Unreported
<1>6. ReleasedOnce'
  BY ReleasingFrame DEF PublishReady, TypeOK, Releasing
<1> QED
  BY <1>1, <1>2, <1>3, <1>4, <1>5, <1>6

\* Its creator schedules it: nothing was registered for it.
LEMMA ScheduleReadyIInv ==
  ASSUME IInv, NEW a \in All, ScheduleReady(a)
  PROVE  IInv'
<1> USE DEF IInv
<1> DEFINE w == cur[a]
<1>a. /\ w \in Tasks /\ parent[w] = a /\ status[w] = CREATED /\ pc[w] = "idle"
      /\ \A b \in All : b # a /\ pc[b] \in Creating => cur[b] # w
  BY DEF ScheduleReady, LocalsInv, Creating
<1>b. /\ Cardinality(Outstanding(w)) = 0 /\ Outstanding(w) = {}
  BY <1>a, OutstandingFinite DEF ScheduleReady, TypeOK, NotificationsCounted, CountersInv
<1>c. \A v : Outstanding(v)' = Outstanding(v)
  BY DEF ScheduleReady, Outstanding
<1>1. TypeOK'
  BY <1>a DEF ScheduleReady, TypeOK, Running, Releasing
<1>2. LocalsInv'
  BY <1>a DEF ScheduleReady, TypeOK, LocalsInv, Creating, Releasing
<1>3. StageInv'
  BY <1>a DEF ScheduleReady, TypeOK, StageInv, Running
<1>4. NotificationsCounted' /\ CountersInv' /\ RegisteredInv'
  <2>1. NotificationsCounted'
    BY <1>a, <1>c DEF ScheduleReady, TypeOK, NotificationsCounted
  <2>2. CountersInv'
    BY <1>a, <1>b, <1>c DEF ScheduleReady, TypeOK, CountersInv
  <2>3. RegisteredInv'
    BY <1>a DEF ScheduleReady, TypeOK, RegisteredInv
  <2> QED
    BY <2>1, <2>2, <2>3
<1>5. ChildrenCounted'
  BY ChildrenFrame DEF ScheduleReady, TypeOK, LocalsInv, StageInv, Unreported, Running, Releasing
<1>6. ReleasedOnce'
  BY ReleasingFrame DEF ScheduleReady, TypeOK, Releasing
<1> QED
  BY <1>1, <1>2, <1>3, <1>4, <1>5, <1>6

\* The number of registrations is stored in waitfor.
LEMMA StoreWaitforIInv ==
  ASSUME IInv, NEW a \in All, StoreWaitfor(a)
  PROVE  IInv'
<1> USE DEF IInv
<1> DEFINE w == cur[a]
<1>a. /\ w \in Tasks /\ parent[w] = a /\ status[w] = CREATING
      /\ \A b \in All : b # a /\ pc[b] \in Creating => cur[b] # w
  BY DEF StoreWaitfor, LocalsInv, Creating
<1>c. \A v : Outstanding(v)' = Outstanding(v)
  BY DEF StoreWaitfor, Outstanding
<1>1. TypeOK'
  BY <1>a DEF StoreWaitfor, TypeOK, Running, Releasing
<1>2. LocalsInv'
  BY <1>a DEF StoreWaitfor, TypeOK, LocalsInv, Creating, Releasing
<1>3. StageInv'
  BY <1>a DEF StoreWaitfor, TypeOK, StageInv, Running
<1>4. NotificationsCounted' /\ CountersInv' /\ RegisteredInv'
  <2>1. NotificationsCounted'
    BY <1>a, <1>c DEF StoreWaitfor, TypeOK, NotificationsCounted
  <2>2. CountersInv'
    BY <1>a, <1>c DEF StoreWaitfor, TypeOK, CountersInv, NotificationsCounted, Creating
  <2>3. RegisteredInv'
    BY DEF StoreWaitfor, TypeOK, RegisteredInv
  <2> QED
    BY <2>1, <2>2, <2>3
<1>5. ChildrenCounted'
  BY ChildrenFrame DEF StoreWaitfor, TypeOK, LocalsInv, StageInv, Unreported, Running, Releasing
<1>6. ReleasedOnce'
  BY ReleasingFrame DEF StoreWaitfor, TypeOK, Releasing
<1> QED
  BY <1>1, <1>2, <1>3, <1>4, <1>5, <1>6

\* A task with dependencies is published.
LEMMA PublishIInv ==
  ASSUME IInv, NEW a \in All, Publish(a)
  PROVE  IInv'
<1> USE DEF IInv
<1> DEFINE w == cur[a]
<1>a. /\ w \in Tasks /\ parent[w] = a /\ status[w] = CREATING /\ pc[w] = "idle"
      /\ \A b \in All : b # a /\ pc[b] \in Creating => cur[b] # w
  BY DEF Publish, LocalsInv, Creating
<1>c. \A v : Outstanding(v)' = Outstanding(v)
  BY DEF Publish, Outstanding
<1>1. TypeOK'
  BY <1>a DEF Publish, TypeOK, Running, Releasing
<1>2. LocalsInv'
  BY <1>a DEF Publish, TypeOK, LocalsInv, Creating, Releasing
<1>3. StageInv'
  BY <1>a DEF Publish, TypeOK, StageInv, Running
<1>4. NotificationsCounted' /\ CountersInv' /\ RegisteredInv'
  <2>1. NotificationsCounted'
    BY <1>a, <1>c DEF Publish, TypeOK, NotificationsCounted, CountersInv
  <2>2. CountersInv'
    BY <1>a, <1>c DEF Publish, TypeOK, CountersInv, Creating
  <2>3. RegisteredInv'
    BY <1>a DEF Publish, TypeOK, RegisteredInv
  <2> QED
    BY <2>1, <2>2, <2>3
<1>5. ChildrenCounted'
  BY <1>a, ChildrenFrame DEF Publish, TypeOK, Unreported
<1>6. ReleasedOnce'
  BY ReleasingFrame DEF Publish, TypeOK, Releasing
<1> QED
  BY <1>1, <1>2, <1>3, <1>4, <1>5, <1>6

\* A waiter is popped and its counter of fired notifications goes up.
LEMMA FireIInv ==
  ASSUME IInv, NEW a \in All, Fire(a)
  PROVE  IInv'
<1> USE DEF IInv
<1>w. PICK r \in notify, w \in Tasks, k \in Nat :
         /\ r[1] = rel[a] /\ r[2] = w /\ k = fired[w]
         /\ notify' = notify \ {r}
         /\ fired' = [fired EXCEPT ![w] = k + 1]
         /\ cur' = [cur EXCEPT ![a] = w]
         /\ num' = [num EXCEPT ![a] = k + 1]
  BY DEF Fire, TypeOK
<1>a. /\ Outstanding(w)' = Outstanding(w) \ {r} /\ r \in Outstanding(w)
      /\ \A v : v # w => Outstanding(v)' = Outstanding(v)
  BY <1>w DEF Outstanding
<1>b. fired'[w] + Cardinality(Outstanding(w)') = fired[w] + Cardinality(Outstanding(w))
  <2>1. IsFiniteSet(Outstanding(w)) /\ Cardinality(Outstanding(w)) \in Nat
    BY OutstandingFinite
  <2>2. Cardinality(Outstanding(w) \ {r}) = Cardinality(Outstanding(w)) - 1
    BY <2>1, <1>a, FS_RemoveElement
  <2>3. Cardinality(Outstanding(w)') = Cardinality(Outstanding(w)) - 1
    BY <2>2, <1>a
  <2>4. fired'[w] = fired[w] + 1 /\ fired[w] \in Nat
    BY <1>w DEF TypeOK
  <2> QED
    BY <2>1, <2>3, <2>4
<1>c. parent[w] # None /\ status[rel[a]] = RELEASING
  BY <1>a DEF Fire, CountersInv, LocalsInv
<1>1. TypeOK'
  BY <1>w DEF Fire, TypeOK, Running, Releasing
<1>2. LocalsInv'
  BY <1>w DEF Fire, TypeOK, LocalsInv, StageInv, Creating, Releasing
<1>3. StageInv'
  BY <1>w, <1>c DEF Fire, TypeOK, StageInv, Running, LocalsInv, Releasing
<1>4. NotificationsCounted' /\ CountersInv' /\ RegisteredInv'
  <2>1. \A v \in Tasks : fired'[v] + Cardinality(Outstanding(v)')
                           = fired[v] + Cardinality(Outstanding(v))
    BY <1>w, <1>a, <1>b DEF TypeOK
  <2>2. \A b \in All : pc'[b] \in Creating =>
          /\ pc'[b] = pc[b] /\ cur'[b] = cur[b] /\ num'[b] = num[b]
          /\ cur[b] \in Tasks
    BY <1>w DEF Fire, TypeOK, LocalsInv, Creating
  <2>3. \A v : Outstanding(v)' \subseteq Outstanding(v)
    BY <1>w DEF Outstanding
  <2>4. NotificationsCounted'
    BY <2>1, <2>2 DEF Fire, NotificationsCounted, Creating
  <2>5. CountersInv'
    <3>1. IsFiniteSet(notify')
      BY <1>w, FS_RemoveElement DEF CountersInv
    <3> QED
      BY <2>1, <2>2, <2>3, <3>1 DEF Fire, CountersInv, Creating
  <2>6. RegisteredInv'
    BY <1>w, <1>c DEF Fire, TypeOK, RegisteredInv
  <2> QED
    BY <2>4, <2>5, <2>6
<1>5. ChildrenCounted'
  BY ChildrenFrame DEF Fire, TypeOK, LocalsInv, StageInv, Unreported, Running, Releasing
<1>6. ReleasedOnce'
  BY ReleasingFrame DEF Fire, TypeOK, Releasing
<1> QED
  BY <1>1, <1>2, <1>3, <1>4, <1>5, <1>6

\* The last notifier schedules the waiter, the others leave it alone.
LEMMA AwaitIInv ==
  ASSUME IInv, NEW a \in All, Await(a)
  PROVE  IInv'
<1> USE DEF IInv
<1>w. PICK w \in Tasks : w = cur[a]
  BY DEF Await, LocalsInv
<1>a. /\ 0 < num[a] /\ num[a] <= fired[w] /\ num[a] \in Nat /\ status[w] \in CREATED..COMPLETE
  BY <1>w DEF Await, LocalsInv, TypeOK
<1>b. waitfor[w] = fired[w] + Cardinality(Outstanding(w))
  BY <1>a DEF NotificationsCounted
<1>c. CASE status' = status
  <2>1. UNCHANGED <<status, children, waitfor, fired, parent, notify, locked,
                    buffered, rel, num, dependsOn>>
    BY <1>c DEF Await
  <2>2. pc' = [pc EXCEPT ![a] = "fire"] /\ cur' = [cur EXCEPT ![a] = None] /\ pc[a] = "await"
    BY DEF Await
  <2> USE <2>1, <2>2
  <2>3. TypeOK'
    BY DEF TypeOK, Running, Releasing
  <2>4. LocalsInv'
    BY DEF TypeOK, LocalsInv, Creating, Releasing
  <2>5. StageInv'
    BY DEF TypeOK, StageInv, Running
  <2>6. NotificationsCounted' /\ CountersInv' /\ RegisteredInv'
    BY CountingFrame DEF TypeOK, Creating
  <2>7. ChildrenCounted'
    BY ChildrenFrame DEF TypeOK, Unreported
  <2>8. ReleasedOnce'
    BY ReleasingFrame DEF TypeOK, Releasing
  <2> QED
    BY <2>3, <2>4, <2>5, <2>6, <2>7, <2>8
<1> SUFFICES ASSUME status' # status
             PROVE  IInv'
  BY <1>c
<1>d. /\ status[w] = CREATED /\ waitfor[w] = num[a]
      /\ status' = [status EXCEPT ![w] = SCHEDULED]
  BY <1>w DEF Await, TypeOK
<1>e. Outstanding(w) = {} /\ waitfor[w] > 0
  BY <1>a, <1>b, <1>d, OutstandingFinite DEF TypeOK
<1>f. \A v : Outstanding(v)' = Outstanding(v)
  BY DEF Await, Outstanding
<1>g. \A b \in All : pc[b] \in Creating => cur[b] # w
  BY <1>d, <1>e DEF LocalsInv, CountersInv, Creating
<1>1. TypeOK'
  BY DEF Await, TypeOK, Running, Releasing
<1>2. LocalsInv'
  BY <1>d, <1>g DEF Await, TypeOK, LocalsInv, Creating, Releasing
<1>3. StageInv'
  BY <1>d DEF Await, TypeOK, StageInv, Running
<1>4. NotificationsCounted' /\ CountersInv' /\ RegisteredInv'
  <2>1. NotificationsCounted'
    BY <1>d, <1>f DEF Await, TypeOK, NotificationsCounted
  <2>2. CountersInv'
    BY <1>d, <1>e, <1>f DEF Await, TypeOK, CountersInv
  <2>3. RegisteredInv'
    BY <1>d DEF Await, TypeOK, RegisteredInv
  <2> QED
    BY <2>1, <2>2, <2>3
<1>5. ChildrenCounted'
  BY <1>d, ChildrenFrame DEF Await, TypeOK, Unreported
<1>6. ReleasedOnce'
  BY ReleasingFrame DEF Await, TypeOK, Releasing
<1> QED
  BY <1>1, <1>2, <1>3, <1>4, <1>5, <1>6

\* The release completes; the parent has not been told yet.
LEMMA CompleteIInv ==
  ASSUME IInv, NEW a \in All, Complete(a)
  PROVE  IInv'
<1> USE DEF IInv
<1>a. /\ rel[a] \in Tasks /\ status[rel[a]] = RELEASING
      /\ status' = [status EXCEPT ![rel[a]] = COMPLETE]
      /\ \A b \in All : pc[b] \in Releasing /\ rel[b] = rel[a] => b = a
  BY DEF Complete, LocalsInv, ReleasedOnce, Releasing
<1>1. TypeOK'
  BY <1>a DEF Complete, TypeOK, Running, Releasing
<1>2. LocalsInv'
  BY <1>a DEF Complete, TypeOK, LocalsInv, Creating, Releasing
<1>3. StageInv'
  BY <1>a DEF Complete, TypeOK, StageInv, Running
<1>4. NotificationsCounted' /\ CountersInv' /\ RegisteredInv'
  BY <1>a, CountingFrame DEF Complete, TypeOK, Creating
<1>5. ChildrenCounted'
  BY <1>a, ChildrenFrame DEF Complete, TypeOK, Unreported
<1>6. ReleasedOnce'
  BY ReleasingFrame DEF Complete, TypeOK, Releasing
<1> QED
  BY <1>1, <1>2, <1>3, <1>4, <1>5, <1>6

\* The child reports to its parent.
LEMMA TellIInv ==
  ASSUME IInv, NEW a \in All, Tell(a)
  PROVE  IInv'
<1> USE DEF IInv
<1>w. PICK c \in Tasks, p \in All : c = rel[a] /\ p = parent[c]
  BY DEF Tell, LocalsInv, Releasing
<1>a. /\ status[c] = COMPLETE
      /\ \A b \in All : pc[b] \in Releasing /\ rel[b] = c => b = a
  BY <1>w DEF Tell, LocalsInv, ReleasedOnce, Releasing
<1>b. c \in Untold(p)
  BY <1>w DEF Tell, Untold, Unreported
<1>c. /\ Untold(p)' = Untold(p) \ {c}
      /\ \A q \in All : q # p => Untold(q)' = Untold(q)
  <2>1. ~Unreported(c)'
    BY <1>w, <1>a DEF Tell, TypeOK, Unreported, Releasing
  <2>2. \A d \in Tasks : d # c => (Unreported(d)' <=> Unreported(d))
    BY <1>w DEF Tell, TypeOK, Unreported
  <2> QED
    BY <1>w, <2>1, <2>2 DEF Tell, Untold
<1>d. /\ Cardinality(Untold(p)') = Cardinality(Untold(p)) - 1
      /\ Cardinality(Untold(p)') \in Nat
  BY <1>b, <1>c, UntoldFinite, FS_RemoveElement, FS_CardinalityType
<1>e. children[p] - 1 = Cardinality(Untold(p)')
  BY <1>d DEF ChildrenCounted
<1>1. TypeOK'
  BY <1>w, <1>d, <1>e DEF Tell, TypeOK, Running, Releasing
<1>2. LocalsInv'
  BY DEF Tell, TypeOK, LocalsInv, StageInv, Creating, Running, Releasing
<1>3. StageInv'
  BY DEF Tell, TypeOK, LocalsInv, StageInv, Creating, Running, Releasing
<1>4. NotificationsCounted' /\ CountersInv' /\ RegisteredInv'
  BY CountingFrame DEF Tell, TypeOK, LocalsInv, StageInv, Creating, Running, Releasing
<1>5. ChildrenCounted'
  BY <1>w, <1>c, <1>d, <1>e DEF Tell, TypeOK, ChildrenCounted
<1>6. ReleasedOnce'
  BY ReleasingFrame DEF Tell, TypeOK, Releasing
<1> QED
  BY <1>1, <1>2, <1>3, <1>4, <1>5, <1>6

\* A worker starts a scheduled task.
LEMMA StartIInv ==
  ASSUME IInv, NEW t \in Tasks, Start(t)
  PROVE  IInv'
<1> USE DEF IInv
<1>1. TypeOK'
  BY DEF Start, TypeOK, Running, Releasing
<1>2. LocalsInv'
  BY DEF Start, TypeOK, LocalsInv, StageInv, Creating, Running, Releasing
<1>3. StageInv'
  BY DEF Start, TypeOK, LocalsInv, StageInv, Creating, Running, Releasing
<1>4. NotificationsCounted' /\ CountersInv' /\ RegisteredInv'
  BY CountingFrame DEF Start, TypeOK, LocalsInv, StageInv, Creating, Running, Releasing
<1>5. ChildrenCounted'
  BY ChildrenFrame DEF Start, TypeOK, LocalsInv, StageInv, Unreported, Running, Releasing
<1>6. ReleasedOnce'
  BY ReleasingFrame DEF Start, TypeOK, Releasing
<1> QED
  BY <1>1, <1>2, <1>3, <1>4, <1>5, <1>6

\* The body of a task returns.
LEMMA ReturnIInv ==
  ASSUME IInv, NEW t \in Tasks, Return(t)
  PROVE  IInv'
<1> USE DEF IInv
<1>1. TypeOK'
  BY DEF Return, TypeOK, Running, Releasing
<1>2. LocalsInv'
  BY DEF Return, TypeOK, LocalsInv, StageInv, Creating, Running, Releasing
<1>3. StageInv'
  BY DEF Return, TypeOK, LocalsInv, StageInv, Creating, Running, Releasing
<1>4. NotificationsCounted' /\ CountersInv' /\ RegisteredInv'
  BY CountingFrame DEF Return, TypeOK, LocalsInv, StageInv, Creating, Running, Releasing
<1>5. ChildrenCounted'
  BY ChildrenFrame DEF Return, TypeOK, LocalsInv, StageInv, Unreported, Running, Releasing
<1>6. ReleasedOnce'
  BY ReleasingFrame DEF Return, TypeOK, Releasing
<1> QED
  BY <1>1, <1>2, <1>3, <1>4, <1>5, <1>6

\* EXECUTED reaches the memory.
LEMMA DrainIInv ==
  ASSUME IInv, NEW t \in Tasks, Drain(t)
  PROVE  IInv'
<1> USE DEF IInv
<1>1. TypeOK'
  BY DEF Drain, TypeOK, Running, Releasing
<1>2. LocalsInv'
  BY DEF Drain, TypeOK, LocalsInv, StageInv, Creating, Running, Releasing
<1>3. StageInv'
  BY DEF Drain, TypeOK, LocalsInv, StageInv, Creating, Running, Releasing
<1>4. NotificationsCounted' /\ CountersInv' /\ RegisteredInv'
  BY CountingFrame DEF Drain, TypeOK, LocalsInv, StageInv, Creating, Running, Releasing
<1>5. ChildrenCounted'
  BY ChildrenFrame DEF Drain, TypeOK, LocalsInv, StageInv, Unreported, Running, Releasing
<1>6. ReleasedOnce'
  BY ReleasingFrame DEF Drain, TypeOK, Releasing
<1> QED
  BY <1>1, <1>2, <1>3, <1>4, <1>5, <1>6

\* The task decides whether to release itself.
LEMMA CheckChildrenIInv ==
  ASSUME IInv, NEW a \in All, CheckChildren(a)
  PROVE  IInv'
<1> USE DEF IInv
<1>1. TypeOK'
  BY DEF CheckChildren, TypeOK, LocalsInv, StageInv, Running, Releasing
<1>2. LocalsInv'
  BY DEF CheckChildren, TypeOK, LocalsInv, StageInv, Creating, Running, Releasing
<1>3. StageInv'
  BY DEF CheckChildren, TypeOK, LocalsInv, StageInv, Creating, Running, Releasing
<1>4. NotificationsCounted' /\ CountersInv' /\ RegisteredInv'
  BY CountingFrame DEF CheckChildren, TypeOK, LocalsInv, StageInv, Creating, Running, Releasing
<1>5. ChildrenCounted'
  BY ChildrenFrame DEF CheckChildren, TypeOK, LocalsInv, StageInv, Unreported, Running, Releasing
<1>6. ReleasedOnce'
  BY ReleasingFrame DEF CheckChildren, TypeOK, Releasing
<1> QED
  BY <1>1, <1>2, <1>3, <1>4, <1>5, <1>6

\* The CAS makes the activity the only releaser.
LEMMA ClaimIInv ==
  ASSUME IInv, NEW a \in All, Claim(a)
  PROVE  IInv'
<1> USE DEF IInv
<1>1. TypeOK'
  BY DEF Claim, TypeOK, Running, Releasing
<1>2. LocalsInv'
  BY DEF Claim, TypeOK, LocalsInv, StageInv, Creating, Running, Releasing
<1>3. StageInv'
  BY DEF Claim, TypeOK, LocalsInv, StageInv, Creating, Running, Releasing
<1>4. NotificationsCounted' /\ CountersInv' /\ RegisteredInv'
  BY CountingFrame DEF Claim, TypeOK, LocalsInv, StageInv, Creating, Running, Releasing
<1>5. ChildrenCounted'
  BY ChildrenFrame DEF Claim, TypeOK, LocalsInv, StageInv, Unreported, Running, Releasing
<1>6. ReleasedOnce'
  BY DEF Claim, ReleasedOnce, TypeOK, LocalsInv, Releasing
<1> QED
  BY <1>1, <1>2, <1>3, <1>4, <1>5, <1>6

\* The stack is locked.
LEMMA LockIInv ==
  ASSUME IInv, NEW a \in All, Lock(a)
  PROVE  IInv'
<1> USE DEF IInv
<1>1. TypeOK'
  BY DEF Lock, TypeOK, LocalsInv, StageInv, Running, Releasing
<1>2. LocalsInv'
  BY DEF Lock, TypeOK, LocalsInv, StageInv, Creating, Running, Releasing
<1>3. StageInv'
  BY DEF Lock, TypeOK, LocalsInv, StageInv, Creating, Running, Releasing
<1>4. NotificationsCounted' /\ CountersInv' /\ RegisteredInv'
  BY CountingFrame DEF Lock, TypeOK, LocalsInv, StageInv, Creating, Running, Releasing
<1>5. ChildrenCounted'
  BY ChildrenFrame DEF Lock, TypeOK, LocalsInv, StageInv, Unreported, Running, Releasing
<1>6. ReleasedOnce'
  BY ReleasingFrame DEF Lock, TypeOK, Releasing
<1> QED
  BY <1>1, <1>2, <1>3, <1>4, <1>5, <1>6

\* The activity turns to the parent, or not.
LEMMA LookIInv ==
  ASSUME IInv, NEW a \in All, Look(a)
  PROVE  IInv'
<1> USE DEF IInv
<1>1. TypeOK'
  BY DEF Look, TypeOK, LocalsInv, StageInv, Running, Releasing
<1>2. LocalsInv'
  BY DEF Look, TypeOK, LocalsInv, StageInv, Creating, Running, Releasing
<1>3. StageInv'
  BY DEF Look, TypeOK, LocalsInv, StageInv, Creating, Running, Releasing
<1>4. NotificationsCounted' /\ CountersInv' /\ RegisteredInv'
  BY CountingFrame DEF Look, TypeOK, LocalsInv, StageInv, Creating, Running, Releasing
<1>5. ChildrenCounted'
  BY ChildrenFrame DEF Look, TypeOK, LocalsInv, StageInv, Unreported, Running, Releasing
<1>6. ReleasedOnce'
  BY ReleasingFrame DEF Look, TypeOK, Releasing
<1> QED
  BY <1>1, <1>2, <1>3, <1>4, <1>5, <1>6

\* The main program leaves tpc_sync.
LEMMA ShutdownIInv ==
  ASSUME IInv, Shutdown
  PROVE  IInv'
<1> USE DEF IInv
<1>1. TypeOK'
  BY DEF Shutdown, TypeOK, Running, Releasing
<1>2. LocalsInv'
  BY DEF Shutdown, TypeOK, LocalsInv, StageInv, Creating, Running, Releasing
<1>3. StageInv'
  BY DEF Shutdown, TypeOK, LocalsInv, StageInv, Creating, Running, Releasing
<1>4. NotificationsCounted' /\ CountersInv' /\ RegisteredInv'
  BY CountingFrame DEF Shutdown, TypeOK, LocalsInv, StageInv, Creating, Running, Releasing
<1>5. ChildrenCounted'
  BY ChildrenFrame DEF Shutdown, TypeOK, LocalsInv, StageInv, Unreported, Running, Releasing
<1>6. ReleasedOnce'
  BY ReleasingFrame DEF Shutdown, TypeOK, Releasing
<1> QED
  BY <1>1, <1>2, <1>3, <1>4, <1>5, <1>6

\* The runtime is torn down.
LEMMA TeardownIInv ==
  ASSUME IInv, Teardown
  PROVE  IInv'
<1> USE DEF IInv
<1>1. TypeOK'
  BY DEF Teardown, TypeOK, Running, Releasing
<1>2. LocalsInv'
  BY DEF Teardown, TypeOK, LocalsInv, StageInv, Creating, Running, Releasing
<1>3. StageInv'
  BY DEF Teardown, TypeOK, LocalsInv, StageInv, Creating, Running, Releasing
<1>4. NotificationsCounted' /\ CountersInv' /\ RegisteredInv'
  BY CountingFrame DEF Teardown, TypeOK, LocalsInv, StageInv, Creating, Running, Releasing
<1>5. ChildrenCounted'
  BY ChildrenFrame DEF Teardown, TypeOK, LocalsInv, StageInv, Unreported, Running, Releasing
<1>6. ReleasedOnce'
  BY ReleasingFrame DEF Teardown, TypeOK, Releasing
<1> QED
  BY <1>1, <1>2, <1>3, <1>4, <1>5, <1>6

-----------------------------------------------------------------------------
(* The invariant holds, and what follows from it *)

LEMMA StutterIInv ==
  ASSUME IInv, UNCHANGED vars
  PROVE  IInv'
<1> USE DEF IInv
<1>1. TypeOK'
  BY DEF vars, TypeOK
<1>2. LocalsInv'
  BY DEF vars, LocalsInv
<1>3. StageInv'
  BY DEF vars, StageInv
<1>4. NotificationsCounted' /\ CountersInv' /\ RegisteredInv'
  BY CountingFrame DEF vars
<1>5. ChildrenCounted'
  BY DEF vars, ChildrenCounted, Untold, Unreported
<1>6. ReleasedOnce'
  BY DEF vars, ReleasedOnce
<1> QED
  BY <1>1, <1>2, <1>3, <1>4, <1>5, <1>6

LEMMA StepIInv == IInv /\ [Next]_vars => IInv'
<1> SUFFICES ASSUME IInv, [Next]_vars PROVE IInv'
  OBVIOUS
<1>1. CASE UNCHANGED vars
  BY <1>1, StutterIInv
<1>2. CASE Shutdown \/ Teardown
  BY <1>2, ShutdownIInv, TeardownIInv
<1>3. ASSUME NEW a \in All, Advance(a)
      PROVE  IInv'
  BY <1>3, PublishReadyIInv, ScheduleReadyIInv, StoreWaitforIInv, PublishIInv,
     CheckChildrenIInv, ClaimIInv, LockIInv, FireIInv, AwaitIInv,
     CompleteIInv, TellIInv, LookIInv DEF Advance
<1>4. ASSUME NEW a \in All, NEW t \in Tasks, Call(a, t) \/ Register(a, t)
      PROVE  IInv'
  BY <1>4, CallIInv, RegisterIInv
<1>5. ASSUME NEW t \in Tasks, Start(t) \/ Return(t) \/ Drain(t)
      PROVE  IInv'
  BY <1>5, StartIInv, ReturnIInv, DrainIInv
<1> QED
  BY <1>1, <1>2, <1>3, <1>4, <1>5 DEF Next, Terminated

LEMMA InvariantHolds == Spec => []IInv
BY InitIInv, StepIInv, PTL DEF Spec

\* Every field of a descriptor and every local of an activity keeps its type;
\* in particular the counters never go below zero (runtime.c:271, deps.c:678).
THEOREM TypeCorrect == Spec => []TypeOK
<1>1. IInv => TypeOK
  BY DEF IInv
<1> QED
  BY <1>1, InvariantHolds, PTL

\* waitfor and fired account for every registration of a task, while it is
\* created and after it was published (deps.c:473, 641 and 678).
THEOREM NotificationsAreCounted == Spec => []NotificationsCounted
<1>1. IInv => NotificationsCounted
  BY DEF IInv
<1> QED
  BY <1>1, InvariantHolds, PTL

\* number_of_children counts the children that did not report, so a zero
\* lets tpc_sync return (runtime.c:297) and the ancestor be released.
THEOREM ChildrenAreCounted == Spec => []ChildrenCounted
<1>1. IInv => ChildrenCounted
  BY DEF IInv
<1> QED
  BY <1>1, InvariantHolds, PTL

\* Two activities never release one task at a time (runtime.c:253-259).
THEOREM OneReleaser == Spec => []ReleasedOnce
<1>1. IInv => ReleasedOnce
  BY DEF IInv
<1> QED
  BY <1>1, InvariantHolds, PTL

\* Nothing a scheduled task registered for is outstanding.
LEMMA ScheduledIsFree == IInv => DependenciesRespected
<1> SUFFICES ASSUME IInv, NEW t \in Tasks, status[t] >= SCHEDULED,
                    NEW o \in dependsOn[t]
             PROVE  status[o] >= RELEASING
  BY DEF DependenciesRespected
<1>1. Outstanding(t) = {}
  BY DEF IInv, CountersInv
<1>2. status[o] >= RELEASING \/ \E r \in notify : r[1] = o /\ r[2] = t
  BY DEF IInv, RegisteredInv
<1> QED
  BY <1>1, <1>2 DEF Outstanding

\* A scheduled task waits for nobody: each task it registered with began its
\* release before (deps.c:685-700).
THEOREM DependenciesAreRespected == Spec => []DependenciesRespected
BY ScheduledIsFree, InvariantHolds, PTL

\* The assertions the build compiles out would never have failed
\* (runtime.c:387, 538 and 273, deps.c:662 and 692-694).
THEOREM AssertionsAlwaysHold == Spec => []AssertionsHold
<1>1. IInv => AssertionsHold
  <2> SUFFICES ASSUME IInv, NEW a \in All
               PROVE
                 /\ pc[a] = "run" => status[a] = SCHEDULED
                 /\ pc[a] = "schedule" => waitfor[cur[a]] = fired[cur[a]]
                 /\ pc[a] \in {"lock", "fire", "await"} => status[rel[a]] = RELEASING
                 /\ pc[a] = "await" /\ status[cur[a]] >= CREATED =>
                      /\ waitfor[cur[a]] >= num[a] /\ num[a] > 0
                      /\ waitfor[cur[a]] = num[a] /\ status[cur[a]] = CREATED =>
                           waitfor[cur[a]] = fired[cur[a]]
                 /\ pc[a] = "tell" => children[parent[rel[a]]] > 0
    BY DEF AssertionsHold
  <2>1. pc[a] = "run" => status[a] = SCHEDULED
    BY DEF IInv, StageInv, Running
  <2>2. ASSUME pc[a] = "schedule"
        PROVE  waitfor[cur[a]] = fired[cur[a]]
    <3>1. /\ cur[a] \in Tasks /\ status[cur[a]] = CREATED /\ waitfor[cur[a]] = 0
      BY <2>2 DEF IInv, LocalsInv, CountersInv, Creating
    <3>2. waitfor[cur[a]] = fired[cur[a]] + Cardinality(Outstanding(cur[a]))
      BY <3>1 DEF IInv, NotificationsCounted
    <3> QED
      BY <3>1, <3>2, OutstandingFinite DEF IInv, TypeOK
  <2>3. pc[a] \in {"lock", "fire", "await"} => status[rel[a]] = RELEASING
    BY DEF IInv, LocalsInv
  <2>4. ASSUME pc[a] = "await", status[cur[a]] >= CREATED
        PROVE  /\ waitfor[cur[a]] >= num[a] /\ num[a] > 0
               /\ waitfor[cur[a]] = num[a] => waitfor[cur[a]] = fired[cur[a]]
    <3>1. cur[a] \in Tasks /\ 0 < num[a] /\ num[a] <= fired[cur[a]]
      BY <2>4 DEF IInv, LocalsInv
    <3>2. waitfor[cur[a]] = fired[cur[a]] + Cardinality(Outstanding(cur[a]))
      BY <2>4, <3>1 DEF IInv, NotificationsCounted
    <3> QED
      BY <3>1, <3>2, OutstandingFinite DEF IInv, TypeOK
  <2>5. ASSUME pc[a] = "tell"
        PROVE  children[parent[rel[a]]] > 0
    <3>1. rel[a] \in Tasks /\ parent[rel[a]] \in All
      BY <2>5 DEF IInv, LocalsInv, Releasing
    <3>2. rel[a] \in Untold(parent[rel[a]])
      BY <2>5, <3>1 DEF Untold, Unreported
    <3>3. Cardinality(Untold(parent[rel[a]])) # 0
      BY <3>2, UntoldFinite, FS_EmptySet
    <3> QED
      BY <3>1, <3>3 DEF IInv, TypeOK, ChildrenCounted
  <2> QED
    BY <2>1, <2>2, <2>3, <2>4, <2>5
<1> QED
  BY <1>1, InvariantHolds, PTL

\* A status only moves to the next one, whichever thread stores it
\* (runtime.c:256, 397, 542-543, deps.c:634, 644 and 703).
THEOREM StatusOnlyAdvances == Spec => StatusSteps
<1>1. ASSUME IInv, [Next]_vars, NEW t \in All
      PROVE  status'[t] \in {status[t], status[t] + 1}
  <2> DEFINE Step == status'[t] \in {status[t], status[t] + 1}
  <2>1. CASE UNCHANGED status
    BY <2>1
  <2>2. ASSUME NEW a \in All,
               PublishReady(a) \/ Publish(a) \/ ScheduleReady(a)
        PROVE  Step
    BY <1>1, <2>2 DEF IInv, TypeOK, LocalsInv, Creating, PublishReady, Publish,
                      ScheduleReady
  <2>3. ASSUME NEW a \in All, Claim(a) \/ Await(a) \/ Complete(a)
        PROVE  Step
    BY <1>1, <2>3 DEF IInv, TypeOK, LocalsInv, Releasing, Claim, Await, Complete
  <2>4. ASSUME NEW w \in Tasks, Return(w) \/ Drain(w)
        PROVE  Step
    BY <1>1, <2>4 DEF IInv, TypeOK, StageInv, Running, Return, Drain
  <2>5. ASSUME NEW a \in All, NEW w \in Tasks, Call(a, w)
        PROVE  Step
    BY <1>1, <2>5 DEF IInv, TypeOK, StageInv, Call
  <2> HIDE DEF Step
  <2>6. ASSUME status' # status
        PROVE  Step
    <3>1. Next /\ ~(Shutdown \/ Teardown \/ Terminated)
      BY <1>1, <2>6 DEF vars, Shutdown, Teardown, Terminated
    <3>2. ASSUME NEW a \in All, Advance(a)
          PROVE  Step
      BY <2>2, <2>3, <2>6, <3>2
      DEF Advance, StoreWaitfor, CheckChildren, Lock, Fire, Tell, Look
    <3>3. ASSUME NEW a \in All, NEW w \in Tasks, Call(a, w) \/ Register(a, w)
          PROVE  Step
      BY <2>5, <2>6, <3>3 DEF Register
    <3>4. ASSUME NEW w \in Tasks, Start(w) \/ Return(w) \/ Drain(w)
          PROVE  Step
      BY <2>4, <2>6, <3>4 DEF Start
    <3> QED
      BY <3>1, <3>2, <3>3, <3>4 DEF Next
  <2> QED
    BY <2>1, <2>6 DEF Step
<1>2. IInv /\ [Next]_vars => [\A t \in All : status'[t] \in {status[t], status[t] + 1}]_vars
  BY <1>1
<1> QED
  BY <1>2, InvariantHolds, PTL DEF Spec, StatusSteps
=============================================================================
