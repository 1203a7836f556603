------------------------------ MODULE TaskLife ------------------------------
(***************************************************************************)
(* The life of task descriptors: tpc_task_descriptor_alloc, tpc_call,      *)
(* tpc_sync, execute_task, release_task and tpc_shutdown of                *)
(* src/src/runtime.c with create_dependencies and fire_dependencies of     *)
(* src/src/deps.c, one access to memory that other threads share per step. *)
(*                                                                         *)
(* Each task has an activity: it runs the body of the task, creates its    *)
(* children, and when the body returned releases the task and perhaps its  *)
(* ancestors.  Which worker runs an activity, and below which other one on *)
(* its stack, is left open: a scheduled task may start at any time.  Which *)
(* siblings a task waits for is decided by the dependence analysis; here   *)
(* it may be any of them.                                                  *)
(***************************************************************************)
EXTENDS Naturals, FiniteSets

CONSTANTS Tasks,             \* the task descriptors a run allocates
          Main,              \* main_task_desc
          None,              \* NULL
          MaxDeps,           \* bound: registrations per task
          StoreBuffers,      \* TRUE: a plain store may be seen by others late
          SyncBeforeReturn   \* TRUE: programs call tpc_sync before they return

ASSUME LifeAssumption ==
  /\ Main \notin Tasks
  /\ None \notin Tasks \cup {Main}
  /\ IsFiniteSet(Tasks)
  /\ MaxDeps \in Nat
  /\ StoreBuffers \in BOOLEAN
  /\ SyncBeforeReturn \in BOOLEAN

\* Task status, partee.h:32-37
CREATING  == 0
CREATED   == 1
SCHEDULED == 2
EXECUTED  == 3
RELEASING == 4
COMPLETE  == 5

All == Tasks \cup {Main}

VARIABLES
  status,      \* task->status, as other threads see it
  children,    \* task->number_of_children
  waitfor,     \* task->waitfor
  fired,       \* task->fired
  parent,      \* task->parent, None before the descriptor is allocated
  notify,      \* the to_notify stacks: <<o, w, k>>, w is on the stack of o
               \* for its k-th registration
  locked,      \* the tasks whose to_notify stack is locked
  buffered,    \* the tasks whose EXECUTED is still in a store buffer
  pc,          \* where the activity of each task is
  cur,         \* its local: the child it creates, or the task it notifies
  rel,         \* its local: the task it releases
  num,         \* its local: waitfor, fired or children, as the pc says
  dependsOn    \* history: the tasks each task registered with

vars == <<status, children, waitfor, fired, parent, notify, locked, buffered,
          pc, cur, rel, num, dependsOn>>

Init ==
  /\ status = [t \in All |-> IF t = Main THEN SCHEDULED ELSE CREATING]
  /\ children = [t \in All |-> 0]
  /\ waitfor = [t \in Tasks |-> 0]
  /\ fired = [t \in Tasks |-> 0]
  /\ parent = [t \in Tasks |-> None]
  /\ notify = {}
  /\ locked = {}
  /\ buffered = {}
  /\ pc = [t \in All |-> IF t = Main THEN "run" ELSE "idle"]
  /\ cur = [t \in All |-> None]
  /\ rel = [t \in All |-> None]
  /\ num = [t \in All |-> 0]
  /\ dependsOn = [t \in Tasks |-> {}]

Goto(a, label) == pc' = [pc EXCEPT ![a] = label]

-----------------------------------------------------------------------------
(* Creation: tpc_task_descriptor_alloc, tpc_call, create_dependencies *)

\* Variant: does not count the child.
CallUncounted(a, t) ==
  /\ pc[a] = "run"
  /\ parent[t] = None
  /\ t # a
  /\ parent' = [parent EXCEPT ![t] = a]
  /\ status' = [status EXCEPT ![t] = CREATING]
  /\ cur' = [cur EXCEPT ![a] = t]
  /\ num' = [num EXCEPT ![a] = 0]
  /\ Goto(a, "deps")
  /\ UNCHANGED <<children, waitfor, fired, notify, locked, buffered, rel, dependsOn>>

\* The descriptor is private until tpc_call, whose increment of the parent's
\* counter is its first visible step.
Call(a, t) ==
  /\ pc[a] = "run"
  /\ parent[t] = None
  /\ t # a
  /\ parent' = [parent EXCEPT ![t] = a]
  /\ children' = [children EXCEPT ![a] = @ + 1]
  /\ status' = [status EXCEPT ![t] = CREATING]
  /\ cur' = [cur EXCEPT ![a] = t]
  /\ num' = [num EXCEPT ![a] = 0]
  /\ Goto(a, "deps")
  /\ UNCHANGED <<waitfor, fired, notify, locked, buffered, rel, dependsOn>>

\* Variant: ignores that stack_push was refused.
RegisterUnchecked(a, o) ==
  /\ pc[a] = "deps"
  /\ num[a] < MaxDeps
  /\ parent[o] = a /\ o # cur[a]
  /\ notify' = IF o \in locked THEN notify
                ELSE notify \cup {<<o, cur[a], num[a]>>}
  /\ num' = [num EXCEPT ![a] = @ + 1]
  /\ dependsOn' = [dependsOn EXCEPT ![cur[a]] = @ \cup {o}]
  /\ UNCHANGED <<status, children, waitfor, fired, parent, locked, buffered,
                 pc, cur, rel>>

\* stack_push on a sibling whose stack is not locked; on a locked stack it
\* fails and the analysis goes on without a dependency.
Register(a, o) ==
  /\ pc[a] = "deps"
  /\ num[a] < MaxDeps
  /\ parent[o] = a /\ o # cur[a]
  /\ o \notin locked
  /\ notify' = notify \cup {<<o, cur[a], num[a]>>}
  /\ num' = [num EXCEPT ![a] = @ + 1]
  /\ dependsOn' = [dependsOn EXCEPT ![cur[a]] = @ \cup {o}]
  /\ UNCHANGED <<status, children, waitfor, fired, parent, locked, buffered,
                 pc, cur, rel>>

\* No dependencies: CREATED_TASK at once, then schedule_task.
PublishReady(a) ==
  /\ pc[a] = "deps"
  /\ num[a] = 0
  /\ status' = [status EXCEPT ![cur[a]] = CREATED]
  /\ Goto(a, "schedule")
  /\ UNCHANGED <<children, waitfor, fired, parent, notify, locked, buffered,
                 cur, rel, num, dependsOn>>

ScheduleReady(a) ==
  /\ pc[a] = "schedule"
  /\ status' = [status EXCEPT ![cur[a]] = IF @ = CREATED THEN SCHEDULED ELSE @]
  /\ cur' = [cur EXCEPT ![a] = None]
  /\ Goto(a, "run")
  /\ UNCHANGED <<children, waitfor, fired, parent, notify, locked, buffered,
                 rel, num, dependsOn>>

\* Variant: counts one registration too few.
StoreWaitforShort(a) ==
  /\ pc[a] = "deps"
  /\ num[a] > 0
  /\ waitfor' = [waitfor EXCEPT ![cur[a]] = num[a] - 1]
  /\ Goto(a, "publish")
  /\ UNCHANGED <<status, children, fired, parent, notify, locked, buffered,
                 cur, rel, num, dependsOn>>

StoreWaitfor(a) ==
  /\ pc[a] = "deps"
  /\ num[a] > 0
  /\ waitfor' = [waitfor EXCEPT ![cur[a]] = num[a]]
  /\ Goto(a, "publish")
  /\ UNCHANGED <<status, children, fired, parent, notify, locked, buffered,
                 cur, rel, num, dependsOn>>

Publish(a) ==
  /\ pc[a] = "publish"
  /\ status' = [status EXCEPT ![cur[a]] = CREATED]
  /\ cur' = [cur EXCEPT ![a] = None]
  /\ Goto(a, "run")
  /\ UNCHANGED <<children, waitfor, fired, parent, notify, locked, buffered,
                 rel, num, dependsOn>>

-----------------------------------------------------------------------------
(* Execution: execute_task, with tpc_sync at the end of the body *)

Start(t) ==
  /\ pc[t] = "idle"
  /\ status[t] = SCHEDULED
  /\ Goto(t, "run")
  /\ UNCHANGED <<status, children, waitfor, fired, parent, notify, locked,
                 buffered, cur, rel, num, dependsOn>>

\* Variant: tpc_sync returns while children run.
ReturnUnsynced(t) ==
  /\ pc[t] = "run"
  /\ IF StoreBuffers
     THEN /\ buffered' = buffered \cup {t}
          /\ UNCHANGED status
     ELSE /\ status' = [status EXCEPT ![t] = EXECUTED]
          /\ UNCHANGED buffered
  /\ Goto(t, "check")
  /\ UNCHANGED <<children, waitfor, fired, parent, notify, locked, cur, rel,
                 num, dependsOn>>

\* The body returns and the status becomes EXECUTED_TASK.  tpc_sync left its
\* loop on reading number_of_children = 0, which only the caller can raise:
\* waiting there is a guard on what the caller does next.
Return(t) ==
  /\ pc[t] = "run"
  /\ SyncBeforeReturn => children[t] = 0
  /\ IF StoreBuffers
     THEN /\ buffered' = buffered \cup {t}
          /\ UNCHANGED status
     ELSE /\ status' = [status EXCEPT ![t] = EXECUTED]
          /\ UNCHANGED buffered
  /\ Goto(t, "check")
  /\ UNCHANGED <<children, waitfor, fired, parent, notify, locked, cur, rel,
                 num, dependsOn>>

\* The processor writes the buffered store to memory.
Drain(t) ==
  /\ t \in buffered
  /\ status' = [status EXCEPT ![t] = EXECUTED]
  /\ buffered' = buffered \ {t}
  /\ UNCHANGED <<children, waitfor, fired, parent, notify, locked, pc, cur,
                 rel, num, dependsOn>>

\* The load of number_of_children after the store of the status.
CheckChildren(t) ==
  /\ pc[t] = "check"
  /\ IF children[t] > 0
     THEN Goto(t, "done") /\ UNCHANGED rel
     ELSE Goto(t, "claim") /\ rel' = [rel EXCEPT ![t] = t]
  /\ UNCHANGED <<status, children, waitfor, fired, parent, notify, locked,
                 buffered, cur, num, dependsOn>>

-----------------------------------------------------------------------------
(* Release: release_task and fire_dependencies *)

\* Variant: claims without comparing the status.
ClaimUnchecked(a) ==
  /\ pc[a] = "claim"
  /\ a \notin buffered
  /\ status' = [status EXCEPT ![rel[a]] = RELEASING]
  /\ Goto(a, "lock")
  /\ UNCHANGED <<children, waitfor, fired, parent, notify, locked, buffered,
                 cur, rel, num, dependsOn>>

\* The CAS EXECUTED -> RELEASING; a locked instruction first drains the store
\* buffer of its core.
Claim(a) ==
  /\ pc[a] = "claim"
  /\ a \notin buffered
  /\ IF status[rel[a]] = EXECUTED
     THEN /\ status' = [status EXCEPT ![rel[a]] = RELEASING]
          /\ Goto(a, "lock")
     ELSE Goto(a, "done") /\ UNCHANGED status
  /\ UNCHANGED <<children, waitfor, fired, parent, notify, locked, buffered,
                 cur, rel, num, dependsOn>>

\* stack_lock
Lock(a) ==
  /\ pc[a] = "lock"
  /\ locked' = locked \cup {rel[a]}
  /\ Goto(a, "fire")
  /\ UNCHANGED <<status, children, waitfor, fired, parent, notify, buffered,
                 cur, rel, num, dependsOn>>

\* stack_pop, then the increment of the waiter's fired counter.
Fire(a) ==
  /\ pc[a] = "fire"
  /\ \E r \in notify :
       /\ r[1] = rel[a]
       /\ notify' = notify \ {r}
       /\ fired' = [fired EXCEPT ![r[2]] = @ + 1]
       /\ cur' = [cur EXCEPT ![a] = r[2]]
       /\ num' = [num EXCEPT ![a] = fired[r[2]] + 1]
  /\ Goto(a, "await")
  /\ UNCHANGED <<status, children, waitfor, parent, locked, buffered, rel,
                 dependsOn>>

\* Variant: any notifier schedules the task.
AwaitUncounted(a) ==
  /\ pc[a] = "await"
  /\ status[cur[a]] >= CREATED
  /\ status' = [status EXCEPT ![cur[a]] =
                  IF @ = CREATED THEN SCHEDULED ELSE @]
  /\ cur' = [cur EXCEPT ![a] = None]
  /\ Goto(a, "fire")
  /\ UNCHANGED <<children, waitfor, fired, parent, notify, locked, buffered,
                 rel, num, dependsOn>>

\* Variant: does not wait for a task under creation.
AwaitImpatient(a) ==
  /\ pc[a] = "await"
  /\ status' = [status EXCEPT ![cur[a]] =
                  IF @ = CREATED /\ waitfor[cur[a]] = num[a] THEN SCHEDULED ELSE @]
  /\ cur' = [cur EXCEPT ![a] = None]
  /\ Goto(a, "fire")
  /\ UNCHANGED <<children, waitfor, fired, parent, notify, locked, buffered,
                 rel, num, dependsOn>>

\* Spin until the waiter is CREATED; the last of its notifiers schedules it.
\* Once CREATED is seen only the CAS below changes the status, so the loads
\* that precede it are part of this step.
Await(a) ==
  /\ pc[a] = "await"
  /\ status[cur[a]] >= CREATED
  /\ status' = [status EXCEPT ![cur[a]] =
                  IF @ = CREATED /\ waitfor[cur[a]] = num[a] THEN SCHEDULED ELSE @]
  /\ cur' = [cur EXCEPT ![a] = None]
  /\ Goto(a, "fire")
  /\ UNCHANGED <<children, waitfor, fired, parent, notify, locked, buffered,
                 rel, num, dependsOn>>

\* COMPLETE_TASK and deleteregion(task_region): the descriptors of the task's
\* children are gone.
Complete(a) ==
  /\ pc[a] = "fire"
  /\ \A r \in notify : r[1] # rel[a]
  /\ status' = [status EXCEPT ![rel[a]] = COMPLETE]
  /\ Goto(a, "tell")
  /\ UNCHANGED <<children, waitfor, fired, parent, notify, locked, buffered,
                 cur, rel, num, dependsOn>>

\* __sync_sub_and_fetch on the parent's counter.
Tell(a) ==
  /\ pc[a] = "tell"
  /\ LET p == parent[rel[a]] IN
       /\ children' = [children EXCEPT ![p] = @ - 1]
       /\ num' = [num EXCEPT ![a] = children[p] - 1]
  /\ Goto(a, "look")
  /\ UNCHANGED <<status, waitfor, fired, parent, notify, locked, buffered,
                 cur, rel, dependsOn>>

\* Variant: leaves the parent to itself.
LookAway(a) ==
  /\ pc[a] = "look"
  /\ Goto(a, "done")
  /\ UNCHANGED <<rel, status, children, waitfor, fired, parent, notify, locked,
                 buffered, cur, num, dependsOn>>

\* The load of the parent's status, if the counter read zero; an EXECUTED
\* parent is released by the same activity.
Look(a) ==
  /\ pc[a] = "look"
  /\ IF num[a] = 0 /\ status[parent[rel[a]]] = EXECUTED
     THEN Goto(a, "claim") /\ rel' = [rel EXCEPT ![a] = parent[rel[a]]]
     ELSE Goto(a, "done") /\ UNCHANGED rel
  /\ UNCHANGED <<status, children, waitfor, fired, parent, notify, locked,
                 buffered, cur, num, dependsOn>>

-----------------------------------------------------------------------------
(* tpc_shutdown *)

\* tpc_sync of the main program returns; active_threads = 0.
Shutdown ==
  /\ pc[Main] = "run"
  /\ children[Main] = 0
  /\ Goto(Main, "barrier")
  /\ UNCHANGED <<status, children, waitfor, fired, parent, notify, locked,
                 buffered, cur, rel, num, dependsOn>>

\* Every worker has left its loop: the barrier opens and the memory goes.
Teardown ==
  /\ pc[Main] = "barrier"
  /\ \A t \in Tasks : pc[t] \in {"idle", "done"}
  /\ Goto(Main, "end")
  /\ UNCHANGED <<status, children, waitfor, fired, parent, notify, locked,
                 buffered, cur, rel, num, dependsOn>>

Terminated == pc[Main] = "end" /\ UNCHANGED vars

-----------------------------------------------------------------------------
\* What an activity does without a choice of the program.
Advance(a) ==
  \/ PublishReady(a) \/ ScheduleReady(a) \/ StoreWaitfor(a) \/ Publish(a)
  \/ CheckChildren(a) \/ Claim(a) \/ Lock(a) \/ Fire(a) \/ Await(a)
  \/ Complete(a) \/ Tell(a) \/ Look(a)

Next ==
  \/ Shutdown \/ Teardown \/ Terminated
  \/ \E a \in All :
       \/ Advance(a)
       \/ \E t \in Tasks : Call(a, t) \/ Register(a, t)
  \/ \E t \in Tasks : Start(t) \/ Return(t) \/ Drain(t)

\* The workers poll for scheduled tasks, store buffers drain, bodies of tasks
\* return, and the main program reaches tpc_shutdown.  Nothing is assumed of
\* what tasks the program creates.
Fairness ==
  /\ WF_vars(Shutdown) /\ WF_vars(Teardown)
  /\ \A a \in All : WF_vars(Advance(a))
  /\ \A t \in Tasks : WF_vars(Start(t)) /\ WF_vars(Return(t)) /\ WF_vars(Drain(t))

Spec == Init /\ [][Next]_vars /\ Fairness

-----------------------------------------------------------------------------
(* Properties *)

Running   == {"run", "deps", "schedule", "publish"}
Releasing == {"lock", "fire", "await", "tell", "look"}

TypeOK ==
  /\ status \in [All -> CREATING..COMPLETE]
  /\ children \in [All -> Nat]
  /\ waitfor \in [Tasks -> Nat]
  /\ fired \in [Tasks -> Nat]
  /\ parent \in [Tasks -> All \cup {None}]
  /\ notify \subseteq Tasks \X Tasks \X (0..MaxDeps)
  /\ locked \subseteq Tasks
  /\ buffered \subseteq Tasks
  /\ pc \in [All -> Running \cup Releasing \cup
                     {"idle", "check", "claim", "done", "barrier", "end"}]
  /\ cur \in [All -> Tasks \cup {None}]
  /\ rel \in [All -> Tasks \cup {None}]
  /\ num \in [All -> Nat]
  /\ dependsOn \in [Tasks -> SUBSET Tasks]

\* A task is scheduled only after every task it registered with began its
\* release: however registrations, releases and the publication of waitfor
\* interleave, the last notifier is the one that schedules (deps.c:685-700).
DependenciesRespected ==
  \A t \in Tasks : status[t] >= SCHEDULED =>
    \A o \in dependsOn[t] : status[o] >= RELEASING

\* The registrations of w that still sit on some stack.
Outstanding(w) == {r \in notify : r[2] = w}

\* The two counters agree with the stacks: a published task waits for exactly
\* the registrations that are still to be popped, so none is lost and none
\* counted twice (deps.c:473, deps.c:641, deps.c:678).
NotificationsCounted ==
  /\ \A w \in Tasks : status[w] >= CREATED =>
       waitfor[w] = fired[w] + Cardinality(Outstanding(w))
  /\ \A a \in All : pc[a] = "deps" =>
       num[a] = fired[cur[a]] + Cardinality(Outstanding(cur[a]))

\* The children of p that did not yet decrement its counter.
Unreported(c) ==
  status[c] < COMPLETE \/ \E a \in All : pc[a] = "tell" /\ rel[a] = c
Untold(p) == {c \in Tasks : parent[c] = p /\ Unreported(c)}

\* number_of_children is the number of children that did not report their
\* release: tpc_sync returns, and an ancestor is released, on its zero.
ChildrenCounted == \A p \in All : children[p] = Cardinality(Untold(p))

\* Only one activity releases a task ("Race with the task itself, releasing
\* itself", runtime.c:253): its stack is locked once, its memory freed once
\* and its parent told once.
ReleasedOnce ==
  \A a, b \in All :
    pc[a] \in Releasing /\ pc[b] \in Releasing /\ rel[a] = rel[b] => a = b

\* The assertions of the code on these steps, compiled out by NDEBUG:
\* runtime.c:387, 538 and 273, deps.c:662 and 692-694.
AssertionsHold ==
  \A a \in All :
    /\ pc[a] = "run" => status[a] = SCHEDULED
    /\ pc[a] = "schedule" => waitfor[cur[a]] = fired[cur[a]]
    /\ pc[a] \in {"lock", "fire", "await"} => status[rel[a]] = RELEASING
    /\ pc[a] = "await" /\ status[cur[a]] >= CREATED =>
         /\ waitfor[cur[a]] >= num[a] /\ num[a] > 0
         /\ waitfor[cur[a]] = num[a] /\ status[cur[a]] = CREATED =>
              waitfor[cur[a]] = fired[cur[a]]
    /\ pc[a] = "tell" => children[parent[rel[a]]] > 0

\* A status only moves to the next one: no late store sets back a task that
\* another thread already scheduled or released.
StatusSteps == [][\A t \in All : status'[t] \in {status[t], status[t] + 1}]_vars

\* The memory of t's descriptor was given back: it lies in the region of its
\* parent (runtime.c:120, deps.c:705, runtime.c:860).
Gone(t) == /\ t # Main /\ parent[t] # None
           /\ IF parent[t] = Main THEN pc[Main] = "end"
                                  ELSE status[parent[t]] = COMPLETE

\* The descriptors that the next step of an activity, or of the store buffer of
\* its core, may read or write.
Touched(a) ==
  {t \in All :
     \/ t = a /\ pc[a] \in Running \cup {"check"}
     \/ t = a /\ pc[a] = "idle" /\ status[a] = SCHEDULED
     \/ t = a /\ a \in buffered
     \/ t = cur[a] /\ pc[a] \in {"deps", "schedule", "publish", "await"}
     \/ t \in Tasks /\ parent[t] = a /\ pc[a] = "deps"
     \/ t = rel[a] /\ pc[a] \in {"claim", "lock", "fire", "await", "tell"}
     \/ pc[a] = "fire" /\ \E r \in notify : r[1] = rel[a] /\ r[2] = t
     \/ pc[a] = "tell" /\ t = parent[rel[a]]
     \/ pc[a] = "look" /\ num[a] = 0 /\ t \in {rel[a], parent[rel[a]]}}

\* "at RELEASING_TASK we are the only core accessing this task descriptor"
\* (deps.c:664-665): no activity uses a descriptor whose memory is gone.
NoUseAfterFree == \A a \in All : \A t \in Touched(a) : ~Gone(t)

\* Of NoUseAfterFree, the part the code achieves: the task a thread starts, the
\* task under creation and the siblings it registers with, the task being
\* released, the waiters it notifies (deps.c:678) and the parent whose counter
\* it decrements (runtime.c:270-272) are in memory, because a child that did
\* not report keeps its parent from being released.  It fails where nothing is
\* held: between the store of EXECUTED and the CAS, when a child may release
\* its parent first, and after Tell.
AliveWhenUsed ==
  \A a \in All : pc[a] \notin {"check", "claim", "look"} =>
    \A t \in Touched(a) : ~Gone(t)

\* "If my parent is executed and it has no children, I have to release it"
\* (runtime.c:274): when a task begins its release, each of its children is
\* COMPLETE and has decremented its counter.  It is true of programs with
\* SyncBeforeReturn; without, the zero that Tell read is stale once the parent
\* created another child and returned.
ReleasedAfterChildren ==
  \A t \in Tasks : status[t] >= RELEASING => Untold(t) = {}

\* "release the task and its ancestors if needed" (runtime.c:243): a task that
\* was executed and whose children all reported is released or about to be
\* looked at by an activity that will release it.  It fails if StoreBuffers
\* may delay the store of EXECUTED past the load of CheckChildren and the
\* program does not sync before it returns.
NoLostRelease ==
  \A t \in Tasks : status[t] = EXECUTED /\ children[t] = 0 =>
    \E a \in All :
      \/ a = t /\ pc[a] = "check"
      \/ pc[a] = "claim" /\ rel[a] = t
      \/ pc[a] = "look" /\ num[a] = 0 /\ parent[rel[a]] = t

\* Every task the program created is executed and released, and the program
\* gets through tpc_shutdown.
Quiesces ==
  <>[](/\ pc[Main] = "end"
       /\ \A t \in Tasks : parent[t] = None \/ status[t] = COMPLETE)

\* The life of descriptors implements the task graph.  A task under creation
\* is not part of it yet.
Phase(t) ==
  IF t = Main THEN IF pc[Main] \in Running THEN "running" ELSE "finished"
  ELSE IF parent[t] = None \/ status[t] = CREATING THEN "absent"
  ELSE IF pc[t] = "idle" THEN "waiting"
  ELSE IF pc[t] \in Running THEN "running"
  ELSE IF status[t] < RELEASING THEN "finished" ELSE "released"

Graph == INSTANCE TaskGraph WITH
           phase <- [t \in All |-> Phase(t)],
           parent <- [t \in Tasks |-> IF Phase(t) = "absent" THEN None ELSE parent[t]],
           dependsOn <- [t \in Tasks |-> IF Phase(t) = "absent" THEN {} ELSE dependsOn[t]]
Refinement == Graph!Spec
=============================================================================
