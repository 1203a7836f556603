----------------------------- MODULE WorkerPool -----------------------------
(***************************************************************************)
(* The threads that run the activities of TaskLife: tpc_init,              *)
(* worker_thread, pop_task, steal_task, tpc_sync, execute_task,            *)
(* schedule_task and tpc_shutdown of src/src/runtime.c.                    *)
(*                                                                         *)
(* A thread has a C stack of nested tasks and only the task on top of it   *)
(* goes on.  A task gets on top of another one when tpc_sync takes it from *)
(* a deque, or when the deque is full and schedule_task runs it at once:   *)
(* below the creator, or in the middle of a release.  What the activities  *)
(* do is TaskLife's; the deques are atomic, as WorkDeque shows they are.   *)
(***************************************************************************)
EXTENDS TaskLife, Sequences

CONSTANTS Workers,     \* the threads, MaxActiveThreads of them
          Master,      \* the one that runs the main program
          DequeSize    \* MAX_QUEUE_ENTRIES

ASSUME PoolAssumption == Master \in Workers /\ DequeSize \in Nat

VARIABLES
  stack,       \* the frames of execute_task on each C stack, innermost first
  deque,       \* the tasks in task_Queues[w], oldest first
  queue,       \* the memory of task_Queues[w]: "none", "live" or "released"
  current,     \* curr_task of each thread
  creator,     \* parent of each thread: the parent of the tasks it creates
  looking,     \* the threads that tested their loop and look for a task
  place,       \* where each thread is between tpc_init and its end
  active       \* active_threads

pool == <<stack, deque, queue, current, creator, looking, place, active>>
poolVars == <<vars, pool>>

\* A call of execute_task: its task, the curr_task it saved, and while its
\* body is in tpc_sync the task whose children that waits for.
Frame(t, saved) == [task |-> t, saved |-> saved, sync |-> None]
Top(w) == Head(stack[w])
Nested(w, t) == stack' = [stack EXCEPT ![w] = <<Frame(t, None)>> \o @]

PoolInit ==
  /\ Init
  /\ stack = [w \in Workers |-> IF w = Master THEN <<Frame(Main, None)>> ELSE <<>>]
  /\ deque = [w \in Workers |-> <<>>]
  /\ queue = [w \in Workers |-> "none"]
  /\ current = [w \in Workers |-> IF w = Master THEN Main ELSE None]
  /\ creator = [w \in Workers |-> Main]
  /\ looking = {}
  /\ place = [w \in Workers |-> "new"]
  /\ active = TRUE

Move(w, to) == place' = [place EXCEPT ![w] = to]

-----------------------------------------------------------------------------
(* Start-up: tpc_init and the prologue of worker_thread *)

\* The thread allocates its own deque and waits at the barrier.
Arrive(w) ==
  /\ place[w] = "new"
  /\ queue' = [queue EXCEPT ![w] = "live"]
  /\ Move(w, "ready")
  /\ UNCHANGED <<vars, stack, deque, current, creator, looking, active>>

\* Variant: a thread does not wait for the deques of the others.
OpenStartEarly ==
  /\ \E w \in Workers : place[w] = "ready"
  /\ place' = [w \in Workers |-> IF place[w] = "ready" THEN "loop" ELSE place[w]]
  /\ UNCHANGED <<vars, stack, deque, queue, current, creator, looking, active>>

\* pthread_barrier_wait, for all threads that tpc_init was asked for.
OpenStart ==
  /\ \A w \in Workers : place[w] = "ready"
  /\ place' = [w \in Workers |-> "loop"]
  /\ UNCHANGED <<vars, stack, deque, queue, current, creator, looking, active>>

-----------------------------------------------------------------------------
(* The task on top of a stack *)

\* The activity that thread w runs: not when its body waits in tpc_sync.
Runs(w, a) ==
  /\ place[w] = "loop"
  /\ stack[w] # <<>>
  /\ a = Top(w).task
  /\ Top(w).sync = None

\* The prologue of execute_task.
Begin(w, t) ==
  /\ Runs(w, t)
  /\ Start(t)
  /\ stack' = [stack EXCEPT ![w] = <<Frame(t, current[w])>> \o Tail(@)]
  /\ current' = [current EXCEPT ![w] = t]
  /\ creator' = [creator EXCEPT ![w] = t]
  /\ UNCHANGED <<deque, queue, looking, place, active>>

\* Variant: the early return forgets the thread's variables.
UnwindForgetful(w, t) ==
  /\ Runs(w, t)
  /\ pc[t] = "done"
  /\ stack' = [stack EXCEPT ![w] = Tail(@)]
  /\ UNCHANGED <<vars, current, creator, deque, queue, looking, place, active>>

\* execute_task returns to the loop, the creation or the release below it.
Unwind(w, t) ==
  /\ Runs(w, t)
  /\ pc[t] = "done"
  /\ stack' = [stack EXCEPT ![w] = Tail(@)]
  /\ current' = [current EXCEPT ![w] = Top(w).saved]
  /\ creator' = [creator EXCEPT ![w] = Top(w).saved]
  /\ UNCHANGED <<vars, deque, queue, looking, place, active>>

\* The body creates a task, whose parent is the thread's variable.
Create(w, t) ==
  /\ \E a \in All : Runs(w, a) /\ pc[a] = "run"
  /\ Call(creator[w], t)
  /\ UNCHANGED pool

\* The analysis registers the new task with a sibling.
Depend(w, o) ==
  /\ \E a \in All : Runs(w, a) /\ Register(a, o)
  /\ UNCHANGED pool

Finish(w) ==
  /\ \E a \in Tasks : Runs(w, a) /\ Return(a)
  /\ UNCHANGED pool

\* The steps of the runtime that do not schedule a task.
Proceed(w) ==
  /\ \E a \in All :
       /\ Runs(w, a)
       /\ \/ PublishReady(a) \/ StoreWaitfor(a) \/ Publish(a)
          \/ CheckChildren(a) \/ Claim(a) \/ Lock(a) \/ Fire(a)
          \/ Complete(a) \/ Tell(a) \/ Look(a)
  /\ UNCHANGED pool

\* The tasks whose status a step moves from CREATED to SCHEDULED.
NewlyScheduled == {t \in Tasks : status[t] = CREATED /\ status'[t] = SCHEDULED}

\* Variant: a task the full deque refuses is dropped.
ScheduleOrDrop(w) ==
  /\ \E a \in All : Runs(w, a) /\ (ScheduleReady(a) \/ Await(a))
  /\ IF NewlyScheduled = {} \/ Len(deque[w]) = DequeSize
     THEN UNCHANGED deque
     ELSE \E t \in NewlyScheduled : deque' = [deque EXCEPT ![w] = Append(@, t)]
  /\ UNCHANGED <<stack, queue, current, creator, looking, place, active>>

\* Variant: one task more than there are slots.
ScheduleOverfull(w) ==
  /\ \E a \in All : Runs(w, a) /\ (ScheduleReady(a) \/ Await(a))
  /\ \/ NewlyScheduled = {} /\ UNCHANGED <<stack, deque>>
     \/ \E t \in NewlyScheduled :
          IF Len(deque[w]) <= DequeSize
          THEN deque' = [deque EXCEPT ![w] = Append(@, t)] /\ UNCHANGED stack
          ELSE Nested(w, t) /\ UNCHANGED deque
  /\ UNCHANGED <<queue, current, creator, looking, place, active>>

\* schedule_task: whoever wins the CAS puts the task on its own deque, or runs
\* it on top of its own stack when that is full.
Schedule(w) ==
  /\ \E a \in All : Runs(w, a) /\ (ScheduleReady(a) \/ Await(a))
  /\ \/ NewlyScheduled = {} /\ UNCHANGED <<stack, deque>>
     \/ \E t \in NewlyScheduled :
          IF Len(deque[w]) < DequeSize
          THEN deque' = [deque EXCEPT ![w] = Append(@, t)] /\ UNCHANGED stack
          ELSE Nested(w, t) /\ UNCHANGED deque
  /\ UNCHANGED <<queue, current, creator, looking, place, active>>

-----------------------------------------------------------------------------
(* Looking for work: worker_thread and tpc_sync *)

\* tpc_sync with children left; without any it returns as it was called.
Sync(w) ==
  /\ \E a \in All : Runs(w, a) /\ pc[a] = "run"
  /\ children[current[w]] > 0
  /\ stack' = [stack EXCEPT ![w][1].sync = current[w]]
  /\ UNCHANGED <<vars, deque, queue, current, creator, looking, place, active>>

Waits(w) == place[w] = "loop" /\ stack[w] # <<>> /\ Top(w).sync # None
Idles(w) == place[w] = "loop" /\ stack[w] = <<>>

\* The condition of the loop holds: number_of_children, or active_threads.
Test(w) ==
  /\ w \notin looking
  /\ \/ Waits(w) /\ children[Top(w).sync] > 0
     \/ Idles(w) /\ active
  /\ looking' = looking \cup {w}
  /\ UNCHANGED <<vars, stack, deque, queue, current, creator, place, active>>

\* pop_task, the latest of its own; or if it has none, which nobody else can
\* change, steal_task from the deque steal_index names, the oldest of it.
Take(w) ==
  /\ w \in looking
  /\ looking' = looking \ {w}
  /\ \/ /\ deque[w] # <<>>
        /\ Nested(w, deque[w][Len(deque[w])])
        /\ deque' = [deque EXCEPT ![w] = SubSeq(@, 1, Len(@) - 1)]
     \/ /\ deque[w] = <<>>
        /\ \E q \in Workers :
             /\ deque[q] # <<>>
             /\ Nested(w, Head(deque[q]))
             /\ deque' = [deque EXCEPT ![q] = Tail(@)]
  /\ UNCHANGED <<vars, queue, current, creator, place, active>>

\* Its own deque and the one that steal_index names are empty, or another
\* thief was faster.  steal_index may name its own.
GiveUp(w) ==
  /\ w \in looking
  /\ deque[w] = <<>>
  /\ looking' = looking \ {w}
  /\ UNCHANGED <<vars, stack, deque, queue, current, creator, place, active>>

\* tpc_sync returns.
Synced(w) ==
  /\ Waits(w) /\ w \notin looking
  /\ children[Top(w).sync] = 0
  /\ stack' = [stack EXCEPT ![w][1].sync = None]
  /\ current' = [current EXCEPT ![w] = Top(w).sync]
  /\ creator' = [creator EXCEPT ![w] = Top(w).sync]
  /\ UNCHANGED <<vars, deque, queue, looking, place, active>>

-----------------------------------------------------------------------------
(* Shut-down: tpc_shutdown and the epilogue of worker_thread *)

\* Variant: clears active_threads without tpc_sync.
StopUnsynced ==
  /\ Runs(Master, Main) /\ pc[Main] = "run"
  /\ Goto(Main, "barrier")
  /\ active' = FALSE
  /\ Move(Master, "leave")
  /\ UNCHANGED <<status, children, waitfor, fired, parent, notify, locked,
                 buffered, cur, rel, num, dependsOn>>
  /\ UNCHANGED <<stack, deque, queue, current, creator, looking>>

\* Variant: goes to the barrier and leaves the workers in their loops.
StopSilently ==
  /\ Runs(Master, Main)
  /\ Shutdown
  /\ Move(Master, "leave")
  /\ UNCHANGED <<stack, deque, queue, current, creator, looking, active>>

\* The main program passed tpc_sync: active_threads = 0.
Stop ==
  /\ Runs(Master, Main)
  /\ Shutdown
  /\ active' = FALSE
  /\ Move(Master, "leave")
  /\ UNCHANGED <<stack, deque, queue, current, creator, looking>>

Leave(w) ==
  /\ Idles(w) /\ w \notin looking
  /\ ~active
  /\ Move(w, "leave")
  /\ UNCHANGED <<vars, stack, deque, queue, current, creator, looking, active>>

\* Variant: the main program does not wait for the workers.
OpenEndEarly ==
  /\ place[Master] = "leave"
  /\ place' = [w \in Workers |-> "out"]
  /\ UNCHANGED <<vars, stack, deque, queue, current, creator, looking, active>>

OpenEnd ==
  /\ \A w \in Workers : place[w] = "leave"
  /\ place' = [w \in Workers |-> "out"]
  /\ UNCHANGED <<vars, stack, deque, queue, current, creator, looking, active>>

\* A worker frees its deque and exits.
Exit(w) ==
  /\ w # Master
  /\ place[w] = "out"
  /\ queue' = [queue EXCEPT ![w] = "released"]
  /\ Move(w, "gone")
  /\ UNCHANGED <<vars, stack, deque, current, creator, looking, active>>

\* The main program joined the workers; it deletes its region and its deque.
End ==
  /\ place[Master] = "out"
  /\ \A w \in Workers \ {Master} : place[w] = "gone"
  /\ Goto(Main, "end")
  /\ queue' = [queue EXCEPT ![Master] = "released"]
  /\ Move(Master, "gone")
  /\ UNCHANGED <<status, children, waitfor, fired, parent, notify, locked,
                 buffered, cur, rel, num, dependsOn>>
  /\ UNCHANGED <<stack, deque, current, creator, looking, active>>

Over == place[Master] = "gone" /\ UNCHANGED poolVars

-----------------------------------------------------------------------------
\* The steps of a thread that are not for the program to choose.
Thread(w) ==
  \/ Arrive(w) \/ Proceed(w) \/ Schedule(w)
  \/ Test(w) \/ GiveUp(w) \/ Synced(w) \/ Leave(w) \/ Exit(w)
  \/ \E t \in Tasks : Begin(w, t) \/ Unwind(w, t)

Program(w) == Finish(w) \/ Sync(w)

PoolNext ==
  \/ OpenStart \/ Stop \/ OpenEnd \/ End \/ Over
  \/ \E w \in Workers :
       \/ Thread(w) \/ Program(w) \/ Take(w)
       \/ \E t \in Tasks : Create(w, t) \/ Depend(w, t)
  \/ \E t \in Tasks : Drain(t) /\ UNCHANGED pool

\* Threads go on, bodies come to tpc_sync or their end, the main program to
\* tpc_shutdown.  steal_index is random: a thread that looks again and again
\* while there are tasks in the deques finds one.
PoolFairness ==
  /\ WF_poolVars(OpenStart) /\ WF_poolVars(Stop)
  /\ WF_poolVars(OpenEnd) /\ WF_poolVars(End)
  /\ \A w \in Workers :
       WF_poolVars(Thread(w)) /\ WF_poolVars(Program(w)) /\ SF_poolVars(Take(w))
  /\ \A t \in Tasks : WF_poolVars(Drain(t) /\ UNCHANGED pool)

PoolSpec == PoolInit /\ [][PoolNext]_poolVars /\ PoolFairness

-----------------------------------------------------------------------------
(* Properties *)

PoolTypeOK ==
  /\ stack \in [Workers -> Seq([task : All, saved : All \cup {None},
                                sync : All \cup {None}])]
  /\ deque \in [Workers -> Seq(Tasks)]
  /\ \A w \in Workers : Len(deque[w]) <= DequeSize
  /\ queue \in [Workers -> {"none", "live", "released"}]
  /\ current \in [Workers -> All \cup {None}]
  /\ creator \in [Workers -> All \cup {None}]
  /\ looking \subseteq Workers
  /\ place \in [Workers -> {"new", "ready", "loop", "leave", "out", "gone"}]
  /\ active \in BOOLEAN

\* The slots of deques and frames of stacks that hold task t.
Positions(seqs) == UNION {{w} \X DOMAIN seqs[w] : w \in Workers}
Slots(t)  == {h \in Positions(deque) : deque[h[1]][h[2]] = t}
Frames(t) == {h \in Positions(stack) : stack[h[1]][h[2]].task = t}

\* From the CAS in schedule_task to the end of execute_task exactly one thread
\* is answerable for a task: it is in one deque, or it has one frame, so no
\* path through full deques, steals and nesting loses it or runs it twice.
OnePlace ==
  \A t \in Tasks :
    LET held == Cardinality(Slots(t)) + Cardinality(Frames(t)) IN
      /\ status[t] < SCHEDULED => held = 0
      /\ status[t] >= SCHEDULED /\ pc[t] # "done" => held = 1
      /\ pc[t] = "done" => held <= 1 /\ Slots(t) = {}

\* Whatever ran on top of it meanwhile, when a body goes on it creates its own
\* children and waits for its own (runtime.c:398, 406, 932: curr_task and
\* parent are restored on each of the paths).
BodiesOwnTheirChildren ==
  \A w \in Workers : \A a \in All :
    Runs(w, a) /\ pc[a] = "run" => current[w] = a /\ creator[w] = a

\* "Since all our children finished execution we should be the only one
\* active" (runtime.c:838): when the main program stops the workers, no deque
\* holds a task, and a thread still below a frame only has to find out that
\* others did the rest.
NothingLeftBehind ==
  ~active =>
    /\ \A w \in Workers : deque[w] = <<>>
    /\ \A t \in Tasks :
         /\ pc[t] \in {"idle", "check", "claim", "look", "done"}
         /\ pc[t] = "idle" => parent[t] = None

\* No thread looks into a deque before it is set up or after it is released.
DequesLive ==
  \A w \in looking : \A q \in Workers : queue[q] = "live"

\* The pool implements the life of descriptors: in particular no memory goes
\* before the last activity ended, although nothing counts activities.
LifeRefinement == Init /\ [][Next]_vars

\* Nested tpc_sync, inline execution and releases in the middle of others
\* never wait for each other in a circle: every task runs and is released, and
\* all threads end.
PoolQuiesces ==
  <>[](/\ \A w \in Workers : place[w] = "gone"
       /\ \A t \in Tasks : parent[t] = None \/ status[t] = COMPLETE)
=============================================================================
