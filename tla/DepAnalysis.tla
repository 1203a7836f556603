----------------------------- MODULE DepAnalysis -----------------------------
(***************************************************************************)
(* The dependence analysis of src/src/deps.c: which of its siblings a new  *)
(* task waits for.                                                         *)
(*                                                                         *)
(* One parent task creates tasks 1, 2, ...  Each argument of a task covers *)
(* blocks of the global address space, row after row when it is strided;   *)
(* for each block the parent's look-up table names the metadata of its     *)
(* last use.  The analysis runs in the parent, while the tasks it created  *)
(* before execute and are released by other threads: the steps interleave  *)
(* at each access to another task's status or to_notify stack.             *)
(*                                                                         *)
(* The look-up table (src/src/trie.c) is a function of the block; SAFE and *)
(* BYVALUE arguments, which the analysis skips, are absent; what happens   *)
(* to a task after its analysis is the life modelled in TaskLife.          *)
(***************************************************************************)
EXTENDS Naturals, FiniteSets, SequencesExt

CONSTANTS NumTasks,   \* bound: number of tasks the parent creates
          MaxArgs,    \* bound: arguments per task
          Arguments,  \* bound: arguments of all tasks together
          Blocks,     \* the blocks arguments may cover
          Extents,    \* the shapes of arguments: the visits create_dependency
                      \* makes for one, row after row and block after block
          None        \* NULL

Tasks == 1..NumTasks
Ids   == Tasks \X (1..MaxArgs)

\* The visit of a block, the first one of a row or not: create_dependency is
\* called once per row, with the same metadata element.
Visit == [block : Blocks, newRow : BOOLEAN]

ASSUME AnalysisAssumption ==
  /\ NumTasks \in Nat /\ MaxArgs \in Nat \ {0} /\ Arguments \in Nat
  /\ None \notin Tasks \cup Ids
  /\ Extents \subseteq Seq(Visit)
  /\ \A extent \in Extents : extent # <<>> => Head(extent).newRow

VARIABLES
  phase,      \* how far each task is, as its status and to_notify tell
  table,      \* parent->metadata: the metadata last set for each block
  meta,       \* the metadata elements, <<t, i>> that of t's i-th argument
  waits,      \* waits[t]: the tasks t registered with, whom it waits for
  depsLast,   \* task->deps_last of the task under analysis
  task,       \* the last task created
  arg,        \* the metadata of the argument under analysis (new_metadata)
  visits,     \* the visits the argument still has to make
  targets,    \* stack_push calls the current block still has to make
  reads,      \* history: the blocks each task reads
  writes,     \* history: the blocks each task writes
  leads       \* history: the tasks whose metadata was set for each block

vars == <<phase, table, meta, waits, depsLast, task, arg, visits, targets,
          reads, writes, leads>>

Owner(m) == m[1]

Init ==
  /\ phase = [t \in Tasks |-> "absent"]
  /\ table = [b \in Blocks |-> None]
  /\ meta = [m \in Ids |-> [type |-> "none", readers |-> <<>>, dependent |-> None]]
  /\ waits = [t \in Tasks |-> {}]
  /\ depsLast = None
  /\ task = 0
  /\ arg = None
  /\ visits = <<>>
  /\ targets = <<>>
  /\ reads = [t \in Tasks |-> {}]
  /\ writes = [t \in Tasks |-> {}]
  /\ leads = [b \in Blocks |-> {}]

\* The analysis has nothing left to do for the last argument.
Idle == visits = <<>> /\ targets = <<>>
Creating == task > 0 /\ phase[task] = "creating"

-----------------------------------------------------------------------------
(* create_dependencies and handle_argument *)

Covered(extent) == {v.block : v \in ToSet(extent)}

\* A new metadata element for argument n of task t; OUT stands for INOUT too.
Argument(t, n, type, extent) ==
  /\ Cardinality({m \in Ids : meta[m].type # "none"}) < Arguments
  /\ arg' = <<t, n>>
  /\ meta' = [meta EXCEPT ![<<t, n>>].type = type]
  /\ visits' = extent
  /\ IF type = "OUT"
     THEN /\ writes' = [writes EXCEPT ![t] = @ \cup Covered(extent)]
          /\ UNCHANGED reads
     ELSE /\ reads' = [reads EXCEPT ![t] = @ \cup Covered(extent)]
          /\ UNCHANGED writes
  /\ UNCHANGED <<table, waits, targets, leads>>

\* Variant: inherits deps_last from the task before.
NewTaskStale(type, extent) ==
  /\ ~Creating
  /\ task < NumTasks
  /\ task' = task + 1
  /\ phase' = [phase EXCEPT ![task + 1] = "creating"]
  /\ UNCHANGED depsLast
  /\ Argument(task + 1, 1, type, extent)

NewTask(type, extent) ==
  /\ ~Creating
  /\ task < NumTasks
  /\ task' = task + 1
  /\ phase' = [phase EXCEPT ![task + 1] = "creating"]
  /\ depsLast' = None
  /\ Argument(task + 1, 1, type, extent)

\* Variant: one argument too many.
NextArgOneMore(type, extent) ==
  /\ Creating /\ Idle
  /\ arg[2] <= MaxArgs
  /\ Argument(task, arg[2] + 1, type, extent)
  /\ UNCHANGED <<phase, depsLast, task>>

NextArg(type, extent) ==
  /\ Creating /\ Idle
  /\ arg[2] < MaxArgs
  /\ Argument(task, arg[2] + 1, type, extent)
  /\ UNCHANGED <<phase, depsLast, task>>

\* CREATED_TASK is published.
EndTask ==
  /\ Creating /\ Idle
  /\ phase' = [phase EXCEPT ![task] = "waiting"]
  /\ UNCHANGED <<table, meta, waits, depsLast, task, arg, visits, targets,
                 reads, writes, leads>>

-----------------------------------------------------------------------------
(* create_dependency: the visit of one block, up to the stack_push calls *)

\* A stack_push to make: on whose stack; whether self dependencies and
\* deps_last are tested first; and the metadata to hold as
\* dependent_metadata when it succeeds.
Target(o, tested, link) == [owner |-> o, tested |-> tested, link |-> link]

Visiting(type) ==
  /\ visits # <<>> /\ targets = <<>>
  /\ meta[arg].type = type
  /\ visits' = Tail(visits)
  /\ UNCHANGED <<phase, waits, depsLast, task, arg, reads, writes>>

Block == Head(visits).block
Old   == table[Block]

\* set_node
Assign ==
  /\ table' = [table EXCEPT ![Block] = arg]
  /\ leads' = [leads EXCEPT ![Block] = @ \cup {task}]

\* Variant: the table keeps the former metadata.
VisitOutUnset ==
  /\ Visiting("OUT")
  /\ IF Old = None THEN Assign ELSE UNCHANGED <<table, leads>>
  /\ UNCHANGED meta
  /\ targets' =
       IF Old = None THEN <<>>
       ELSE IF meta[Old].type = "OUT" THEN <<Target(Owner(Old), TRUE, None)>>   \* WAW
       ELSE LET readers == meta[Old].readers IN                                 \* WAR
            [i \in 1..Len(readers) |-> Target(readers[i], TRUE, None)]

VisitOut ==
  /\ Visiting("OUT")
  /\ Assign
  /\ UNCHANGED meta
  /\ targets' =
       IF Old = None THEN <<>>
       ELSE IF meta[Old].type = "OUT" THEN <<Target(Owner(Old), TRUE, None)>>   \* WAW
       ELSE LET readers == meta[Old].readers IN                                 \* WAR
            [i \in 1..Len(readers) |-> Target(readers[i], TRUE, None)]

\* Each row begins by entering the task in the readers of its new metadata.
Entered(m) ==
  IF Head(visits).newRow THEN [m EXCEPT ![arg].readers = <<task>> \o @] ELSE m

\* The first use of the block.
VisitInNew ==
  /\ Visiting("IN")
  /\ Old = None
  /\ Assign
  /\ meta' = Entered(meta)
  /\ UNCHANGED targets

\* RAW: the task becomes the first reader after the writer.
VisitInWritten ==
  /\ Visiting("IN")
  /\ Old # None /\ meta[Old].type = "OUT"
  /\ Assign
  /\ meta' = Entered(meta)
  /\ targets' = <<Target(Owner(Old), TRUE, Old)>>

\* RAR: the task joins the readers, if the first of them has not been
\* released; else it starts a new list.
Alive(t) == phase[t] \in {"creating", "waiting", "running"}

\* Variant: forgets the writer the readers depend on.
VisitInReadAlone ==
  /\ Visiting("IN")
  /\ Old # None /\ meta[Old].type = "IN"
  /\ IF Alive(Owner(Old))
     THEN /\ meta' = [Entered(meta) EXCEPT ![Old].readers = <<task>> \o @]
          /\ UNCHANGED <<table, leads, targets>>
     ELSE /\ Assign
          /\ meta' = Entered(meta)
          /\ UNCHANGED targets

VisitInRead ==
  /\ Visiting("IN")
  /\ Old # None /\ meta[Old].type = "IN"
  /\ IF Alive(Owner(Old))
     THEN LET writer == meta[Old].dependent IN
          /\ meta' = [Entered(meta) EXCEPT ![Old].readers = <<task>> \o @]
          /\ targets' = IF writer # None /\ Owner(Old) \notin {task, depsLast}
                        THEN <<Target(Owner(writer), FALSE, None)>> ELSE <<>>
          /\ UNCHANGED <<table, leads>>
     ELSE /\ Assign
          /\ meta' = Entered(meta)
          /\ UNCHANGED targets

\* Variant: no test for self dependencies.
TryPushUntested ==
  /\ targets # <<>>
  /\ LET to == Head(targets) IN
     IF phase[to.owner] # "closed"
     THEN /\ waits' = [waits EXCEPT ![task] = @ \cup {to.owner}]
          /\ depsLast' = to.owner
          /\ meta' = IF to.link = None THEN meta
                     ELSE [meta EXCEPT ![arg].dependent = to.link]
     ELSE UNCHANGED <<waits, depsLast, meta>>
  /\ targets' = Tail(targets)
  /\ UNCHANGED <<phase, table, task, arg, visits, reads, writes, leads>>

\* The next stack_push: it fails on the stack of a task that locked it.
TryPush ==
  /\ targets # <<>>
  /\ LET to == Head(targets) IN
     IF (to.tested => to.owner \notin {task, depsLast}) /\ phase[to.owner] # "closed"
     THEN /\ waits' = [waits EXCEPT ![task] = @ \cup {to.owner}]
          /\ depsLast' = to.owner
          /\ meta' = IF to.link = None THEN meta
                     ELSE [meta EXCEPT ![arg].dependent = to.link]
     ELSE UNCHANGED <<waits, depsLast, meta>>
  /\ targets' = Tail(targets)
  /\ UNCHANGED <<phase, table, task, arg, visits, reads, writes, leads>>

-----------------------------------------------------------------------------
(* The life of the tasks, see TaskLife *)

Enter(t, p) ==
  /\ phase' = [phase EXCEPT ![t] = p]
  /\ UNCHANGED <<table, meta, waits, depsLast, task, arg, visits, targets,
                 reads, writes, leads>>

\* Notified by all whom it waits for; their stacks are locked before.
Start(t) ==
  /\ phase[t] = "waiting"
  /\ \A o \in waits[t] : phase[o] = "closed"
  /\ Enter(t, "running")

\* Its body returned and its status leaves EXECUTED for RELEASING.
Release(t) == phase[t] = "running" /\ Enter(t, "releasing")

\* stack_lock on its to_notify
Close(t) == phase[t] = "releasing" /\ Enter(t, "closed")

-----------------------------------------------------------------------------
Analyse == VisitOut \/ VisitInNew \/ VisitInWritten \/ VisitInRead \/ TryPush

Done ==
  /\ \A t \in Tasks : phase[t] \in {"absent", "closed"}
  /\ UNCHANGED vars

Next ==
  \/ EndTask \/ Analyse \/ Done
  \/ \E type \in {"IN", "OUT"}, extent \in Extents :
       NewTask(type, extent) \/ NextArg(type, extent)
  \/ \E t \in Tasks : Start(t) \/ Release(t) \/ Close(t)

Spec == Init /\ [][Next]_vars

-----------------------------------------------------------------------------
(* Properties *)

TypeOK ==
  /\ phase \in [Tasks -> {"absent", "creating", "waiting", "running",
                          "releasing", "closed"}]
  /\ table \in [Blocks -> Ids \cup {None}]
  /\ meta \in [Ids -> [type : {"none", "IN", "OUT"}, readers : Seq(Tasks),
                       dependent : Ids \cup {None}]]
  /\ waits \in [Tasks -> SUBSET Tasks]
  /\ depsLast \in Tasks \cup {None}
  /\ task \in 0..NumTasks
  /\ arg \in Ids \cup {None}
  /\ visits \in Seq(Visit)
  /\ targets \in Seq([owner : Tasks, tested : BOOLEAN, link : Ids \cup {None}])
  /\ reads \in [Tasks -> SUBSET Blocks]
  /\ writes \in [Tasks -> SUBSET Blocks]
  /\ leads \in [Blocks -> SUBSET Tasks]

Started(t)  == phase[t] \in {"running", "releasing", "closed"}
Finished(t) == phase[t] \in {"releasing", "closed"}

\* Task t does not start before the earlier tasks in S finished.
Ordered(t, S) == Started(t) => \A o \in S : o < t => Finished(o)

\* "the new task should wait for all previous tasks to complete" of a block
\* that is written (deps.c:249-266), between writers: two tasks that write the
\* same block execute in the order the program created them, even when the
\* second knows the first only through readers in between.
WritersOrdered ==
  \A t \in Tasks : Ordered(t, {o \in Tasks : writes[o] \cap writes[t] # {}})

\* A task waits only for tasks created before it, so no chain of waits closes
\* into a cycle, and never for itself ("self dependency", deps.c:268, 419).
WaitsAreAcyclic == \A t \in Tasks : waits[t] \subseteq 1..(t - 1)

\* The tasks whose write of b is the last one before t.
LastWriter(t, b) ==
  {o \in 1..(t - 1) : /\ b \in writes[o]
                      /\ \A u \in (o + 1)..(t - 1) : b \notin writes[u]}

\* The first reader of a block after a write starts after the writer finished
\* (the RAW branch, deps.c:413-450), whatever else both tasks access.
FirstReaderOrdered ==
  \A t \in Tasks : \A b \in reads[t] :
    Ordered(t, {o \in LastWriter(t, b) : \A u \in o..(t - 1) : b \notin reads[u]})

\* "so that consequent readers will be added to the last writer's to_notify
\* list" (deps.c:463-467): every reader starts after the writers of what it
\* reads finished.  Programs with a task that names a block both in an IN and
\* in an OUT argument, instead of one INOUT argument, are left out.
ReadersOrdered ==
  (\A t \in Tasks : writes[t] \cap reads[t] = {}) =>
    \A t \in Tasks : Ordered(t, {o \in Tasks : writes[o] \cap reads[t] # {}})

\* The same for programs whose tasks have one argument in one block each:
\* there dependent_metadata always is the metadata of the last writer.
Simple(t) == Cardinality(reads[t]) + Cardinality(writes[t]) <= 1
ReadersOrderedWhenSimple == (\A t \in Tasks : Simple(t)) => ReadersOrdered

\* "Put the new task in the to_notify list of all readers" (deps.c:303): a
\* task starts to write a block after the earlier tasks that read it finished.
WritersAwaitReaders ==
  \A t \in Tasks : Ordered(t, {o \in Tasks : reads[o] \cap writes[t] # {}})
=============================================================================
