# A TLA+ specification of PARTEE

PARTEE is a task-parallel runtime in C. A source-to-source compiler (SCOOP)
turns annotated calls into task descriptors with arguments marked IN, OUT or
INOUT; the runtime finds the dependencies between sibling tasks at run time,
executes ready tasks on a pool of work-stealing threads, and frees what belongs
to a task when the task and its children are done. This directory models the
runtime in TLA+, checks the models with TLC and proves their invariants and
refinements with TLAPS. Paths below are relative to the repository; line numbers are those
of the modelled commit. The build is the default one: `-O3 -DNDEBUG
-DWITH_REGIONS -DNMEMDEBUG` on x86, statistics and debugging off, back-off on.

## Inventory

| Part | Source | State | Operations | Used by |
|---|---|---|---|---|
| Work-stealing deque | `src/queue.c` | `bottom`, `top` (uint8_t), 128 entries | `enqueue`, `dequeue_front` (owner), `dequeue_back` (thieves) | workers |
| Stack of tasks to notify | `src/stack.c` | `top`, NULL, a node or the lock | `stack_push`, `stack_lock`, `stack_pop` | dependence analysis, release |
| Life of a task | `src/runtime.c`, `src/deps.c` | `status`, `number_of_children`, `waitfor`, `fired`, `parent` | `tpc_call`, `tpc_sync`, `schedule_task`, `execute_task`, `release_task`, `fire_dependencies` | everything |
| Dependence analysis | `src/deps.c`, `src/list.c` | metadata per block: type, owner, readers, dependent metadata | `create_dependencies`, `handle_argument`, `create_dependency` | `tpc_call` |
| Look-up table | `src/trie.c` | two-level table per task | `get_or_create_node`, `set_node` | analysis |
| Worker threads | `src/runtime.c` | one deque, one stack of nested tasks per thread | `worker_thread`, `pop_task`, `steal_task`, `tpc_init`, `tpc_shutdown` | main program |
| Grid | `src/balloc.c`, `src/deps.c` | `Top` of the global address space | `balloc_alloc`, `GET_INDEX` | `tpc_malloc`, analysis |
| Regions | `src/regions.c`, `src/alloc.c` | tree of regions, blocks in pages | `newregion`, `__rc_rstralloc0`, `deleteregion` | descriptors, metadata, tables |
| Page allocator | `src/pages.c` | lists of free pages with locks and counts | `alloc_single_page`, `alloc_pages`, `free_pages` | regions |
| Spin locks | `src/atomic.c` | lock words | `acquire_spinlock`, `try_lock` | regions, pages |
| Statistics, profiling, serialization | `src/stats*.c`, `src/profile.c`, `src/serialize.c` | counters | - | not in the default build |

How they interact: `tpc_call` counts the child at its parent and runs the
analysis in the parent's thread. The analysis looks up each block an argument
covers in the table of the *parent* and pushes the new task on the `to_notify`
stack of each sibling it depends on. When a task was executed and has no
children left, one thread moves it to RELEASING, locks its stack for good, pops
the waiting tasks, and schedules those whose last notification this was on its
own deque. It then deletes the region of the task, which holds the descriptors
of its children, decrements the counter of the parent, and releases the parent
too if that was executed and has no children left.

What is hard about it: everything is lock-free and shared by plain loads,
stores and single compare-and-swaps. Registrations race with releases;
notifications may come before the registrations were counted; a task that
returns, its last child and its grandchildren all may try to release it; memory
is freed by whoever releases; and the 8-bit counters of the deque wrap. There
is no persistence, no message passing and no timeout, so crashes, loss and
duplication do not occur. `PROJECT.json` lists each hazard at its line with the
properties that cover it.

What makes each part correct: a deque and a stack hand each element to exactly
one taker; a task starts after all it depends on, is started once and released
once, after its children; memory is not used after it was freed; `tpc_sync` and
`tpc_shutdown` return; two siblings of which one writes what the other accesses
run in program order.

## Modules

| Module | Models | Instance |
|---|---|---|
| `DequeSpec` | what a deque promises: a bounded sequence, the owner at one end, thieves at the other | |
| `WorkDeque` | `queue.c`, one access to shared memory per step | `MCWorkDeque` |
| `WorkDequeProofs` | the inductive invariant of `WorkDeque`, that it implements `DequeSpec` | |
| `NotifySpec` | what a stack to notify promises: accepted and delivered once, or refused after it closed | |
| `NotifyStack` | `stack.c`, one access per step, with reuse of freed nodes | `MCNotifyStack` |
| `NotifyStackProofs` | the inductive invariant of `NotifyStack`, that it implements `NotifySpec` | |
| `TaskGraph` | what the runtime promises to a program: tasks start after what they depend on, are released after their children | |
| `TaskLife` | the fields of all descriptors and the threads' locals, from `tpc_call` to the release, one shared access per step | `MCTaskLife` |
| `TaskLifeProofs` | the inductive invariant of `TaskLife` and the theorems | |
| `WorkerPool` | the threads that run the activities of `TaskLife`: stacks of nested tasks, deques, `tpc_sync`, start-up and shut-down | `MCWorkerPool` |
| `TaskMemoryProofs` | who may use a descriptor and who releases it, the tree of tasks, and that `TaskLife` implements `TaskGraph` | |
| `WorkerPoolProofs` | the inductive invariant of `WorkerPool`, that it implements `TaskLife` and with it `TaskGraph` | |
| `RegionPages` | regions, their pages, and the lists of free pages with their locks | `MCRegionPages` |
| `RegionPagesProofs` | the inductive invariant of `RegionPages` and the theorems | |
| `DepAnalysis` | `create_dependency`, block by block, against tasks that execute and are released meanwhile | `MCDepAnalysis` |
| `DepAnalysisProofs` | the inductive invariant of `DepAnalysis` and the theorems | |
| `GridIndex` | the arithmetic of blocks (`GET_INDEX`, `balloc_alloc`) and the flags of arguments, as operators | |
| `LookupTable` | the table of two levels of `trie.c`, as operators on functions | |
| `Grid` | `tpc_malloc` from several threads, and the walk of `handle_argument` over rows and blocks with the table it keeps | `MCGrid` |
| `GridProofs` | the invariants of `Grid`, the lemmas on the arithmetic, and the theorems | |

`WorkDeque` implements `DequeSpec`, `NotifyStack` implements `NotifySpec` and
`TaskLife` implements `TaskGraph`; each refinement mapping is an
`INSTANCE ... WITH` at the end of the detailed module. `WorkerPool` extends
`TaskLife`: each of its steps is a step of one activity together with what it
does to the threads, or leaves the descriptors alone. It uses its deques as
`DequeSpec` lets it, and hands on `TaskLife`'s results (`LifeRefinement`).
`Grid` and `DepAnalysis` split the analysis between them: `Grid` takes an
argument from its address and flags to the sequence of blocks that are visited
and keeps the table, whatever is decided at a block; `DepAnalysis` starts from
such a sequence (`Extents`) and takes the table for a function of the block,
which `Grid` shows it to be (`TableIsFunction`).

### Correspondence with the code

*WorkDeque.* `bottom`, `top` and `entries` are the fields of `queue_t`. `owner`
and `thief[p]` hold the program counter and the registers of a call. The
counters range over 2 * `Size` values as a uint8_t does over 2 * 128, so the
test `(b ^ t) == size` and wrap-around are the same. The owner's load of `top`
is one step with the code that depends on it alone. `lapped` and `fooled` are
history: a thief is lapped when, after its load of `top`, the counter went round
and came back to the value it loaded, and `fooled` when such a thief won its
CAS. `EnqueueFull` is the path of
`schedule_task` that runs a refused task at once. A deque starts at any equal
pair of counters: a fresh one at 0, an emptied one anywhere. Memory is
sequentially consistent here, because the owner fences where x86 could reorder.

*NotifyStack.* One `pusher` per call of `stack_push`, one `locker` for the
thread that releases the owner of the stack. `nodes` are the addresses malloc
may return, and one that was freed is used again. That is no hazard for the CAS:
a node is freed by the pusher that was refused or by the thread that pops, both
after `top` was locked for good, so no push meets a `top` that was freed and
linked again. `popped` records deliveries.

*TaskLife.* Each task has an activity: its body, the creations it makes, and
after its return the release of itself and perhaps of its ancestors. `pc`,
`cur`, `rel` and `num` are the program counter and the locals `task`,
`waitfor`, `fired` and `children` of that activity. The stacks are the set
`notify` of registrations, with `locked` for the stacks that refuse more, as
`NotifySpec` allows. `tpc_task_descriptor_alloc` and `tpc_call` are one step,
`Call`: the descriptor is private until the increment of the parent's counter.
`tpc_sync` is a guard: it only waits for a counter that the caller alone can
raise, so nothing changes between its last load and the caller's next step.
`StoreBuffers` puts the store of EXECUTED (`runtime.c:391`) in a store buffer
until `Drain`; every other store is followed by a fence or a locked
instruction, or is ordered before what follows by x86. `SyncBeforeReturn` says
whether programs call `tpc_sync` before a task returns; the runtime does not
demand it, and the test programs do not do it everywhere. Which siblings a task
registers with is left open (any of them, up to `MaxDeps` times), and so is
which thread runs a scheduled task and when: both include what the analysis and
the workers do.

*WorkerPool.* `stack[w]` is the C stack of a thread, as far as it consists of
calls of `execute_task`. A frame has the task, the `curr_task` the call saved
(`runtime.c:340`), and while the body is in `tpc_sync` the task whose counter
that watches. `current` and `creator` are the thread's variables `curr_task` and
`parent`, which each call of `execute_task` and each return of `tpc_sync` write.
Only the activity on top of a stack goes on (`Runs`); one that is interrupted in
the middle of a release by a task a full deque refused waits like one whose body
is in `tpc_sync`. `looking` holds the threads that tested the condition of their
loop and did not look for a task yet, so the test is stale when they do. `Take`
is `pop_task` or, when the own deque is empty, `steal_task`; one step each,
because the deque is linearizable (`WorkDeque`). `steal_index` is any thread,
the own one included, and a steal that fails because another thief was faster
is `GiveUp`. `Schedule` joins the CAS on the status and the enqueueing: between
the two only the winner of the CAS knows the task. `place` is where a thread is
between `tpc_init` and its end, `queue` whether its deque is allocated, `active`
is `active_threads`. The number of threads is in the range `tpc_init` accepts,
so both barriers count `Workers`.

*RegionPages.* `list`, `page_count` and `lock` are the fields of `single_pages`,
`pages` the list of pages of a region, whose last element has the header in it.
A thread is in at most one operation: it marks the region (`NewRegion`, `Grow`,
`DeleteRegion`), finds a list (`TryLock`; a failed try changes nothing), and
changes the list by a load and a store (`LoadFirst`, `AllocSinglePage`;
`LinkPage`, `FreeSinglePage`), so the lock matters. `Refill` is `alloc_new` and
`add_single_pages`, which run under the lock. `word[p]` is what an object in the
page points to at the place where a header has `bigpages` or `parent`: nothing or
another page of its region, as tables of metadata, descriptors and metadata
elements do. `LoadBigPages` (`alloc.c:181`) and `LoadParent` (`regions.c:348`)
read it after the page of the header was freed, as the code does; `Found` is what
they may get. When it is an object of another region, `stale` is set and the
model ends: what the code goes on to do, follow and free whatever the pointer leads
to, is no behaviour the source defines. `regions_stale` takes the very state
in which it starts, the foreign page in the hands of the deletion.
The sizes of groups, `Groups`, abstract `total_page_count`; the theorems hold of
any, in any order. A region has one
user at a time because its task is created, run and released by one thread each,
in this order (`TaskLife`).

*DepAnalysis.* `table` is the look-up table of the one parent, `meta` the
metadata elements with `readers` as a sequence, latest first. `Argument` is the
prologue of `handle_argument`; its visits are the blocks of one row after the
other, each marked if it begins a row, because `create_dependency` is called
once per row and enters the task in the readers of the same metadata each time. A `Visit...`
action is the iteration of the loop for one block, up to its `stack_push`
calls; `TryPush` is one of them, `Assign` the `set_node` that goes with it.
`waits` is what was pushed, `leads` the history of who took each block. Tasks
run meanwhile, by `Start`, `Release` (the CAS to RELEASING) and `Close` (the lock
of the stack), which is what the analysis can observe of them.

*Grid.* `Top` is the variable of that name, relative to the start of the grid,
and so is every address: an integer, negative for one in front of the grid. The
compiler turns the body of `balloc_alloc` into one load and one store of `Top`,
`LoadTop` and `StoreTop`; `calls` and `overlapped` are the history of who called
and which calls were under way together. The type of an argument is the set of
its bits, so that flags whose masks overlap answer for each other as they do in
the code. `NewArgument` begins `handle_argument`, `BeginRow` is a call of
`create_dependency` with its two `GET_INDEX`, `Visit` one iteration of its loop,
`EndRow` its return and the advance of the address by the stride, `EndRows` the
restoration of the address. `trie` has the second levels the code creates when a
block first needs one. `given`, `visited` and `latest` are history: the argument
as it was passed, the blocks visited, and what was last set for each block.

## Runs

| Run | Instance | Shows |
|---|---|---|
| `deque` | 2 entries, 2 thieves, 7 tasks, every start of the counters | exactly one executor per task, and the refinement of `DequeSpec`, until a thief is fooled |
| `notify_stack` | 3 pushes, 3 nodes | exactly-once delivery, no leaked or shared node, termination, refinement |
| `life_sync` | 3 tasks, 2 registrations each, store buffers, programs that sync | dependencies, counters, one releaser, assertions, released after the children, in memory when used, refinement of `TaskGraph`, termination |
| `life_free` | the same, programs that may return early, no store buffers | no release is lost |
| `life_use_after_free` | as `life_sync` | counterexample: reads of freed descriptors |
| `pool` | 4 tasks, 2 threads, deques of 1, store buffers, programs that sync | a task is in one place, bodies wait for their own children, shut-down leaves nothing behind, deques outlive thieves, implements `TaskLife`, all threads end |
| `regions` | 2 threads, 2 regions of up to 2 pages, 2 lists, groups of 1 and then 2 pages | up to the first stale read of a header a page is in one place, counters and lists agree, locks are released |
| `regions_stale` | the same, groups of 1 and 2 in any order | counterexample: the deletion of a region goes on to free a page that is still in use |
| `deps` | 4 tasks, 2 arguments each, 4 in all, 2 blocks, blocks alone, together and as two rows | order between writers and of the first reader, acyclic waits |
| `deps_readers` | 3 tasks | counterexample: a later reader overtakes the writer |
| `deps_writers` | 4 tasks, 1 block | counterexample: a writer overtakes a reader |
| `grid` | blocks of 4 bytes, a grid of 8, a table of 4 x 2, 2 threads, 3 calls of `tpc_malloc`, 2 arguments of 12 shapes | the walk visits the blocks of an argument and no others, the table is a function, memory is handed out once, arguments are restored |

Why the bounds are enough. In the deque the races are between the owner and a
thief for one element and between two thieves; 2 entries hold empty, one and
full, and 7 tasks fill the deque, go over it, and take the counters, which have
4 values, round nearly twice. A thief is then overtaken by a full round of `top`
within the run: `UntilFooled` follows each behaviour until the CAS of such a
thief succeeds, which the code does not exclude, and the properties hold of
everything before, suspended thieves whose CAS fails included. Three pushes give a
stack a node below another while a third is in flight. Three tasks give the main
program two children and a grandchild, a chain of three generations, or three
siblings of which one waits for both others; two registrations let the same or
different tasks notify first and last. In the pool, four tasks and two threads
are the least for each thread to have a waiting task buried below another one
that waits for it; with one slot per deque every schedule but the first runs in
place, and tasks are stolen, popped and nested in all orders. `InOrder` only
makes TLC take the descriptors in order, which are interchangeable until then.
Two blocks are the least with an argument over two blocks and one that shares
only one of them; four tasks give a writer, two readers and a further task, and
four arguments suffice for each branch of `create_dependency` to follow each
other.

Two regions are the least for one to take the page that the deletion of the
other just freed, as its first page or as its second; two lists let a list be
empty while the other has pages, and let a thread find one locked. The
first refill has one page and empties the list again, the others leave one on it;
`Growing` fixes this order, as PAGE_GROUP_SIZE grows with `total_page_count`
(`pages.c:44`).

In `grid`, objects and rows of less than a block, a block and more than one, at
any offset the calls and the two other addresses give, cover the cases of
`GET_INDEX` and of rounding; the other addresses are one in front of the grid
and one whose objects cross its end. The four shapes with rows have them in the
same, in adjacent and in distant blocks, and no rows at all; the others have the
flags alone and the masks that contain each other. Two arguments make the
second one find the table the first one left; three calls from two threads
overlap in every way two can, with one before or after.

Deadlock is checked in every run but `grid`, where it means that the bounds on
calls and arguments are used up. `Terminated`, `Over`, `Finished` and `Done`
are the legitimate ends. `WorkDeque` never ends: its owner may always look for
work.

### Fairness

`NotifyStack`: a thread inside `stack.c` goes on; the code does not block.
`TaskLife`: the body of every task returns and the main program reaches
`tpc_shutdown`; a worker polls for scheduled tasks (`runtime.c:700-705`,
`924-931`); a thread in the runtime goes on; a store buffer drains. All of it is
weak fairness per thread. Nothing is assumed of what a program creates. The
notifier's spin for CREATED (`deps.c:687`) is a disabled step: termination says
the creator is never kept from publishing. `WorkerPool`: weak fairness for each
thread, the same of the program (a body comes to `tpc_sync` or to its end), and
strong fairness of `Take`: `steal_index` is `rand_r` over all threads, so a
thread that looks again and again while a deque holds a task comes upon it. The
deque, the analysis and the grid state no fairness; only safety is checked of
them.
`RegionPages`: weak fairness of a thread inside an operation, and strong
fairness of `TryLock` over all lists together, since the list is chosen at
random each time.

## What the counterexamples say

1. `runtime.c:254, 276, 397`: descriptors are read when nothing keeps them.
2. `deps.c:433`: the shortcut for a writer that is already waited for leaves
   `dependent_metadata` NULL, and a later reader of the block does not wait.
3. `deps.c:455`: a new list of readers replaces one that has readers still
   running, and the next writer does not wait for those.
4. `alloc.c:181`: the header of a region is read after its page was freed. What
   another region put there is taken for a list of pages to free. The
   `r->parent` of `regions.c:348` is read in the same way.

The positive runs say where the limits are. 1 does not touch the other steps:
the start of a task, its creation and the siblings it registers with, the
waiting task that a notifier increments, and the parent whose counter a release
decrements are all in memory (`AliveWhenUsed`; the task that a notifier goes on
to schedule and the store of EXECUTED included). 2 needs tasks with
several arguments or blocks: with one argument in one block each, readers wait
for their writer (`ReadersOrderedWhenSimple`), and the *first* reader always
does. 4 needs a second thread that takes the page and fills it between two
instructions of the first.

### What holds only under conditions

The properties below are stated, or checked, under a condition that the code
does not enforce.

* `ExactlyOnce` and the refinement of `WorkDeque`: until a thief is fooled. A
  thief that is suspended between its load of `top` and its CAS (`queue.c:232`,
  `251`) while 256 elements are removed finds `top` as it was; the task it had
  read runs twice, and one it had not is lost.
* `ReleasedAfterChildren`: programs that call `tpc_sync` before a task returns.
  Otherwise the zero read at `runtime.c:271` is stale when `runtime.c:276` uses
  it, and a parent that created another child in between and returned is
  released with the child running.
* `NoLostRelease`: the same, or the store of EXECUTED at `runtime.c:391` is not
  delayed past the load at 397; no fence keeps the processor from it.
* `OneHomeUntilStale`, `CountsAgree` and `CallsReturn` of the pages: until a
  deletion takes an object of another region for its own header
  (`alloc.c:181`, `regions.c:348`). Nothing in the code prevents that, as
  `regions_stale` shows; everything up to the read that gets a pointer is covered,
  and so are the reads that find NULL in a page that is free or used again.
* `LoneSegmentsKept`: calls of `tpc_malloc` that no other call overlapped.
  Two that overlap get the same memory, and worse, the one that stores last
  sets `Top` back behind all calls that came between its load and its store
  (`balloc.c:41`), so that memory handed out long before is handed out again.
  The part about blocks is about objects that end inside the grid.
* `VisitedAreCovered`: rows that do not go round the end of the grid, where the
  first index is above the last and nothing is analysed (`deps.c:38`), and are
  not empty.  What the flags mean is what the code tests: HIGHPRIORITY has the
  bit of STRIDE, so such an argument is analysed as `element_num` rows.
* `ArgumentRestored`: not of strided OUT arguments whose two addresses differ,
  whose `addr_out` becomes `addr_in` (`deps.c:568`).

TLC finds the second and third as violations with `SyncBeforeReturn = FALSE`,
the third with `StoreBuffers = TRUE`.

## What is proved

Every invariant and every refinement that a passing run checks is also a theorem
for all values of the constants. A theorem assumes what its module assumes of the
constants (the named `ASSUME`s, which TLC evaluates in the runs) and, where a
table or the text says so, a condition on programs. From end to end: a pool of
any number of threads with deques of any size implements the life of descriptors
(`PoolImplementsLife`), and that the task graph (`LifeImplementsGraph`,
`PoolImplementsGraph`); the deques and the stacks to notify, which the two use as
atomic objects, are such objects (`DequeImplementsSequence`,
`StackImplementsList`).

Arguments that one would make by induction over the length of a list or the
depth of a tree are made by the invariant instead, because no installed prover
applies an induction theorem: the invariant carries a numbering (the stack), the
fact for all pairs at once (the dependence analysis) or for all sets at once (the
tree of tasks).

### The life of tasks

`TaskLifeProofs` proves, for every finite set of tasks, every `MaxDeps`, with
and without store buffers, for programs that sync and for those that do not:

| Theorem | Statement |
|---|---|
| `TypeCorrect` | `Spec => []TypeOK`; no counter goes below zero |
| `NotificationsAreCounted` | `waitfor` = `fired` + outstanding registrations |
| `ChildrenAreCounted` | `number_of_children` = children that did not report |
| `OneReleaser` | one activity at a time releases a task |
| `DependenciesAreRespected` | a scheduled task's dependencies all began their release |
| `AssertionsAlwaysHold` | the code's assertions, compiled out by NDEBUG, hold |
| `StatusOnlyAdvances` | each step leaves a status or advances it by one |

They rest on `LifeAssumption` (the constants are distinct, the tasks finitely
many) and on one inductive invariant, `IInv`, a conjunction of

* `TypeOK`;
* `LocalsInv`: what the locals of an activity point to. A creator's child has
  it as parent and was not started; what an activity releases is RELEASING until
  it completes. Without it a step on `cur[a]` could hit a task in any state.
* `StageInv`: how the status of a task and its own activity agree. An idle one
  is at most SCHEDULED; a running one is SCHEDULED; a buffered store belongs to a
  task that returned.
* `NotificationsCounted`, and `CountersInv`, which adds that a scheduled task
  has no registration left (so nobody will increment its counter again), that
  numbers of registrations grow (so a push adds a *new* registration) and the
  count at the steps between the last push and the publication.
* `RegisteredInv`: a dependency is released or still has the task on its stack.
* `ChildrenCounted` and `ReleasedOnce`, which need each other: a child reports
  once because one activity releases it.

`DependenciesAreRespected` is then immediate: scheduled means no registration is
left, so each dependency was released. The step that carries the argument is
`AwaitIInv`: the notifier that finds `waitfor` equal to its own value of `fired`
leaves no outstanding registration, whatever other notifiers do meanwhile. Each
action has a lemma; `CountingFrame`, `ChildrenFrame` and `ReleasingFrame` settle
the conjuncts an action does not touch. `IInv` was also checked by TLC, as an
invariant on the instances of the runs.

`TaskMemoryProofs` goes on from `IInv`:

| Theorem | Statement | Assumes |
|---|---|---|
| `ChildrenReleasedFirst` | a task that began its release has no child that has yet to tell it | `SyncBeforeReturn` |
| `HeldWhileUsed` | the descriptors that `Touched` lists for the next step of each activity are in memory | `SyncBeforeReturn` |
| `NothingStaysUnreleased` | between a task that ends and the last of its children one releases it | `SyncBeforeReturn` or no `StoreBuffers` |
| `LifeImplementsGraph` | `Spec => Refinement`: each step is a step of `TaskGraph`, or invisible there | `SyncBeforeReturn` |

`ReleasedAfterChildren` says that no child is `Untold` once its parent is
RELEASING: each is COMPLETE and has decremented the counter. `HeldWhileUsed`
covers what an activity starts, runs, creates, registers with, notifies and tells;
`check`, `claim` and `look` are the steps at which `life_use_after_free` fails.
That the parent is there when its counter is decremented is `ParentIsHeld`: the
counter is above zero, so the parent has not left its `tpc_sync`, and being a child
that did not report itself it is held by its own parent.

The invariant they add, `MInv`, says that a task that called `tpc_sync` and
returned stays childless (`ChildlessInv`: only its own body could raise the
counter), that registrations are between siblings (`SiblingsInv`: so the
descriptors of both are in the same region, which their parent keeps), and that
with a sync a task whose EXECUTED is in a store buffer goes on to release itself
(`BufferedInv`), so that nobody else has to see the store.

`HeldWhileUsed` and the refinement need one more, `TInv`. `TaskGraph` lets the program shut down
when all tasks are released, while `tpc_shutdown` looks at one counter, that of
the children of the main program. `TInv` says that the tasks form a tree below
it: whatever tasks one collects, the parent of one of them is not collected
(`RootedInv`, which stands for an induction over the depth of the tree); parents
run or ran (`AncestryInv`); only the task that its parent just creates is CREATING
(`CreationInv`); and dependencies are siblings that were published before
(`DependsInv`). Collect the tasks that were created and did not complete: if there
is one, the parent of one of them is the main program, which counts it, or
completed, and then has no children left (`ChildlessInv`). So when the counter of the
main program is zero, nothing is left.

### The threads

`WorkerPoolProofs` proves, for every number of threads and tasks and every size
of deques:

| Theorem | Statement | Assumes |
|---|---|---|
| `PoolTypeCorrect` | `PoolSpec => []PoolTypeOK`; no deque exceeds its slots | |
| `InOnePlace` | a scheduled task that has not ended is in one deque or has one frame | |
| `BodiesOwn` | a body that goes on finds `curr_task` and `parent` naming its task | |
| `NothingIsLeftBehind` | when the workers are stopped, no task is left to run or release | `SyncBeforeReturn` |
| `DequesStayLive` | nobody looks into a deque before it is set up or after it is released | |
| `PoolImplementsLife` | `PoolSpec => LifeRefinement` | |
| `PoolImplementsGraph` | `PoolSpec => Refinement` | `SyncBeforeReturn` |

`PInv` is the invariant of the pool. `QueuedInv`, `FramesInv` and `HeldInv` say
which tasks may be where: what a deque holds did not start, only the task on top
of a stack may be about to start or have ended, and a scheduled task that did not
end is somewhere; `UniqueFrames`, `UniqueSlots` and `Apart` that it is nowhere
else. `ChainInv` is the chain of saved `curr_task`s: each frame saved the task
below it and the thread's variables name the top one, or the one below while the
top one did not start; `Unwind` uses it to restore them. `BarrierInv` relates the
places of the threads to the two barriers. That nothing is left behind follows
from the tree of tasks, not from the deques: the master leaves `tpc_sync` when
the main program has no children left, so no task is scheduled or running.

### The deque

`WorkDequeProofs` proves, for every size of the array, every number of thieves
and of tasks, with counters that wrap: `TypeCorrect`; `NeverTwiceNeverLost`
(`ExactlyOnce`); `DequeImplementsSequence` (`Refinement`). `Held` says that the
entries from `top` to the owner's view of `bottom` are, once each, the tasks that
were offered and not handed out. Its two companions are what makes the code work
without locks. `Owner` says what the owner's locals tell of the shared state: an
owner about to try the CAS for the last element has loaded it, and `top` was moved
past it by a thief at most, in which case the CAS fails. `Thief` says that a thief
whose `top` is still current saw a deque that is not empty and read the entry that
is still the oldest, however long ago. `fooled` is set by a CAS that succeeds
because `top` wrapped around to the value the thief remembers, so each of the
three is stated until then. The linearization points are the store of
`bottom` in `enqueue`, the CAS on `top` in a steal and for the last element, and
the store of `bottom` in a `dequeue_front` that finds more.

### The stacks to notify

`NotifyStackProofs` proves, for every set of pushers and every finite set of node
addresses: `TypeCorrect`; `DeliveredOnce` (`DeliveredOnceIffAccepted`);
`NodesNeverLost` (`NodesAccounted`); `StackImplementsList` (`Refinement`). The
assumptions on the constants are that `Null` is neither a pusher nor a node and
that there are finitely many nodes. `Listed` says that the linked nodes form a
list: some numbering gives each linked node the length of the list below it, the
node `top` points to the highest number, each next node one less, and every other
node 0. `Private` says that a pusher about to try its CAS owns its node, which
points at the `top` it expects, so if the CAS succeeds that *is* the list. `Owned` gives a task one node and
`Kept` keeps what was accepted until it was popped; `LockOwned` says that `top`
is locked exactly while one thread pops or after it did. The refinement maps the pushers that
returned to the accepted and the refused ones, what was popped to what was
delivered, and the lock in `top` to a closed list.

### The dependence analysis

`DepAnalysisProofs` proves, for every number of tasks and arguments and every
set of blocks and shapes of arguments: `TypeCorrect`; `WritersInOrder`, that
tasks which write the same block execute in the order of the program, whatever
readers come between; `FirstReaderInOrder`, that the first reader of a block
after a write waits for it; `WaitsLeadBack`, that a task waits for earlier ones
only. The argument is a chain: if two tasks took a block and the earlier one is
not finished, the later one waits for it or for one that took the block between
them (`ChainInv`), so by induction along the program, which the invariant carries
as `LeadsOrdered`, they execute in order. `TableInv` says that the table names the
last link, `AccessInv` that whoever accesses a block is a link or joined the
readers of one, `StageInv`, `MetaInv` and `ArgInv` where the analysis is and what
its metadata elements may name. The two counterexamples are about readers that
are no links of the chain.

`ReadersInOrderWhenSimple` (`ReadersOrderedWhenSimple`) is about those: when each
task has one argument in one block, readers that are no links wait for the
writer, too. `SInv` holds of such programs (`AllAlone`). `JoinInv` says that a
reader which joined a list waits for a link that came after the writer; it gets
that link from `LinkInv`: the `dependent_metadata` of a list of readers, or what
the `stack_push` under way will make it, is that of the last link before them,
unless the writers are finished. It is NULL only if the push found the stack
closed, or was skipped because the task registered with this writer already
(`deps.c:433`). The second does not happen: a task's only argument registers with
one writer, once (`WaitInv`, `DependentInv`). With two arguments it does, which is
the counterexample `deps_readers`. `FiniteInv` is only needed to count accesses.

### The grid

`GridProofs` proves, for every size of blocks, of the grid and of the table's
levels, any calls and any arguments: `TypeCorrect`; `VisitsCover`
(`VisitedAreCovered`), `MemoryKept` (`LoneSegmentsKept`), `TableCorrect`
(`TableIsFunction`) and `ArgumentsRestored` (`ArgumentRestored`). `HeapInv`
says that while a call that nobody overlapped is under way it is alone, and that
afterwards `Top` and all later calls stay behind it; `AlignedInv` that `Top` is
at the start of a block, so segments share no block. The lemmas on `GetIndex`
show that the blocks of the bytes from `a` to `b` are the interval of indices
from that of `a` to that of `b` when the row is straight, and `VisitInv` that
`visited` is that of the rows done and of the current row up to `block`.

### The pages of regions

`RegionPagesProofs` proves, for every number of threads, regions, lists and
pages, whatever the objects hold:

| Theorem | Statement |
|---|---|
| `TypeCorrect` | `Spec => []TypeOK`: no counter or length leaves its bounds |
| `CountersAgree` | the counter of a list that nobody works on is its length |
| `PagesHaveOneHome` | every page is in exactly one place, until a deletion takes an object for its header |

`UserInv` says that a region has one user and that who works on a list holds its
lock; `WorkInv` that, hence, what a thread loaded from the list and what it found
in the region is still so when it stores (`UpToDate`). `HomeInv` puts lists,
regions, what a deletion has left and the page it has in hand into one family of
sequences and says that each page occurs once in it (`OnePlaceEach`). Three
lemmas on such families, `MoveFirst` (the first element of one becomes the first
of another), `MoveAll` and `AddPages`, are all an action needs; `CountInv` adds
the counters. These together are `Sound`, which every step preserves except the
read that finds a pointer; `IInv` is the same with `HomeInv` up to that read, and
since no step follows it, `IInv` is inductive. Without the condition
`PagesHaveOneHome` is false, as `regions_stale` shows.

### Only model-checked

The liveness properties, because fairness and ENABLED are out of the prover's
reach: `EveryoneServed` of the stacks, `Quiesces` of `TaskLife`, `PoolQuiesces` of
the threads and `CallsReturn` of the page allocator. The violations that
`regions_stale`, `deps_readers`, `deps_writers` and `life_use_after_free` show are
of course TLC's.

## Plan

Next, in this order:

1. How long a thief may sleep: that a steal during which fewer than
   2 * `Size` elements are taken is never fooled, for every size.
2. A weaker condition than one argument in one block for readers: programs in
   which no task reads a block that a task it waits for already wrote.
3. The objects above a page (`alloc_pages`, `free_pages`) as far as the source
   defines what they do.

## Not modelled, and why

Of the regions, the place of objects within a page, subregions and the page map,
which no caller reads; `TaskLife` and `DepAnalysis` contain what their callers
can observe of them. Objects above 4096 bytes that do not fit into the current
page (`alloc_pages`, `free_pages`) are left out too: they are descriptors of
tasks with some hundred arguments. `alloc_pages` takes as many pages off the
counter as the object needs and one page off the list (`pages.c:379`), so an
object that needs two overruns its page, and what memory holds from then on is
not defined by the source; `free_pages` adds a `pagecount` that only the first
page of a group has set (`pages.c:407`). They would also give headers a
`bigpages` of their own, so that a deletion follows a list of pages there
even when nobody took the page of the header. Statistics and profiling do not
influence the runtime and are compiled out. `serialize.c` is not compiled. NUMA
placement and affinity only affect speed. `tpc_task_descriptor_free`,
`get_front` and `remove_task` have no callers. The bodies of tasks are the
environment: any task may create any number of children, in any order, and
return at any time.

## Running

    tlc -config MCTaskLifeSync.cfg MCTaskLife.tla
    tlapm WorkDequeProofs.tla
    tlapm NotifyStackProofs.tla
    tlapm TaskLifeProofs.tla
    tlapm TaskMemoryProofs.tla
    tlapm WorkerPoolProofs.tla
    tlapm DepAnalysisProofs.tla
    tlapm GridProofs.tla
    tlapm RegionPagesProofs.tla

`PROJECT.json` lists every run with its configuration, the mapping of each
definition to source lines, and for each property a variant of a definition
(named after what it gets wrong, next to the definition) that violates it.
