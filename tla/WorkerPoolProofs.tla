--------------------------- MODULE WorkerPoolProofs ---------------------------
(***************************************************************************)
(* Proofs about WorkerPool, for every set of tasks and threads and every   *)
(* size of the deques, with and without store buffers: on whatever stack   *)
(* or deque a task comes to lie, one thread is answerable for it, and the  *)
(* pool implements TaskLife, so that TaskLife's theorems hold of it.       *)
(***************************************************************************)
EXTENDS WorkerPool, TaskMemoryProofs, SequenceTheorems

USE LifeAssumption
USE DEF All, Goto, CREATING, CREATED, SCHEDULED, EXECUTED, RELEASING, COMPLETE

-----------------------------------------------------------------------------
(* The inductive invariant, on top of IInv, MInv and TInv *)

FrameType == [task : All, saved : All \cup {None}, sync : All \cup {None}]

\* A task in a deque was scheduled and did not start.
QueuedInv ==
  \A w \in Workers : \A i \in 1..Len(deque[w]) :
    pc[deque[w][i]] = "idle" /\ status[deque[w][i]] >= SCHEDULED

\* Only the task on top of a stack may be about to start or have ended; one
\* in tpc_sync waits for its own children.
FramesInv ==
  \A w \in Workers : \A i \in 1..Len(stack[w]) :
    /\ status[stack[w][i].task] >= SCHEDULED
    /\ i > 1 => pc[stack[w][i].task] \notin {"idle", "done"}
    /\ stack[w][i].sync # None =>
         stack[w][i].sync = stack[w][i].task /\ pc[stack[w][i].task] = "run"

\* No task is in two places.
UniqueFrames ==
  \A w, x \in Workers : \A i \in 1..Len(stack[w]), j \in 1..Len(stack[x]) :
    stack[w][i].task = stack[x][j].task => w = x /\ i = j
UniqueSlots ==
  \A w, x \in Workers : \A i \in 1..Len(deque[w]), j \in 1..Len(deque[x]) :
    deque[w][i] = deque[x][j] => w = x /\ i = j
Apart ==
  \A w, x \in Workers : \A i \in 1..Len(deque[w]), j \in 1..Len(stack[x]) :
    deque[w][i] # stack[x][j].task

\* A scheduled task that did not end is in some place.
HeldInv ==
  \A t \in Tasks : status[t] >= SCHEDULED /\ pc[t] # "done" =>
    \/ \E w \in Workers : \E i \in 1..Len(deque[w]) : deque[w][i] = t
    \/ \E w \in Workers : \E i \in 1..Len(stack[w]) : stack[w][i].task = t

Begun(w) == pc[stack[w][1].task] # "idle"

\* curr_task and parent of a thread name the task on top of its stack, or the
\* one below while that one did not start; each frame saved the one below it.
ChainInv ==
  \A w \in Workers :
    /\ \A i \in 1..Len(stack[w]) : i < Len(stack[w]) /\ (i > 1 \/ Begun(w)) =>
         stack[w][i].saved = stack[w][i + 1].task
    /\ Len(stack[w]) > 0 /\ Begun(w) =>
         current[w] = stack[w][1].task /\ creator[w] = stack[w][1].task
    /\ Len(stack[w]) > 1 /\ ~Begun(w) =>
         current[w] = stack[w][2].task /\ creator[w] = stack[w][2].task

\* The main program is at the bottom of the master's stack.
MainInv == Len(stack[Master]) > 0 /\ stack[Master][Len(stack[Master])].task = Main

\* The two barriers, and what the threads left behind them.
BarrierInv ==
  /\ \A w, q \in Workers : place[w] \in {"loop", "leave"} => place[q] \in {"loop", "leave"}
  /\ \A w \in Workers : place[w] \notin {"new", "gone"} => queue[w] = "live"
  /\ \A w \in looking : place[w] = "loop" /\ (Len(stack[w]) > 0 => stack[w][1].sync # None)
  /\ \A w \in Workers : w # Master /\ place[w] \in {"leave", "out", "gone"} => Len(stack[w]) = 0
  /\ place[Master] \in {"leave", "out", "gone"} => Len(stack[Master]) = 1
  /\ ~active => place[Master] \in {"leave", "out", "gone"}
  /\ place[Master] \in {"leave", "out"} => pc[Main] = "barrier"
  /\ place[Master] = "gone" => pc[Main] = "end"

Places ==
  /\ QueuedInv /\ FramesInv /\ UniqueFrames /\ UniqueSlots /\ Apart /\ HeldInv
  /\ ChainInv /\ MainInv

PInv == PoolTypeOK /\ Places /\ BarrierInv

\* At the start there is only the main program.
LEMMA InitPInv == PoolInit => PInv
<1> SUFFICES ASSUME PoolInit PROVE PInv
  OBVIOUS
<1> USE PoolAssumption DEF PoolInit, Init
<1>1. Frame(Main, None) \in FrameType
  BY DEF Frame, FrameType
<1>2. <<Frame(Main, None)>> \in Seq(FrameType) /\ <<>> \in Seq(FrameType) /\ <<>> \in Seq(Tasks)
  BY <1>1
<1>3. PoolTypeOK
  <2>1. stack \in [Workers -> Seq(FrameType)]
    BY <1>2
  <2>2. deque \in [Workers -> Seq(Tasks)] /\ \A w \in Workers : Len(deque[w]) <= DequeSize
    BY <1>2
  <2>3. current \in [Workers -> All \cup {None}] /\ creator \in [Workers -> All \cup {None}]
    OBVIOUS
  <2> QED
    BY <2>1, <2>2, <2>3 DEF PoolTypeOK, FrameType
<1>4. /\ \A w \in Workers : Len(deque[w]) = 0
      /\ \A w \in Workers : w # Master => Len(stack[w]) = 0
      /\ Len(stack[Master]) = 1
      /\ stack[Master][1].task = Main /\ stack[Master][1].sync = None
  BY DEF Frame
<1>5. QueuedInv /\ FramesInv /\ UniqueFrames /\ UniqueSlots /\ Apart
  BY <1>4 DEF QueuedInv, FramesInv, UniqueFrames, UniqueSlots, Apart
<1>6. HeldInv /\ ChainInv /\ MainInv
  BY <1>4 DEF HeldInv, ChainInv, MainInv, Begun
<1>7. BarrierInv
  BY DEF BarrierInv
<1> QED
  BY <1>3, <1>5, <1>6, <1>7 DEF PInv, Places

-----------------------------------------------------------------------------
(* What the steps of TaskLife do to a place *)

\* Activity a, which is under way, goes on.
Goes(a) ==
  /\ pc[a] \notin {"idle", "done"} /\ pc'[a] # "idle"
  /\ \A u \in All : u # a => pc'[u] = pc[u]

\* No task is scheduled and none loses its status.
NoneScheduled == \A t \in Tasks : status'[t] >= SCHEDULED <=> status[t] >= SCHEDULED

\* Every step of an activity but Start.
LEMMA ActivityGoes ==
  ASSUME IInv, NEW a \in All,
         \/ Advance(a)
         \/ \E t \in Tasks : Call(a, t) \/ Register(a, t)
         \/ a \in Tasks /\ Return(a)
         \/ a = Main /\ Shutdown
  PROVE  Goes(a)
<1>1. pc \in [All -> Running \cup Releasing \cup
                     {"idle", "check", "claim", "done", "barrier", "end"}]
  BY DEF IInv, TypeOK
<1>2. CASE Advance(a)
  BY <1>1, <1>2 DEF Advance, PublishReady, ScheduleReady, StoreWaitfor, Publish,
     CheckChildren, Claim, Lock, Fire, Await, Complete, Tell, Look, Goes
<1>3. CASE \E t \in Tasks : Call(a, t) \/ Register(a, t)
  BY <1>1, <1>3 DEF Call, Register, Goes
<1>4. CASE a \in Tasks /\ Return(a)
  BY <1>1, <1>4 DEF Return, Goes
<1>5. CASE a = Main /\ Shutdown
  BY <1>1, <1>5 DEF Shutdown, Goes
<1> QED
  BY <1>2, <1>3, <1>4, <1>5

\* Only ScheduleReady and Await schedule a task.
LEMMA ActivitySchedulesNone ==
  ASSUME IInv, NEW a \in All,
         \/ PublishReady(a) \/ StoreWaitfor(a) \/ Publish(a)
         \/ CheckChildren(a) \/ Claim(a) \/ Lock(a) \/ Fire(a)
         \/ Complete(a) \/ Tell(a) \/ Look(a)
         \/ \E t \in Tasks : Call(a, t) \/ Register(a, t)
         \/ a \in Tasks /\ (Return(a) \/ Drain(a))
         \/ Shutdown
  PROVE  NoneScheduled
<1> USE DEF NoneScheduled
<1>1. CASE PublishReady(a) \/ Publish(a)
  BY <1>1 DEF PublishReady, Publish, IInv, TypeOK, LocalsInv, Creating
<1>2. CASE Claim(a) \/ Complete(a)
  BY <1>2 DEF Claim, Complete, IInv, TypeOK, LocalsInv, Releasing
<1>3. CASE \E t \in Tasks : Call(a, t)
  BY <1>3 DEF Call, IInv, TypeOK, StageInv
<1>4. CASE a \in Tasks /\ (Return(a) \/ Drain(a))
  BY <1>4 DEF Return, Drain, IInv, TypeOK, StageInv, Running
<1>5. CASE status' = status
  BY <1>5
<1> QED
  BY <1>1, <1>2, <1>3, <1>4, <1>5
  DEF StoreWaitfor, CheckChildren, Lock, Fire, Tell, Look, Register, Shutdown

\* ScheduleReady and Await schedule at most the task the activity looks at.
LEMMA ActivitySchedules ==
  ASSUME IInv, NEW a \in All, ScheduleReady(a) \/ Await(a)
  PROVE  /\ NewlyScheduled = {} => NoneScheduled
         /\ \A t \in NewlyScheduled :
              /\ t \in Tasks /\ status[t] = CREATED /\ status'[t] = SCHEDULED
              /\ pc[t] = "idle" /\ pc'[t] = "idle"
              /\ \A u \in Tasks : u # t => status'[u] = status[u]
              /\ status' \in [All -> CREATING..COMPLETE]
<1>1. /\ cur[a] \in Tasks
      /\ \/ /\ status' = [status EXCEPT ![cur[a]] = SCHEDULED]
            /\ status[cur[a]] = CREATED
         \/ status' = status
      /\ \A u \in All : u # a => pc'[u] = pc[u]
      /\ pc[a] # "idle"
  BY DEF ScheduleReady, Await, IInv, TypeOK, LocalsInv, Creating
<1>2. /\ status \in [All -> CREATING..COMPLETE]
      /\ \A t \in Tasks : status[t] = CREATED => pc[t] = "idle"
  BY DEF IInv, TypeOK, StageInv
<1>3. CASE status' = status
  BY <1>2, <1>3 DEF NewlyScheduled, NoneScheduled
<1>4. CASE status' = [status EXCEPT ![cur[a]] = SCHEDULED] /\ status[cur[a]] = CREATED
  <2>1. cur[a] \in NewlyScheduled
    BY <1>1, <1>2, <1>4 DEF NewlyScheduled
  <2>2. \A t \in NewlyScheduled : t = cur[a]
    BY <1>2, <1>4 DEF NewlyScheduled
  <2>3. pc[cur[a]] = "idle" /\ pc'[cur[a]] = "idle"
    BY <1>1, <1>2, <1>4
  <2> QED
    BY <1>1, <1>2, <1>4, <2>1, <2>2, <2>3
<1> QED
  BY <1>1, <1>3, <1>4

-----------------------------------------------------------------------------
(* What a step does to a stack or a deque *)

\* The lengths are numbers and the elements have their types.
LEMMA Elements ==
  ASSUME PoolTypeOK, NEW w \in Workers
  PROVE  /\ stack[w] \in Seq(FrameType) /\ Len(stack[w]) \in Nat
         /\ \A i \in 1..Len(stack[w]) : stack[w][i] \in FrameType
         /\ deque[w] \in Seq(Tasks) /\ Len(deque[w]) \in Nat
         /\ \A i \in 1..Len(deque[w]) : deque[w][i] \in Tasks
<1>1. stack[w] \in Seq(FrameType) /\ deque[w] \in Seq(Tasks)
  BY DEF PoolTypeOK, FrameType
<1> QED
  BY <1>1

Pushes(w, f) ==
  /\ Len(stack'[w]) = Len(stack[w]) + 1 /\ stack'[w][1] = f
  /\ \A i \in 1..Len(stack[w]) : stack'[w][i + 1] = stack[w][i]
  /\ \A x \in Workers : x # w => stack'[x] = stack[x]

Pops(w) ==
  /\ Len(stack[w]) > 0 /\ Len(stack'[w]) = Len(stack[w]) - 1
  /\ \A i \in 1..Len(stack'[w]) : stack'[w][i] = stack[w][i + 1]
  /\ \A x \in Workers : x # w => stack'[x] = stack[x]

SetsTop(w, f) ==
  /\ Len(stack[w]) > 0 /\ Len(stack'[w]) = Len(stack[w]) /\ stack'[w][1] = f
  /\ \A i \in 1..Len(stack[w]) : i > 1 => stack'[w][i] = stack[w][i]
  /\ \A x \in Workers : x # w => stack'[x] = stack[x]

Adds(w, t) ==
  /\ Len(deque'[w]) = Len(deque[w]) + 1 /\ deque'[w][Len(deque[w]) + 1] = t
  /\ \A i \in 1..Len(deque[w]) : deque'[w][i] = deque[w][i]
  /\ \A x \in Workers : x # w => deque'[x] = deque[x]

Removes(q, k) ==
  /\ k \in 1..Len(deque[q]) /\ Len(deque'[q]) = Len(deque[q]) - 1
  /\ \A i \in 1..Len(deque'[q]) :
       deque'[q][i] = IF i < k THEN deque[q][i] ELSE deque[q][i + 1]
  /\ \A x \in Workers : x # q => deque'[x] = deque[x]

StackType == stack \in [Workers -> Seq(FrameType)]
DequeType == deque \in [Workers -> Seq(Tasks)] /\ \A w \in Workers : Len(deque[w]) <= DequeSize

\* execute_task called on top of what a thread does.
LEMMA NestedPushes ==
  ASSUME PoolTypeOK, NEW w \in Workers, NEW t \in Tasks, Nested(w, t)
  PROVE  Pushes(w, Frame(t, None)) /\ StackType'
<1>1. stack[w] \in Seq(FrameType)
  BY Elements
<1>2. Frame(t, None) \in FrameType
  BY DEF Frame, FrameType
<1> DEFINE f == Frame(t, None)
           s == stack[w]
           n == <<f>> \o s
<1>3. n \in Seq(FrameType) /\ Len(n) = Len(s) + 1 /\ n[1] = f
      /\ \A i \in 1..Len(s) : n[i + 1] = s[i]
  <2> HIDE DEF f, s
  <2>1. s \in Seq(FrameType) /\ f \in FrameType
    BY <1>1, <1>2 DEF s, f
  <2>2. <<f>> \in Seq(FrameType) /\ Len(<<f>>) = 1 /\ <<f>>[1] = f
    BY <2>1
  <2> QED
    BY <2>1, <2>2
<1>4. stack \in [Workers -> Seq(FrameType)]
  BY DEF PoolTypeOK, FrameType
<1>5. stack' = [stack EXCEPT ![w] = n]
  BY DEF Nested
<1> HIDE DEF n
<1>6. StackType'
  BY <1>3, <1>4, <1>5 DEF StackType
<1> QED
  BY <1>3, <1>4, <1>5, <1>6 DEF Pushes

\* execute_task returns.
LEMMA TailPops ==
  ASSUME PoolTypeOK, NEW w \in Workers, stack[w] # <<>>,
         stack' = [stack EXCEPT ![w] = Tail(@)]
  PROVE  Pops(w) /\ StackType'
<1>1. stack[w] \in Seq(FrameType) /\ stack \in [Workers -> Seq(FrameType)]
  BY Elements DEF PoolTypeOK, FrameType
<1> DEFINE n == Tail(stack[w])
<1>2. n \in Seq(FrameType) /\ Len(n) = Len(stack[w]) - 1 /\ Len(stack[w]) > 0
      /\ \A i \in 1..Len(n) : n[i] = stack[w][i + 1]
  BY <1>1
<1>3. stack' = [stack EXCEPT ![w] = n]
  OBVIOUS
<1> HIDE DEF n
<1> QED
  BY <1>1, <1>2, <1>3 DEF Pops, StackType

\* The frame on top is replaced.
LEMMA TopSet ==
  ASSUME PoolTypeOK, NEW w \in Workers, stack[w] # <<>>, NEW f \in FrameType,
         stack' = [stack EXCEPT ![w] = <<f>> \o Tail(@)]
  PROVE  SetsTop(w, f) /\ StackType'
<1>1. stack[w] \in Seq(FrameType) /\ stack \in [Workers -> Seq(FrameType)]
  BY Elements DEF PoolTypeOK, FrameType
<1> DEFINE s == Tail(stack[w])
           n == <<f>> \o s
<1>2. s \in Seq(FrameType) /\ Len(s) = Len(stack[w]) - 1 /\ Len(stack[w]) \in Nat
      /\ Len(stack[w]) > 0
      /\ \A i \in 1..Len(s) : s[i] = stack[w][i + 1]
  BY <1>1
<1>3. stack' = [stack EXCEPT ![w] = n]
  OBVIOUS
<1> HIDE DEF s
<1>4. n \in Seq(FrameType) /\ Len(n) = Len(s) + 1 /\ n[1] = f
      /\ \A i \in 1..Len(s) : n[i + 1] = s[i]
  <2>1. <<f>> \in Seq(FrameType) /\ Len(<<f>>) = 1 /\ <<f>>[1] = f
    OBVIOUS
  <2> QED
    BY <1>2, <2>1
<1> HIDE DEF n
<1>5. \A i \in 1..Len(stack[w]) : i > 1 => n[i] = stack[w][i]
  <2> TAKE i \in 1..Len(stack[w])
  <2> HAVE i > 1
  <2>1. i - 1 \in 1..Len(s) /\ (i - 1) + 1 = i
    BY <1>2
  <2> QED
    BY <1>2, <1>4, <2>1
<1> QED
  BY <1>1, <1>2, <1>3, <1>4, <1>5 DEF SetsTop, StackType

\* tpc_sync is entered or left.
LEMMA SyncSet ==
  ASSUME PoolTypeOK, NEW w \in Workers, stack[w] # <<>>, NEW v \in All \cup {None},
         stack' = [stack EXCEPT ![w][1].sync = v]
  PROVE  SetsTop(w, [stack[w][1] EXCEPT !.sync = v]) /\ StackType'
<1>1. stack[w] \in Seq(FrameType) /\ stack \in [Workers -> Seq(FrameType)]
  BY Elements DEF PoolTypeOK, FrameType
<1>2. 1 \in 1..Len(stack[w]) /\ Len(stack[w]) > 0
  BY <1>1
<1> DEFINE f == [stack[w][1] EXCEPT !.sync = v]
           n == [stack[w] EXCEPT ![1] = f]
<1>3. f \in FrameType
  <2>1. stack[w][1] \in FrameType
    BY <1>1, <1>2
  <2>2. \A r \in FrameType : [r EXCEPT !.sync = v] \in FrameType
    BY DEF FrameType
  <2> QED
    BY <2>1, <2>2
<1>4. stack' = [stack EXCEPT ![w] = n]
  OBVIOUS
<1> HIDE DEF f
<1>5. n \in Seq(FrameType) /\ Len(n) = Len(stack[w]) /\ n[1] = f
      /\ \A i \in 1..Len(stack[w]) : i > 1 => n[i] = stack[w][i]
  BY <1>1, <1>2, <1>3
<1> HIDE DEF n
<1>6. SetsTop(w, f) /\ StackType'
  BY <1>1, <1>2, <1>4, <1>5 DEF SetsTop, StackType
<1> QED
  BY <1>6 DEF f

\* tdeque_enqueue, when there is room.
LEMMA AppendAdds ==
  ASSUME PoolTypeOK, NEW w \in Workers, NEW t \in Tasks, Len(deque[w]) < DequeSize,
         deque' = [deque EXCEPT ![w] = Append(@, t)]
  PROVE  Adds(w, t) /\ DequeType'
<1>1. deque[w] \in Seq(Tasks) /\ deque \in [Workers -> Seq(Tasks)]
      /\ \A x \in Workers : Len(deque[x]) <= DequeSize
  BY Elements DEF PoolTypeOK
<1> DEFINE n == Append(deque[w], t)
<1>2. n \in Seq(Tasks) /\ Len(n) = Len(deque[w]) + 1 /\ n[Len(deque[w]) + 1] = t
      /\ \A i \in 1..Len(deque[w]) : n[i] = deque[w][i]
  BY <1>1
<1>3. deque' = [deque EXCEPT ![w] = n]
  OBVIOUS
<1>4. Len(n) <= DequeSize
  BY <1>1, <1>2, PoolAssumption
<1> HIDE DEF n
<1> QED
  BY <1>1, <1>2, <1>3, <1>4 DEF Adds, DequeType

\* pop_task takes the latest.
LEMMA FrontRemoves ==
  ASSUME PoolTypeOK, NEW w \in Workers, deque[w] # <<>>,
         deque' = [deque EXCEPT ![w] = SubSeq(@, 1, Len(@) - 1)]
  PROVE  Removes(w, Len(deque[w])) /\ DequeType'
<1>1. deque[w] \in Seq(Tasks) /\ deque \in [Workers -> Seq(Tasks)]
      /\ \A x \in Workers : Len(deque[x]) <= DequeSize
  BY Elements DEF PoolTypeOK
<1> DEFINE n == SubSeq(deque[w], 1, Len(deque[w]) - 1)
<1>2. n \in Seq(Tasks) /\ Len(n) = Len(deque[w]) - 1 /\ Len(deque[w]) \in 1..Len(deque[w])
      /\ \A i \in 1..Len(n) : n[i] = deque[w][i] /\ i < Len(deque[w])
  <2>1. Len(deque[w]) \in Nat /\ Len(deque[w]) > 0
    BY <1>1
  <2>2. \A i \in 1..(Len(deque[w]) - 1) : deque[w][i] \in Tasks
    BY <1>1
  <2>3. /\ n \in Seq(Tasks)
        /\ Len(n) = IF 1 <= Len(deque[w]) - 1 THEN (Len(deque[w]) - 1) - 1 + 1 ELSE 0
        /\ \A i \in 1..((Len(deque[w]) - 1) - 1 + 1) : n[i] = deque[w][1 + i - 1]
    BY <2>1, <2>2, SubSeqProperties
  <2> QED
    BY <2>1, <2>3
<1>3. deque' = [deque EXCEPT ![w] = n]
  OBVIOUS
<1>4. Len(n) <= DequeSize
  BY <1>1, <1>2, PoolAssumption
<1> HIDE DEF n
<1> QED
  BY <1>1, <1>2, <1>3, <1>4 DEF Removes, DequeType

\* steal_task takes the oldest.
LEMMA TailRemoves ==
  ASSUME PoolTypeOK, NEW q \in Workers, deque[q] # <<>>,
         deque' = [deque EXCEPT ![q] = Tail(@)]
  PROVE  Removes(q, 1) /\ DequeType' /\ Head(deque[q]) = deque[q][1]
<1>1. deque[q] \in Seq(Tasks) /\ deque \in [Workers -> Seq(Tasks)]
      /\ \A x \in Workers : Len(deque[x]) <= DequeSize
  BY Elements DEF PoolTypeOK
<1> DEFINE n == Tail(deque[q])
<1>2. n \in Seq(Tasks) /\ Len(n) = Len(deque[q]) - 1 /\ 1 \in 1..Len(deque[q])
      /\ (\A i \in 1..Len(n) : n[i] = deque[q][i + 1]) /\ Head(deque[q]) = deque[q][1]
  BY <1>1
<1>3. deque' = [deque EXCEPT ![q] = n]
  OBVIOUS
<1>4. Len(n) <= DequeSize
  BY <1>1, <1>2, PoolAssumption
<1> HIDE DEF n
<1> QED
  BY <1>1, <1>2, <1>3, <1>4 DEF Removes, DequeType

-----------------------------------------------------------------------------
(* The places of tasks and what the threads remember of them *)

\* The condition under which stacks may stay as they are: below the top no
\* activity ends, and none leaves tpc_sync.
Calm ==
  /\ \A u \in All : pc[u] = "idle" <=> pc'[u] = "idle"
  /\ \A u \in All : pc[u] = "done" => pc'[u] = "done"
  /\ \A w \in Workers : \A i \in 1..Len(stack[w]) :
       /\ i > 1 => pc'[stack[w][i].task] # "done"
       /\ stack[w][i].sync # None => pc'[stack[w][i].task] = "run"

\* The thread that runs an activity has it on top of its stack.
LEMMA RunsTop ==
  ASSUME PoolTypeOK, NEW w \in Workers, NEW a, Runs(w, a)
  PROVE  /\ place[w] = "loop" /\ stack[w] # <<>> /\ Len(stack[w]) > 0
         /\ stack[w][1].task = a /\ stack[w][1].sync = None
         /\ stack[w][1] = Top(w)
<1>1. stack[w] \in Seq(FrameType) /\ stack[w] # <<>>
  BY Elements DEF Runs
<1>2. Len(stack[w]) > 0 /\ Head(stack[w]) = stack[w][1]
  BY <1>1
<1> QED
  BY <1>1, <1>2 DEF Runs, Top

\* A step of the activity on top disturbs no frame.
LEMMA GoesCalmly ==
  ASSUME PoolTypeOK, Places, NEW w \in Workers, NEW a \in All, Runs(w, a), Goes(a)
  PROVE  Calm
<1>1. Len(stack[w]) \in Nat /\ Len(stack[w]) > 0 /\ stack[w][1].task = a /\ stack[w][1].sync = None
  BY RunsTop, Elements
<1>2. 1 \in 1..Len(stack[w])
  BY <1>1
<1>3. ASSUME NEW x \in Workers, NEW i \in 1..Len(stack[x])
      PROVE  /\ i > 1 => pc'[stack[x][i].task] # "done"
             /\ stack[x][i].sync # None => pc'[stack[x][i].task] = "run"
  <2>1. stack[x][i].task \in All
    BY Elements DEF FrameType
  <2>2. CASE stack[x][i].task = a
    <3>1. x = w /\ i = 1
      BY <1>1, <1>2, <2>2 DEF Places, UniqueFrames
    <3> QED
      BY <1>1, <3>1
  <2>3. CASE stack[x][i].task # a
    BY <2>1, <2>3 DEF Goes, Places, FramesInv
  <2> QED
    BY <2>2, <2>3
<1> QED
  BY <1>3 DEF Calm, Goes

\* A step that leaves stacks, deques and the threads' variables.
LEMMA StillPlaces ==
  ASSUME PoolTypeOK, Places, IInv', NoneScheduled, Calm,
         UNCHANGED <<stack, deque, current, creator>>
  PROVE  Places'
<1> USE DEF Places
<1>1. \A u \in All : status[u] >= SCHEDULED => status'[u] >= SCHEDULED
  BY DEF NoneScheduled, IInv, StageInv
<1>2. \A w \in Workers :
        /\ \A i \in 1..Len(stack[w]) : stack[w][i].task \in All
        /\ \A i \in 1..Len(deque[w]) : deque[w][i] \in All
  BY Elements DEF FrameType
<1>3. QueuedInv'
  BY <1>1, <1>2 DEF QueuedInv, Calm
<1>4. FramesInv'
  BY <1>1, <1>2 DEF FramesInv, Calm
<1>5. UniqueFrames' /\ UniqueSlots' /\ Apart'
  BY DEF UniqueFrames, UniqueSlots, Apart
<1>6. HeldInv'
  BY DEF HeldInv, Calm, NoneScheduled
<1>7. ChainInv'
  <2>1. \A w \in Workers : Len(stack[w]) > 0 => (Begun(w)' <=> Begun(w))
    <3> TAKE w \in Workers
    <3> HAVE Len(stack[w]) > 0
    <3>1. 1 \in 1..Len(stack[w])
      BY Elements
    <3> QED
      BY <1>2, <3>1 DEF Begun, Calm
  <2>2. \A w \in Workers : Len(stack[w]) \in Nat
    BY Elements
  <2> QED
    BY <2>1, <2>2 DEF ChainInv
<1>8. MainInv'
  BY DEF MainInv
<1> QED
  BY <1>3, <1>4, <1>5, <1>6, <1>7, <1>8

\* A deque gets a task that was just scheduled.
LEMMA AddPlaces ==
  ASSUME PoolTypeOK, Places, IInv', Calm, NEW w \in Workers, NEW t \in Tasks,
         status[t] = CREATED, status'[t] = SCHEDULED, pc[t] = "idle", pc'[t] = "idle",
         \A u \in Tasks : u # t => status'[u] = status[u],
         Adds(w, t), UNCHANGED <<stack, current, creator>>
  PROVE  Places'
<1> USE DEF Places
<1> DEFINE n == Len(deque[w])
<1>1. n \in Nat /\ Len(deque'[w]) = n + 1 /\ deque'[w][n + 1] = t
      /\ (\A i \in 1..n : deque'[w][i] = deque[w][i])
      /\ \A x \in Workers : x # w => deque'[x] = deque[x]
  BY Elements DEF Adds
<1>2. \A x \in Workers :
        /\ Len(stack[x]) \in Nat
        /\ \A i \in 1..Len(stack[x]) : stack[x][i].task \in All
        /\ \A i \in 1..Len(deque[x]) : deque[x][i] \in All
  BY Elements DEF FrameType
<1>3. \A u \in All : status[u] >= SCHEDULED => status'[u] >= SCHEDULED
  BY DEF IInv, StageInv
<1>4. \A x \in Workers :
        /\ \A i \in 1..Len(stack[x]) : stack[x][i].task # t
        /\ \A i \in 1..Len(deque[x]) : deque[x][i] # t
  BY DEF FramesInv, QueuedInv
<1>5. \A x \in Workers : \A i \in 1..Len(deque'[x]) :
        \/ x = w /\ i = n + 1 /\ deque'[x][i] = t
        \/ i \in 1..Len(deque[x]) /\ deque'[x][i] = deque[x][i]
  BY <1>1
<1> HIDE DEF n
<1>6. QueuedInv'
  BY <1>2, <1>3, <1>5 DEF QueuedInv, Calm
<1>7. FramesInv'
  BY <1>2, <1>3 DEF FramesInv, Calm
<1>8. UniqueFrames'
  BY DEF UniqueFrames
<1>9. UniqueSlots'
  <2> SUFFICES ASSUME NEW x \in Workers, NEW y \in Workers,
                      NEW i \in 1..Len(deque'[x]), NEW j \in 1..Len(deque'[y]),
                      deque'[x][i] = deque'[y][j]
               PROVE  x = y /\ i = j
    BY DEF UniqueSlots
  <2>1. \/ x = w /\ i = n + 1 /\ deque'[x][i] = t
        \/ i \in 1..Len(deque[x]) /\ deque'[x][i] = deque[x][i]
    BY <1>5
  <2>2. \/ y = w /\ j = n + 1 /\ deque'[y][j] = t
        \/ j \in 1..Len(deque[y]) /\ deque'[y][j] = deque[y][j]
    BY <1>5
  <2> QED
    BY <1>4, <2>1, <2>2 DEF UniqueSlots
<1>10. Apart'
  BY <1>4, <1>5 DEF Apart
<1>11. HeldInv'
  <2> SUFFICES ASSUME NEW u \in Tasks, status'[u] >= SCHEDULED, pc'[u] # "done"
               PROVE  \/ \E x \in Workers : \E i \in 1..Len(deque'[x]) : deque'[x][i] = u
                      \/ \E x \in Workers : \E i \in 1..Len(stack'[x]) : stack'[x][i].task = u
    BY DEF HeldInv
  <2>1. CASE u = t
    <3>1. n + 1 \in 1..Len(deque'[w])
      BY <1>1 DEF n
    <3> QED
      BY <1>1, <2>1, <3>1 DEF n
  <2>2. CASE u # t
    <3>1. status[u] >= SCHEDULED /\ pc[u] # "done"
      BY <2>2 DEF Calm
    <3>2. \A x \in Workers : \A i \in 1..Len(deque[x]) :
            i \in 1..Len(deque'[x]) /\ deque'[x][i] = deque[x][i]
      BY <1>1 DEF n
    <3> QED
      BY <3>1, <3>2 DEF HeldInv
  <2> QED
    BY <2>1, <2>2
<1>12. ChainInv'
  <2>1. \A x \in Workers : Len(stack[x]) > 0 => (Begun(x)' <=> Begun(x))
    <3> TAKE x \in Workers
    <3> HAVE Len(stack[x]) > 0
    <3>1. 1 \in 1..Len(stack[x])
      BY Elements
    <3> QED
      BY <1>2, <3>1 DEF Begun, Calm
  <2> QED
    BY <1>2, <2>1 DEF ChainInv
<1>13. MainInv'
  BY DEF MainInv
<1> QED
  BY <1>6, <1>7, <1>8, <1>9, <1>10, <1>11, <1>12, <1>13

\* A task starts to be executed on top of a stack: what becomes of the frames.
LEMMA PushFrames ==
  ASSUME PoolTypeOK, Places, Calm, NEW w \in Workers, NEW t \in Tasks,
         Pushes(w, Frame(t, None)), UNCHANGED <<current, creator>>,
         \A u \in All : status[u] >= SCHEDULED => status'[u] >= SCHEDULED,
         status'[t] >= SCHEDULED, pc'[t] = "idle",
         \A x \in Workers : \A i \in 1..Len(stack[x]) : stack[x][i].task # t,
         Len(stack[w]) > 0 => pc'[stack[w][1].task] \notin {"idle", "done"}
  PROVE  FramesInv' /\ UniqueFrames' /\ ChainInv' /\ MainInv'
<1> USE DEF Places
<1> DEFINE n == Len(stack[w])
<1>1. /\ n \in Nat /\ Len(stack'[w]) = n + 1
      /\ stack'[w][1].task = t /\ stack'[w][1].sync = None
      /\ (\A i \in 1..n : stack'[w][i + 1] = stack[w][i])
      /\ \A x \in Workers : x # w => stack'[x] = stack[x]
  BY Elements DEF Pushes, Frame
<1>2. \A x \in Workers :
        /\ Len(stack[x]) \in Nat
        /\ \A i \in 1..Len(stack[x]) : stack[x][i].task \in All
  BY Elements DEF FrameType
<1>3. \A i \in 1..n : pc'[stack[w][i].task] \notin {"idle", "done"}
  <2> TAKE i \in 1..n
  <2>1. CASE i = 1
    BY <1>1, <2>1
  <2>2. CASE i > 1
    BY <1>1, <1>2, <2>2 DEF FramesInv, Calm
  <2> QED
    BY <1>1, <2>1, <2>2
<1> HIDE DEF n
<1>4. \A x \in Workers : \A i \in 1..Len(stack'[x]) :
        \/ x = w /\ i = 1 /\ stack'[x][i].task = t /\ stack'[x][i].sync = None
        \/ x = w /\ i - 1 \in 1..n /\ stack'[x][i] = stack[x][i - 1]
        \/ x # w /\ i \in 1..Len(stack[x]) /\ stack'[x][i] = stack[x][i]
  <2> TAKE x \in Workers
  <2> TAKE i \in 1..Len(stack'[x])
  <2>1. CASE x = w /\ i > 1
    <3>1. i - 1 \in 1..n /\ (i - 1) + 1 = i
      BY <1>1, <2>1
    <3> QED
      BY <1>1, <2>1, <3>1
  <2>2. CASE x # w
    BY <1>1, <2>2
  <2>3. CASE x = w /\ i = 1
    BY <1>1, <2>3
  <2> QED
    BY <1>1, <2>1, <2>2, <2>3
<1>5. FramesInv'
  <2> SUFFICES ASSUME NEW x \in Workers, NEW i \in 1..Len(stack'[x])
               PROVE  /\ status'[stack'[x][i].task] >= SCHEDULED
                      /\ i > 1 => pc'[stack'[x][i].task] \notin {"idle", "done"}
                      /\ stack'[x][i].sync # None =>
                           /\ stack'[x][i].sync = stack'[x][i].task
                           /\ pc'[stack'[x][i].task] = "run"
    BY DEF FramesInv
  <2>1. CASE x = w /\ i = 1 /\ stack'[x][i].task = t /\ stack'[x][i].sync = None
    BY <2>1
  <2>2. CASE x = w /\ i - 1 \in 1..n /\ stack'[x][i] = stack[x][i - 1]
    BY <1>2, <1>3, <2>2 DEF FramesInv, Calm, n
  <2>3. CASE x # w /\ i \in 1..Len(stack[x]) /\ stack'[x][i] = stack[x][i]
    BY <1>2, <2>3 DEF FramesInv, Calm
  <2> QED
    BY <1>4, <2>1, <2>2, <2>3
<1>6. UniqueFrames'
  <2> SUFFICES ASSUME NEW x \in Workers, NEW y \in Workers,
                      NEW i \in 1..Len(stack'[x]), NEW j \in 1..Len(stack'[y]),
                      stack'[x][i].task = stack'[y][j].task
               PROVE  x = y /\ i = j
    BY DEF UniqueFrames
  <2> DEFINE Old(v, h, k) == k \in 1..Len(stack[v]) /\ stack'[v][h] = stack[v][k]
  <2>1. \/ x = w /\ i = 1 /\ stack'[x][i].task = t
        \/ x = w /\ Old(x, i, i - 1)
        \/ x # w /\ Old(x, i, i)
    BY <1>4 DEF n
  <2>2. \/ y = w /\ j = 1 /\ stack'[y][j].task = t
        \/ y = w /\ Old(y, j, j - 1)
        \/ y # w /\ Old(y, j, j)
    BY <1>4 DEF n
  <2>3. \A k, h : Old(x, i, k) /\ Old(y, j, h) => x = y /\ k = h
    BY DEF UniqueFrames
  <2>4. \A k : (Old(x, i, k) => stack'[x][i].task # t) /\ (Old(y, j, k) => stack'[y][j].task # t)
    OBVIOUS
  <2>5. i \in Int /\ j \in Int
    OBVIOUS
  <2> HIDE DEF Old
  <2> QED
    BY <2>1, <2>2, <2>3, <2>4, <2>5
<1>7. ChainInv'
  <2>1. ~Begun(w)'
    BY <1>1 DEF Begun
  <2>2. n > 0 => Begun(w)
    <3> HAVE n > 0
    <3>1. 1 \in 1..n
      BY <1>1
    <3> QED
      BY <1>2, <1>3, <3>1 DEF Begun, Calm, n
  <2>3. ASSUME NEW i \in 1..Len(stack'[w]), i < Len(stack'[w]), i > 1
        PROVE  stack'[w][i].saved = stack'[w][i + 1].task
    <3>1. /\ i - 1 \in 1..n /\ i \in 1..n /\ (i - 1) + 1 = i
          /\ i - 1 < n /\ n > 0
      BY <1>1, <2>3
    <3>2. stack'[w][i] = stack[w][i - 1] /\ stack'[w][i + 1] = stack[w][i]
      BY <1>1, <3>1
    <3>3. stack[w][i - 1].saved = stack[w][i].task
      BY <2>2, <3>1 DEF ChainInv, n
    <3> QED
      BY <3>2, <3>3
  <2>4. Len(stack'[w]) > 1 =>
          current'[w] = stack'[w][2].task /\ creator'[w] = stack'[w][2].task
    <3> HAVE Len(stack'[w]) > 1
    <3>1. n > 0 /\ 1 \in 1..n /\ 1 + 1 = 2
      BY <1>1
    <3>2. stack'[w][2] = stack[w][1]
      BY <1>1, <3>1
    <3> QED
      BY <2>2, <3>1, <3>2 DEF ChainInv, n
  <2>5. ASSUME NEW x \in Workers, x # w
        PROVE  Len(stack[x]) > 0 => (Begun(x)' <=> Begun(x))
    <3> HAVE Len(stack[x]) > 0
    <3>1. 1 \in 1..Len(stack[x])
      BY <1>2
    <3> QED
      BY <1>1, <1>2, <2>5, <3>1 DEF Begun, Calm
  <2> SUFFICES ASSUME NEW x \in Workers
               PROVE  /\ \A i \in 1..Len(stack'[x]) :
                           i < Len(stack'[x]) /\ (i > 1 \/ Begun(x)') =>
                             stack'[x][i].saved = stack'[x][i + 1].task
                      /\ Len(stack'[x]) > 0 /\ Begun(x)' =>
                           current'[x] = stack'[x][1].task /\ creator'[x] = stack'[x][1].task
                      /\ Len(stack'[x]) > 1 /\ ~Begun(x)' =>
                           current'[x] = stack'[x][2].task /\ creator'[x] = stack'[x][2].task
    BY DEF ChainInv
  <2>6. CASE x = w
    BY <2>1, <2>3, <2>4, <2>6
  <2>7. CASE x # w
    <3>1. stack'[x] = stack[x] /\ Len(stack[x]) \in Nat
      BY <1>1, <1>2, <2>7
    <3> QED
      BY <2>5, <2>7, <3>1 DEF ChainInv
  <2> QED
    BY <2>6, <2>7
<1>8. MainInv'
  <2>1. CASE w = Master
    <3>1. n \in 1..n /\ n > 0 /\ stack[w][n].task = Main
      BY <1>1, <2>1 DEF MainInv, n
    <3>2. stack'[w][n + 1] = stack[w][n]
      BY <1>1, <3>1
    <3> QED
      BY <1>1, <2>1, <3>1, <3>2 DEF MainInv
  <2>2. CASE w # Master
    BY <1>1, <2>2, PoolAssumption DEF MainInv
  <2> QED
    BY <2>1, <2>2
<1> QED
  BY <1>5, <1>6, <1>7, <1>8

\* Where the frames are after a push.
LEMMA PushedFrames ==
  ASSUME PoolTypeOK, NEW w \in Workers, NEW t \in Tasks, Pushes(w, Frame(t, None))
  PROVE  /\ \A x \in Workers : \A i \in 1..Len(stack'[x]) :
              \/ stack'[x][i].task = t
              \/ \E k \in 1..Len(stack[x]) : stack'[x][i] = stack[x][k]
         /\ \A x \in Workers : \A k \in 1..Len(stack[x]) :
              \E i \in 1..Len(stack'[x]) : stack'[x][i] = stack[x][k]
         /\ 1 \in 1..Len(stack'[w]) /\ stack'[w][1].task = t
<1>1. /\ Len(stack[w]) \in Nat /\ Len(stack'[w]) = Len(stack[w]) + 1
      /\ stack'[w][1].task = t
      /\ (\A i \in 1..Len(stack[w]) : stack'[w][i + 1] = stack[w][i])
      /\ \A x \in Workers : x # w => stack'[x] = stack[x]
  BY Elements DEF Pushes, Frame
<1>2. ASSUME NEW x \in Workers, NEW i \in 1..Len(stack'[x])
      PROVE  \/ stack'[x][i].task = t
             \/ \E k \in 1..Len(stack[x]) : stack'[x][i] = stack[x][k]
  <2>1. CASE x = w /\ i > 1
    <3>1. i - 1 \in 1..Len(stack[w]) /\ (i - 1) + 1 = i
      BY <1>1, <2>1
    <3> QED
      BY <1>1, <2>1, <3>1
  <2> QED
    BY <1>1, <2>1
<1>3. ASSUME NEW x \in Workers, NEW k \in 1..Len(stack[x])
      PROVE  \E i \in 1..Len(stack'[x]) : stack'[x][i] = stack[x][k]
  <2>1. CASE x = w
    <3>1. k + 1 \in 1..Len(stack'[w])
      BY <1>1, <2>1
    <3> QED
      BY <1>1, <2>1, <3>1
  <2> QED
    BY <1>1, <2>1
<1>4. 1 \in 1..Len(stack'[w]) /\ stack'[w][1].task = t
  BY <1>1
<1> QED
  BY <1>2, <1>3, <1>4, Zenon

\* schedule_task executes the task at once, on top of who scheduled it.
LEMMA InlinePlaces ==
  ASSUME PoolTypeOK, Places, IInv', Calm, NEW w \in Workers, NEW t \in Tasks,
         status[t] = CREATED, status'[t] = SCHEDULED, pc[t] = "idle", pc'[t] = "idle",
         \A u \in Tasks : u # t => status'[u] = status[u],
         Pushes(w, Frame(t, None)), UNCHANGED <<deque, current, creator>>,
         Len(stack[w]) > 0 => pc'[stack[w][1].task] \notin {"idle", "done"}
  PROVE  Places'
<1> USE DEF Places
<1>1. \A u \in All : status[u] >= SCHEDULED => status'[u] >= SCHEDULED
  BY DEF IInv, StageInv
<1>2. \A x \in Workers :
        /\ \A i \in 1..Len(stack[x]) : stack[x][i].task # t
        /\ \A i \in 1..Len(deque[x]) : deque[x][i] # t /\ deque[x][i] \in All
  <2>1. \A x \in Workers : \A i \in 1..Len(deque[x]) : deque[x][i] \in All
    BY Elements
  <2>2. \A x \in Workers :
          /\ \A i \in 1..Len(stack[x]) : stack[x][i].task # t
          /\ \A i \in 1..Len(deque[x]) : deque[x][i] # t
    BY DEF FramesInv, QueuedInv
  <2> QED
    BY <2>1, <2>2
<1>3. FramesInv' /\ UniqueFrames' /\ ChainInv' /\ MainInv'
  BY <1>1, <1>2, PushFrames
<1>4. QueuedInv' /\ UniqueSlots'
  BY <1>1, <1>2 DEF QueuedInv, UniqueSlots, Calm
<1>5. Apart'
  <2> SUFFICES ASSUME NEW x \in Workers, NEW y \in Workers,
                      NEW i \in 1..Len(deque[x]), NEW j \in 1..Len(stack'[y]),
                      deque[x][i] = stack'[y][j].task
               PROVE  FALSE
    BY DEF Apart
  <2>1. stack'[y][j].task # t
    BY <1>2
  <2>2. PICK k \in 1..Len(stack[y]) : stack'[y][j] = stack[y][k]
    BY <2>1, PushedFrames
  <2> QED
    BY <2>2 DEF Apart
<1>6. HeldInv'
  <2> SUFFICES ASSUME NEW u \in Tasks, status'[u] >= SCHEDULED, pc'[u] # "done"
               PROVE  \/ \E x \in Workers : \E i \in 1..Len(deque'[x]) : deque'[x][i] = u
                      \/ \E x \in Workers : \E i \in 1..Len(stack'[x]) : stack'[x][i].task = u
    BY DEF HeldInv
  <2>1. CASE u = t
    BY <2>1, PushedFrames
  <2>2. CASE u # t
    <3>1. status[u] >= SCHEDULED /\ pc[u] # "done"
      BY <2>2 DEF Calm
    <3>2. CASE \E x \in Workers : \E i \in 1..Len(deque[x]) : deque[x][i] = u
      BY <3>2
    <3>3. CASE \E x \in Workers : \E i \in 1..Len(stack[x]) : stack[x][i].task = u
      <4>1. PICK x \in Workers : \E k \in 1..Len(stack[x]) : stack[x][k].task = u
        BY <3>3
      <4>2. PICK k \in 1..Len(stack[x]) : stack[x][k].task = u
        BY <4>1
      <4>3. PICK i \in 1..Len(stack'[x]) : stack'[x][i] = stack[x][k]
        BY PushedFrames
      <4> QED
        BY <4>2, <4>3
    <3> QED
      BY <3>1, <3>2, <3>3 DEF HeldInv
  <2> QED
    BY <2>1, <2>2
<1> QED
  BY <1>3, <1>4, <1>5, <1>6

\* Where the tasks of the deques are after one was taken.
LEMMA RemovedSlots ==
  ASSUME PoolTypeOK, NEW q \in Workers, NEW k, Removes(q, k)
  PROVE  /\ \A x \in Workers : \A i \in 1..Len(deque'[x]) :
              \/ x = q /\ i < k /\ i \in 1..Len(deque[x]) /\ deque'[x][i] = deque[x][i]
              \/ x = q /\ i + 1 > k /\ i + 1 \in 1..Len(deque[x])
                   /\ deque'[x][i] = deque[x][i + 1] /\ ~(i < k)
              \/ x # q /\ i \in 1..Len(deque[x]) /\ deque'[x][i] = deque[x][i]
         /\ \A x \in Workers : \A i \in 1..Len(deque[x]) :
              x # q \/ i # k => \E j \in 1..Len(deque'[x]) : deque'[x][j] = deque[x][i]
<1>1. /\ Len(deque[q]) \in Nat /\ k \in 1..Len(deque[q]) /\ Len(deque'[q]) = Len(deque[q]) - 1
      /\ \A i \in 1..Len(deque'[q]) :
           deque'[q][i] = IF i < k THEN deque[q][i] ELSE deque[q][i + 1]
      /\ \A x \in Workers : x # q => deque'[x] = deque[x]
  BY Elements DEF Removes
<1>2. ASSUME NEW x \in Workers, NEW i \in 1..Len(deque'[x])
      PROVE  \/ x = q /\ i < k /\ i \in 1..Len(deque[x]) /\ deque'[x][i] = deque[x][i]
             \/ x = q /\ i + 1 > k /\ i + 1 \in 1..Len(deque[x])
                  /\ deque'[x][i] = deque[x][i + 1] /\ ~(i < k)
             \/ x # q /\ i \in 1..Len(deque[x]) /\ deque'[x][i] = deque[x][i]
  BY <1>1
<1>3. ASSUME NEW x \in Workers, NEW i \in 1..Len(deque[x]), x # q \/ i # k
      PROVE  \E j \in 1..Len(deque'[x]) : deque'[x][j] = deque[x][i]
  <2>1. CASE x # q
    BY <1>1, <2>1
  <2>2. CASE x = q /\ i < k
    BY <1>1, <2>2
  <2>3. CASE x = q /\ i > k
    <3>1. i - 1 \in 1..Len(deque'[q]) /\ (i - 1) + 1 = i /\ ~(i - 1 < k)
      BY <1>1, <2>3
    <3> QED
      BY <1>1, <2>3, <3>1
  <2> QED
    BY <1>1, <1>3, <2>1, <2>2, <2>3
<1> QED
  BY <1>2, <1>3

\* A thread that waits takes a task from a deque and calls execute_task.
LEMMA TakePlaces ==
  ASSUME PoolTypeOK, Places, UNCHANGED vars, NEW w \in Workers,
         NEW q \in Workers, NEW k, Removes(q, k),
         NEW t \in Tasks, t = deque[q][k], Pushes(w, Frame(t, None)),
         UNCHANGED <<current, creator>>,
         Len(stack[w]) > 0 => stack[w][1].sync # None
  PROVE  Places'
<1> USE DEF Places
<1>1. UNCHANGED <<pc, status>>
  BY DEF vars
<1>2. k \in 1..Len(deque[q])
  BY DEF Removes
<1>3. pc[t] = "idle" /\ status[t] >= SCHEDULED
  BY <1>2 DEF QueuedInv
<1>4. \A x \in Workers : \A i \in 1..Len(stack[x]) : stack[x][i].task # t
  BY <1>2 DEF Apart
<1>5. Len(stack[w]) > 0 => pc[stack[w][1].task] = "run"
  <2> HAVE Len(stack[w]) > 0
  <2>1. 1 \in 1..Len(stack[w])
    BY Elements
  <2> QED
    BY <2>1 DEF FramesInv
<1>6. Calm
  BY <1>1 DEF Calm, FramesInv
<1>7. FramesInv' /\ UniqueFrames' /\ ChainInv' /\ MainInv'
  BY <1>1, <1>3, <1>4, <1>5, <1>6, PushFrames
<1> DEFINE Was(x, i, h) == h \in 1..Len(deque[x]) /\ deque'[x][i] = deque[x][h]
                           /\ (x = q => h # k)
<1>8. ASSUME NEW x \in Workers, NEW i \in 1..Len(deque'[x])
      PROVE  \/ x = q /\ i < k /\ Was(x, i, i)
             \/ x = q /\ ~(i < k) /\ Was(x, i, i + 1)
             \/ x # q /\ Was(x, i, i)
  <2>1. i \in Int /\ k \in Int
    BY <1>2
  <2>2. \/ x = q /\ i < k /\ i \in 1..Len(deque[x]) /\ deque'[x][i] = deque[x][i]
        \/ /\ x = q /\ i + 1 > k /\ i + 1 \in 1..Len(deque[x])
           /\ deque'[x][i] = deque[x][i + 1] /\ ~(i < k)
        \/ x # q /\ i \in 1..Len(deque[x]) /\ deque'[x][i] = deque[x][i]
    BY RemovedSlots
  <2>3. i < k => i # k
    BY <2>1
  <2>4. i + 1 > k => i + 1 # k
    BY <2>1
  <2> QED
    BY <2>2, <2>3, <2>4, Zenon
<1>9. \A x \in Workers : \A i \in 1..Len(deque'[x]) : \E h : Was(x, i, h)
  BY <1>8
<1>10. \A x \in Workers : \A i, h : Was(x, i, h) => deque'[x][i] # t
  BY <1>2 DEF UniqueSlots
<1>11. QueuedInv'
  BY <1>1, <1>9 DEF QueuedInv
<1>12. UniqueSlots'
  <2> SUFFICES ASSUME NEW x \in Workers, NEW y \in Workers,
                      NEW i \in 1..Len(deque'[x]), NEW j \in 1..Len(deque'[y]),
                      deque'[x][i] = deque'[y][j]
               PROVE  x = y /\ i = j
    BY DEF UniqueSlots
  <2>1. ASSUME NEW h, NEW g, Was(x, i, h), Was(y, j, g)
        PROVE  x = y /\ h = g
    <3>1. /\ h \in 1..Len(deque[x]) /\ g \in 1..Len(deque[y])
          /\ deque[x][h] = deque[y][g]
      BY <2>1
    <3> QED
      BY <3>1 DEF UniqueSlots
  <2>2. \/ x = q /\ i < k /\ Was(x, i, i)
        \/ x = q /\ ~(i < k) /\ Was(x, i, i + 1)
        \/ x # q /\ Was(x, i, i)
    BY <1>8
  <2>3. \/ y = q /\ j < k /\ Was(y, j, j)
        \/ y = q /\ ~(j < k) /\ Was(y, j, j + 1)
        \/ y # q /\ Was(y, j, j)
    BY <1>8
  <2>4. i \in Int /\ j \in Int /\ k \in Int
    BY <1>2
  <2> HIDE DEF Was
  <2> QED
    BY <2>1, <2>2, <2>3, <2>4
<1>13. Apart'
  <2> SUFFICES ASSUME NEW x \in Workers, NEW y \in Workers,
                      NEW i \in 1..Len(deque'[x]), NEW j \in 1..Len(stack'[y]),
                      deque'[x][i] = stack'[y][j].task
               PROVE  FALSE
    BY DEF Apart
  <2>1. PICK h : Was(x, i, h)
    BY <1>9
  <2>2. stack'[y][j].task # t
    BY <1>10, <2>1
  <2>3. PICK g \in 1..Len(stack[y]) : stack'[y][j] = stack[y][g]
    BY <2>2, PushedFrames
  <2> QED
    BY <2>1, <2>3 DEF Apart
<1>14. HeldInv'
  <2> SUFFICES ASSUME NEW u \in Tasks, status[u] >= SCHEDULED, pc[u] # "done"
               PROVE  \/ \E x \in Workers : \E i \in 1..Len(deque'[x]) : deque'[x][i] = u
                      \/ \E x \in Workers : \E i \in 1..Len(stack'[x]) : stack'[x][i].task = u
    BY <1>1 DEF HeldInv
  <2>1. CASE u = t
    BY <2>1, PushedFrames
  <2>2. CASE u # t /\ \E x \in Workers : \E i \in 1..Len(deque[x]) : deque[x][i] = u
    <3>1. PICK x \in Workers : \E i \in 1..Len(deque[x]) : deque[x][i] = u
      BY <2>2
    <3>2. PICK i \in 1..Len(deque[x]) : deque[x][i] = u
      BY <3>1
    <3>3. x # q \/ i # k
      BY <2>2, <3>2
    <3>4. PICK j \in 1..Len(deque'[x]) : deque'[x][j] = deque[x][i]
      BY <3>3, RemovedSlots
    <3> QED
      BY <3>2, <3>4
  <2>3. CASE \E x \in Workers : \E i \in 1..Len(stack[x]) : stack[x][i].task = u
    <3>1. PICK x \in Workers : \E h \in 1..Len(stack[x]) : stack[x][h].task = u
      BY <2>3
    <3>2. PICK h \in 1..Len(stack[x]) : stack[x][h].task = u
      BY <3>1
    <3>3. PICK i \in 1..Len(stack'[x]) : stack'[x][i] = stack[x][h]
      BY PushedFrames
    <3> QED
      BY <3>2, <3>3
  <2> QED
    BY <2>1, <2>2, <2>3 DEF HeldInv
<1> QED
  BY <1>7, <1>11, <1>12, <1>13, <1>14

\* The frame on top is changed while its task is under way: the prologue of
\* execute_task, and the two ends of tpc_sync.
LEMMA SetTopPlaces ==
  ASSUME PoolTypeOK, Places, status' = status, NEW w \in Workers, NEW f,
         SetsTop(w, f), f.task = stack[w][1].task, UNCHANGED deque,
         \A u \in All : u # f.task => pc'[u] = pc[u],
         pc[f.task] # "done", pc'[f.task] \notin {"idle", "done"},
         f.sync # None => f.sync = f.task /\ pc'[f.task] = "run",
         Len(stack[w]) > 1 => f.saved = stack[w][2].task,
         current'[w] = f.task, creator'[w] = f.task,
         \A x \in Workers : x # w => current'[x] = current[x] /\ creator'[x] = creator[x]
  PROVE  Places'
<1> USE DEF Places
<1>1. /\ Len(stack[w]) \in Nat /\ Len(stack[w]) > 0 /\ Len(stack'[w]) = Len(stack[w])
      /\ stack'[w][1] = f
      /\ (\A i \in 1..Len(stack[w]) : i > 1 => stack'[w][i] = stack[w][i])
      /\ \A x \in Workers : x # w => stack'[x] = stack[x]
  BY Elements DEF SetsTop
<1>2. \A x \in Workers :
        /\ Len(stack[x]) \in Nat /\ Len(stack'[x]) = Len(stack[x])
        /\ \A i \in 1..Len(stack[x]) : stack[x][i].task \in All
        /\ \A i \in 1..Len(deque[x]) : deque[x][i] \in All
  BY <1>1, Elements DEF FrameType
<1>3. 1 \in 1..Len(stack[w])
  BY <1>1
<1>4. \A x \in Workers : \A i \in 1..Len(stack[x]) :
        \/ x = w /\ i = 1
        \/ stack'[x][i] = stack[x][i] /\ stack[x][i].task # f.task
  <2> TAKE x \in Workers
  <2> TAKE i \in 1..Len(stack[x])
  <2>1. stack[x][i].task = f.task => x = w /\ i = 1
    BY <1>3 DEF UniqueFrames
  <2>2. x # w => stack'[x][i] = stack[x][i]
    BY <1>1
  <2>3. x = w /\ i # 1 => stack'[x][i] = stack[x][i]
    BY <1>1
  <2> QED
    BY <2>1, <2>2, <2>3
<1>5. \A x \in Workers : \A i \in 1..Len(stack[x]) : stack'[x][i].task = stack[x][i].task
  BY <1>1, <1>4
<1>6. QueuedInv'
  <2>1. \A x \in Workers : \A i \in 1..Len(deque[x]) : deque[x][i] # f.task
    BY <1>3 DEF Apart
  <2> QED
    BY <1>2, <2>1 DEF QueuedInv
<1>7. FramesInv'
  <2> SUFFICES ASSUME NEW x \in Workers, NEW i \in 1..Len(stack[x])
               PROVE  /\ status[stack'[x][i].task] >= SCHEDULED
                      /\ i > 1 => pc'[stack'[x][i].task] \notin {"idle", "done"}
                      /\ stack'[x][i].sync # None =>
                           /\ stack'[x][i].sync = stack'[x][i].task
                           /\ pc'[stack'[x][i].task] = "run"
    BY <1>2 DEF FramesInv
  <2>1. CASE x = w /\ i = 1
    BY <1>1, <1>3, <2>1 DEF FramesInv
  <2>2. CASE stack'[x][i] = stack[x][i] /\ stack[x][i].task # f.task
    BY <1>2, <2>2 DEF FramesInv
  <2> QED
    BY <1>4, <2>1, <2>2
<1>8. UniqueFrames' /\ UniqueSlots' /\ Apart'
  <2>1. UniqueFrames'
    BY <1>2, <1>5 DEF UniqueFrames
  <2>2. UniqueSlots'
    BY DEF UniqueSlots
  <2>3. Apart'
    BY <1>2, <1>5 DEF Apart
  <2> QED
    BY <2>1, <2>2, <2>3
<1>9. HeldInv'
  BY <1>2, <1>5 DEF HeldInv
<1>10. ChainInv'
  <2>1. Begun(w)'
    BY <1>1 DEF Begun
  <2>2. ASSUME NEW i \in 1..Len(stack[w]), i < Len(stack[w])
        PROVE  stack'[w][i].saved = stack'[w][i + 1].task
    <3>1. i + 1 \in 1..Len(stack[w])
      BY <1>1, <2>2
    <3>2. stack'[w][i + 1].task = stack[w][i + 1].task
      BY <1>5, <3>1
    <3>3. CASE i = 1
      BY <1>1, <2>2, <3>2, <3>3
    <3>4. CASE i > 1
      BY <1>1, <2>2, <3>2, <3>4 DEF ChainInv
    <3> QED
      BY <3>3, <3>4
  <2>3. ASSUME NEW x \in Workers, x # w
        PROVE  Len(stack[x]) > 0 => (Begun(x)' <=> Begun(x))
    <3> HAVE Len(stack[x]) > 0
    <3>1. 1 \in 1..Len(stack[x])
      BY <1>2
    <3> QED
      BY <1>2, <1>4, <2>3, <3>1 DEF Begun
  <2> SUFFICES ASSUME NEW x \in Workers
               PROVE  /\ \A i \in 1..Len(stack'[x]) :
                           i < Len(stack'[x]) /\ (i > 1 \/ Begun(x)') =>
                             stack'[x][i].saved = stack'[x][i + 1].task
                      /\ Len(stack'[x]) > 0 /\ Begun(x)' =>
                           current'[x] = stack'[x][1].task /\ creator'[x] = stack'[x][1].task
                      /\ Len(stack'[x]) > 1 /\ ~Begun(x)' =>
                           current'[x] = stack'[x][2].task /\ creator'[x] = stack'[x][2].task
    BY DEF ChainInv
  <2>4. CASE x = w
    BY <1>1, <2>1, <2>2, <2>4
  <2>5. CASE x # w
    <3>1. stack'[x] = stack[x] /\ Len(stack[x]) \in Nat
      BY <1>1, <1>2, <2>5
    <3> QED
      BY <2>3, <2>5, <3>1 DEF ChainInv
  <2> QED
    BY <2>4, <2>5
<1>11. MainInv'
  <2>1. Len(stack[Master]) \in 1..Len(stack[Master])
    BY <1>2, PoolAssumption DEF MainInv
  <2> QED
    BY <1>2, <1>5, <2>1, PoolAssumption DEF MainInv
<1> QED
  BY <1>6, <1>7, <1>8, <1>9, <1>10, <1>11

\* execute_task returns to what is below it.
LEMMA PopPlaces ==
  ASSUME PoolTypeOK, Places, UNCHANGED <<status, pc>>, NEW w \in Workers, Pops(w),
         UNCHANGED deque,
         stack[w][1].task \in Tasks, pc[stack[w][1].task] = "done",
         current'[w] = stack[w][1].saved, creator'[w] = stack[w][1].saved,
         \A x \in Workers : x # w => current'[x] = current[x] /\ creator'[x] = creator[x]
  PROVE  Places'
<1> USE DEF Places
<1> DEFINE n == Len(stack'[w])
<1>1. /\ n \in Nat /\ Len(stack[w]) = n + 1
      /\ (\A i \in 1..n : stack'[w][i] = stack[w][i + 1])
      /\ \A x \in Workers : x # w => stack'[x] = stack[x]
  BY Elements DEF Pops
<1>2. \A x \in Workers : Len(stack[x]) \in Nat
  BY Elements
<1> HIDE DEF n
<1>3. \A x \in Workers : \A i \in 1..Len(stack'[x]) :
        \/ x = w /\ i + 1 \in 1..Len(stack[x]) /\ stack'[x][i] = stack[x][i + 1]
        \/ x # w /\ i \in 1..Len(stack[x]) /\ stack'[x][i] = stack[x][i]
  BY <1>1 DEF n
<1>4. ASSUME NEW x \in Workers, NEW k \in 1..Len(stack[x]), x # w \/ k # 1
      PROVE  \E i \in 1..Len(stack'[x]) : stack'[x][i] = stack[x][k]
  <2>1. CASE x = w
    <3>1. k - 1 \in 1..n /\ (k - 1) + 1 = k
      BY <1>1, <1>4, <2>1
    <3> QED
      BY <1>1, <2>1, <3>1 DEF n
  <2> QED
    BY <1>1, <2>1
<1>5. FramesInv'
  <2> SUFFICES ASSUME NEW x \in Workers, NEW i \in 1..Len(stack'[x])
               PROVE  /\ status[stack'[x][i].task] >= SCHEDULED
                      /\ i > 1 => pc[stack'[x][i].task] \notin {"idle", "done"}
                      /\ stack'[x][i].sync # None =>
                           /\ stack'[x][i].sync = stack'[x][i].task
                           /\ pc[stack'[x][i].task] = "run"
    BY DEF FramesInv
  <2>1. CASE x = w /\ i + 1 \in 1..Len(stack[x]) /\ stack'[x][i] = stack[x][i + 1]
    <3>1. i > 1 => i + 1 > 1
      OBVIOUS
    <3> QED
      BY <2>1, <3>1 DEF FramesInv
  <2>2. CASE x # w /\ i \in 1..Len(stack[x]) /\ stack'[x][i] = stack[x][i]
    BY <2>2 DEF FramesInv
  <2> QED
    BY <1>3, <2>1, <2>2
<1>6. UniqueFrames'
  <2> SUFFICES ASSUME NEW x \in Workers, NEW y \in Workers,
                      NEW i \in 1..Len(stack'[x]), NEW j \in 1..Len(stack'[y]),
                      stack'[x][i].task = stack'[y][j].task
               PROVE  x = y /\ i = j
    BY DEF UniqueFrames
  <2> DEFINE Old(v, h, k) == k \in 1..Len(stack[v]) /\ stack'[v][h] = stack[v][k]
  <2>1. (x = w /\ Old(x, i, i + 1)) \/ (x # w /\ Old(x, i, i))
    BY <1>3
  <2>2. (y = w /\ Old(y, j, j + 1)) \/ (y # w /\ Old(y, j, j))
    BY <1>3
  <2>3. \A k, h : Old(x, i, k) /\ Old(y, j, h) => x = y /\ k = h
    BY DEF UniqueFrames
  <2>4. i \in Int /\ j \in Int
    OBVIOUS
  <2> HIDE DEF Old
  <2> QED
    BY <2>1, <2>2, <2>3, <2>4
<1>7. QueuedInv' /\ UniqueSlots'
  BY DEF QueuedInv, UniqueSlots
<1>8. Apart'
  <2> SUFFICES ASSUME NEW x \in Workers, NEW y \in Workers,
                      NEW i \in 1..Len(deque[x]), NEW j \in 1..Len(stack'[y]),
                      deque[x][i] = stack'[y][j].task
               PROVE  FALSE
    BY DEF Apart
  <2>1. \E k \in 1..Len(stack[y]) : stack'[y][j] = stack[y][k]
    BY <1>3
  <2> QED
    BY <2>1 DEF Apart
<1>9. HeldInv'
  <2> SUFFICES ASSUME NEW u \in Tasks, status[u] >= SCHEDULED, pc[u] # "done"
               PROVE  \/ \E x \in Workers : \E i \in 1..Len(deque[x]) : deque[x][i] = u
                      \/ \E x \in Workers : \E i \in 1..Len(stack'[x]) : stack'[x][i].task = u
    BY DEF HeldInv
  <2>1. CASE \E x \in Workers : \E i \in 1..Len(stack[x]) : stack[x][i].task = u
    <3>1. PICK x \in Workers : \E k \in 1..Len(stack[x]) : stack[x][k].task = u
      BY <2>1
    <3>2. PICK k \in 1..Len(stack[x]) : stack[x][k].task = u
      BY <3>1
    <3>3. x # w \/ k # 1
      BY <3>2
    <3>4. PICK i \in 1..Len(stack'[x]) : stack'[x][i] = stack[x][k]
      BY <1>4, <3>3
    <3> QED
      BY <3>2, <3>4
  <2> QED
    BY <2>1 DEF HeldInv
<1>10. ChainInv'
  <2>1. Begun(w)
    BY DEF Begun
  <2>2. ASSUME n > 0
        PROVE  /\ Begun(w)' /\ stack'[w][1] = stack[w][2]
               /\ stack[w][1].saved = stack[w][2].task
    <3>1. 1 \in 1..n /\ 1 \in 1..Len(stack[w]) /\ 2 \in 1..Len(stack[w]) /\ 1 + 1 = 2
      BY <1>1, <2>2
    <3>2. stack'[w][1] = stack[w][2]
      BY <1>1, <3>1
    <3>3. pc[stack[w][2].task] # "idle"
      BY <3>1 DEF FramesInv
    <3>4. stack[w][1].saved = stack[w][2].task
      BY <1>1, <2>1, <2>2, <3>1 DEF ChainInv
    <3> QED
      BY <3>2, <3>3, <3>4 DEF Begun
  <2>3. ASSUME NEW i \in 1..n, i < n
        PROVE  stack'[w][i].saved = stack'[w][i + 1].task
    <3>1. /\ i + 1 \in 1..n /\ i + 1 \in 1..Len(stack[w]) /\ i + 1 > 1
          /\ i + 1 < Len(stack[w])
      BY <1>1, <2>3
    <3>2. stack'[w][i] = stack[w][i + 1] /\ stack'[w][i + 1] = stack[w][(i + 1) + 1]
      BY <1>1, <3>1
    <3>3. stack[w][i + 1].saved = stack[w][(i + 1) + 1].task
      BY <3>1 DEF ChainInv
    <3> QED
      BY <3>2, <3>3
  <2> SUFFICES ASSUME NEW x \in Workers
               PROVE  /\ \A i \in 1..Len(stack'[x]) :
                           i < Len(stack'[x]) /\ (i > 1 \/ Begun(x)') =>
                             stack'[x][i].saved = stack'[x][i + 1].task
                      /\ Len(stack'[x]) > 0 /\ Begun(x)' =>
                           current'[x] = stack'[x][1].task /\ creator'[x] = stack'[x][1].task
                      /\ Len(stack'[x]) > 1 /\ ~Begun(x)' =>
                           current'[x] = stack'[x][2].task /\ creator'[x] = stack'[x][2].task
    BY DEF ChainInv
  <2>4. CASE x = w
    BY <1>1, <2>2, <2>3, <2>4 DEF n
  <2>5. CASE x # w
    <3>1. stack'[x] = stack[x] /\ (Begun(x)' <=> Begun(x))
      BY <1>1, <2>5 DEF Begun
    <3> QED
      BY <2>5, <3>1 DEF ChainInv
  <2> QED
    BY <2>4, <2>5
<1>11. MainInv'
  <2>1. CASE w = Master
    <3>1. n > 0
      BY <1>1, <2>1 DEF MainInv
    <3>2. n \in 1..n /\ stack'[w][n] = stack[w][n + 1]
      BY <1>1, <3>1
    <3> QED
      BY <1>1, <2>1, <3>1, <3>2 DEF MainInv, n
  <2>2. CASE w # Master
    BY <1>1, <2>2, PoolAssumption DEF MainInv
  <2> QED
    BY <2>1, <2>2
<1> QED
  BY <1>5, <1>6, <1>7, <1>8, <1>9, <1>10, <1>11

-----------------------------------------------------------------------------
(* The steps of the pool are steps of TaskLife *)

\* A body that goes on finds the thread's variables naming its task.
LEMMA OwnBody ==
  ASSUME PInv, NEW w \in Workers, NEW a, Runs(w, a), pc[a] # "idle"
  PROVE  current[w] = a /\ creator[w] = a
<1>1. Len(stack[w]) > 0 /\ stack[w][1].task = a
  BY RunsTop DEF PInv
<1>2. Begun(w)
  BY <1>1 DEF Begun
<1> QED
  BY <1>1, <1>2 DEF PInv, Places, ChainInv

\* When all threads are behind the second barrier no activity is under way.
LEMMA NobodyActive ==
  ASSUME IInv, PInv, place[Master] = "out",
         \A w \in Workers \ {Master} : place[w] = "gone"
  PROVE  \A t \in Tasks : pc[t] \in {"idle", "done"}
<1> SUFFICES ASSUME NEW t \in Tasks, pc[t] \notin {"idle", "done"}
             PROVE  FALSE
  OBVIOUS
<1>1. status[t] >= SCHEDULED
  BY DEF IInv, StageInv
<1>2. CASE \E w \in Workers : \E i \in 1..Len(deque[w]) : deque[w][i] = t
  BY <1>2 DEF PInv, Places, QueuedInv
<1>3. CASE \E w \in Workers : \E i \in 1..Len(stack[w]) : stack[w][i].task = t
  <2>1. PICK w \in Workers : \E i \in 1..Len(stack[w]) : stack[w][i].task = t
    BY <1>3
  <2>2. PICK i \in 1..Len(stack[w]) : stack[w][i].task = t
    BY <2>1
  <2>3. w = Master
    BY <2>2 DEF PInv, BarrierInv
  <2>4. Len(stack[Master]) = 1 /\ stack[Master][1].task = Main
    BY DEF PInv, BarrierInv, Places, MainInv
  <2> QED
    BY <2>2, <2>3, <2>4
<1> QED
  BY <1>1, <1>2, <1>3 DEF PInv, Places, HeldInv

\* The second half of tpc_shutdown.
LEMMA EndTearsDown ==
  ASSUME IInv, PInv, End
  PROVE  Teardown
<1>1. pc[Main] = "barrier"
  BY DEF End, PInv, BarrierInv
<1>2. \A t \in Tasks : pc[t] \in {"idle", "done"}
  BY NobodyActive DEF End
<1> QED
  BY <1>1, <1>2 DEF End, Teardown

\* Whatever a thread does is a step of TaskLife or none.
LEMMA LifeStep ==
  ASSUME IInv, PInv, [PoolNext]_poolVars
  PROVE  [Next]_vars
<1>1. CASE UNCHANGED poolVars
  BY <1>1 DEF poolVars
<1>2. CASE OpenStart \/ OpenEnd \/ Over
  BY <1>2 DEF OpenStart, OpenEnd, Over, poolVars
<1>3. CASE Stop
  BY <1>3 DEF Stop, Next
<1>4. CASE End
  BY <1>4, EndTearsDown DEF Next
<1>5. ASSUME NEW w \in Workers,
             \/ Arrive(w) \/ Test(w) \/ GiveUp(w) \/ Synced(w) \/ Leave(w) \/ Exit(w)
             \/ Sync(w) \/ Take(w) \/ \E t \in Tasks : Unwind(w, t)
      PROVE  UNCHANGED vars
  BY <1>5 DEF Arrive, Test, GiveUp, Synced, Leave, Exit, Sync, Take, Unwind
<1>6. ASSUME NEW w \in Workers, \E t \in Tasks : Begin(w, t)
      PROVE  Next
  BY <1>6 DEF Begin, Next
<1>7. ASSUME NEW w \in Workers, NEW t \in Tasks, Create(w, t)
      PROVE  Next
  <2>1. PICK a \in All : Runs(w, a) /\ pc[a] = "run"
    BY <1>7 DEF Create
  <2>2. creator[w] = a
    BY <2>1, OwnBody
  <2>3. Call(a, t)
    BY <1>7, <2>2 DEF Create, Call
  <2> QED
    BY <2>3 DEF Next
<1>8. ASSUME NEW w \in Workers, NEW t \in Tasks, Depend(w, t)
      PROVE  Next
  BY <1>8 DEF Depend, Next
<1>9. ASSUME NEW w \in Workers, Finish(w)
      PROVE  Next
  BY <1>9 DEF Finish, Next
<1>10. ASSUME NEW w \in Workers, Proceed(w) \/ Schedule(w)
       PROVE  Next
  BY <1>10 DEF Proceed, Schedule, Next, Advance
<1>11. ASSUME NEW t \in Tasks, Drain(t)
       PROVE  Next
  BY <1>11 DEF Next
<1> QED
  BY <1>1, <1>2, <1>3, <1>4, <1>5, <1>6, <1>7, <1>8, <1>9, <1>10, <1>11
  DEF PoolNext, Thread, Program

-----------------------------------------------------------------------------
(* Every step keeps the tasks in their places *)

\* A step in which no activity moves.
LEMMA QuietPlaces ==
  ASSUME PoolTypeOK, Places, IInv', pc' = pc, NoneScheduled,
         UNCHANGED <<stack, deque, current, creator>>
  PROVE  Places'
<1>1. Calm
  BY DEF Calm, Places, FramesInv
<1> QED
  BY <1>1, StillPlaces

\* The steps of an activity that schedule nobody.
LEMMA ActivityPlaces ==
  ASSUME IInv, IInv', PInv, NEW w \in Workers, NEW a \in All, Runs(w, a),
         \/ PublishReady(a) \/ StoreWaitfor(a) \/ Publish(a)
         \/ CheckChildren(a) \/ Claim(a) \/ Lock(a) \/ Fire(a)
         \/ Complete(a) \/ Tell(a) \/ Look(a)
         \/ \E t \in Tasks : Call(a, t) \/ Register(a, t)
         \/ a \in Tasks /\ Return(a)
         \/ a = Main /\ Shutdown,
         UNCHANGED <<stack, deque, current, creator>>
  PROVE  Places'
<1>1. Goes(a)
  BY ActivityGoes DEF Advance
<1>2. Calm
  BY <1>1, GoesCalmly DEF PInv
<1>3. NoneScheduled
  BY ActivitySchedulesNone
<1> QED
  BY <1>2, <1>3, StillPlaces DEF PInv

\* schedule_task, at the end of a creation or for the waiter of a release.
LEMMA SchedulePlaces ==
  ASSUME IInv, IInv', PInv, NEW w \in Workers, Schedule(w)
  PROVE  Places'
<1> USE DEF PInv
<1>1. PICK a \in All : Runs(w, a) /\ (ScheduleReady(a) \/ Await(a))
  BY DEF Schedule
<1>2. Goes(a)
  BY <1>1, ActivityGoes DEF Advance
<1>3. Calm
  BY <1>1, <1>2, GoesCalmly
<1>4. UNCHANGED <<current, creator>>
  BY DEF Schedule
<1>5. CASE NewlyScheduled = {} /\ UNCHANGED <<stack, deque>>
  <2>1. NoneScheduled
    BY <1>1, <1>5, ActivitySchedules
  <2> QED
    BY <1>3, <1>4, <1>5, <2>1, StillPlaces
<1>6. ASSUME NEW t \in NewlyScheduled
      PROVE  /\ t \in Tasks /\ status[t] = CREATED /\ status'[t] = SCHEDULED
             /\ pc[t] = "idle" /\ pc'[t] = "idle"
             /\ \A u \in Tasks : u # t => status'[u] = status[u]
  BY <1>1, <1>6, ActivitySchedules
<1>7. ASSUME NEW t \in NewlyScheduled, Len(deque[w]) < DequeSize,
             deque' = [deque EXCEPT ![w] = Append(@, t)], UNCHANGED stack
      PROVE  Places'
  <2>1. Adds(w, t)
    BY <1>6, <1>7, AppendAdds
  <2> QED
    BY <1>3, <1>4, <1>6, <1>7, <2>1, AddPlaces
<1>8. ASSUME NEW t \in NewlyScheduled, Nested(w, t), UNCHANGED deque
      PROVE  Places'
  <2>1. Pushes(w, Frame(t, None))
    BY <1>6, <1>8, NestedPushes
  <2>2. stack[w][1].task = a
    BY <1>1, RunsTop
  <2>3. pc'[a] \notin {"idle", "done"}
    BY <1>1 DEF ScheduleReady, Await, IInv, TypeOK
  <2> QED
    BY <1>3, <1>4, <1>6, <1>8, <2>1, <2>2, <2>3, InlinePlaces
<1> QED
  BY <1>5, <1>7, <1>8 DEF Schedule

\* The prologue of execute_task.
LEMMA BeginPlaces ==
  ASSUME IInv, IInv', PInv, NEW w \in Workers, NEW t \in Tasks, Begin(w, t)
  PROVE  Places' /\ StackType'
<1> USE DEF PInv
<1>1. Runs(w, t) /\ Start(t)
  BY DEF Begin
<1>2. /\ stack[w] # <<>> /\ Len(stack[w]) > 0 /\ Len(stack[w]) \in Nat
      /\ stack[w][1].task = t
  BY <1>1, RunsTop, Elements
<1> DEFINE f == Frame(t, current[w])
<1>3. /\ current[w] \in All \cup {None} /\ current \in [Workers -> All \cup {None}]
      /\ creator \in [Workers -> All \cup {None}]
  BY DEF PoolTypeOK
<1>4. f \in FrameType /\ f.task = t /\ f.saved = current[w] /\ f.sync = None
  BY <1>3 DEF Frame, FrameType
<1>5. stack' = [stack EXCEPT ![w] = <<f>> \o Tail(@)]
  BY DEF Begin
<1> HIDE DEF f
<1>6. SetsTop(w, f) /\ StackType'
  BY <1>2, <1>4, <1>5, TopSet
<1>7. /\ pc[t] = "idle" /\ pc'[t] = "run" /\ status' = status
      /\ \A u \in All : u # t => pc'[u] = pc[u]
  BY <1>1 DEF Start, IInv, TypeOK
<1>8. Len(stack[w]) > 1 => f.saved = stack[w][2].task
  BY <1>2, <1>4, <1>7 DEF Places, ChainInv, Begun
<1>9. /\ current'[w] = t /\ creator'[w] = t /\ UNCHANGED deque
      /\ \A x \in Workers : x # w => current'[x] = current[x] /\ creator'[x] = creator[x]
  BY <1>3 DEF Begin
<1> QED
  BY <1>2, <1>4, <1>6, <1>7, <1>8, <1>9, SetTopPlaces

\* execute_task returns.
LEMMA UnwindPlaces ==
  ASSUME IInv, PInv, NEW w \in Workers, NEW t \in Tasks, Unwind(w, t)
  PROVE  Places' /\ StackType'
<1> USE DEF PInv
<1>1. Runs(w, t) /\ pc[t] = "done" /\ UNCHANGED <<vars, deque>>
  BY DEF Unwind
<1>2. stack[w] # <<>> /\ stack[w][1].task = t /\ Top(w) = stack[w][1]
  BY <1>1, RunsTop
<1>3. Pops(w) /\ StackType'
  BY <1>2, TailPops DEF Unwind
<1>4. /\ current'[w] = stack[w][1].saved /\ creator'[w] = stack[w][1].saved
      /\ \A x \in Workers : x # w => current'[x] = current[x] /\ creator'[x] = creator[x]
  BY <1>2 DEF Unwind, PoolTypeOK
<1>5. UNCHANGED <<status, pc, deque>>
  BY <1>1 DEF vars
<1> QED
  BY <1>1, <1>2, <1>3, <1>4, <1>5, PopPlaces

\* A thread that waits in tpc_sync has its task on top.
LEMMA WaitsTop ==
  ASSUME PInv, NEW w \in Workers, Waits(w)
  PROVE  /\ place[w] = "loop" /\ stack[w] # <<>> /\ Len(stack[w]) > 0
         /\ stack[w][1] = Top(w) /\ stack[w][1].sync # None
         /\ Top(w).sync = stack[w][1].task /\ pc[stack[w][1].task] = "run"
         /\ stack[w][1].task \in All
<1>1. stack[w] \in Seq(FrameType) /\ stack[w] # <<>>
  BY Elements DEF Waits, PInv
<1>2. Len(stack[w]) > 0 /\ Head(stack[w]) = stack[w][1] /\ 1 \in 1..Len(stack[w])
  BY <1>1
<1>3. stack[w][1].task \in All
  BY <1>2, Elements DEF PInv, FrameType
<1> QED
  BY <1>1, <1>2, <1>3 DEF Waits, Top, PInv, Places, FramesInv

\* tpc_sync is entered.
LEMMA SyncPlaces ==
  ASSUME IInv, PInv, NEW w \in Workers, Sync(w)
  PROVE  Places' /\ StackType'
<1> USE DEF PInv
<1>1. PICK a \in All : Runs(w, a) /\ pc[a] = "run"
  BY DEF Sync
<1>2. stack[w] # <<>> /\ Len(stack[w]) > 0 /\ Len(stack[w]) \in Nat /\ stack[w][1].task = a
  BY <1>1, RunsTop, Elements
<1>3. current[w] = a /\ creator[w] = a
  BY <1>1, OwnBody
<1> DEFINE f == [stack[w][1] EXCEPT !.sync = a]
<1>4. stack' = [stack EXCEPT ![w][1].sync = a]
  BY <1>3 DEF Sync
<1>5. 1 \in 1..Len(stack[w])
  BY <1>2
<1>6. f.task = a /\ f.sync = a /\ f.saved = stack[w][1].saved
  <2>1. stack[w][1] \in FrameType
    BY <1>5, Elements
  <2>2. \A r \in FrameType :
          LET g == [r EXCEPT !.sync = a]
          IN  g.task = r.task /\ g.sync = a /\ g.saved = r.saved
    BY DEF FrameType
  <2> QED
    BY <1>2, <2>1, <2>2
<1>7. SetsTop(w, f) /\ StackType'
  BY <1>2, <1>4, SyncSet
<1> HIDE DEF f
<1>8. Len(stack[w]) > 1 => f.saved = stack[w][2].task
  BY <1>1, <1>2, <1>5, <1>6 DEF Places, ChainInv, Begun
<1>9. UNCHANGED <<status, pc, deque, current, creator>>
  BY DEF Sync, vars
<1> QED
  BY <1>1, <1>2, <1>3, <1>6, <1>7, <1>8, <1>9, SetTopPlaces

\* tpc_sync returns.
LEMMA SyncedPlaces ==
  ASSUME IInv, PInv, NEW w \in Workers, Synced(w)
  PROVE  Places' /\ StackType'
<1> USE DEF PInv
<1>1. Waits(w)
  BY DEF Synced
<1>2. PICK a \in All : a = stack[w][1].task
  BY <1>1, WaitsTop
<1>3. /\ stack[w] # <<>> /\ Len(stack[w]) > 0 /\ Len(stack[w]) \in Nat
      /\ Top(w).sync = a /\ pc[a] = "run"
  BY <1>1, <1>2, WaitsTop, Elements
<1> DEFINE f == [stack[w][1] EXCEPT !.sync = None]
<1>4. 1 \in 1..Len(stack[w])
  BY <1>3
<1>5. f.task = a /\ f.sync = None /\ f.saved = stack[w][1].saved
  <2>1. stack[w][1] \in FrameType
    BY <1>4, Elements
  <2>2. \A r \in FrameType :
          LET g == [r EXCEPT !.sync = None]
          IN  g.task = r.task /\ g.sync = None /\ g.saved = r.saved
    BY DEF FrameType
  <2> QED
    BY <1>2, <2>1, <2>2
<1>6. SetsTop(w, f) /\ StackType'
  BY <1>3, SyncSet DEF Synced
<1> HIDE DEF f
<1>7. Len(stack[w]) > 1 => f.saved = stack[w][2].task
  BY <1>2, <1>3, <1>4, <1>5 DEF Places, ChainInv, Begun
<1>8. UNCHANGED <<status, pc, deque>>
  BY DEF Synced, vars
<1>9. /\ current'[w] = a /\ creator'[w] = a
      /\ \A x \in Workers : x # w => current'[x] = current[x] /\ creator'[x] = creator[x]
  BY <1>3 DEF Synced, PoolTypeOK
<1> QED
  BY <1>2, <1>3, <1>5, <1>6, <1>7, <1>8, <1>9, SetTopPlaces

\* pop_task and steal_task.
LEMMA TakeMoves ==
  ASSUME IInv, PInv, NEW w \in Workers, Take(w)
  PROVE  Places' /\ StackType' /\ DequeType'
<1> USE DEF PInv
<1>1. PICK q \in Workers, k \in Nat :
        Removes(q, k) /\ DequeType' /\ Nested(w, deque[q][k])
  <2>1. CASE deque[w] # <<>> /\ Nested(w, deque[w][Len(deque[w])])
             /\ deque' = [deque EXCEPT ![w] = SubSeq(@, 1, Len(@) - 1)]
    BY <2>1, FrontRemoves, Elements
  <2>2. ASSUME NEW q \in Workers, deque[q] # <<>>, Nested(w, Head(deque[q])),
               deque' = [deque EXCEPT ![q] = Tail(@)]
        PROVE  Removes(q, 1) /\ DequeType' /\ Nested(w, deque[q][1])
    BY <2>2, TailRemoves
  <2> QED
    BY <2>1, <2>2 DEF Take
<1>2. PICK t \in Tasks : t = deque[q][k]
  BY <1>1, Elements DEF Removes
<1>3. Pushes(w, Frame(t, None)) /\ StackType'
  BY <1>1, <1>2, NestedPushes
<1>4. Len(stack[w]) > 0 => stack[w][1].sync # None
  BY DEF Take, BarrierInv
<1>5. UNCHANGED vars /\ UNCHANGED <<current, creator>>
  BY DEF Take
<1> QED
  BY <1>1, <1>2, <1>3, <1>4, <1>5, TakePlaces

\* The steps that touch neither stacks nor deques nor the threads' variables,
\* and of the activities' only the last one of the main program.
LEMMA StillSteps ==
  ASSUME IInv, IInv', PInv,
         \/ OpenStart \/ OpenEnd \/ End \/ Over \/ UNCHANGED poolVars
         \/ \E w \in Workers : Arrive(w) \/ Test(w) \/ GiveUp(w) \/ Leave(w) \/ Exit(w)
         \/ \E t \in Tasks : Drain(t) /\ UNCHANGED pool
  PROVE  /\ Places'
         /\ UNCHANGED <<stack, deque, current, creator>>
<1> USE DEF PInv
<1>1. UNCHANGED <<stack, deque, current, creator>>
  BY DEF OpenStart, OpenEnd, End, Over, Arrive, Test, GiveUp, Leave, Exit, pool, poolVars
<1>2. CASE UNCHANGED vars
  BY <1>1, <1>2, QuietPlaces DEF vars, NoneScheduled
<1>3. CASE \E t \in Tasks : Drain(t)
  <2>1. NoneScheduled
    BY <1>3, ActivitySchedulesNone
  <2> QED
    BY <1>1, <1>3, <2>1, QuietPlaces DEF Drain
<1>4. CASE End
  <2>1. pc[Main] = "barrier" /\ pc' = [pc EXCEPT ![Main] = "end"] /\ status' = status
    BY <1>4 DEF End, BarrierInv
  <2>2. Calm
    BY <2>1 DEF Calm, Places, FramesInv, IInv, TypeOK
  <2>3. NoneScheduled
    BY <2>1 DEF NoneScheduled
  <2> QED
    BY <1>1, <2>2, <2>3, StillPlaces
<1> QED
  BY <1>1, <1>2, <1>3, <1>4
  DEF OpenStart, OpenEnd, Over, Arrive, Test, GiveUp, Leave, Exit, poolVars

\* The steps of the bodies and of the runtime that schedule nobody.
LEMMA BodySteps ==
  ASSUME IInv, IInv', PInv, NEW w \in Workers,
         \/ Proceed(w) \/ Finish(w)
         \/ \E t \in Tasks : Create(w, t) \/ Depend(w, t)
         \/ w = Master /\ Stop
  PROVE  /\ Places'
         /\ UNCHANGED <<stack, deque, current, creator>>
<1> USE DEF PInv
<1>1. UNCHANGED <<stack, deque, current, creator>>
  BY DEF Proceed, Finish, Create, Depend, Stop, pool
<1>2. CASE Proceed(w)
  BY <1>1, <1>2, ActivityPlaces DEF Proceed
<1>3. CASE Finish(w)
  BY <1>1, <1>3, ActivityPlaces DEF Finish
<1>4. ASSUME NEW t \in Tasks, Create(w, t)
      PROVE  Places'
  <2>1. PICK a \in All : Runs(w, a) /\ pc[a] = "run"
    BY <1>4 DEF Create
  <2>2. creator[w] = a
    BY <2>1, OwnBody
  <2>3. Call(a, t)
    BY <1>4, <2>2 DEF Create, Call
  <2> QED
    BY <1>1, <2>1, <2>3, ActivityPlaces
<1>5. ASSUME NEW t \in Tasks, Depend(w, t)
      PROVE  Places'
  BY <1>1, <1>5, ActivityPlaces DEF Depend
<1>6. CASE w = Master /\ Stop
  BY <1>1, <1>6, ActivityPlaces DEF Stop
<1> QED
  BY <1>1, <1>2, <1>3, <1>4, <1>5, <1>6

\* A task enters and leaves its places one at a time.
LEMMA PlacesStep ==
  ASSUME IInv, IInv', PInv, [PoolNext]_poolVars
  PROVE  Places'
<1>1. CASE \/ OpenStart \/ OpenEnd \/ End \/ Over \/ UNCHANGED poolVars
           \/ \E w \in Workers : Arrive(w) \/ Test(w) \/ GiveUp(w) \/ Leave(w) \/ Exit(w)
           \/ \E t \in Tasks : Drain(t) /\ UNCHANGED pool
  BY <1>1, StillSteps
<1>2. CASE \E w \in Workers :
             \/ Proceed(w) \/ Finish(w)
             \/ \E t \in Tasks : Create(w, t) \/ Depend(w, t)
  BY <1>2, BodySteps
<1>3. CASE Stop
  BY <1>3, BodySteps, PoolAssumption
<1>4. CASE \E w \in Workers : Schedule(w)
  BY <1>4, SchedulePlaces
<1>5. CASE \E w \in Workers : \E t \in Tasks : Begin(w, t)
  BY <1>5, BeginPlaces
<1>6. CASE \E w \in Workers : \E t \in Tasks : Unwind(w, t)
  BY <1>6, UnwindPlaces
<1>7. CASE \E w \in Workers : Sync(w) \/ Synced(w)
  BY <1>7, SyncPlaces, SyncedPlaces
<1>8. CASE \E w \in Workers : Take(w)
  BY <1>8, TakeMoves
<1> QED
  BY <1>1, <1>2, <1>3, <1>4, <1>5, <1>6, <1>7, <1>8
  DEF PoolNext, Thread, Program

-----------------------------------------------------------------------------
(* Every step keeps the types and the barriers *)

\* schedule_task keeps the sequences well formed.
LEMMA ScheduleTypes ==
  ASSUME IInv, PInv, NEW w \in Workers, Schedule(w)
  PROVE  StackType' /\ DequeType'
<1> USE DEF PInv
<1>1. StackType /\ DequeType
  BY DEF PoolTypeOK, StackType, DequeType, FrameType
<1>2. ASSUME NEW t \in NewlyScheduled, Len(deque[w]) < DequeSize,
             deque' = [deque EXCEPT ![w] = Append(@, t)]
      PROVE  DequeType'
  BY <1>2, AppendAdds DEF NewlyScheduled
<1>3. ASSUME NEW t \in NewlyScheduled, Nested(w, t)
      PROVE  StackType'
  BY <1>3, NestedPushes DEF NewlyScheduled
<1> QED
  BY <1>1, <1>2, <1>3 DEF Schedule, StackType, DequeType

\* The sequences keep their types.
LEMMA SequenceTypes ==
  ASSUME IInv, IInv', PInv, [PoolNext]_poolVars
  PROVE  StackType' /\ DequeType'
<1> USE DEF PInv
<1>1. StackType /\ DequeType
  BY DEF PoolTypeOK, StackType, DequeType, FrameType
<1>2. CASE UNCHANGED <<stack, deque>>
  BY <1>1, <1>2 DEF StackType, DequeType
<1>3. CASE \/ OpenStart \/ OpenEnd \/ End \/ Over \/ UNCHANGED poolVars
           \/ \E w \in Workers : Arrive(w) \/ Test(w) \/ GiveUp(w) \/ Leave(w) \/ Exit(w)
           \/ \E t \in Tasks : Drain(t) /\ UNCHANGED pool
  BY <1>2, <1>3, StillSteps
<1>4. CASE \/ Stop
           \/ \E w \in Workers :
                \/ Proceed(w) \/ Finish(w)
                \/ \E t \in Tasks : Create(w, t) \/ Depend(w, t)
  BY <1>2, <1>4 DEF Stop, Proceed, Finish, Create, Depend, pool
<1>5. CASE \E w \in Workers : Schedule(w)
  BY <1>5, ScheduleTypes
<1>6. CASE \E w \in Workers :
             Sync(w) \/ Synced(w) \/ \E t \in Tasks : Begin(w, t) \/ Unwind(w, t)
  <2>1. StackType'
    BY <1>6, SyncPlaces, SyncedPlaces, BeginPlaces, UnwindPlaces
  <2>2. UNCHANGED deque
    BY <1>6 DEF Sync, Synced, Begin, Unwind
  <2> QED
    BY <1>1, <2>1, <2>2 DEF DequeType
<1>7. CASE \E w \in Workers : Take(w)
  BY <1>7, TakeMoves
<1> QED
  BY <1>3, <1>4, <1>5, <1>6, <1>7 DEF PoolNext, Thread, Program

\* Every step of the pool keeps the types of its variables.
LEMMA PoolTypeStep ==
  ASSUME IInv, IInv', PInv, [PoolNext]_poolVars
  PROVE  PoolTypeOK'
<1> USE DEF PInv
<1>1. StackType' /\ DequeType'
  BY SequenceTypes
<1>2. /\ current \in [Workers -> All \cup {None}] /\ creator \in [Workers -> All \cup {None}]
      /\ queue \in [Workers -> {"none", "live", "released"}]
      /\ looking \subseteq Workers
      /\ place \in [Workers -> {"new", "ready", "loop", "leave", "out", "gone"}]
      /\ active \in BOOLEAN
  BY DEF PoolTypeOK
<1>3. current' \in [Workers -> All \cup {None}] /\ creator' \in [Workers -> All \cup {None}]
  <2>1. ASSUME NEW w \in Workers, NEW t \in Tasks, Unwind(w, t)
        PROVE  Top(w).saved \in All \cup {None}
    <3>1. Len(stack[w]) > 0 /\ Len(stack[w]) \in Nat /\ stack[w][1] = Top(w)
      BY <2>1, RunsTop, Elements DEF Unwind
    <3>2. 1 \in 1..Len(stack[w])
      BY <3>1
    <3> QED
      BY <3>1, <3>2, Elements DEF FrameType
  <2>2. ASSUME NEW w \in Workers, Synced(w)
        PROVE  Top(w).sync \in All
    BY <2>2, WaitsTop DEF Synced
  <2>3. CASE \E w \in Workers : Synced(w) \/ \E t \in Tasks : Begin(w, t) \/ Unwind(w, t)
    <3>1. PICK w \in Workers : Synced(w) \/ \E t \in Tasks : Begin(w, t) \/ Unwind(w, t)
      BY <2>3
    <3>2. PICK v \in All \cup {None} :
            current' = [current EXCEPT ![w] = v] /\ creator' = [creator EXCEPT ![w] = v]
      <4>1. CASE Synced(w)
        BY <2>2, <4>1 DEF Synced
      <4>2. CASE \E t \in Tasks : Unwind(w, t)
        <5>1. Top(w).saved \in All \cup {None}
          BY <2>1, <4>2
        <5> QED
          BY <4>2, <5>1 DEF Unwind
      <4>3. CASE \E t \in Tasks : Begin(w, t)
        BY <4>3 DEF Begin
      <4> QED
        BY <3>1, <4>1, <4>2, <4>3
    <3> QED
      BY <1>2, <3>2
  <2>4. CASE UNCHANGED <<current, creator>>
    BY <1>2, <2>4
  <2>5. CASE OpenStart \/ Stop \/ OpenEnd \/ End \/ Over \/ UNCHANGED poolVars
    BY <2>4, <2>5 DEF OpenStart, Stop, OpenEnd, End, Over, poolVars, pool
  <2>6. CASE \E w \in Workers :
               \/ Arrive(w) \/ Proceed(w) \/ Schedule(w) \/ Test(w) \/ GiveUp(w)
               \/ Leave(w) \/ Exit(w) \/ Finish(w) \/ Sync(w) \/ Take(w)
               \/ \E t \in Tasks : Create(w, t) \/ Depend(w, t)
    BY <2>4, <2>6
    DEF Arrive, Proceed, Schedule, Test, GiveUp, Leave, Exit, Finish, Sync, Take, Create,
        Depend, pool
  <2>7. CASE \E t \in Tasks : Drain(t) /\ UNCHANGED pool
    BY <2>4, <2>7 DEF pool
  <2> QED
    BY <2>3, <2>5, <2>6, <2>7 DEF PoolNext, Thread, Program
<1>4. queue' \in [Workers -> {"none", "live", "released"}] /\ active' \in BOOLEAN
      /\ looking' \subseteq Workers
  BY <1>2
  DEF PoolNext, Thread, Program, OpenStart, Stop, OpenEnd, End, Over, Arrive, Proceed,
      Schedule, Test, GiveUp, Leave, Exit, Finish, Sync, Take, Create, Depend, pool,
      poolVars, Begin, Unwind, Synced
<1>5. place' \in [Workers -> {"new", "ready", "loop", "leave", "out", "gone"}]
  BY <1>2
  DEF PoolNext, Thread, Program, OpenStart, Stop, OpenEnd, End, Over, Arrive, Proceed,
      Schedule, Test, GiveUp, Leave, Exit, Finish, Sync, Take, Create, Depend, pool,
      poolVars, Begin, Unwind, Synced, Move
<1> QED
  BY <1>1, <1>3, <1>4, <1>5 DEF PoolTypeOK, StackType, DequeType, FrameType

\* Once the main program is at the end of tpc_shutdown, no other activity moves it.
LEMMA MainRests ==
  ASSUME IInv, pc[Main] \in {"barrier", "end"}, NEW a \in All,
         \/ Advance(a)
         \/ \E t \in Tasks : Call(a, t) \/ Register(a, t)
         \/ a \in Tasks /\ (Start(a) \/ Return(a) \/ Drain(a))
  PROVE  pc'[Main] = pc[Main]
<1>1. pc \in [All -> Running \cup Releasing \cup
                     {"idle", "check", "claim", "done", "barrier", "end"}]
  BY DEF IInv, TypeOK
<1>2. CASE Advance(a)
  BY <1>1, <1>2 DEF Advance, PublishReady, ScheduleReady, StoreWaitfor, Publish,
     CheckChildren, Claim, Lock, Fire, Await, Complete, Tell, Look
<1>3. CASE \E t \in Tasks : Call(a, t) \/ Register(a, t)
  BY <1>1, <1>3 DEF Call, Register
<1>4. CASE a \in Tasks /\ (Start(a) \/ Return(a) \/ Drain(a))
  BY <1>1, <1>4 DEF Start, Return, Drain
<1> QED
  BY <1>2, <1>3, <1>4

\* A step of a thread in its loop that is no test of the loop.
LEMMA LoopStep ==
  ASSUME PoolTypeOK, BarrierInv, NEW w \in Workers, place[w] = "loop",
         looking' \subseteq looking, w \notin looking', UNCHANGED <<queue, place, active>>,
         \A x \in Workers : x # w => stack'[x] = stack[x],
         pc[Main] \in {"barrier", "end"} => pc'[Main] = pc[Main]
  PROVE  BarrierInv'
<1> USE PoolAssumption DEF BarrierInv
<1>1. /\ \A x, q \in Workers :
           place'[x] \in {"loop", "leave"} => place'[q] \in {"loop", "leave"}
      /\ \A x \in Workers : place'[x] \notin {"new", "gone"} => queue'[x] = "live"
  OBVIOUS
<1>2. \A x \in looking' : place'[x] = "loop" /\ (Len(stack'[x]) > 0 => stack'[x][1].sync # None)
  <2> TAKE x \in looking'
  <2>1. x # w /\ x \in looking /\ x \in Workers
    BY DEF PoolTypeOK
  <2> QED
    BY <2>1
<1>3. /\ \A x \in Workers :
           x # Master /\ place'[x] \in {"leave", "out", "gone"} => Len(stack'[x]) = 0
      /\ place'[Master] \in {"leave", "out", "gone"} => Len(stack'[Master]) = 1
  OBVIOUS
<1>4. /\ ~active' => place'[Master] \in {"leave", "out", "gone"}
      /\ place'[Master] \in {"leave", "out"} => pc'[Main] = "barrier"
      /\ place'[Master] = "gone" => pc'[Main] = "end"
  OBVIOUS
<1> QED
  BY <1>1, <1>2, <1>3, <1>4

\* The thread that runs an activity does not look for work.
LEMMA RunnerBusy ==
  ASSUME PoolTypeOK, BarrierInv, NEW w \in Workers, NEW a, Runs(w, a)
  PROVE  place[w] = "loop" /\ w \notin looking
BY RunsTop DEF BarrierInv

\* The steps of threads that run or wait on their stacks.
LEMMA StackBarrier ==
  ASSUME IInv, PInv, NEW w \in Workers,
         \/ Proceed(w) \/ Schedule(w) \/ Finish(w) \/ Sync(w) \/ Synced(w) \/ Take(w)
         \/ \E t \in Tasks : Begin(w, t) \/ Unwind(w, t) \/ Create(w, t) \/ Depend(w, t)
  PROVE  BarrierInv'
<1> USE DEF PInv
<1>1. stack \in [Workers -> Seq(FrameType)]
  BY DEF PoolTypeOK, FrameType
<1>2. CASE Proceed(w) \/ Finish(w) \/ \E t \in Tasks : Depend(w, t)
  <2>1. PICK a \in All :
          /\ Runs(w, a)
          /\ Advance(a) \/ (\E t \in Tasks : Register(a, t)) \/ (a \in Tasks /\ Return(a))
    BY <1>2 DEF Proceed, Finish, Depend, Advance
  <2>2. UNCHANGED pool
    BY <1>2 DEF Proceed, Finish, Depend
  <2>3. pc[Main] \in {"barrier", "end"} => pc'[Main] = pc[Main]
    BY <2>1, MainRests
  <2> QED
    BY <2>1, <2>2, <2>3, RunnerBusy, LoopStep DEF pool
<1>3. CASE \E t \in Tasks : Create(w, t)
  <2>1. PICK t \in Tasks : Create(w, t)
    BY <1>3
  <2>2. PICK a \in All : Runs(w, a) /\ pc[a] = "run"
    BY <2>1 DEF Create
  <2>3. creator[w] = a
    BY <2>2, OwnBody
  <2>4. Call(a, t) /\ UNCHANGED pool
    BY <2>1, <2>3 DEF Create, Call
  <2>5. pc[Main] \in {"barrier", "end"} => pc'[Main] = pc[Main]
    BY <2>4, MainRests
  <2> QED
    BY <2>2, <2>4, <2>5, RunnerBusy, LoopStep DEF pool
<1>4. CASE Schedule(w)
  <2>1. PICK a \in All : Runs(w, a) /\ (ScheduleReady(a) \/ Await(a))
    BY <1>4 DEF Schedule
  <2>2. pc[Main] \in {"barrier", "end"} => pc'[Main] = pc[Main]
    BY <2>1, MainRests DEF Advance
  <2>3. /\ \A x \in Workers : x # w => stack'[x] = stack[x]
        /\ UNCHANGED <<queue, looking, place, active>>
    BY <1>1, <1>4 DEF Schedule, Nested
  <2> QED
    BY <2>1, <2>2, <2>3, RunnerBusy, LoopStep
<1>5. CASE \E t \in Tasks : Begin(w, t)
  <2>1. PICK t \in Tasks : Begin(w, t)
    BY <1>5
  <2>2. Runs(w, t) /\ Start(t)
    BY <2>1 DEF Begin
  <2>3. pc[Main] \in {"barrier", "end"} => pc'[Main] = pc[Main]
    BY <2>2, MainRests
  <2>4. /\ \A x \in Workers : x # w => stack'[x] = stack[x]
        /\ UNCHANGED <<queue, looking, place, active>>
    BY <1>1, <2>1 DEF Begin
  <2> QED
    BY <2>2, <2>3, <2>4, RunnerBusy, LoopStep
<1>6. CASE \E t \in Tasks : Unwind(w, t)
  <2>1. PICK t \in Tasks : Unwind(w, t)
    BY <1>6
  <2>2. /\ \A x \in Workers : x # w => stack'[x] = stack[x]
        /\ UNCHANGED <<queue, looking, place, active>>
        /\ Runs(w, t) /\ pc' = pc
    BY <1>1, <2>1 DEF Unwind, vars
  <2> QED
    BY <2>2, RunnerBusy, LoopStep
<1>7. CASE Sync(w)
  <2>1. PICK a \in All : Runs(w, a)
    BY <1>7 DEF Sync
  <2>2. /\ \A x \in Workers : x # w => stack'[x] = stack[x]
        /\ UNCHANGED <<queue, looking, place, active>>
        /\ pc' = pc
    BY <1>1, <1>7 DEF Sync, vars
  <2> QED
    BY <2>1, <2>2, RunnerBusy, LoopStep
<1>8. CASE Synced(w)
  <2>1. /\ \A x \in Workers : x # w => stack'[x] = stack[x]
        /\ UNCHANGED <<queue, looking, place, active>>
        /\ w \notin looking /\ place[w] = "loop" /\ pc' = pc
    BY <1>1, <1>8 DEF Synced, Waits, vars
  <2> QED
    BY <2>1, LoopStep
<1>9. CASE Take(w)
  <2>1. /\ \A x \in Workers : x # w => stack'[x] = stack[x]
        /\ UNCHANGED <<queue, place, active>>
        /\ looking' = looking \ {w} /\ place[w] = "loop" /\ pc' = pc
    <3>1. \E t : Nested(w, t)
      BY <1>9 DEF Take
    <3>2. \A x \in Workers : x # w => stack'[x] = stack[x]
      BY <1>1, <3>1 DEF Nested
    <3>3. /\ UNCHANGED <<vars, queue, place, active>> /\ w \in looking
          /\ looking' = looking \ {w}
      BY <1>9 DEF Take
    <3> QED
      BY <3>2, <3>3 DEF vars, BarrierInv
  <2> QED
    BY <2>1, LoopStep
<1> QED
  BY <1>2, <1>3, <1>4, <1>5, <1>6, <1>7, <1>8, <1>9

\* The steps of threads between their loops and the barriers.
LEMMA ThreadBarrier ==
  ASSUME PInv, NEW w \in Workers,
         Arrive(w) \/ Test(w) \/ GiveUp(w) \/ Leave(w) \/ Exit(w)
  PROVE  BarrierInv'
<1> USE PoolAssumption DEF PInv, BarrierInv
<1>1. /\ place \in [Workers -> {"new", "ready", "loop", "leave", "out", "gone"}]
      /\ queue \in [Workers -> {"none", "live", "released"}]
      /\ looking \subseteq Workers /\ stack[w] \in Seq(FrameType)
  BY Elements DEF PoolTypeOK
<1>2. CASE Arrive(w)
  BY <1>1, <1>2 DEF Arrive, Move, vars
<1>3. CASE Test(w)
  <2>1. /\ UNCHANGED <<pc, stack, queue, place, active>> /\ looking' = looking \cup {w}
        /\ Waits(w) \/ Idles(w)
    BY <1>3 DEF Test, vars
  <2>2. place[w] = "loop" /\ (Len(stack[w]) > 0 => stack[w][1].sync # None)
    BY <1>1, <2>1, WaitsTop DEF Idles
  <2> QED
    BY <2>1, <2>2
<1>4. CASE GiveUp(w)
  BY <1>4 DEF GiveUp, vars
<1>5. CASE Leave(w)
  <2>1. w # Master
    BY <1>5 DEF Leave, Idles, Places, MainInv
  <2>2. Len(stack[w]) = 0
    BY <1>5 DEF Leave, Idles
  <2> QED
    BY <1>1, <1>5, <2>1, <2>2 DEF Leave, Idles, Move, vars
<1>6. CASE Exit(w)
  BY <1>1, <1>6 DEF Exit, Move, vars
<1> QED
  BY <1>2, <1>3, <1>4, <1>5, <1>6

\* The barriers open, and the main program goes through tpc_shutdown.
LEMMA MasterBarrier ==
  ASSUME IInv, PInv, OpenStart \/ Stop \/ OpenEnd \/ End \/ Over
  PROVE  BarrierInv'
<1> USE PoolAssumption DEF PInv, BarrierInv
<1>1. /\ place \in [Workers -> {"new", "ready", "loop", "leave", "out", "gone"}]
      /\ queue \in [Workers -> {"none", "live", "released"}]
      /\ looking \subseteq Workers /\ Len(stack[Master]) \in Nat
      /\ pc \in [All -> Running \cup Releasing \cup
                     {"idle", "check", "claim", "done", "barrier", "end"}]
  BY Elements DEF PoolTypeOK, IInv, TypeOK
<1>2. CASE OpenStart
  BY <1>1, <1>2 DEF OpenStart, vars
<1>3. CASE Stop
  <2>1. Len(stack[Master]) > 0 /\ stack[Master][1].task = Main /\ Master \notin looking
        /\ place[Master] = "loop"
    BY <1>3, RunsTop DEF Stop
  <2>2. Len(stack[Master]) = 1
    <3>1. 1 \in 1..Len(stack[Master]) /\ Len(stack[Master]) \in 1..Len(stack[Master])
      BY <1>1, <2>1
    <3>2. stack[Master][1].task = stack[Master][Len(stack[Master])].task
      BY <2>1 DEF Places, MainInv
    <3>3. UniqueFrames
      BY DEF Places
    <3>4. 1 = Len(stack[Master])
      BY <3>1, <3>2, <3>3 DEF UniqueFrames
    <3> QED
      BY <3>4
  <2>3. pc'[Main] = "barrier"
    BY <1>1, <1>3 DEF Stop, Shutdown
  <2> QED
    BY <1>1, <1>3, <2>1, <2>2, <2>3 DEF Stop, Move
<1>4. CASE OpenEnd
  BY <1>1, <1>4 DEF OpenEnd, vars
<1>5. CASE End
  BY <1>1, <1>5 DEF End, Move
<1>6. CASE Over
  BY <1>6 DEF Over, poolVars, vars, pool
<1> QED
  BY <1>2, <1>3, <1>4, <1>5, <1>6

\* A thread passes a barrier only with all others.
LEMMA BarrierStep ==
  ASSUME IInv, PInv, [PoolNext]_poolVars
  PROVE  BarrierInv'
<1>1. CASE OpenStart \/ Stop \/ OpenEnd \/ End \/ Over
  BY <1>1, MasterBarrier
<1>2. CASE \E w \in Workers : Arrive(w) \/ Test(w) \/ GiveUp(w) \/ Leave(w) \/ Exit(w)
  BY <1>2, ThreadBarrier
<1>3. CASE \E w \in Workers :
             \/ Proceed(w) \/ Schedule(w) \/ Finish(w) \/ Sync(w) \/ Synced(w) \/ Take(w)
             \/ \E t \in Tasks : Begin(w, t) \/ Unwind(w, t) \/ Create(w, t) \/ Depend(w, t)
  BY <1>3, StackBarrier
<1>4. CASE (\E t \in Tasks : Drain(t) /\ UNCHANGED pool) \/ UNCHANGED poolVars
  <2>1. UNCHANGED <<pool, pc>>
    BY <1>4 DEF Drain, poolVars, vars
  <2> QED
    BY <2>1 DEF pool, PInv, BarrierInv
<1> QED
  BY <1>1, <1>2, <1>3, <1>4 DEF PoolNext, Thread, Program

-----------------------------------------------------------------------------
(* The theorems *)

\* The invariant of the pool carries TaskLife's along.
LEMMA PoolInvariant == PoolSpec => [](IInv /\ MInv /\ TInv /\ PInv)
<1>1. PoolInit => IInv /\ MInv /\ TInv /\ PInv
  BY InitIInv, InitMInv, InitTInv, InitPInv DEF PoolInit
<1>2. ASSUME IInv, MInv, TInv, PInv, [PoolNext]_poolVars
      PROVE  IInv' /\ MInv' /\ TInv' /\ PInv'
  <2>1. [Next]_vars
    BY <1>2, LifeStep
  <2>2. IInv'
    BY <1>2, <2>1, StepIInv
  <2>3. MInv'
    BY <1>2, <2>1, ChildlessStep, SiblingsStep, BufferedStep DEF MInv
  <2>4. TInv'
    BY <1>2, <2>1, TreeStep
  <2>5. PInv'
    BY <1>2, <2>2, PoolTypeStep, PlacesStep, BarrierStep DEF PInv
  <2> QED
    BY <2>2, <2>3, <2>4, <2>5
<1> QED
  BY <1>1, <1>2, PTL DEF PoolSpec

\* Stacks hold frames of tasks, no deque exceeds its slots (deque.c:44) and the
\* threads' variables name tasks.
THEOREM PoolTypeCorrect == PoolSpec => []PoolTypeOK
<1>1. PInv => PoolTypeOK
  BY DEF PInv
<1> QED
  BY <1>1, PoolInvariant, PTL

\* The slots that hold a task, as a set, are none or one; so are the frames.
LEMMA AtMostOne ==
  ASSUME PInv, NEW t
  PROVE  /\ Slots(t) = {} \/ \E h : Slots(t) = {h}
         /\ Frames(t) = {} \/ \E h : Frames(t) = {h}
         /\ Slots(t) = {} \/ Frames(t) = {}
<1>1. \A w \in Workers : DOMAIN deque[w] = 1..Len(deque[w]) /\ DOMAIN stack[w] = 1..Len(stack[w])
  BY Elements DEF PInv
<1>2. ASSUME NEW h \in Slots(t)
      PROVE  \E w \in Workers : \E i \in 1..Len(deque[w]) : h = <<w, i>> /\ deque[w][i] = t
  BY <1>1 DEF Slots, Positions
<1>3. ASSUME NEW h \in Frames(t)
      PROVE  \E w \in Workers : \E i \in 1..Len(stack[w]) : h = <<w, i>> /\ stack[w][i].task = t
  BY <1>1 DEF Frames, Positions
<1>4. ASSUME NEW h \in Slots(t), NEW g \in Slots(t)
      PROVE  h = g
  BY <1>2, <1>4 DEF PInv, Places, UniqueSlots
<1>5. ASSUME NEW h \in Frames(t), NEW g \in Frames(t)
      PROVE  h = g
  BY <1>3, <1>5 DEF PInv, Places, UniqueFrames
<1>6. ASSUME NEW h \in Slots(t), NEW g \in Frames(t)
      PROVE  FALSE
  BY <1>2, <1>3, <1>6 DEF PInv, Places, Apart
<1> QED
  BY <1>4, <1>5, <1>6

\* A task that is in some deque has a slot, one on some stack a frame.
LEMMA Held ==
  ASSUME PInv, NEW t
  PROVE  /\ (\E w \in Workers : \E i \in 1..Len(deque[w]) : deque[w][i] = t) <=> Slots(t) # {}
         /\ (\E w \in Workers : \E i \in 1..Len(stack[w]) : stack[w][i].task = t)
              <=> Frames(t) # {}
<1>1. \A w \in Workers : DOMAIN deque[w] = 1..Len(deque[w]) /\ DOMAIN stack[w] = 1..Len(stack[w])
  BY Elements DEF PInv
<1>2. ASSUME NEW w \in Workers, NEW i \in 1..Len(deque[w]), deque[w][i] = t
      PROVE  <<w, i>> \in Slots(t)
  BY <1>1, <1>2 DEF Slots, Positions
<1>3. ASSUME NEW w \in Workers, NEW i \in 1..Len(stack[w]), stack[w][i].task = t
      PROVE  <<w, i>> \in Frames(t)
  BY <1>1, <1>3 DEF Frames, Positions
<1>4. ASSUME NEW h \in Slots(t)
      PROVE  \E w \in Workers : \E i \in 1..Len(deque[w]) : deque[w][i] = t
  BY <1>1 DEF Slots, Positions
<1>5. ASSUME NEW h \in Frames(t)
      PROVE  \E w \in Workers : \E i \in 1..Len(stack[w]) : stack[w][i].task = t
  BY <1>1 DEF Frames, Positions
<1> QED
  BY <1>2, <1>3, <1>4, <1>5

\* From schedule_task to the end of execute_task a task is in one deque or has
\* one frame: no full deque, steal or nested execution loses it or runs it
\* twice (runtime.c:445-458).
THEOREM InOnePlace == PoolSpec => []OnePlace
<1>1. IInv /\ PInv => OnePlace
  <2> SUFFICES ASSUME IInv, PInv, NEW t \in Tasks
               PROVE  LET held == Cardinality(Slots(t)) + Cardinality(Frames(t)) IN
                        /\ status[t] < SCHEDULED => held = 0
                        /\ status[t] >= SCHEDULED /\ pc[t] # "done" => held = 1
                        /\ pc[t] = "done" => held <= 1 /\ Slots(t) = {}
    BY DEF OnePlace
  <2>1. /\ Cardinality(Slots(t)) \in {0, 1} /\ (Cardinality(Slots(t)) = 0 <=> Slots(t) = {})
        /\ Cardinality(Frames(t)) \in {0, 1} /\ (Cardinality(Frames(t)) = 0 <=> Frames(t) = {})
    <3>1. ASSUME NEW S, S = {} \/ \E h : S = {h}
          PROVE  Cardinality(S) \in {0, 1} /\ (Cardinality(S) = 0 <=> S = {})
      BY <3>1, FS_EmptySet, FS_Singleton
    <3> QED
      BY <3>1, AtMostOne
  <2>2. Slots(t) # {} => status[t] >= SCHEDULED /\ pc[t] = "idle"
    BY Held DEF PInv, Places, QueuedInv
  <2>3. Frames(t) # {} => status[t] >= SCHEDULED
    BY Held DEF PInv, Places, FramesInv
  <2>4. status[t] >= SCHEDULED /\ pc[t] # "done" => Slots(t) # {} \/ Frames(t) # {}
    BY Held DEF PInv, Places, HeldInv
  <2>5. status[t] \in Int
    BY DEF IInv, TypeOK
  <2>6. Slots(t) = {} \/ Frames(t) = {}
    BY AtMostOne
  <2> QED
    BY <2>1, <2>2, <2>3, <2>4, <2>5, <2>6
<1> QED
  BY <1>1, PoolInvariant, PTL

\* Whatever ran on top of it, a body that goes on finds the thread's variables
\* naming its own task (runtime.c:398, 406 and 932).
THEOREM BodiesOwn == PoolSpec => []BodiesOwnTheirChildren
<1>1. PInv => BodiesOwnTheirChildren
  BY OwnBody DEF BodiesOwnTheirChildren
<1> QED
  BY <1>1, PoolInvariant, PTL

\* When the main program stops the workers no task is left to run or to
\* release, wherever it was scheduled (runtime.c:838).
THEOREM NothingIsLeftBehind ==
  ASSUME SyncBeforeReturn
  PROVE  PoolSpec => []NothingLeftBehind
<1>1. IInv /\ MInv /\ TInv /\ PInv => NothingLeftBehind
  <2> SUFFICES ASSUME IInv, MInv, TInv, PInv, ~active
               PROVE  /\ \A w \in Workers : deque[w] = <<>>
                      /\ \A t \in Tasks :
                           /\ pc[t] \in {"idle", "check", "claim", "look", "done"}
                           /\ pc[t] = "idle" => parent[t] = None
    BY DEF NothingLeftBehind
  <2>1. pc[Main] \in {"barrier", "end"}
    BY DEF PInv, BarrierInv
  <2>2. children[Main] = 0
    BY <2>1 DEF MInv, ChildlessInv, Running
  <2>3. \A t \in Tasks : status[t] > CREATING => ~Unreported(t)
    BY <2>2, NoneLeft DEF IInv, StageInv
  <2>4. \A t \in Tasks : status[t] > CREATING => status[t] = COMPLETE
    BY <2>3 DEF Unreported, IInv, TypeOK
  <2>5. ASSUME NEW t \in Tasks
        PROVE  /\ pc[t] \in {"idle", "check", "claim", "look", "done"}
               /\ pc[t] = "idle" => parent[t] = None
    <3>1. pc[t] \notin Running /\ (pc[t] = "idle" => status[t] = CREATING)
      BY <2>4 DEF IInv, TypeOK, StageInv
    <3>2. pc[t] = "idle" => parent[t] = None
      <4> HAVE pc[t] = "idle"
      <4>1. parent[t] # None => ~Unreported(t)
        BY <2>2, NoneLeft
      <4> QED
        BY <3>1, <4>1 DEF Unreported
    <3>3. pc[t] \notin {"lock", "fire", "await"}
      BY <2>4 DEF IInv, LocalsInv, Releasing
    <3>4. pc[t] # "tell"
      <4> SUFFICES ASSUME pc[t] = "tell" PROVE FALSE
        OBVIOUS
      <4>1. PICK c \in Tasks : c = rel[t] /\ status[c] = COMPLETE
        BY DEF IInv, LocalsInv, Releasing
      <4>2. Unreported(c)
        BY <4>1 DEF Unreported
      <4> QED
        BY <2>3, <4>1, <4>2
    <3> QED
      BY <3>1, <3>2, <3>3, <3>4 DEF IInv, TypeOK, StageInv, Running, Releasing
  <2>6. \A u \in Tasks : status[u] \in Int
    BY DEF IInv, TypeOK
  <2>7. ASSUME NEW w \in Workers
        PROVE  deque[w] = <<>>
    <3>1. Len(deque[w]) # 0 => 1 \in 1..Len(deque[w])
      BY Elements DEF PInv
    <3>2. 1 \notin 1..Len(deque[w])
      <4> SUFFICES ASSUME 1 \in 1..Len(deque[w]) PROVE FALSE
        OBVIOUS
      <4>1. PICK t \in Tasks : t = deque[w][1]
        BY Elements DEF PInv
      <4>2. pc[t] = "idle" /\ status[t] >= SCHEDULED /\ status[t] \in Int
        BY <2>6, <4>1 DEF PInv, Places, QueuedInv
      <4>3. status[t] = COMPLETE
        BY <2>4, <4>2
      <4> QED
        BY <4>2, <4>3 DEF IInv, StageInv
    <3>3. deque[w] \in Seq(Tasks)
      BY Elements DEF PInv
    <3> QED
      BY <3>1, <3>2, <3>3
  <2> QED
    BY <2>5, <2>7
<1> QED
  BY <1>1, PoolInvariant, PTL

\* A thread only looks into deques that their owners set up and did not yet
\* release (runtime.c:761, 800, 862).
THEOREM DequesStayLive == PoolSpec => []DequesLive
<1>1. PInv => DequesLive
  BY DEF PInv, PoolTypeOK, BarrierInv, DequesLive
<1> QED
  BY <1>1, PoolInvariant, PTL

\* What the threads do with their stacks and deques is a life of descriptors:
\* all theorems about TaskLife hold of the pool.  In particular the regions are
\* deleted after the last activity ended (runtime.c:860), by the barrier alone.
THEOREM PoolImplementsLife == PoolSpec => LifeRefinement
<1>1. PoolInit => Init
  BY DEF PoolInit
<1>2. IInv /\ PInv /\ [PoolNext]_poolVars => [Next]_vars
  BY LifeStep
<1> QED
  BY <1>1, <1>2, PoolInvariant, PTL DEF PoolSpec, LifeRefinement

\* From one end to the other: a pool of threads with deques of any size runs
\* the tasks of a program as the abstract task graph allows.
THEOREM PoolImplementsGraph ==
  ASSUME SyncBeforeReturn
  PROVE  PoolSpec => Refinement
<1>1. Init => Graph!Init
  BY GraphInit
<1>2. IInv /\ IInv' /\ MInv /\ TInv /\ [Next]_vars => [Graph!Next]_(Graph!vars)
  BY GraphStep
<1> QED
  BY <1>1, <1>2, PoolImplementsLife, PoolInvariant, PTL
  DEF LifeRefinement, Graph!Spec, Refinement
=============================================================================
