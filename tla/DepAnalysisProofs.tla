-------------------------- MODULE DepAnalysisProofs --------------------------
(***************************************************************************)
(* Proofs about DepAnalysis, for every number of tasks and arguments and   *)
(* every set of blocks and shapes.                                         *)
(***************************************************************************)
EXTENDS DepAnalysis, SequenceTheorems, FiniteSetTheorems, TLAPS

-----------------------------------------------------------------------------
(* Sequences by their elements *)

LEMMA EmptyElements == ToSet(<<>>) = {}
BY DEF ToSet

LEMMA OneElement == \A x : ToSet(<<x>>) = {x}
BY DEF ToSet

\* The first element of a sequence, and the others.
LEMMA HeadAndTail ==
  ASSUME NEW S, NEW s \in Seq(S), s # <<>>
  PROVE  /\ Head(s) \in S /\ Tail(s) \in Seq(S)
         /\ ToSet(s) = {Head(s)} \cup ToSet(Tail(s))
<1>1. /\ Head(s) \in S /\ Tail(s) \in Seq(S) /\ Len(Tail(s)) = Len(s) - 1
      /\ \A i \in 1 .. Len(Tail(s)) : Tail(s)[i] = s[i + 1]
  BY HeadTailProperties
<1>2. Len(s) \in Nat \ {0} /\ DOMAIN s = 1 .. Len(s)
      /\ DOMAIN Tail(s) = 1 .. (Len(s) - 1)
  BY <1>1, EmptySeq, LenProperties
<1>3. s[1] = Head(s)
  OBVIOUS
<1>4. \A i \in 1 .. Len(s) : i = 1 \/ (i - 1 \in 1 .. (Len(s) - 1) /\ s[i] = Tail(s)[i - 1])
  BY <1>1, <1>2
<1>5. ToSet(s) \subseteq {Head(s)} \cup ToSet(Tail(s))
  <2> SUFFICES ASSUME NEW i \in 1 .. Len(s)
               PROVE  s[i] \in {Head(s)} \cup ToSet(Tail(s))
    BY <1>2 DEF ToSet
  <2> QED
    BY <1>2, <1>3, <1>4 DEF ToSet
<1>6. \A i \in 1 .. (Len(s) - 1) : i + 1 \in 1 .. Len(s) /\ Tail(s)[i] = s[i + 1]
  BY <1>1, <1>2
<1>7. ToSet(Tail(s)) \subseteq ToSet(s)
  BY <1>2, <1>6 DEF ToSet
<1>8. Head(s) \in ToSet(s)
  BY <1>2, <1>3 DEF ToSet
<1> QED
  BY <1>1, <1>5, <1>7, <1>8

\* A sequence with one more element in front.
LEMMA PutInFront ==
  ASSUME NEW S, NEW s \in Seq(S), NEW x \in S
  PROVE  <<x>> \o s \in Seq(S) /\ ToSet(<<x>> \o s) = {x} \cup ToSet(s)
<1>1. <<x>> \in Seq(S) /\ Len(<<x>>) = 1 /\ <<x>>[1] = x
  OBVIOUS
<1>2. /\ <<x>> \o s \in Seq(S) /\ Len(<<x>> \o s) = Len(s) + 1
      /\ \A i \in 1 .. Len(s) + 1 :
           (<<x>> \o s)[i] = IF i <= 1 THEN x ELSE s[i - 1]
  BY <1>1, ConcatProperties, LenProperties
<1>3. /\ DOMAIN s = 1 .. Len(s) /\ Len(s) \in Nat
      /\ DOMAIN (<<x>> \o s) = 1 .. (Len(s) + 1)
  BY <1>2, LenProperties
<1>4. ToSet(<<x>> \o s) \subseteq {x} \cup ToSet(s)
  <2> SUFFICES ASSUME NEW i \in 1 .. (Len(s) + 1)
               PROVE  (<<x>> \o s)[i] \in {x} \cup ToSet(s)
    BY <1>3 DEF ToSet
  <2>1. i = 1 \/ (i - 1 \in 1 .. Len(s) /\ (<<x>> \o s)[i] = s[i - 1])
    BY <1>2, <1>3
  <2> QED
    BY <1>2, <1>3, <2>1 DEF ToSet
<1>5. x \in ToSet(<<x>> \o s)
  <2>1. 1 \in 1 .. (Len(s) + 1) /\ (<<x>> \o s)[1] = x
    BY <1>2, <1>3
  <2> QED
    BY <1>3, <2>1 DEF ToSet
<1>6. ToSet(s) \subseteq ToSet(<<x>> \o s)
  <2> SUFFICES ASSUME NEW i \in 1 .. Len(s)
               PROVE  s[i] \in ToSet(<<x>> \o s)
    BY <1>3 DEF ToSet
  <2>1. i + 1 \in 1 .. (Len(s) + 1) /\ (<<x>> \o s)[i + 1] = s[i]
    BY <1>2, <1>3
  <2> QED
    BY <1>3, <2>1 DEF ToSet
<1> QED
  BY <1>2, <1>4, <1>5, <1>6

-----------------------------------------------------------------------------
(* The inductive invariant *)

\* The owners of the stacks the current block still has to push on.
Pending == {to.owner : to \in ToSet(targets)}

\* Where the analysis is.
StageInv ==
  /\ \A t \in Tasks :
       /\ t > task => /\ phase[t] = "absent" /\ waits[t] = {}
                      /\ reads[t] = {} /\ writes[t] = {}
       /\ t < task => phase[t] \notin {"absent", "creating"}
       /\ t = task => phase[t] # "absent"
  /\ ~Idle => Creating
  /\ task > 0 => arg \in Ids /\ Owner(arg) = task
  /\ depsLast # None => task > 0 /\ depsLast \in waits[task]

\* Metadata elements name tasks that exist.
MetaInv ==
  \A m \in Ids :
    /\ meta[m].readers \in Seq(1 .. task)
    /\ meta[m].dependent # None => Owner(meta[m].dependent) < Owner(m)

\* The argument under analysis, and the stack_push calls it still makes.
ArgInv ==
  /\ Creating =>
       /\ meta[arg].type \in {"IN", "OUT"}
       /\ Covered(visits) \subseteq
            IF meta[arg].type = "OUT" THEN writes[task] ELSE reads[task]
       /\ visits # <<>> /\ meta[arg].type = "IN" =>
            Head(visits).newRow \/ task \in ToSet(meta[arg].readers)
  /\ \A to \in ToSet(targets) :
       /\ to.owner <= task
       /\ ~to.tested => to.owner < task
       /\ to.link # None => to.tested /\ Owner(to.link) = to.owner

\* The table names the last task that took the block.
TableInv ==
  \A b \in Blocks :
    /\ table[b] = None => leads[b] = {}
    /\ table[b] # None =>
         LET m == table[b] IN
         /\ Owner(m) <= task
         /\ Owner(m) = task => m[2] <= arg[2]
         /\ Owner(m) \in leads[b]
         /\ \A u \in leads[b] : u <= Owner(m)
         /\ meta[m].type = "OUT" => b \in writes[Owner(m)]
         /\ meta[m].type # "OUT" =>
              /\ meta[m].type = "IN"
              /\ b \in reads[Owner(m)]
              /\ Owner(m) \in ToSet(meta[m].readers)

\* Whoever accesses a block took it, or is about to, or joined the readers of
\* a task that took it since the last write.
AccessInv ==
  \A b \in Blocks : \A t \in Tasks :
    /\ b \in writes[t] =>
         \/ t \in leads[b]
         \/ t = task /\ Creating /\ b \in Covered(visits) /\ meta[arg].type = "OUT"
    /\ b \in reads[t] =>
         \/ t \in leads[b]
         \/ t = task /\ Creating /\ b \in Covered(visits) /\ meta[arg].type # "OUT"
         \/ \E u \in leads[b] :
              /\ u < t /\ b \in reads[u]
              /\ \A o \in Tasks : o < t /\ b \in writes[o] => o <= u

\* A task that took a block after o waits for one that took it since then, or
\* is about to register with one.
ChainInv ==
  \A b \in Blocks : \A t, o \in leads[b] : o < t =>
    \/ Finished(o)
    \/ \E u \in leads[b] :
         o <= u /\ u < t /\ (u \in waits[t] \/ (t = task /\ u \in Pending))

\* The tasks that took a block execute in the order they were created.
LeadsOrdered ==
  \A b \in Blocks : \A t, o \in leads[b] : o < t /\ Started(t) => Finished(o)

IInv ==
  /\ TypeOK /\ WaitsAreAcyclic
  /\ StageInv /\ MetaInv /\ ArgInv /\ TableInv /\ AccessInv
  /\ ChainInv /\ LeadsOrdered

LEMMA InitIInv == Init => IInv
<1> SUFFICES ASSUME Init PROVE IInv
  OBVIOUS
<1> USE AnalysisAssumption DEF Init
<1>1. <<>> \in Seq(Tasks) /\ <<>> \in Seq(1 .. task) /\ <<>> \in Seq(Visit)
      /\ <<>> \in Seq([owner : Tasks, tested : BOOLEAN, link : Ids \cup {None}])
  BY EmptySeq
<1>2. TypeOK
  BY <1>1 DEF TypeOK
<1>3. WaitsAreAcyclic
  BY DEF WaitsAreAcyclic
<1>4. StageInv
  BY DEF StageInv, Idle, Tasks
<1>5. MetaInv
  BY <1>1 DEF MetaInv
<1>6. ArgInv
  BY EmptyElements DEF ArgInv, Creating
<1>7. TableInv
  BY DEF TableInv
<1>8. AccessInv
  BY DEF AccessInv
<1>9. ChainInv /\ LeadsOrdered
  BY DEF ChainInv, LeadsOrdered
<1> QED
  BY <1>2, <1>3, <1>4, <1>5, <1>6, <1>7, <1>8, <1>9 DEF IInv

-----------------------------------------------------------------------------
(* What is known of the tasks and blocks at hand *)

LEMMA IdsAre ==
  /\ \A m \in Ids : Owner(m) \in Tasks /\ m[2] \in 1 .. MaxArgs
                  /\ m = <<Owner(m), m[2]>>
  /\ Tasks \subseteq Nat /\ None \notin Tasks /\ None \notin Ids
BY AnalysisAssumption DEF Ids, Owner, Tasks

LEMMA TaskOrder == \A s, t \in Tasks : s <= t /\ s # t => s < t
BY DEF Tasks

\* Only tasks that were created took a block.
LEMMA LeadsExist ==
  ASSUME IInv, NEW b \in Blocks, NEW u \in leads[b]
  PROVE  /\ u \in Tasks /\ u <= task /\ table[b] \in Ids
         /\ Owner(table[b]) \in leads[b] /\ u <= Owner(table[b])
<1>1. u \in Tasks /\ table[b] \in Ids
  BY DEF IInv, TypeOK, TableInv
<1>2. /\ Owner(table[b]) <= task /\ u <= Owner(table[b])
      /\ Owner(table[b]) \in leads[b]
  BY <1>1, IdsAre DEF IInv, TableInv
<1>3. u \in Nat /\ Owner(table[b]) \in Nat /\ task \in Nat
  BY <1>1, IdsAre DEF IInv, TypeOK
<1> QED
  BY <1>1, <1>2, <1>3

LEMMA CoveredBlocks ==
  ASSUME NEW extent \in Extents
  PROVE  extent \in Seq(Visit) /\ Covered(extent) \subseteq Blocks
<1>1. extent \in Seq(Visit)
  BY AnalysisAssumption
<1>2. \A i \in DOMAIN extent : extent[i] \in Visit
  BY <1>1
<1>3. \A v \in Visit : v.block \in Blocks
  BY DEF Visit
<1> QED
  BY <1>1, <1>2, <1>3 DEF Covered, ToSet

LEMMA FinishedStarted ==
  ASSUME NEW t
  PROVE  Finished(t) => Started(t)
BY DEF Finished, Started

-----------------------------------------------------------------------------
(* Steps in the life of a task *)

\* A task enters its next phase.
LEMMA EnterStep ==
  ASSUME IInv, NEW t \in Tasks,
         NEW p \in {"waiting", "running", "releasing", "closed"}, Enter(t, p),
         phase[t] # "absent",
         phase[t] = "creating" => p = "waiting" /\ Idle,
         p = "waiting" => phase[t] = "creating",
         p = "running" => \A o \in waits[t] : phase[o] = "closed",
         Finished(t) \/ Started(t) => p \in {"releasing", "closed"},
         p \in {"releasing", "closed"} => Started(t)
  PROVE  IInv'
<1> USE DEF IInv, Enter
<1>0. /\ phase' = [phase EXCEPT ![t] = p]
      /\ \A o \in Tasks : Finished(o) => Finished(o)'
      /\ \A o \in Tasks : Started(o)' => Started(o) \/ (o = t /\ p = "running")
      /\ Creating' => Creating
      /\ Creating /\ ~Creating' => Idle
      /\ Pending' = Pending /\ Covered(visits)' = Covered(visits)
      /\ Idle' = Idle
  BY DEF TypeOK, Finished, Started, Creating, Pending, Covered, Idle, Visit
<1>1. TypeOK'
  BY <1>0 DEF TypeOK
<1>2. WaitsAreAcyclic'
  BY DEF WaitsAreAcyclic
<1>3. StageInv'
  BY <1>0 DEF StageInv, TypeOK
<1>4. MetaInv'
  BY DEF MetaInv
<1>5. ArgInv'
  BY <1>0 DEF ArgInv
<1>6. TableInv'
  BY DEF TableInv
<1>7. AccessInv'
  <2>1. Creating /\ ~Creating' => Covered(visits) = {}
    BY <1>0, EmptyElements DEF Idle, Covered
  <2> QED
    BY <1>0, <2>1 DEF AccessInv
<1>8. ChainInv'
  <2> SUFFICES ASSUME NEW b \in Blocks, NEW s \in leads[b], NEW o \in leads[b], o < s
               PROVE  \/ Finished(o)'
                      \/ \E u \in leads[b] :
                           o <= u /\ u < s /\ (u \in waits[s] \/ (s = task /\ u \in Pending))
    BY <1>0 DEF ChainInv
  <2>1. o \in Tasks
    BY LeadsExist
  <2> QED
    BY <1>0, <2>1 DEF ChainInv
<1>9. LeadsOrdered'
  <2> SUFFICES ASSUME NEW b \in Blocks, NEW s \in leads[b], NEW o \in leads[b],
                      o < s, Started(s)'
               PROVE  Finished(o)'
    BY DEF LeadsOrdered
  <2>1. o \in Tasks /\ s \in Tasks
    BY LeadsExist
  <2>2. CASE Started(s)
    BY <1>0, <2>1, <2>2 DEF LeadsOrdered
  <2>3. CASE s = t /\ p = "running"
    <3>1. (phase[t] # "creating" /\ Pending = {}) \/ t # task
      BY <2>3, EmptyElements DEF StageInv, Idle, Pending, Creating
    <3>2. \/ Finished(o)
          \/ \E u \in leads[b] : o <= u /\ u < s /\ u \in waits[s]
      BY <2>3, <3>1 DEF ChainInv
    <3>3. ASSUME NEW u \in leads[b], o <= u, u < s, u \in waits[s]
          PROVE  Finished(o)
      <4>1. phase[u] = "closed" /\ u \in Tasks
        BY <2>3, <3>3, LeadsExist
      <4>2. CASE u = o
        BY <4>1, <4>2 DEF Finished
      <4>3. CASE o < u
        BY <4>1, <4>3 DEF Started, LeadsOrdered
      <4> QED
        BY <2>1, <3>3, <4>1, <4>2, <4>3, IdsAre
    <3> QED
      BY <1>0, <2>1, <3>2, <3>3
  <2> QED
    BY <1>0, <2>1, <2>2, <2>3
<1> QED
  BY <1>1, <1>2, <1>3, <1>4, <1>5, <1>6, <1>7, <1>8, <1>9

\* The steps of tasks after their analysis, one by one.
LEMMA LifeStep ==
  ASSUME IInv, EndTask \/ \E t \in Tasks : Start(t) \/ Release(t) \/ Close(t)
  PROVE  IInv'
<1>1. CASE EndTask
  <2>1. task \in Tasks /\ Enter(task, "waiting") /\ phase[task] = "creating" /\ Idle
    BY <1>1 DEF EndTask, Enter, Creating, IInv, TypeOK, Tasks
  <2> QED
    BY <2>1, EnterStep DEF Started, Finished
<1>2. ASSUME NEW t \in Tasks, Start(t)
      PROVE  IInv'
  BY <1>2, EnterStep DEF Start, Started, Finished
<1>3. ASSUME NEW t \in Tasks, Release(t) \/ Close(t)
      PROVE  IInv'
  BY <1>3, EnterStep DEF Release, Close, Started, Finished
<1> QED
  BY <1>1, <1>2, <1>3

-----------------------------------------------------------------------------
(* A new argument *)

\* What a new argument n of task t leaves alone, and what it adds.
ArgumentAdded(t, n, type, extent) ==
  /\ <<t, n>> \in Ids /\ arg' = <<t, n>> /\ Owner(arg') = t /\ arg'[2] = n
  /\ extent \in Seq(Visit) /\ task \in Nat /\ t \in Nat
  /\ Pending = {} /\ Pending' = {} /\ targets = <<>> /\ targets' = <<>>
  /\ Covered(visits) = {} /\ Covered(visits)' = Covered(extent)
  /\ Creating' /\ leads' = leads /\ table' = table /\ waits' = waits
  /\ meta'[<<t, n>>].type = type
  /\ \A m \in Ids : /\ meta'[m].readers = meta[m].readers
                    /\ meta'[m].dependent = meta[m].dependent
                    /\ m # <<t, n>> => meta'[m].type = meta[m].type
  /\ \A o \in Tasks :
       /\ reads[o] \subseteq reads'[o] /\ writes[o] \subseteq writes'[o]
       /\ o # t => reads'[o] = reads[o] /\ writes'[o] = writes[o]
  /\ \A b \in reads'[t] : b \in reads[t] \/ (type # "OUT" /\ b \in Covered(extent))
  /\ \A b \in writes'[t] : b \in writes[t] \/ (type = "OUT" /\ b \in Covered(extent))
  /\ Covered(extent) \subseteq IF type = "OUT" THEN writes'[t] ELSE reads'[t]
  /\ \A b \in Blocks : table[b] # None =>
       /\ table[b] \in Ids /\ table[b] # <<t, n>>
       /\ Owner(table[b]) \in Tasks /\ Owner(table[b]) <= task
       /\ Owner(table[b]) <= t
       /\ Owner(table[b]) = t => table[b][2] < n
  /\ \A o \in Tasks : o <= task => (Finished(o)' <=> Finished(o))
                                   /\ (Started(o)' <=> Started(o))

\* A metadata element is new, so no block has it yet.
LEMMA ArgumentFacts ==
  ASSUME IInv, NEW t \in Tasks, NEW n \in 1 .. MaxArgs, NEW type \in {"IN", "OUT"},
         NEW extent \in Extents, Argument(t, n, type, extent),
         Idle, task' = t,
         task <= t, phase'[t] = "creating",
         t = task => n > arg[2] /\ phase[t] = "creating",
         \A o \in Tasks : o # t => phase'[o] = phase[o],
         t # task => t = task + 1 /\ ~Creating
  PROVE  ArgumentAdded(t, n, type, extent)
<1> USE DEF IInv
<1>0. /\ <<t, n>> \in Ids /\ arg' = <<t, n>> /\ Owner(arg') = t /\ arg'[2] = n
      /\ extent \in Seq(Visit) /\ task \in Nat /\ t \in Nat
      /\ Pending = {} /\ Pending' = {} /\ targets = <<>> /\ targets' = <<>>
      /\ Covered(visits) = {} /\ Covered(visits)' = Covered(extent)
      /\ Creating' /\ leads' = leads /\ table' = table /\ waits' = waits
  BY EmptyElements, AnalysisAssumption, IdsAre
  DEF Argument, Ids, Owner, Idle, Pending, Covered, Creating, TypeOK, Tasks
<1>1. /\ meta'[<<t, n>>].type = type
      /\ \A m \in Ids : /\ meta'[m].readers = meta[m].readers
                        /\ meta'[m].dependent = meta[m].dependent
                        /\ m # <<t, n>> => meta'[m].type = meta[m].type
  <2>1. meta' = [meta EXCEPT ![<<t, n>>].type = type]
    BY DEF Argument
  <2>2. /\ meta \in [Ids -> [type : {"none", "IN", "OUT"}, readers : Seq(Tasks),
                            dependent : Ids \cup {None}]]
    BY DEF TypeOK
  <2>3. meta' = [m \in Ids |-> IF m = <<t, n>>
                               THEN [meta[m] EXCEPT !.type = type] ELSE meta[m]]
    BY <1>0, <2>1, <2>2
  <2>4. \A m \in Ids : /\ [meta[m] EXCEPT !.type = type].type = type
                       /\ [meta[m] EXCEPT !.type = type].readers = meta[m].readers
                       /\ [meta[m] EXCEPT !.type = type].dependent = meta[m].dependent
    BY <2>2
  <2>5. meta'[<<t, n>>].type = type
    BY <1>0, <2>3, <2>4
  <2>6. ASSUME NEW m \in Ids
        PROVE  /\ meta'[m].readers = meta[m].readers
               /\ meta'[m].dependent = meta[m].dependent
               /\ m # <<t, n>> => meta'[m].type = meta[m].type
    BY <2>3, <2>4
  <2> QED
    BY <2>5, <2>6
<1>2. /\ \A o \in Tasks : /\ reads[o] \subseteq reads'[o] /\ writes[o] \subseteq writes'[o]
                          /\ o # t => reads'[o] = reads[o] /\ writes'[o] = writes[o]
      /\ \A b \in reads'[t] : b \in reads[t] \/ (type # "OUT" /\ b \in Covered(extent))
      /\ \A b \in writes'[t] : b \in writes[t] \/ (type = "OUT" /\ b \in Covered(extent))
      /\ Covered(extent) \subseteq IF type = "OUT" THEN writes'[t] ELSE reads'[t]
  BY DEF Argument, TypeOK
<1>3. ASSUME NEW b \in Blocks, table[b] # None
      PROVE  /\ table[b] \in Ids /\ table[b] # <<t, n>>
             /\ Owner(table[b]) \in Tasks /\ Owner(table[b]) <= task
             /\ Owner(table[b]) <= t
             /\ Owner(table[b]) = t => table[b][2] < n
  <2>1. table[b] \in Ids
    BY <1>3 DEF TypeOK
  <2>2. /\ Owner(table[b]) \in Nat /\ table[b][2] \in Nat
        /\ Owner(table[b]) \in Tasks
        /\ Owner(table[b]) <= task
        /\ Owner(table[b]) = task => table[b][2] <= arg[2]
    <3>1. /\ Owner(table[b]) <= task
          /\ Owner(table[b]) = task => table[b][2] <= arg[2]
      BY <1>3 DEF TableInv
    <3>2. Owner(table[b]) \in Tasks /\ table[b][2] \in 1 .. MaxArgs
      BY <2>1, IdsAre
    <3>3. Tasks \subseteq Nat /\ 1 .. MaxArgs \subseteq Nat
      BY IdsAre, AnalysisAssumption
    <3> QED
      BY <3>1, <3>2, <3>3
  <2>3. t = task => arg[2] \in Nat /\ n \in Nat /\ n > arg[2]
    BY <1>0, IdsAre DEF StageInv, Tasks
  <2>4. Owner(table[b]) <= t
    BY <1>0, <2>2
  <2>5. Owner(table[b]) = t => t = task
    BY <1>0, <2>2
  <2>6. Owner(table[b]) = t => table[b][2] < n
    BY <2>2, <2>3, <2>5
  <2>7. Owner(<<t, n>>) = t /\ <<t, n>>[2] = n /\ n \in Nat
    BY AnalysisAssumption DEF Owner
  <2>8. table[b] # <<t, n>>
    BY <2>2, <2>6, <2>7
  <2> QED
    BY <2>1, <2>2, <2>4, <2>6, <2>8
<1>4. \A o \in Tasks : o <= task => (Finished(o)' <=> Finished(o))
                                   /\ (Started(o)' <=> Started(o))
  BY <1>0, IdsAre DEF Finished, Started
<1> QED
  BY <1>0, <1>1, <1>2, <1>3, <1>4 DEF ArgumentAdded

\* A new argument keeps all that is known of tasks and blocks.
LEMMA ArgumentFrame ==
  ASSUME IInv, NEW t \in Tasks, NEW n \in 1 .. MaxArgs, NEW type \in {"IN", "OUT"},
         NEW extent \in Extents, Argument(t, n, type, extent),
         Idle, task' = t,
         task <= t, phase'[t] = "creating",
         t = task => n > arg[2] /\ phase[t] = "creating",
         \A o \in Tasks : o # t => phase'[o] = phase[o],
         t # task => t = task + 1 /\ ~Creating
  PROVE  /\ MetaInv' /\ ArgInv' /\ TableInv' /\ AccessInv'
         /\ ChainInv' /\ LeadsOrdered'
<1>a. ArgumentAdded(t, n, type, extent)
  BY ArgumentFacts
<1>0. /\ <<t, n>> \in Ids /\ arg' = <<t, n>> /\ Owner(arg') = t /\ arg'[2] = n
      /\ extent \in Seq(Visit) /\ task \in Nat /\ t \in Nat
      /\ Pending = {} /\ Pending' = {} /\ targets = <<>> /\ targets' = <<>>
      /\ Covered(visits) = {} /\ Covered(visits)' = Covered(extent)
      /\ Creating' /\ leads' = leads /\ table' = table /\ waits' = waits
  BY <1>a DEF ArgumentAdded
<1>1. /\ meta'[<<t, n>>].type = type
      /\ \A m \in Ids : /\ meta'[m].readers = meta[m].readers
                        /\ meta'[m].dependent = meta[m].dependent
                        /\ m # <<t, n>> => meta'[m].type = meta[m].type
  BY <1>a DEF ArgumentAdded
<1>2. /\ \A o \in Tasks : /\ reads[o] \subseteq reads'[o] /\ writes[o] \subseteq writes'[o]
                          /\ o # t => reads'[o] = reads[o] /\ writes'[o] = writes[o]
      /\ \A b \in reads'[t] : b \in reads[t] \/ (type # "OUT" /\ b \in Covered(extent))
      /\ \A b \in writes'[t] : b \in writes[t] \/ (type = "OUT" /\ b \in Covered(extent))
      /\ Covered(extent) \subseteq IF type = "OUT" THEN writes'[t] ELSE reads'[t]
  BY <1>a DEF ArgumentAdded
<1>3. ASSUME NEW b \in Blocks, table[b] # None
      PROVE  /\ table[b] \in Ids /\ table[b] # <<t, n>>
             /\ Owner(table[b]) \in Tasks /\ Owner(table[b]) <= task
             /\ Owner(table[b]) <= t
             /\ Owner(table[b]) = t => table[b][2] < n
  BY <1>3, <1>a DEF ArgumentAdded
<1>8. \A o \in Tasks : o <= task => (Finished(o)' <=> Finished(o))
                                   /\ (Started(o)' <=> Started(o))
  BY <1>a DEF ArgumentAdded
<1> USE DEF IInv
<1>4. MetaInv'
  <2>1. 1 .. task \subseteq 1 .. t
    BY <1>0
  <2>2. ASSUME NEW m \in Ids
        PROVE  meta[m].readers \in Seq(1 .. t)
    BY <2>1, SeqMonotonic DEF MetaInv
  <2>3. \A m \in Ids : meta[m].dependent # None =>
                        Owner(meta[m].dependent) < Owner(m)
    BY DEF MetaInv
  <2> QED
    BY <1>1, <2>2, <2>3 DEF MetaInv
<1>5. ArgInv'
  <2>1. meta'[arg'].type = type /\ visits' = extent
    BY <1>0, <1>1 DEF Argument
  <2>2. extent # <<>> => Head(extent).newRow
    BY AnalysisAssumption
  <2>3. ToSet(targets') = {}
    BY <1>0, EmptyElements
  <2> QED
    BY <1>0, <1>2, <2>1, <2>2, <2>3 DEF ArgInv
<1>6. TableInv'
  <2> SUFFICES ASSUME NEW b \in Blocks, table[b] # None
               PROVE  LET m == table[b] IN
                      /\ Owner(m) <= t
                      /\ Owner(m) = t => m[2] <= n
                      /\ meta'[m].type = "OUT" => b \in writes'[Owner(m)]
                      /\ meta'[m].type # "OUT" =>
                           /\ meta'[m].type = "IN"
                           /\ b \in reads'[Owner(m)]
                           /\ Owner(m) \in ToSet(meta'[m].readers)
    BY <1>0 DEF TableInv
  <2>1. table[b] \in Ids /\ meta'[table[b]].type = meta[table[b]].type
        /\ meta'[table[b]].readers = meta[table[b]].readers
    BY <1>1, <1>3
  <2>2. /\ Owner(table[b]) \in Tasks /\ Owner(table[b]) <= t
        /\ Owner(table[b]) = t => table[b][2] <= n
    <3>1. table[b][2] \in Nat /\ n \in Nat
      BY <2>1, IdsAre, AnalysisAssumption
    <3> QED
      BY <1>3, <3>1
  <2>3. /\ meta[table[b]].type = "OUT" => b \in writes[Owner(table[b])]
        /\ meta[table[b]].type # "OUT" =>
             /\ meta[table[b]].type = "IN"
             /\ b \in reads[Owner(table[b])]
             /\ Owner(table[b]) \in ToSet(meta[table[b]].readers)
    BY DEF TableInv
  <2>4. reads[Owner(table[b])] \subseteq reads'[Owner(table[b])]
        /\ writes[Owner(table[b])] \subseteq writes'[Owner(table[b])]
    BY <1>2, <2>2
  <2> QED
    BY <2>1, <2>2, <2>3, <2>4
<1>7. AccessInv'
  <2>1. ASSUME NEW b \in Blocks, NEW s \in Tasks, b \in writes'[s]
        PROVE  s \in leads[b] \/ (s = t /\ b \in Covered(extent) /\ type = "OUT")
    <3>1. b \in writes[s] => s \in leads[b]
      BY <1>0 DEF AccessInv
    <3> QED
      BY <1>2, <2>1, <3>1
  <2>2. ASSUME NEW b \in Blocks, NEW s \in Tasks, b \in reads'[s]
        PROVE  \/ s \in leads[b]
               \/ s = t /\ b \in Covered(extent) /\ type # "OUT"
               \/ \E u \in leads[b] :
                    /\ u < s /\ b \in reads'[u]
                    /\ \A o \in Tasks : o < s /\ b \in writes'[o] => o <= u
    <3>1. CASE b \notin reads[s]
      BY <1>2, <2>2, <3>1
    <3>2. CASE b \in reads[s] /\ s \notin leads[b]
      <4>1. PICK u \in leads[b] :
              /\ u < s /\ b \in reads[u]
              /\ \A o \in Tasks : o < s /\ b \in writes[o] => o <= u
        BY <1>0, <3>2 DEF AccessInv
      <4>2. s <= t
        <5>1. s <= task
          BY <1>0, <3>2, IdsAre DEF StageInv
        <5> QED
          BY <1>0, <5>1, IdsAre
      <4>3. ASSUME NEW o \in Tasks, o < s
            PROVE  writes'[o] = writes[o]
        <5>1. o # t
          BY <1>0, <4>2, <4>3, IdsAre
        <5> QED
          BY <1>2, <5>1
      <4>4. u \in Tasks /\ b \in reads'[u]
        BY <1>2, <4>1, LeadsExist
      <4> QED
        BY <4>1, <4>3, <4>4
    <3> QED
      BY <3>1, <3>2
  <2> QED
    BY <1>0, <1>1, <2>1, <2>2 DEF AccessInv
<1>9. ChainInv'
  <2> SUFFICES ASSUME NEW b \in Blocks, NEW s \in leads[b], NEW o \in leads[b], o < s
               PROVE  \/ Finished(o)'
                      \/ \E u \in leads[b] : o <= u /\ u < s /\ u \in waits[s]
    BY <1>0 DEF ChainInv
  <2>1. \/ Finished(o)
        \/ \E u \in leads[b] : o <= u /\ u < s /\ u \in waits[s]
    BY <1>0 DEF ChainInv
  <2> QED
    BY <1>8, <2>1, LeadsExist
<1>10. LeadsOrdered'
  <2> SUFFICES ASSUME NEW b \in Blocks, NEW s \in leads[b], NEW o \in leads[b],
                      o < s, Started(s)'
               PROVE  Finished(o)'
    BY <1>0 DEF LeadsOrdered
  <2>1. Finished(o)
    BY <1>8, LeadsExist DEF LeadsOrdered
  <2> QED
    BY <1>8, <2>1, LeadsExist
<1> QED
  BY <1>10, <1>4, <1>5, <1>6, <1>7, <1>9

LEMMA ArgumentType ==
  ASSUME TypeOK, NEW t \in Tasks, NEW n \in 1 .. MaxArgs, NEW type \in {"IN", "OUT"},
         NEW extent \in Extents, Argument(t, n, type, extent),
         phase' \in [Tasks -> {"absent", "creating", "waiting", "running",
                              "releasing", "closed"}],
         depsLast' \in Tasks \cup {None}, task' \in 0 .. NumTasks
  PROVE  TypeOK'
<1>1. <<t, n>> \in Ids /\ extent \in Seq(Visit) /\ Covered(extent) \subseteq Blocks
  BY CoveredBlocks DEF Ids
<1>2. meta' \in [Ids -> [type : {"none", "IN", "OUT"}, readers : Seq(Tasks),
                        dependent : Ids \cup {None}]]
  <2>1. meta' = [m \in Ids |-> IF m = <<t, n>>
                               THEN [meta[m] EXCEPT !.type = type] ELSE meta[m]]
    BY <1>1 DEF Argument, TypeOK
  <2>2. \A m \in Ids : meta[m] \in [type : {"none", "IN", "OUT"}, readers : Seq(Tasks),
                                   dependent : Ids \cup {None}]
    BY DEF TypeOK
  <2>3. \A m \in Ids : [meta[m] EXCEPT !.type = type]
                         \in [type : {"none", "IN", "OUT"}, readers : Seq(Tasks),
                             dependent : Ids \cup {None}]
    BY <2>2
  <2> QED
    BY <2>1, <2>2, <2>3
<1>3. reads' \in [Tasks -> SUBSET Blocks] /\ writes' \in [Tasks -> SUBSET Blocks]
  <2>1. reads \in [Tasks -> SUBSET Blocks] /\ writes \in [Tasks -> SUBSET Blocks]
    BY DEF TypeOK
  <2>2. \/ reads' = [reads EXCEPT ![t] = @ \cup Covered(extent)] /\ writes' = writes
        \/ writes' = [writes EXCEPT ![t] = @ \cup Covered(extent)] /\ reads' = reads
    BY DEF Argument
  <2>3. \A f \in [Tasks -> SUBSET Blocks] :
          [f EXCEPT ![t] = @ \cup Covered(extent)] \in [Tasks -> SUBSET Blocks]
    BY <1>1
  <2> QED
    BY <2>1, <2>2, <2>3
<1>4. /\ UNCHANGED <<table, waits, targets, leads>>
      /\ arg' = <<t, n>> /\ visits' = extent
  BY DEF Argument
<1> QED
  BY <1>1, <1>2, <1>3, <1>4 DEF TypeOK

LEMMA NewTaskStep ==
  ASSUME IInv, NEW type \in {"IN", "OUT"}, NEW extent \in Extents,
         NewTask(type, extent)
  PROVE  IInv'
<1> USE DEF IInv
<1>1. /\ task \in Nat /\ task + 1 \in Tasks /\ task < task + 1
      /\ 1 \in 1 .. MaxArgs /\ ~Creating
      /\ task' = task + 1 /\ phase' = [phase EXCEPT ![task + 1] = "creating"]
      /\ Argument(task + 1, 1, type, extent) /\ depsLast' = None
  BY AnalysisAssumption DEF NewTask, TypeOK, Tasks
<1>2. Idle
  BY <1>1 DEF StageInv
<1>4. /\ phase'[task + 1] = "creating"
      /\ \A o \in Tasks : o # task + 1 => phase'[o] = phase[o]
  BY <1>1 DEF TypeOK
<1>5. MetaInv' /\ ArgInv' /\ TableInv' /\ AccessInv' /\ ChainInv' /\ LeadsOrdered'
  BY <1>1, <1>2, <1>4, ArgumentFrame
<1>6. arg' = <<task + 1, 1>> /\ arg' \in Ids /\ Owner(arg') = task + 1
  BY <1>1 DEF Argument, Ids, Owner
<1>7. TypeOK'
  <2>1. phase' \in [Tasks -> {"absent", "creating", "waiting", "running",
                             "releasing", "closed"}]
    BY <1>1 DEF TypeOK
  <2>2. depsLast' \in Tasks \cup {None} /\ task' \in 0 .. NumTasks
    BY <1>1 DEF Tasks
  <2> QED
    BY <1>1, <2>1, <2>2, ArgumentType
<1>8. WaitsAreAcyclic'
  BY <1>1 DEF WaitsAreAcyclic, Argument
<1>9. StageInv'
  <2>1. /\ \A o \in Tasks : o # task + 1 => reads'[o] = reads[o] /\ writes'[o] = writes[o]
        /\ waits' = waits
    BY <1>1 DEF Argument, TypeOK
  <2>2. ASSUME NEW o \in Tasks
        PROVE  /\ o > task + 1 => /\ phase'[o] = "absent" /\ waits'[o] = {}
                                  /\ reads'[o] = {} /\ writes'[o] = {}
               /\ o < task + 1 => phase'[o] \notin {"absent", "creating"}
    <3>1. o \in Nat
      BY IdsAre
    <3>2. CASE o > task + 1
      BY <1>1, <1>4, <2>1, <3>1, <3>2 DEF StageInv
    <3>3. CASE o < task + 1
      <4>1. o \in 1 .. task
        BY <1>1, <3>1, <3>3 DEF Tasks
      <4>2. phase[o] \notin {"absent", "creating"}
        BY <1>1, <3>1, <4>1 DEF StageInv, Creating
      <4> QED
        BY <1>1, <1>4, <3>1, <3>3, <4>2
    <3> QED
      BY <1>1, <3>1, <3>2, <3>3
  <2>3. Creating'
    BY <1>1, <1>4 DEF Creating
  <2> QED
    BY <1>1, <1>4, <1>6, <2>2, <2>3 DEF StageInv
<1> QED
  BY <1>5, <1>7, <1>8, <1>9

LEMMA NextArgStep ==
  ASSUME IInv, NEW type \in {"IN", "OUT"}, NEW extent \in Extents,
         NextArg(type, extent)
  PROVE  IInv'
<1> USE DEF IInv
<1>1. /\ Creating /\ Idle /\ task \in Tasks /\ task \in Nat /\ task > 0
      /\ arg \in Ids /\ arg[2] \in 1 .. MaxArgs /\ arg[2] < MaxArgs
      /\ UNCHANGED <<phase, depsLast, task>>
      /\ Argument(task, arg[2] + 1, type, extent)
  <2>1. Creating /\ Idle /\ task \in Tasks /\ task \in Nat /\ task > 0
    BY DEF NextArg, Creating, TypeOK, Tasks
  <2>2. arg \in Ids
    BY <2>1 DEF StageInv
  <2> QED
    BY <2>1, <2>2, IdsAre DEF NextArg
<1>2. arg[2] + 1 \in 1 .. MaxArgs /\ arg[2] + 1 > arg[2]
  BY <1>1, AnalysisAssumption
<1>3. phase'[task] = "creating" /\ phase[task] = "creating"
  BY <1>1 DEF Creating
<1>4. MetaInv' /\ ArgInv' /\ TableInv' /\ AccessInv' /\ ChainInv' /\ LeadsOrdered'
  BY <1>1, <1>2, <1>3, ArgumentFrame
<1>5. TypeOK'
  <2>1. phase' \in [Tasks -> {"absent", "creating", "waiting", "running",
                             "releasing", "closed"}]
    BY <1>1 DEF TypeOK
  <2>2. depsLast' \in Tasks \cup {None} /\ task' \in 0 .. NumTasks
    BY <1>1 DEF TypeOK
  <2> QED
    BY <1>1, <1>2, <2>1, <2>2, ArgumentType
<1>6. WaitsAreAcyclic'
  BY <1>1 DEF WaitsAreAcyclic, Argument
<1>7. StageInv'
  <2>1. arg' = <<task, arg[2] + 1>> /\ arg' \in Ids /\ Owner(arg') = task
    BY <1>1, <1>2 DEF Argument, Ids, Owner
  <2>2. /\ \A o \in Tasks : o # task => reads'[o] = reads[o] /\ writes'[o] = writes[o]
        /\ waits' = waits
    BY <1>1 DEF Argument, TypeOK
  <2>3. Creating'
    BY <1>1 DEF Creating
  <2> QED
    BY <1>1, <2>1, <2>2, <2>3, IdsAre DEF StageInv
<1> QED
  BY <1>4, <1>5, <1>6, <1>7
-----------------------------------------------------------------------------
(* The visit of a block *)

TargetType == [owner : Tasks, tested : BOOLEAN, link : Ids \cup {None}]
MetaType == [type : {"none", "IN", "OUT"}, readers : Seq(Tasks),
             dependent : Ids \cup {None}]

\* Where the analysis is when it visits a block.
LEMMA VisitFacts ==
  ASSUME IInv, NEW ty \in {"IN", "OUT"}, Visiting(ty)
  PROVE  /\ Creating /\ task \in Tasks /\ phase[task] = "creating"
         /\ arg \in Ids /\ Owner(arg) = task /\ meta[arg].type = ty
         /\ Block \in Blocks /\ Old \in Ids \cup {None}
         /\ Head(visits) \in Visit /\ visits' \in Seq(Visit)
         /\ Covered(visits) = {Block} \cup Covered(visits')
         /\ Covered(visits) \subseteq IF ty = "OUT" THEN writes[task] ELSE reads[task]
         /\ Pending = {}
         /\ ty = "IN" => Head(visits).newRow \/ task \in ToSet(meta[arg].readers)
         /\ UNCHANGED <<phase, waits, depsLast, task, arg, reads, writes>>
<1> USE DEF IInv
<1>1. /\ visits # <<>> /\ targets = <<>> /\ meta[arg].type = ty
      /\ visits' = Tail(visits)
      /\ UNCHANGED <<phase, waits, depsLast, task, arg, reads, writes>>
  BY DEF Visiting
<1>2. Creating /\ task \in Tasks /\ phase[task] = "creating"
  BY <1>1 DEF StageInv, Idle, Creating, TypeOK, Tasks
<1>3. arg \in Ids /\ Owner(arg) = task
  BY <1>2 DEF StageInv, Creating
<1>4. /\ Head(visits) \in Visit /\ Tail(visits) \in Seq(Visit)
      /\ ToSet(visits) = {Head(visits)} \cup ToSet(Tail(visits))
  BY <1>1, HeadAndTail DEF TypeOK
<1>5. Block \in Blocks /\ Old \in Ids \cup {None}
  BY <1>4 DEF Block, Old, Visit, TypeOK
<1>6. Covered(visits) = {Block} \cup Covered(visits')
  BY <1>1, <1>4 DEF Covered, Block
<1>7. Covered(visits) \subseteq IF ty = "OUT" THEN writes[task] ELSE reads[task]
  BY <1>1, <1>2 DEF ArgInv
<1>8. Pending = {}
  BY <1>1, EmptyElements DEF Pending
<1>9. ty = "IN" => Head(visits).newRow \/ task \in ToSet(meta[arg].readers)
  BY <1>1, <1>2 DEF ArgInv
<1> QED
  BY <1>1, <1>2, <1>3, <1>4, <1>5, <1>6, <1>7, <1>8, <1>9

\* What a visit may do to the metadata: enter the task as a reader.
Known(M) ==
  M \in [Ids -> MetaType] /\ \A k \in Ids : M[k].readers \in Seq(1 .. task)

Adds(M, N) ==
  \A k \in Ids : /\ N[k].type = M[k].type
                 /\ N[k].dependent = M[k].dependent
                 /\ ToSet(M[k].readers) \subseteq ToSet(N[k].readers)

ReadersAdded == Known(meta') /\ Adds(meta, meta')

\* The stack_push calls a visit may ask for.
TargetsKnown ==
  /\ targets' \in Seq(TargetType)
  /\ \A to \in ToSet(targets') :
       /\ to.owner <= task
       /\ ~to.tested => to.owner < task
       /\ to.link # None => to.tested /\ Owner(to.link) = to.owner

\* What holds after every visit.
LEMMA VisitFrame ==
  ASSUME IInv, NEW ty \in {"IN", "OUT"}, Visiting(ty), ReadersAdded, TargetsKnown,
         ty = "IN" => task \in ToSet(meta'[arg].readers)
  PROVE  WaitsAreAcyclic' /\ StageInv' /\ MetaInv' /\ ArgInv'
<1> USE DEF IInv
<1>1. WaitsAreAcyclic'
  BY VisitFacts DEF WaitsAreAcyclic
<1>2. StageInv'
  <2>1. Creating'
    BY VisitFacts DEF Creating
  <2> QED
    BY VisitFacts, <2>1 DEF StageInv
<1>3. MetaInv'
  BY VisitFacts DEF MetaInv, ReadersAdded, Known, Adds
<1>4. ArgInv'
  <2>1. meta'[arg'].type = ty /\ arg' = arg /\ task' = task
    BY VisitFacts DEF ReadersAdded, Known, Adds
  <2>2. Covered(visits') \subseteq IF ty = "OUT" THEN writes'[task] ELSE reads'[task]
    BY VisitFacts
  <2> QED
    BY <2>1, <2>2 DEF ArgInv, TargetsKnown
<1> QED
  BY <1>1, <1>2, <1>3, <1>4

\* A visit that takes the block: the task must wait, after the stack_push
\* calls, for whoever took it before and has not finished.
LEMMA AssignStep ==
  ASSUME IInv, NEW ty \in {"IN", "OUT"}, Visiting(ty), ReadersAdded, TargetsKnown,
         ty = "IN" => task \in ToSet(meta'[arg].readers),
         Assign,
         \A o \in leads[Block] : o < task =>
           \/ Finished(o)
           \/ \E u \in leads[Block] :
                o <= u /\ u < task /\ (u \in waits[task] \/ u \in Pending')
  PROVE  IInv'
<1> USE DEF IInv
<1>0. WaitsAreAcyclic' /\ StageInv' /\ MetaInv' /\ ArgInv'
  BY VisitFrame
<1>1. /\ table'[Block] = arg /\ leads'[Block] = leads[Block] \cup {task}
      /\ \A b \in Blocks : b # Block => table'[b] = table[b] /\ leads'[b] = leads[b]
      /\ \A b \in Blocks : leads[b] \subseteq leads'[b]
  BY VisitFacts DEF Assign, TypeOK
<1>2. TypeOK'
  <2>1. table' \in [Blocks -> Ids \cup {None}] /\ leads' \in [Blocks -> SUBSET Tasks]
    BY VisitFacts DEF Assign, TypeOK
  <2> QED
    BY <2>1, VisitFacts DEF TypeOK, ReadersAdded, Known, Adds, TargetsKnown, TargetType, MetaType
<1>3. TableInv'
  <2>1. /\ meta'[arg].type = ty /\ task' = task /\ arg' = arg
        /\ ty = "OUT" => Block \in writes'[task]
        /\ ty = "IN" => Block \in reads'[task]
    BY VisitFacts DEF ReadersAdded, Known, Adds
  <2>2. \A u \in leads[Block] : u <= task
    BY LeadsExist, VisitFacts
  <2>3. task \in Nat /\ arg[2] <= arg[2] /\ Owner(arg) = task /\ arg # None
    <3>1. /\ arg \in Ids /\ Owner(arg) = task /\ task \in Tasks
      BY VisitFacts
    <3>2. arg[2] \in 1 .. MaxArgs
      BY <3>1, IdsAre
    <3>3. arg # None /\ task \in Nat
      BY <3>1, IdsAre
    <3> QED
      BY <3>1, <3>2, <3>3
  <2>4. LET m == table'[Block] IN
          /\ m # None /\ Owner(m) <= task' /\ (Owner(m) = task' => m[2] <= arg'[2])
          /\ Owner(m) \in leads'[Block]
          /\ \A u \in leads'[Block] : u <= Owner(m)
          /\ meta'[m].type = "OUT" => Block \in writes'[Owner(m)]
          /\ meta'[m].type # "OUT" =>
              /\ meta'[m].type = "IN"
              /\ Block \in reads'[Owner(m)]
              /\ Owner(m) \in ToSet(meta'[m].readers)
    BY <1>1, <2>1, <2>2, <2>3
  <2>5. ASSUME NEW b \in Blocks, b # Block
        PROVE  /\ table'[b] = None => leads'[b] = {}
               /\ table'[b] # None =>
                    LET m == table'[b] IN
                    /\ Owner(m) <= task'
                    /\ Owner(m) = task' => m[2] <= arg'[2]
                    /\ Owner(m) \in leads'[b]
                    /\ \A u \in leads'[b] : u <= Owner(m)
                    /\ meta'[m].type = "OUT" => b \in writes'[Owner(m)]
                    /\ meta'[m].type # "OUT" =>
                         /\ meta'[m].type = "IN"
                         /\ b \in reads'[Owner(m)]
                         /\ Owner(m) \in ToSet(meta'[m].readers)
    <3>1. table[b] # None => table[b] \in Ids
      BY DEF TypeOK
    <3>2. table'[b] = table[b] /\ leads'[b] = leads[b]
      BY <1>1, <2>5
    <3> QED
      BY <2>1, <3>1, <3>2, VisitFacts DEF TableInv, ReadersAdded, Known, Adds
  <2> QED
    BY <2>4, <2>5 DEF TableInv
<1>4. AccessInv'
  <2>1. /\ Creating' /\ task' = task /\ arg' = arg /\ meta'[arg].type = meta[arg].type
        /\ reads' = reads /\ writes' = writes
        /\ Covered(visits) = {Block} \cup Covered(visits')
    BY VisitFacts DEF Creating, ReadersAdded, Known, Adds
  <2>2. task \in leads'[Block]
    BY <1>1
  <2>3. ASSUME NEW b \in Blocks, NEW t \in Tasks, b \in writes[t]
        PROVE  \/ t \in leads'[b]
               \/ t = task /\ b \in Covered(visits') /\ meta[arg].type = "OUT"
    <3>1. \/ t \in leads[b]
          \/ t = task /\ b \in Covered(visits) /\ meta[arg].type = "OUT"
      BY <2>3 DEF AccessInv
    <3> QED
      BY <1>1, <2>1, <2>2, <3>1
  <2>4. ASSUME NEW b \in Blocks, NEW t \in Tasks, b \in reads[t]
        PROVE  \/ t \in leads'[b]
               \/ t = task /\ b \in Covered(visits') /\ meta[arg].type # "OUT"
               \/ \E u \in leads'[b] :
                    /\ u < t /\ b \in reads[u]
                    /\ \A o \in Tasks : o < t /\ b \in writes[o] => o <= u
    <3>1. \/ t \in leads[b]
          \/ t = task /\ b \in Covered(visits) /\ meta[arg].type # "OUT"
          \/ \E u \in leads[b] :
               /\ u < t /\ b \in reads[u]
               /\ \A o \in Tasks : o < t /\ b \in writes[o] => o <= u
      BY <2>4 DEF AccessInv
    <3> QED
      BY <1>1, <2>1, <2>2, <3>1
  <2> QED
    BY <2>1, <2>3, <2>4 DEF AccessInv
<1>5. \A b \in Blocks : \A t \in leads'[b] : t \in Nat /\ t <= task /\ task \in Nat
  <2>1. task \in Nat /\ task <= task
    <3>1. task \in Tasks
      BY VisitFacts
    <3> QED
      BY <3>1, IdsAre
  <2>2. ASSUME NEW b \in Blocks, NEW t \in leads[b]
        PROVE  t \in Nat /\ t <= task
    BY LeadsExist, IdsAre
  <2> QED
    BY <1>1, <2>1, <2>2
<1>6. ChainInv'
  <2> SUFFICES ASSUME NEW b \in Blocks, NEW t \in leads'[b], NEW o \in leads'[b], o < t
               PROVE  \/ Finished(o)
                      \/ \E u \in leads'[b] :
                           o <= u /\ u < t /\ (u \in waits[t] \/ (t = task /\ u \in Pending'))
    BY VisitFacts DEF ChainInv, Finished
  <2>1. t \in Nat /\ o \in Nat /\ task \in Nat /\ t <= task /\ o <= task
    BY <1>5
  <2>2. CASE t = task /\ b = Block
    BY <1>1, <2>1, <2>2
  <2>3. CASE ~(t = task /\ b = Block)
    <3>1. t \in leads[b] /\ o \in leads[b]
      BY <1>1, <2>1, <2>3
    <3> QED
      BY <1>1, <3>1, VisitFacts DEF ChainInv
  <2> QED
    BY <2>2, <2>3
<1>7. LeadsOrdered'
  <2> SUFFICES ASSUME NEW b \in Blocks, NEW t \in leads'[b], NEW o \in leads'[b],
                      o < t, Started(t)
               PROVE  Finished(o)
    BY VisitFacts DEF LeadsOrdered, Finished, Started
  <2>1. t \in Nat /\ o \in Nat /\ task \in Nat /\ t <= task /\ o <= task
    BY <1>5
  <2>2. t # task
    BY VisitFacts DEF Started
  <2>3. o # task
    BY <2>1
  <2> QED
    BY <1>1, <2>2, <2>3 DEF LeadsOrdered
<1> QED
  BY <1>0, <1>2, <1>3, <1>4, <1>6, <1>7

\* A visit that asks for nothing but the reading of a block by another task.
LEMMA JoinStep ==
  ASSUME IInv, Visiting("IN"), ReadersAdded, TargetsKnown,
         task \in ToSet(meta'[arg].readers),
         Old \in Ids, meta[Old].type = "IN", UNCHANGED <<table, leads>>
  PROVE  IInv'
<1> USE DEF IInv
<1>0. WaitsAreAcyclic' /\ StageInv' /\ MetaInv' /\ ArgInv'
  BY VisitFrame
<1>1. TypeOK'
  BY VisitFacts DEF TypeOK, ReadersAdded, Known, Adds, TargetsKnown, TargetType, MetaType
<1>2. TableInv'
  <2>1. ASSUME NEW b \in Blocks
        PROVE  table[b] # None => table[b] \in Ids
    BY DEF TypeOK
  <2>2. /\ UNCHANGED <<task, arg, reads, writes>>
    BY VisitFacts
  <2> QED
    BY <2>1, <2>2 DEF TableInv, ReadersAdded, Known, Adds
<1>3. AccessInv'
  <2>1. /\ Creating' /\ task' = task /\ arg' = arg /\ meta'[arg].type = "IN"
        /\ meta[arg].type = "IN" /\ reads' = reads /\ writes' = writes
        /\ Covered(visits) = {Block} \cup Covered(visits')
        /\ task \in Tasks /\ Block \in Blocks
    BY VisitFacts DEF Creating, ReadersAdded, Known, Adds
  <2>2. /\ Owner(Old) \in leads[Block] /\ Owner(Old) <= task
        /\ Owner(Old) \in Tasks /\ Block \in reads[Owner(Old)]
        /\ \A u \in leads[Block] : u <= Owner(Old)
    BY <2>1, IdsAre, AnalysisAssumption DEF TableInv, Old
  <2>3. \/ task \in leads[Block]
        \/ \E u \in leads[Block] :
             /\ u < task /\ Block \in reads[u]
             /\ \A o \in Tasks : o < task /\ Block \in writes[o] => o <= u
    <3>1. CASE Owner(Old) = task
      BY <2>2, <3>1
    <3>2. CASE Owner(Old) # task
      <4>1. Owner(Old) < task
        BY <2>1, <2>2, <3>2, TaskOrder
      <4>2. ASSUME NEW o \in Tasks, o < task, Block \in writes[o]
            PROVE  o <= Owner(Old)
        <5>1. o # task
          BY <2>1, <4>2, IdsAre
        <5>2. o \in leads[Block]
          BY <2>1, <4>2, <5>1 DEF AccessInv
        <5> QED
          BY <2>2, <5>2
      <4> QED
        BY <2>2, <4>1, <4>2
    <3> QED
      BY <3>1, <3>2
  <2>4. ASSUME NEW b \in Blocks, NEW t \in Tasks, b \in writes[t]
        PROVE  t \in leads[b]
    BY <2>1, <2>4 DEF AccessInv
  <2>5. ASSUME NEW b \in Blocks, NEW t \in Tasks, b \in reads[t]
        PROVE  \/ t \in leads[b]
               \/ t = task /\ b \in Covered(visits') /\ meta[arg].type # "OUT"
               \/ \E u \in leads[b] :
                    /\ u < t /\ b \in reads[u]
                    /\ \A o \in Tasks : o < t /\ b \in writes[o] => o <= u
    <3>1. \/ t \in leads[b]
          \/ t = task /\ b \in Covered(visits) /\ meta[arg].type # "OUT"
          \/ \E u \in leads[b] :
               /\ u < t /\ b \in reads[u]
               /\ \A o \in Tasks : o < t /\ b \in writes[o] => o <= u
      BY <2>5 DEF AccessInv
    <3> QED
      BY <2>1, <2>3, <3>1
  <2> QED
    BY <2>1, <2>4, <2>5 DEF AccessInv
<1>4. ChainInv'
  <2>1. /\ Pending = {} /\ UNCHANGED <<phase, waits, task, leads>>
    BY VisitFacts
  <2>2. \A t : Finished(t)' <=> Finished(t)
    BY <2>1 DEF Finished
  <2> QED
    BY <2>1, <2>2 DEF ChainInv
<1>5. LeadsOrdered'
  BY VisitFacts DEF LeadsOrdered, Finished, Started
<1> QED
  BY <1>0, <1>1, <1>2, <1>3, <1>4, <1>5

\* It is enough to wait for the owner of the metadata in the table.
LEMMA WaitForOwner ==
  ASSUME IInv, NEW ty \in {"IN", "OUT"}, Visiting(ty),
         Old # None =>
           (Owner(Old) < task => Finished(Owner(Old)) \/ Owner(Old) \in Pending')
  PROVE  \A o \in leads[Block] : o < task =>
           \/ Finished(o)
           \/ \E u \in leads[Block] :
                o <= u /\ u < task /\ (u \in waits[task] \/ u \in Pending')
<1> USE DEF IInv
<1> SUFFICES ASSUME NEW o \in leads[Block], o < task
             PROVE  \/ Finished(o)
                    \/ \E u \in leads[Block] :
                         o <= u /\ u < task /\ (u \in waits[task] \/ u \in Pending')
  OBVIOUS
<1>1. Block \in Blocks /\ task \in Tasks /\ Pending = {}
  BY VisitFacts
<1>2. /\ o \in Tasks /\ Old \in Ids /\ Owner(Old) \in leads[Block]
      /\ o <= Owner(Old) /\ Owner(Old) <= task /\ Owner(Old) \in Tasks
  BY <1>1, LeadsExist, IdsAre DEF Old
<1>3. CASE Owner(Old) = task
  BY <1>1, <1>2, <1>3 DEF ChainInv
<1>4. CASE Owner(Old) # task
  <2>1. Owner(Old) < task /\ Old # None
    <3>1. Owner(Old) < task
      BY <1>1, <1>2, <1>4, TaskOrder
    <3>2. Old # None
      BY <1>2, AnalysisAssumption
    <3> QED
      BY <3>1, <3>2
  <2>2. CASE Owner(Old) \in Pending'
    BY <1>2, <2>1, <2>2
  <2>3. CASE Finished(Owner(Old))
    <3>1. CASE o = Owner(Old)
      BY <2>3, <3>1
    <3>2. CASE o # Owner(Old)
      <4>1. o < Owner(Old) /\ Started(Owner(Old))
        BY <1>2, <2>3, <3>2, TaskOrder, FinishedStarted
      <4> QED
        BY <1>1, <1>2, <4>1 DEF LeadsOrdered
    <3> QED
      BY <3>1, <3>2
  <2> QED
    BY <2>1, <2>2, <2>3
<1> QED
  BY <1>3, <1>4

\* A task enters the readers of a metadata element.
LEMMA ReaderEntered ==
  ASSUME NEW M, Known(M), task \in Tasks, NEW m \in Ids
  PROVE  LET N == [M EXCEPT ![m].readers = <<task>> \o @] IN
         Known(N) /\ Adds(M, N) /\ task \in ToSet(N[m].readers)
<1> DEFINE R == <<task>> \o M[m].readers
           N == [M EXCEPT ![m].readers = <<task>> \o @]
<1>1. /\ M \in [Ids -> MetaType] /\ M[m] \in MetaType /\ M[m].readers \in Seq(Tasks)
      /\ \A k \in Ids : M[k].readers \in Seq(1 .. task)
  BY DEF MetaType, Known
<1>2. R \in Seq(Tasks) /\ ToSet(R) = {task} \cup ToSet(M[m].readers)
  BY <1>1, PutInFront
<1>3. task \in 1 .. task
  BY DEF Tasks
<1>4. R \in Seq(1 .. task)
  BY <1>1, <1>3, PutInFront
<1>5. N = [k \in Ids |-> IF k = m THEN [M[k] EXCEPT !.readers = R] ELSE M[k]]
  BY <1>1
<1> HIDE DEF R, N
<1>6. /\ [M[m] EXCEPT !.readers = R] \in MetaType
      /\ [M[m] EXCEPT !.readers = R].type = M[m].type
      /\ [M[m] EXCEPT !.readers = R].dependent = M[m].dependent
      /\ [M[m] EXCEPT !.readers = R].readers = R
  BY <1>1, <1>2 DEF MetaType
<1>7. N[m] = [M[m] EXCEPT !.readers = R] /\ \A k \in Ids : k # m => N[k] = M[k]
  BY <1>5
<1>8. N \in [Ids -> MetaType]
  BY <1>1, <1>5, <1>6
<1>9. Known(N)
  BY <1>1, <1>4, <1>6, <1>7, <1>8 DEF Known
<1>10. Adds(M, N) /\ task \in ToSet(N[m].readers)
  BY <1>2, <1>6, <1>7 DEF Adds
<1> QED
  BY <1>9, <1>10 DEF N

LEMMA AddsTransitive ==
  ASSUME NEW M, NEW N, NEW P, Adds(M, N), Adds(N, P)
  PROVE  Adds(M, P)
BY DEF Adds

LEMMA EnteredReads ==
  ASSUME IInv, Visiting("IN")
  PROVE  LET M == Entered(meta) IN
         Known(M) /\ Adds(meta, M) /\ task \in ToSet(M[arg].readers)
<1>1. /\ Known(meta) /\ task \in Tasks /\ arg \in Ids
      /\ Head(visits).newRow \/ task \in ToSet(meta[arg].readers)
  BY VisitFacts DEF IInv, Known, TypeOK, MetaType, MetaInv
<1>2. CASE Head(visits).newRow
  <2>1. Entered(meta) = [meta EXCEPT ![arg].readers = <<task>> \o @]
    BY <1>2 DEF Entered
  <2> QED
    BY <1>1, <2>1, ReaderEntered
<1>3. CASE ~Head(visits).newRow
  <2>1. Entered(meta) = meta
    BY <1>3 DEF Entered
  <2> QED
    BY <1>1, <1>3, <2>1 DEF Adds
<1> QED
  BY <1>2, <1>3

LEMMA JoinedReads ==
  ASSUME IInv, Visiting("IN"), NEW m \in Ids,
         meta' = [Entered(meta) EXCEPT ![m].readers = <<task>> \o @]
  PROVE  ReadersAdded /\ task \in ToSet(meta'[arg].readers)
<1>1. PICK M : M = Entered(meta)
  OBVIOUS
<1>2. Known(M) /\ Adds(meta, M) /\ task \in ToSet(M[arg].readers)
  BY <1>1, EnteredReads
<1>3. task \in Tasks /\ arg \in Ids
  BY VisitFacts
<1>4. Known([M EXCEPT ![m].readers = <<task>> \o @])
      /\ Adds(M, [M EXCEPT ![m].readers = <<task>> \o @])
  BY <1>2, <1>3, ReaderEntered
<1>5. Known(meta') /\ Adds(M, meta')
  BY <1>1, <1>4
<1>6. task \in ToSet(meta'[arg].readers)
  BY <1>2, <1>3, <1>5 DEF Adds
<1> QED
  BY <1>2, <1>5, <1>6, AddsTransitive DEF ReadersAdded

\* No stack_push to make.
LEMMA NoTargets ==
  ASSUME targets' = <<>>
  PROVE  TargetsKnown
BY EmptySeq, EmptyElements DEF TargetsKnown

\* One stack_push to make.
LEMMA OneTarget ==
  ASSUME NEW o \in Tasks, o <= task, NEW tested \in BOOLEAN, ~tested => o < task,
         NEW link \in Ids \cup {None}, link # None => tested /\ Owner(link) = o,
         targets' = <<Target(o, tested, link)>>
  PROVE  TargetsKnown /\ Pending' = {o}
<1>1. Target(o, tested, link) \in TargetType
  BY DEF Target, TargetType
<1>2. targets' \in Seq(TargetType) /\ ToSet(targets') = {Target(o, tested, link)}
  BY <1>1, OneElement
<1>3. Target(o, tested, link).owner = o /\ Target(o, tested, link).tested = tested
      /\ Target(o, tested, link).link = link
  BY DEF Target
<1>4. Pending' = {o}
  BY <1>2, <1>3 DEF Pending
<1> QED
  BY <1>2, <1>3, <1>4 DEF TargetsKnown

\* One stack_push for each reader.
LEMMA ReaderTargets ==
  ASSUME NEW readers \in Seq(1 .. task), readers \in Seq(Tasks),
         targets' = [i \in 1 .. Len(readers) |-> Target(readers[i], TRUE, None)]
  PROVE  TargetsKnown /\ ToSet(readers) \subseteq Pending'
<1>1. Len(readers) \in Nat /\ DOMAIN readers = 1 .. Len(readers)
  BY LenProperties
<1>2. \A i \in 1 .. Len(readers) : readers[i] \in 1 .. task /\ readers[i] \in Tasks
  BY <1>1, ElementOfSeq
<1>3. \A o \in Tasks : /\ Target(o, TRUE, None) \in TargetType
                       /\ Target(o, TRUE, None).owner = o
                       /\ Target(o, TRUE, None).tested = TRUE
                       /\ Target(o, TRUE, None).link = None
  BY DEF Target, TargetType
<1>4. targets' \in [1 .. Len(readers) -> TargetType]
  BY <1>2, <1>3
<1>5. targets' \in Seq(TargetType) /\ DOMAIN targets' = 1 .. Len(readers)
  <2>1. targets' \in Seq(TargetType)
    BY <1>1, <1>4, SeqDef
  <2>2. DOMAIN targets' = 1 .. Len(readers)
    OBVIOUS
  <2> QED
    BY <2>1, <2>2
<1>6. ToSet(targets') = {Target(o, TRUE, None) : o \in ToSet(readers)}
  BY <1>1, <1>5 DEF ToSet
<1>7. \A o \in ToSet(readers) : o \in Tasks /\ o <= task
  BY <1>1, <1>2 DEF ToSet
<1>8. \A to \in ToSet(targets') : to.owner <= task /\ to.tested /\ to.link = None
  <2> SUFFICES ASSUME NEW o \in ToSet(readers)
               PROVE  /\ Target(o, TRUE, None).owner <= task
                      /\ Target(o, TRUE, None).tested
                      /\ Target(o, TRUE, None).link = None
    BY <1>6
  <2> QED
    BY <1>3, <1>7
<1>9. ToSet(readers) \subseteq Pending'
  BY <1>3, <1>6, <1>7 DEF Pending
<1> QED
  BY <1>5, <1>8, <1>9 DEF TargetsKnown

LEMMA VisitOutStep ==
  ASSUME IInv, VisitOut
  PROVE  IInv'
<1> USE DEF IInv
<1>1. Visiting("OUT") /\ Assign /\ UNCHANGED meta
  BY DEF VisitOut
<1>2. ReadersAdded
  BY <1>1 DEF ReadersAdded, Known, Adds, TypeOK, MetaType, MetaInv
<1>3. SUFFICES TargetsKnown /\ (Old # None /\ Owner(Old) < task => Owner(Old) \in Pending')
  BY <1>1, <1>2, AssignStep, WaitForOwner
<1>4. CASE Old = None
  BY <1>4, NoTargets DEF VisitOut
<1>5. CASE Old # None
  <2>1. /\ Old \in Ids /\ Block \in Blocks /\ task \in Tasks
        /\ Owner(Old) \in Tasks /\ Owner(Old) <= task
    BY <1>1, <1>5, VisitFacts, IdsAre DEF TableInv, Old
  <2>2. CASE meta[Old].type = "OUT"
    <3>1. targets' = <<Target(Owner(Old), TRUE, None)>>
      BY <1>5, <2>2 DEF VisitOut
    <3> QED
      BY <2>1, <3>1, OneTarget
  <2>3. CASE meta[Old].type # "OUT"
    <3> DEFINE readers == meta[Old].readers
    <3>1. targets' = [i \in 1 .. Len(readers) |-> Target(readers[i], TRUE, None)]
      BY <1>5, <2>3 DEF VisitOut
    <3>2. readers \in Seq(1 .. task) /\ readers \in Seq(Tasks)
          /\ Owner(Old) \in ToSet(readers)
      BY <1>5, <2>1, <2>3 DEF MetaInv, TypeOK, TableInv, Old
    <3> HIDE DEF readers
    <3> QED
      BY <3>1, <3>2, ReaderTargets
  <2> QED
    BY <2>2, <2>3
<1> QED
  BY <1>4, <1>5

LEMMA VisitInStep ==
  ASSUME IInv, VisitInNew \/ VisitInWritten \/ VisitInRead
  PROVE  IInv'
<1> USE DEF IInv
<1>1. Visiting("IN")
  BY DEF VisitInNew, VisitInWritten, VisitInRead
<1>2. /\ Block \in Blocks /\ task \in Tasks /\ arg \in Ids
      /\ task' = task /\ arg' = arg /\ targets = <<>>
      /\ Old # None => Old \in Ids /\ Owner(Old) \in Tasks /\ Owner(Old) <= task
  BY <1>1, VisitFacts, IdsAre DEF TableInv, Old, Visiting
<1>3. meta' = Entered(meta) => ReadersAdded /\ task \in ToSet(meta'[arg].readers)
  BY <1>1, EnteredReads DEF ReadersAdded
<1>4. CASE VisitInNew
  <2>1. meta' = Entered(meta) /\ Assign /\ Old = None /\ targets' = <<>>
    BY <1>2, <1>4 DEF VisitInNew
  <2> QED
    BY <1>1, <1>3, <2>1, NoTargets, AssignStep, WaitForOwner
<1>5. CASE VisitInWritten
  <2>1. meta' = Entered(meta) /\ Assign /\ Old # None
        /\ targets' = <<Target(Owner(Old), TRUE, Old)>>
    BY <1>5 DEF VisitInWritten
  <2>2. TargetsKnown /\ Pending' = {Owner(Old)}
    BY <1>2, <2>1, OneTarget
  <2> QED
    BY <1>1, <1>3, <2>1, <2>2, AssignStep, WaitForOwner
<1>6. CASE VisitInRead /\ Alive(Owner(Old))
  <2> DEFINE writer == meta[Old].dependent
  <2>1. /\ meta' = [Entered(meta) EXCEPT ![Old].readers = <<task>> \o @]
        /\ Old # None /\ meta[Old].type = "IN" /\ UNCHANGED <<table, leads>>
        /\ targets' = IF writer # None /\ Owner(Old) \notin {task, depsLast}
                      THEN <<Target(Owner(writer), FALSE, None)>> ELSE <<>>
    BY <1>6 DEF VisitInRead
  <2>2. Old \in Ids
    BY <1>2, <2>1
  <2>3. ReadersAdded /\ task \in ToSet(meta'[arg].readers)
    BY <1>1, <1>2, <2>1, <2>2, JoinedReads
  <2>4. TargetsKnown
    <3>1. CASE targets' = <<>>
      BY <3>1, NoTargets
    <3>2. CASE targets' # <<>>
      <4>1. writer # None /\ targets' = <<Target(Owner(writer), FALSE, None)>>
        BY <2>1, <3>2
      <4>2. writer \in Ids /\ Owner(writer) < Owner(Old)
        BY <2>2, <4>1 DEF MetaInv, TypeOK
      <4>3. Owner(writer) \in Tasks /\ Owner(writer) < task
        <5>1. Owner(writer) \in Nat /\ Owner(Old) \in Nat /\ task \in Nat
              /\ Owner(writer) \in Tasks
          BY <1>2, <2>1, <4>2, IdsAre
        <5> QED
          BY <1>2, <2>1, <4>2, <5>1
      <4> QED
        <5>1. Owner(writer) <= task
          BY <1>2, <4>3 DEF Tasks
        <5> QED
          BY <4>1, <4>3, <5>1, OneTarget
    <3> QED
      BY <3>1, <3>2
  <2> QED
    BY <1>1, <2>1, <2>2, <2>3, <2>4, JoinStep
<1>7. CASE VisitInRead /\ ~Alive(Owner(Old))
  <2>1. meta' = Entered(meta) /\ Assign /\ Old # None /\ targets' = <<>>
    BY <1>2, <1>7 DEF VisitInRead
  <2>2. Finished(Owner(Old))
    <3>1. phase[Owner(Old)] # "absent"
      <4>1. Owner(Old) = task \/ Owner(Old) < task
        BY <1>2, <2>1, TaskOrder
      <4> QED
        BY <1>2, <2>1, <4>1 DEF StageInv
    <3> QED
      BY <1>2, <1>7, <2>1, <3>1 DEF Alive, Finished, TypeOK
  <2> QED
    BY <1>1, <1>3, <2>1, <2>2, NoTargets, AssignStep, WaitForOwner
<1> QED
  BY <1>4, <1>5, <1>6, <1>7

-----------------------------------------------------------------------------
(* A stack_push call *)

\* Whether TryPush registers the task.
Accepts(to) ==
  /\ to.tested => to.owner \notin {task, depsLast}
  /\ phase[to.owner] # "closed"

\* What a stack_push call leaves alone, and what it changes.
PushMade(to) ==
  /\ targets # <<>> /\ targets' = Tail(targets)
  /\ UNCHANGED <<phase, table, task, arg, visits, reads, writes, leads>>
  /\ Creating /\ task \in Tasks /\ phase[task] = "creating"
  /\ arg \in Ids /\ Owner(arg) = task
  /\ to \in TargetType /\ targets' \in Seq(TargetType)
  /\ ToSet(targets) = {to} \cup ToSet(targets')
  /\ to.owner \in Tasks /\ to.owner <= task /\ (~to.tested => to.owner < task)
  /\ to.link \in Ids \cup {None}
  /\ to.link # None => to.tested /\ Owner(to.link) = to.owner
  /\ Pending = {to.owner} \cup Pending'
  /\ Accepts(to) => to.owner < task /\ depsLast' = to.owner
  /\ ~Accepts(to) => UNCHANGED <<waits, depsLast, meta>>
  /\ waits' \in [Tasks -> SUBSET Tasks]
  /\ \A t \in Tasks : t # task => waits'[t] = waits[t]
  /\ waits[task] \subseteq waits'[task]
  /\ waits'[task] \subseteq waits[task] \cup {to.owner}
  /\ Accepts(to) => to.owner \in waits'[task]
  /\ meta' \in [Ids -> MetaType]
  /\ \A m \in Ids :
       /\ meta'[m].type = meta[m].type /\ meta'[m].readers = meta[m].readers
       /\ meta'[m].dependent =
            IF m = arg /\ Accepts(to) /\ to.link # None
            THEN to.link ELSE meta[m].dependent

\* The target at the head is one the analysis asked for.
LEMMA PushFacts ==
  ASSUME IInv, TryPush
  PROVE  PushMade(Head(targets))
<1> USE DEF IInv
<1> DEFINE to == Head(targets)
<1>1. /\ targets # <<>> /\ targets' = Tail(targets)
      /\ UNCHANGED <<phase, table, task, arg, visits, reads, writes, leads>>
      /\ Accepts(to) => /\ waits' = [waits EXCEPT ![task] = @ \cup {to.owner}]
                     /\ depsLast' = to.owner
                     /\ meta' = IF to.link = None THEN meta
                                ELSE [meta EXCEPT ![arg].dependent = to.link]
      /\ ~Accepts(to) => UNCHANGED <<waits, depsLast, meta>>
  BY DEF TryPush, Accepts
<1>2. Creating /\ task \in Tasks /\ phase[task] = "creating"
  BY <1>1 DEF StageInv, Idle, Creating, TypeOK, Tasks
<1>3. arg \in Ids /\ Owner(arg) = task
  BY <1>2 DEF StageInv, Creating
<1>4. /\ to \in TargetType /\ Tail(targets) \in Seq(TargetType)
      /\ ToSet(targets) = {to} \cup ToSet(Tail(targets))
  BY <1>1, HeadAndTail DEF TypeOK, TargetType
<1>5. /\ to.owner \in Tasks /\ to.owner <= task /\ (~to.tested => to.owner < task)
      /\ to.link \in Ids \cup {None}
      /\ to.link # None => to.tested /\ Owner(to.link) = to.owner
  BY <1>4 DEF ArgInv, TargetType
<1>6. Pending = {to.owner} \cup Pending'
  BY <1>1, <1>4 DEF Pending
<1> HIDE DEF to
<1>7. Accepts(to) => to.owner < task
  BY <1>2, <1>5, TaskOrder DEF Accepts
<1>8. /\ waits' \in [Tasks -> SUBSET Tasks]
      /\ \A t \in Tasks : t # task => waits'[t] = waits[t]
      /\ waits[task] \subseteq waits'[task]
      /\ waits'[task] \subseteq waits[task] \cup {to.owner}
      /\ Accepts(to) => to.owner \in waits'[task]
  <2>0. waits \in [Tasks -> SUBSET Tasks]
    BY DEF TypeOK
  <2>1. CASE Accepts(to)
    <3>1. waits' = [waits EXCEPT ![task] = @ \cup {to.owner}]
      BY <1>1, <2>1
    <3>2. waits[task] \cup {to.owner} \in SUBSET Tasks
      BY <1>2, <1>5, <2>0
    <3> QED
      BY <1>2, <2>0, <3>1, <3>2
  <2>2. CASE ~Accepts(to)
    BY <1>1, <2>0, <2>2
  <2> QED
    BY <2>1, <2>2
<1>9. /\ meta' \in [Ids -> MetaType]
      /\ \A m \in Ids : /\ meta'[m].type = meta[m].type
                        /\ meta'[m].readers = meta[m].readers
                        /\ meta'[m].dependent =
                             IF m = arg /\ Accepts(to) /\ to.link # None
                             THEN to.link ELSE meta[m].dependent
  <2>1. meta \in [Ids -> MetaType]
    BY DEF TypeOK, MetaType
  <2>2. CASE Accepts(to) /\ to.link # None
    <3>1. meta' = [m \in Ids |-> IF m = arg THEN [meta[m] EXCEPT !.dependent = to.link]
                                           ELSE meta[m]]
      BY <1>1, <1>3, <2>1, <2>2
    <3>2. \A m \in Ids : /\ [meta[m] EXCEPT !.dependent = to.link] \in MetaType
                         /\ [meta[m] EXCEPT !.dependent = to.link].type = meta[m].type
                         /\ [meta[m] EXCEPT !.dependent = to.link].readers = meta[m].readers
                         /\ [meta[m] EXCEPT !.dependent = to.link].dependent = to.link
      BY <1>5, <2>1, <2>2 DEF MetaType
    <3>3. meta' \in [Ids -> MetaType]
      BY <2>1, <3>1, <3>2
    <3> QED
      BY <2>2, <3>1, <3>2, <3>3
  <2>3. CASE ~(Accepts(to) /\ to.link # None)
    BY <1>1, <2>1, <2>3
  <2> QED
    BY <2>2, <2>3
<1> QED
  BY <1>1, <1>2, <1>3, <1>4, <1>5, <1>6, <1>7, <1>8, <1>9 DEF PushMade, to

\* Task t waits, or is about to wait, for one that took the block since o.
Chained(b, t, o) ==
  \/ Finished(o)
  \/ \E u \in leads[b] :
       o <= u /\ u < t /\ (u \in waits[t] \/ (t = task /\ u \in Pending))

\* A task that was about to wait now waits, or need not any more.
LEMMA PushChains ==
  ASSUME IInv, TryPush, NEW b \in Blocks, NEW t \in Tasks, NEW o \in leads[b],
         Chained(b, t, o)
  PROVE  Chained(b, t, o)'
<1> USE DEF IInv
<1>1. PICK to : PushMade(to)
  BY PushFacts
<1>2. o \in Tasks /\ task \in Tasks
  BY <1>1, LeadsExist DEF PushMade
<1>3. /\ UNCHANGED <<phase, task, leads>>
      /\ waits[t] \subseteq waits'[t]
      /\ Pending = {to.owner} \cup Pending' /\ to.owner \in Tasks
      /\ Accepts(to) => to.owner \in waits'[task]
  BY <1>1 DEF PushMade
<1>4. CASE Finished(o)
  BY <1>3, <1>4 DEF Chained, Finished
<1>5. ASSUME NEW u \in leads[b], o <= u, u < t,
             u \in waits[t] \/ (t = task /\ u \in Pending)
      PROVE  Finished(o) \/ u \in waits'[t] \/ (t = task /\ u \in Pending')
  <2>1. CASE u \in waits[t] \/ u \in Pending'
    BY <1>3, <1>5, <2>1
  <2>2. CASE t = task /\ u = to.owner
    <3>1. CASE Accepts(to)
      BY <1>3, <2>2, <3>1
    <3>2. CASE phase[u] = "closed"
      <4>1. Finished(u) /\ Started(u)
        BY <3>2 DEF Finished, Started
      <4>2. CASE o = u
        BY <4>1, <4>2
      <4>3. CASE o # u
        <5>1. u \in Tasks /\ o < u
          BY <1>2, <1>5, <4>3, LeadsExist, TaskOrder
        <5> QED
          BY <4>1, <5>1 DEF LeadsOrdered
      <4> QED
        BY <4>2, <4>3
    <3>3. CASE u \in {task, depsLast}
      <4>1. u # task
        BY <1>2, <1>5, <2>2, IdsAre
      <4>2. u \in waits[task]
        BY <1>2, <1>3, <2>2, <3>3, <4>1, IdsAre DEF StageInv
      <4> QED
        BY <1>3, <2>2, <4>2
    <3> QED
      BY <2>2, <3>1, <3>2, <3>3 DEF Accepts
  <2> QED
    BY <1>3, <1>5, <2>1, <2>2
<1>6. Finished(o)' <=> Finished(o)
  BY <1>3 DEF Finished
<1> QED
  BY <1>3, <1>5, <1>6 DEF Chained

LEMMA TryPushStep ==
  ASSUME IInv, TryPush
  PROVE  IInv'
<1> USE DEF IInv
<1>1. PICK to : PushMade(to)
  BY PushFacts
<1> USE <1>1 DEF PushMade
<1>2. TypeOK'
  <2>1. depsLast' \in Tasks \cup {None}
    BY DEF TypeOK
  <2> QED
    BY <2>1 DEF TypeOK, TargetType, MetaType
<1>3. WaitsAreAcyclic'
  <2>1. Accepts(to) => to.owner \in 1 .. (task - 1)
    BY DEF Tasks
  <2> QED
    BY <2>1 DEF WaitsAreAcyclic
<1>4. StageInv'
  <2>1. depsLast' # None => depsLast' \in waits'[task]
    BY DEF StageInv
  <2>2. \A t \in Tasks : t > task => waits'[t] = {}
    BY DEF StageInv, Tasks
  <2>3. Creating'
    BY DEF Creating
  <2>4. Owner(arg) = task /\ arg \in Ids /\ task > 0
    BY DEF Tasks
  <2>5. \A t \in Tasks :
          /\ t > task => phase[t] = "absent" /\ reads[t] = {} /\ writes[t] = {}
          /\ t < task => phase[t] \notin {"absent", "creating"}
          /\ t = task => phase[t] # "absent"
    BY DEF StageInv
  <2> QED
    BY <2>1, <2>2, <2>3, <2>4, <2>5 DEF StageInv
<1>5. MetaInv'
  BY DEF MetaInv
<1>6. ArgInv'
  <2>1. ToSet(targets') \subseteq ToSet(targets)
    OBVIOUS
  <2>2. /\ meta'[arg'].type = meta[arg].type /\ meta'[arg'].readers = meta[arg].readers
        /\ Covered(visits)' = Covered(visits) /\ Creating
    BY DEF Covered
  <2> QED
    BY <2>1, <2>2 DEF ArgInv
<1>7. TableInv'
  <2>1. ASSUME NEW b \in Blocks
        PROVE  table[b] # None => table[b] \in Ids
    BY DEF TypeOK
  <2> QED
    BY <2>1 DEF TableInv
<1>8. AccessInv'
  <2>1. /\ meta'[arg'].type = meta[arg].type /\ Covered(visits)' = Covered(visits)
        /\ Creating /\ Creating'
    BY DEF Covered, Creating
  <2> QED
    BY <2>1 DEF AccessInv
<1>9. ChainInv'
  <2> SUFFICES ASSUME NEW b \in Blocks, NEW t \in leads[b], NEW o \in leads[b], o < t
               PROVE  Chained(b, t, o)'
    BY DEF ChainInv, Chained
  <2>1. t \in Tasks /\ Chained(b, t, o)
    BY LeadsExist DEF ChainInv, Chained
  <2> QED
    BY <2>1, PushChains
<1>10. LeadsOrdered'
  BY DEF LeadsOrdered, Finished, Started
<1> QED
  BY <1>2, <1>3, <1>4, <1>5, <1>6, <1>7, <1>8, <1>9, <1>10

-----------------------------------------------------------------------------
(* The theorems *)

LEMMA StepIInv == IInv /\ [Next]_vars => IInv'
<1> SUFFICES ASSUME IInv, [Next]_vars
             PROVE  IInv'
  OBVIOUS
<1>1. CASE EndTask \/ \E t \in Tasks : Start(t) \/ Release(t) \/ Close(t)
  BY <1>1, LifeStep
<1>2. CASE Analyse
  BY <1>2, VisitOutStep, VisitInStep, TryPushStep DEF Analyse
<1>3. CASE UNCHANGED vars
  BY <1>3 DEF IInv, vars, TypeOK, WaitsAreAcyclic, StageInv, MetaInv, ArgInv, TableInv,
              AccessInv, ChainInv, LeadsOrdered, Idle, Creating, Covered, Pending,
              Finished, Started
<1>4. ASSUME NEW type \in {"IN", "OUT"}, NEW extent \in Extents,
             NewTask(type, extent) \/ NextArg(type, extent)
      PROVE  IInv'
  BY <1>4, NewTaskStep, NextArgStep
<1> QED
  BY <1>1, <1>2, <1>3, <1>4 DEF Next, Done

\* The analysis keeps its bookkeeping straight: whoever took a block is chained
\* to whoever took it next.
THEOREM Inductive == Spec => []IInv
BY InitIInv, StepIInv, PTL DEF Spec

\* Every variable keeps its type; in particular no reader, owner or dependent
\* metadata names a task that does not exist.
THEOREM TypeCorrect == Spec => []TypeOK
<1>1. IInv => TypeOK
  BY DEF IInv
<1> QED
  BY <1>1, Inductive, PTL

\* No task ever waits for itself or for a task created after it: the waits of
\* the tasks of one parent form no cycle, whatever arguments they have.
THEOREM WaitsLeadBack == Spec => []WaitsAreAcyclic
<1>1. IInv => WaitsAreAcyclic
  BY DEF IInv
<1> QED
  BY <1>1, Inductive, PTL

\* Tasks that write the same block execute in the order of the program.
THEOREM WritersInOrder == Spec => []WritersOrdered
<1>1. ASSUME IInv
      PROVE  WritersOrdered
  <2> USE <1>1 DEF IInv
  <2> SUFFICES ASSUME NEW t \in Tasks, Started(t), NEW o \in Tasks, o < t,
                      NEW b \in writes[o] \cap writes[t]
               PROVE  Finished(o)
    BY DEF WritersOrdered, Ordered
  <2>1. b \in Blocks
    BY DEF TypeOK
  <2>2. t \in leads[b]
    BY <2>1 DEF AccessInv, Started, Creating
  <2>3. o # task
    <3>1. t <= task
      BY IdsAre DEF StageInv, Started, TypeOK
    <3> QED
      BY <3>1, IdsAre DEF TypeOK
  <2>4. o \in leads[b]
    BY <2>1, <2>3 DEF AccessInv
  <2> QED
    BY <2>1, <2>2, <2>4 DEF LeadsOrdered
<1> QED
  BY <1>1, Inductive, PTL

\* The first task that reads a block after a task wrote it starts after the
\* writer finished.
THEOREM FirstReaderInOrder == Spec => []FirstReaderOrdered
<1>1. ASSUME IInv
      PROVE  FirstReaderOrdered
  <2> USE <1>1 DEF IInv
  <2> SUFFICES ASSUME NEW t \in Tasks, Started(t), NEW b \in reads[t],
                      NEW o \in LastWriter(t, b), o < t,
                      \A u \in o .. (t - 1) : b \notin reads[u]
               PROVE  Finished(o)
    BY DEF FirstReaderOrdered, Ordered
  <2>1. b \in Blocks /\ t \in Nat /\ o \in Nat /\ task \in Nat
        /\ o \in Tasks /\ b \in writes[o] /\ Tasks \subseteq Nat
    <3>1. /\ b \in Blocks /\ task \in Nat /\ Tasks \subseteq Nat /\ t \in 1 .. NumTasks
      <4>1. b \in Blocks /\ task \in Nat
        BY DEF TypeOK
      <4> QED
        BY <4>1 DEF Tasks
    <3>2. o \in 1 .. (t - 1) /\ b \in writes[o]
      BY DEF LastWriter
    <3>3. o \in 1 .. NumTasks /\ t \in Nat /\ o \in Nat
      BY <3>1, <3>2, AnalysisAssumption
    <3> QED
      BY <3>1, <3>2, <3>3 DEF Tasks
  <2>2. t <= task
    BY <2>1 DEF StageInv, Started
  <2>3. o \in leads[b]
    BY <2>1, <2>2 DEF AccessInv
  <2>4. t \in leads[b]
    <3>1. ASSUME NEW u \in leads[b], u < t, b \in reads[u], o <= u
          PROVE  FALSE
      <4>1. u \in Nat
        BY <2>1, LeadsExist
      <4>2. u \in o .. (t - 1)
        BY <2>1, <3>1, <4>1
      <4> QED
        BY <3>1, <4>2
    <3> QED
      BY <2>1, <3>1 DEF AccessInv, Started, Creating
  <2> QED
    BY <2>1, <2>3, <2>4 DEF LeadsOrdered
<1> QED
  BY <1>1, Inductive, PTL

-----------------------------------------------------------------------------
(* Programs whose tasks have one argument in one block *)

\* What Simple means for the sets; unlike Cardinality it needs no finiteness.
Alone(t) ==
  /\ reads[t] = {} \/ writes[t] = {}
  /\ \A b, c \in reads[t] : b = c
  /\ \A b, c \in writes[t] : b = c
AllAlone == \A t \in Tasks : Alone(t)

\* A reader that joined the readers of another task waits for the writers.
JoinInv ==
  \A b \in Blocks : \A t \in Tasks : b \in reads[t] =>
    \/ t = task /\ Creating /\ b \in Covered(visits)
    \/ \A o \in leads[b] : b \in writes[o] /\ o < t => Chained(b, t, o)

\* dependent_metadata of the readers' metadata, or what it will be after the
\* stack_push, names the last task that took the block before them.
Linked(m, u) ==
  \/ meta[m].dependent # None /\ Owner(meta[m].dependent) = u
  \/ m = arg /\ \E to \in ToSet(targets) : to.link # None /\ to.owner = u
LinkInv ==
  \A b \in Blocks : table[b] # None /\ meta[table[b]].type = "IN" =>
    \A o \in leads[b] : b \in writes[o] =>
      \/ Finished(o)
      \/ \E u \in leads[b] : o <= u /\ u # Owner(table[b]) /\ Linked(table[b], u)

\* It is set by a task that registered, with a writer of what it reads.
DependentInv ==
  \A m \in Ids : meta[m].dependent # None =>
    /\ reads[Owner(m)] \cap writes[Owner(meta[m].dependent)] # {}
    /\ waits[Owner(m)] # {}

\* A reader registers with writers, with the first one before anything else.
WaitInv ==
  /\ \A t \in Tasks : \A o \in Tasks :
       o \in waits[t] \/ (t = task /\ o \in Pending) =>
         writes[t] # {} \/ reads[t] \cap writes[o] # {}
  /\ \A to \in ToSet(targets) : to.link # None =>
       /\ targets = <<to>> /\ waits[task] = {}
       /\ reads[task] \cap writes[to.owner] # {}
  /\ \A t \in Tasks : t = task /\ (waits[t] # {} \/ targets # <<>>) =>
       \/ writes[t] # {}
       \/ \E b \in reads[t] : table[b] # None /\ meta[table[b]].type = "IN"

\* Only who accesses a block takes it.
LeadsInv == \A b \in Blocks : \A u \in leads[b] : b \in reads[u] \cup writes[u]

\* Who started has been notified by all whom it waits for.
StartedInv ==
  \A t \in Tasks : Started(t) => \A u \in waits[t] : phase[u] = "closed"

SInv == JoinInv /\ LinkInv /\ DependentInv /\ WaitInv /\ LeadsInv /\ StartedInv

\* Accesses are only added, so a task that is Alone has been so all along.
LEMMA AloneBefore ==
  ASSUME IInv, \A t \in Tasks : reads[t] \subseteq reads'[t] /\ writes[t] \subseteq writes'[t],
         AllAlone'
  PROVE  AllAlone
BY DEF AllAlone, Alone

\* The phases of the tasks and the table are all that the life of a task changes.
LEMMA LifeSimple ==
  ASSUME IInv, SInv, NEW t \in Tasks, NEW p, Enter(t, p),
         Idle \/ phase[t] # "creating",
         Finished(t) => p \in {"releasing", "closed"},
         Started(t)' /\ ~Started(t) => \A u \in waits[t] : phase[u] = "closed",
         phase[t] # "closed", p # "creating"
  PROVE  SInv' /\ UNCHANGED <<reads, writes>>
<1> USE DEF IInv, SInv
<1>1. /\ phase' = [phase EXCEPT ![t] = p]
      /\ UNCHANGED <<table, meta, waits, depsLast, task, arg, visits, targets,
                     reads, writes, leads>>
  BY DEF Enter
<1>2. /\ \A o \in Tasks : Finished(o) => Finished(o)'
      /\ \A o \in Tasks : o # t => (Started(o)' <=> Started(o))
      /\ \A o \in Tasks : phase[o] = "closed" => phase'[o] = "closed"
      /\ Creating /\ ~Creating' => Idle
      /\ Pending' = Pending /\ Covered(visits)' = Covered(visits)
  BY <1>1 DEF TypeOK, Finished, Started, Creating, Pending, Covered
<1>3. JoinInv'
  <2> SUFFICES ASSUME NEW b \in Blocks, NEW s \in Tasks, b \in reads[s]
               PROVE  \/ s = task /\ Creating' /\ b \in Covered(visits)
                      \/ \A o \in leads[b] : b \in writes[o] /\ o < s => Chained(b, s, o)'
    BY <1>1, <1>2 DEF JoinInv
  <2>1. CASE s = task /\ Creating /\ b \in Covered(visits)
    BY <1>2, <2>1, EmptyElements DEF Idle, Covered
  <2>2. CASE \A o \in leads[b] : b \in writes[o] /\ o < s => Chained(b, s, o)
    <3>1. \A o \in leads[b] : o \in Tasks
      BY LeadsExist
    <3> QED
      BY <1>1, <1>2, <2>2, <3>1 DEF Chained
  <2> QED
    BY <2>1, <2>2 DEF JoinInv
<1>4. LinkInv'
  <2> SUFFICES ASSUME NEW b \in Blocks, table[b] # None, meta[table[b]].type = "IN",
                      NEW o \in leads[b], b \in writes[o]
               PROVE  \/ Finished(o)'
                      \/ \E u \in leads[b] : /\ o <= u /\ u # Owner(table[b])
                                             /\ Linked(table[b], u)'
    BY <1>1 DEF LinkInv
  <2>1. o \in Tasks
    BY LeadsExist
  <2>2. \A u : Linked(table[b], u)' <=> Linked(table[b], u)
    BY <1>1 DEF Linked
  <2> QED
    BY <1>2, <2>1, <2>2 DEF LinkInv
<1>5. DependentInv'
  BY <1>1 DEF DependentInv
<1>6. WaitInv'
  BY <1>1, <1>2 DEF WaitInv
<1>7. LeadsInv'
  BY <1>1 DEF LeadsInv
<1>8. StartedInv'
  <2> SUFFICES ASSUME NEW s \in Tasks, Started(s)', NEW u \in waits[s]
               PROVE  phase'[u] = "closed"
    BY <1>1 DEF StartedInv
  <2>1. u \in Tasks
    BY DEF TypeOK
  <2>2. CASE Started(s)
    BY <1>2, <2>1, <2>2 DEF StartedInv
  <2>3. CASE ~Started(s)
    <3>1. s = t
      BY <1>2, <2>3
    <3>2. phase[u] = "closed"
      BY <2>3, <3>1
    <3> QED
      BY <1>2, <2>1, <3>2
  <2> QED
    BY <2>2, <2>3
<1> QED
  BY <1>1, <1>3, <1>4, <1>5, <1>6, <1>7, <1>8

\* A new argument: the blocks it covers are not visited yet.
LEMMA ArgumentSimple ==
  ASSUME IInv, SInv, AllAlone', NEW t \in Tasks, NEW n \in 1 .. MaxArgs,
         NEW type \in {"IN", "OUT"}, NEW extent \in Extents, Idle,
         Argument(t, n, type, extent), ArgumentAdded(t, n, type, extent), task' = t,
         \A o \in Tasks : o # t => phase'[o] = phase[o],
         phase[t] # "closed", phase'[t] = "creating",
         task <= t, t # task => waits[t] = {}
  PROVE  SInv'
<1> USE DEF IInv, SInv
<1>1. /\ visits' = extent /\ targets = <<>> /\ targets' = <<>>
      /\ Pending = {} /\ Pending' = {} /\ Creating'
      /\ Covered(visits) = {} /\ Covered(visits)' = Covered(extent)
      /\ leads' = leads /\ table' = table /\ waits' = waits
      /\ t \in Nat /\ task \in Nat
  BY DEF Argument, ArgumentAdded
<1>2. /\ \A m \in Ids : /\ meta'[m].dependent = meta[m].dependent
                        /\ m # <<t, n>> => meta'[m].type = meta[m].type
      /\ \A b \in Blocks : table[b] # None => table[b] \in Ids /\ table[b] # <<t, n>>
  BY DEF ArgumentAdded
<1>3. /\ \A o \in Tasks : /\ reads[o] \subseteq reads'[o] /\ writes[o] \subseteq writes'[o]
                          /\ o # t => reads'[o] = reads[o] /\ writes'[o] = writes[o]
      /\ \A b \in reads'[t] : b \in reads[t] \/ b \in Covered(extent)
  BY DEF ArgumentAdded
<1>4. \A o \in Tasks : o <= task => (Finished(o)' <=> Finished(o))
  BY DEF ArgumentAdded
<1>5. ASSUME NEW b \in Blocks, NEW o \in leads[b], b \in writes'[o]
      PROVE  b \in writes[o] /\ o \in Tasks /\ (Finished(o)' <=> Finished(o))
  <2>1. o \in Tasks /\ o <= task
    BY LeadsExist
  <2>2. b \in reads[o] \/ b \in writes[o]
    BY DEF LeadsInv
  <2>3. reads'[o] = {} \/ writes'[o] = {}
    BY <2>1 DEF AllAlone, Alone
  <2> QED
    BY <1>3, <1>4, <1>5, <2>1, <2>2, <2>3
<1>6. JoinInv'
  <2> SUFFICES ASSUME NEW b \in Blocks, NEW s \in Tasks, b \in reads'[s],
                      NEW o \in leads[b], b \in writes'[o], o < s,
                      ~(s = t /\ b \in Covered(extent))
               PROVE  Chained(b, s, o)'
    BY <1>1 DEF JoinInv
  <2>1. b \in reads[s] /\ b \in writes[o]
    BY <1>3, <1>5
  <2>2. Chained(b, s, o)
    BY <1>1, <2>1 DEF JoinInv
  <2> QED
    BY <1>1, <1>5, <2>2 DEF Chained
<1>7. LinkInv'
  <2> SUFFICES ASSUME NEW b \in Blocks, table[b] # None, meta'[table[b]].type = "IN",
                      NEW o \in leads[b], b \in writes'[o]
               PROVE  \/ Finished(o)'
                      \/ \E u \in leads[b] : /\ o <= u /\ u # Owner(table[b])
                                             /\ Linked(table[b], u)'
    BY <1>1 DEF LinkInv
  <2>1. table[b] \in Ids /\ meta[table[b]].type = "IN" /\ b \in writes[o]
        /\ meta'[table[b]].dependent = meta[table[b]].dependent
    BY <1>2, <1>5
  <2>2. \A u : Linked(table[b], u) <=> Linked(table[b], u)'
    BY <1>1, <2>1, EmptyElements DEF Linked
  <2>3. \/ Finished(o)
        \/ \E u \in leads[b] : /\ o <= u /\ u # Owner(table[b])
                               /\ Linked(table[b], u)
    BY <2>1 DEF LinkInv
  <2> QED
    BY <1>5, <2>2, <2>3
<1>8. DependentInv'
  <2> SUFFICES ASSUME NEW m \in Ids, meta[m].dependent # None
               PROVE  /\ reads'[Owner(m)] \cap writes'[Owner(meta[m].dependent)] # {}
                      /\ waits[Owner(m)] # {}
    BY <1>1, <1>2 DEF DependentInv
  <2>1. meta[m].dependent \in Ids
    BY DEF TypeOK
  <2>2. Owner(m) \in Tasks /\ Owner(meta[m].dependent) \in Tasks
    BY <2>1, IdsAre
  <2>3. reads[Owner(m)] \subseteq reads'[Owner(m)]
        /\ writes[Owner(meta[m].dependent)] \subseteq writes'[Owner(meta[m].dependent)]
    BY <1>3, <2>2
  <2> QED
    BY <2>3 DEF DependentInv
<1>9. WaitInv'
  <2>1. ASSUME NEW s \in Tasks, NEW o \in Tasks, o \in waits[s]
        PROVE  writes'[s] # {} \/ reads'[s] \cap writes'[o] # {}
    <3>1. writes[s] # {} \/ reads[s] \cap writes[o] # {}
      BY <2>1 DEF WaitInv
    <3> QED
      BY <1>3, <3>1
  <2>2. ASSUME waits[t] # {}
        PROVE  \/ writes'[t] # {}
               \/ \E b \in reads'[t] : table[b] # None /\ meta'[table[b]].type = "IN"
    <3>1. t = task
      BY <2>2
    <3>2. \/ writes[t] # {}
          \/ \E b \in reads[t] : table[b] # None /\ meta[table[b]].type = "IN"
      BY <2>2, <3>1 DEF WaitInv
    <3>3. \A b \in reads[t] : b \in Blocks
      BY DEF TypeOK
    <3> QED
      BY <1>2, <1>3, <3>2, <3>3
  <2> QED
    BY <1>1, <2>1, <2>2, EmptyElements DEF WaitInv
<1>10. LeadsInv'
  <2>1. ASSUME NEW b \in Blocks, NEW u \in leads[b]
        PROVE  b \in reads'[u] \cup writes'[u]
    <3>1. u \in Tasks
      BY LeadsExist
    <3> QED
      BY <1>3, <3>1 DEF LeadsInv
  <2> QED
    BY <1>1, <2>1 DEF LeadsInv
<1>11. StartedInv'
  <2>1. ASSUME NEW s \in Tasks, Started(s)', NEW u \in waits[s]
        PROVE  phase'[u] = "closed"
    <3>1. s # t /\ Started(s) /\ u \in Tasks
      BY <2>1 DEF Started, TypeOK
    <3>2. phase[u] = "closed"
      BY <3>1 DEF StartedInv
    <3> QED
      BY <3>1, <3>2
  <2> QED
    BY <1>1, <2>1 DEF StartedInv
<1> QED
  BY <1>6, <1>7, <1>8, <1>9, <1>10, <1>11

\* The visit of a block, whether it takes the block or joins its readers.
LEMMA VisitSimple ==
  ASSUME IInv, SInv, AllAlone, NEW ty \in {"IN", "OUT"}, Visiting(ty), ReadersAdded,
         NEW k \in Blocks, k = Block,
         \/ /\ Assign
            /\ ty = "IN" => \A o \in leads[k] : k \in writes[o] =>
                 Finished(o) \/ \E u \in leads[k] : o <= u /\ u # task /\ Linked(arg, u)'
         \/ UNCHANGED <<table, leads>> /\ ty = "IN" /\ Old # None /\ meta[Old].type = "IN",
         ty = "IN" => \A o \in leads[k] :
           k \in writes[o] /\ o < task => Chained(k, task, o)',
         ty = "IN" => \A o \in Pending' : k \in writes[o],
         \A to \in ToSet(targets') : to.link # None =>
           targets' = <<to>> /\ waits[task] = {} /\ ty = "IN"
  PROVE  SInv'
<1> USE DEF IInv, SInv
<1>1. /\ Creating /\ task \in Tasks /\ phase[task] = "creating"
      /\ arg \in Ids /\ Owner(arg) = task /\ meta[arg].type = ty /\ Block \in Blocks
      /\ Covered(visits) = {Block} \cup Covered(visits') /\ Pending = {}
      /\ Block \in IF ty = "OUT" THEN writes[task] ELSE reads[task]
      /\ UNCHANGED <<phase, waits, depsLast, task, arg, reads, writes>>
  BY VisitFacts
<1>2. /\ targets = <<>> /\ Creating'
      /\ \A t : (Finished(t)' <=> Finished(t)) /\ (Started(t)' <=> Started(t))
  BY <1>1 DEF Visiting, Creating, Finished, Started
<1>3. /\ ty = "IN" => writes[task] = {} /\ \A b \in reads[task] : b = Block
      /\ ty = "OUT" => reads[task] = {} /\ writes[task] # {}
  BY <1>1 DEF AllAlone, Alone
<1>4. \A m \in Ids : meta'[m].type = meta[m].type /\ meta'[m].dependent = meta[m].dependent
  BY DEF ReadersAdded, Adds
<1>5. /\ \A b \in Blocks : b # Block => table'[b] = table[b] /\ leads'[b] = leads[b]
      /\ \A b \in Blocks : leads[b] \subseteq leads'[b]
      /\ leads'[Block] \subseteq leads[Block] \cup {task}
      /\ Assign => table'[Block] = arg
  <2>1. /\ table \in [Blocks -> Ids \cup {None}] /\ leads \in [Blocks -> SUBSET Tasks]
        /\ Block \in Blocks
    BY <1>1 DEF TypeOK
  <2>2. CASE Assign
    BY <2>1, <2>2 DEF Assign
  <2>3. CASE UNCHANGED <<table, leads>> /\ ~Assign
    BY <2>1, <2>3
  <2> QED
    BY <2>2, <2>3
<1>6. \A b \in Blocks : \A o \in leads[b] : o \in Tasks /\ o <= task
  BY LeadsExist
<1>7. \A m \in Ids : \A u : Linked(m, u) => Linked(m, u)'
  BY <1>2, <1>4, EmptyElements DEF Linked
<1>8. JoinInv'
  <2> SUFFICES ASSUME NEW b \in Blocks, NEW s \in Tasks, b \in reads[s],
                      NEW o \in leads'[b], b \in writes[o], o < s,
                      ~(s = task /\ b \in Covered(visits'))
               PROVE  Chained(b, s, o)'
    BY <1>1, <1>2 DEF JoinInv
  <2>1. s <= task /\ s \in Nat /\ task \in Nat
    <3>1. s \in Nat /\ task \in Nat
      BY <1>1, IdsAre
    <3>2. ~(s > task)
      BY DEF StageInv
    <3> QED
      BY <3>1, <3>2
  <2>2. o # task /\ o \in leads[b]
    BY <1>1, <1>5, <2>1
  <2>3. CASE s = task /\ b = Block
    <3>1. ty = "IN"
      BY <1>3, <2>3
    <3>2. Chained(k, task, o)'
      BY <2>2, <2>3, <3>1
    <3> QED
      BY <1>1, <2>3, <3>2 DEF Chained
  <2>4. CASE ~(s = task /\ b = Block)
    <3>1. Chained(b, s, o)
      BY <1>1, <2>2, <2>4 DEF JoinInv
    <3> QED
      BY <1>1, <1>2, <1>5, <3>1 DEF Chained
  <2> QED
    BY <2>3, <2>4
<1>9. LinkInv'
  <2> SUFFICES ASSUME NEW b \in Blocks, NEW m, m = table'[b], m # None,
                      meta'[m].type = "IN", NEW o \in leads'[b], b \in writes[o]
               PROVE  \/ Finished(o)
                      \/ \E u \in leads'[b] : o <= u /\ u # Owner(m) /\ Linked(m, u)'
    BY <1>1, <1>2 DEF LinkInv, Linked
  <2>1. CASE /\ b = k /\ Assign
             /\ ty = "IN" => \A i \in leads[k] : k \in writes[i] =>
                  Finished(i) \/ \E u \in leads[k] : i <= u /\ u # task /\ Linked(arg, u)'
    <3>1. ty = "IN" /\ m = arg
      BY <1>1, <1>4, <1>5, <2>1
    <3>2. o # task /\ o \in leads[k]
      BY <1>3, <1>5, <2>1, <3>1
    <3>3. Finished(o) \/ \E u \in leads[k] : o <= u /\ u # task /\ Linked(arg, u)'
      BY <2>1, <3>1, <3>2
    <3>4. \A u : Linked(arg, u)' => Linked(m, u)'
      BY <1>1, <3>1 DEF Linked
    <3> QED
      BY <1>1, <1>5, <2>1, <3>1, <3>3, <3>4
  <2>2. CASE table'[b] = table[b] /\ leads'[b] = leads[b]
    <3>1. m = table[b] /\ m \in Ids /\ meta[m].type = "IN"
      BY <1>4, <2>2 DEF TypeOK
    <3>2. \/ Finished(o)
          \/ \E u \in leads[b] : o <= u /\ u # Owner(table[b]) /\ Linked(table[b], u)
      BY <2>2, <3>1 DEF LinkInv
    <3> QED
      BY <1>7, <2>2, <3>1, <3>2
  <2> QED
    BY <1>5, <2>1, <2>2
<1>10. DependentInv'
  BY <1>1, <1>4 DEF DependentInv
<1>11. WaitInv'
  <2>1. ASSUME NEW t \in Tasks, NEW o \in Tasks, o \in waits[t] \/ (t = task /\ o \in Pending')
        PROVE  writes[t] # {} \/ reads[t] \cap writes[o] # {}
    BY <1>1, <1>3, <2>1 DEF WaitInv
  <2>2. ASSUME NEW to \in ToSet(targets'), to.link # None
        PROVE  /\ targets' = <<to>> /\ waits[task] = {}
               /\ reads[task] \cap writes[to.owner] # {}
    <3>1. to.owner \in Pending' /\ Block \in reads[task]
      BY <1>1, <2>2 DEF Pending
    <3> QED
      BY <2>2, <3>1
  <2>3. \/ writes[task] # {}
        \/ \E b \in reads[task] : table'[b] # None /\ meta'[table'[b]].type = "IN"
    <3>1. CASE ty = "OUT"
      BY <1>3, <3>1
    <3>2. CASE ty = "IN" /\ Assign
      BY <1>1, <1>4, <1>5, <3>2, IdsAre
    <3>3. CASE ty = "IN" /\ table' = table /\ Old # None /\ meta[Old].type = "IN"
      <4>1. table'[Block] = Old /\ Old \in Ids
        BY <1>1, <3>3 DEF Old, TypeOK
      <4> QED
        BY <1>1, <1>4, <3>3, <4>1
    <3> QED
      BY <3>1, <3>2, <3>3
  <2> QED
    BY <1>1, <2>1, <2>2, <2>3 DEF WaitInv
<1>12. LeadsInv'
  BY <1>1, <1>5 DEF LeadsInv
<1>13. StartedInv'
  BY <1>1, <1>2 DEF StartedInv
<1> QED
  BY <1>8, <1>9, <1>10, <1>11, <1>12, <1>13

\* Who takes the block is chained to who took it before.
LEMMA TakenChains ==
  ASSUME IInv', Assign, table \in [Blocks -> Ids \cup {None}],
         leads \in [Blocks -> SUBSET Tasks], NEW k \in Blocks, k = Block, task' = task
  PROVE  \A o \in leads[k] : o < task => Chained(k, task, o)'
<1>1. leads'[k] = leads[k] \cup {task}
  BY DEF Assign
<1>2. ChainInv'
  BY DEF IInv
<1> QED
  BY <1>1, <1>2 DEF ChainInv, Chained

\* A writer starts no list of readers.
LEMMA VisitOutSimple ==
  ASSUME IInv, IInv', SInv, AllAlone, VisitOut
  PROVE  SInv'
<1> USE DEF IInv
<1>1. Visiting("OUT") /\ Assign /\ UNCHANGED meta
  BY DEF VisitOut
<1>2. ReadersAdded
  BY <1>1 DEF ReadersAdded, Known, Adds, TypeOK, MetaType, MetaInv
<1>3. PICK k \in Blocks : k = Block
  BY <1>1, VisitFacts
<1>4. \A to \in ToSet(targets') : to.link = None
  <2>1. CASE targets' = <<>>
    BY <2>1, EmptyElements
  <2>2. ASSUME NEW o, targets' = <<Target(o, TRUE, None)>>
        PROVE  \A to \in ToSet(targets') : to.link = None
    <3>1. ToSet(targets') = {Target(o, TRUE, None)}
      BY <2>2, OneElement
    <3> QED
      BY <3>1 DEF Target
  <2>3. ASSUME NEW readers,
               targets' = [i \in 1 .. Len(readers) |-> Target(readers[i], TRUE, None)]
        PROVE  \A to \in ToSet(targets') : to.link = None
    BY <2>3 DEF ToSet, Target
  <2> QED
    BY <2>1, <2>2, <2>3 DEF VisitOut
<1> QED
  BY <1>1, <1>2, <1>3, <1>4, VisitSimple

\* The first reader of an unused block has no writer to wait for.
LEMMA VisitInNewSimple ==
  ASSUME IInv, IInv', SInv, AllAlone, VisitInNew
  PROVE  SInv'
<1> USE DEF IInv
<1>1. Visiting("IN") /\ Old = None /\ Assign /\ meta' = Entered(meta) /\ targets' = <<>>
  BY DEF VisitInNew, Visiting
<1>2. ReadersAdded /\ Pending' = {} /\ ToSet(targets') = {}
  BY <1>1, EnteredReads, EmptyElements DEF ReadersAdded, Pending
<1>3. PICK k \in Blocks : k = Block
  BY <1>1, VisitFacts
<1>4. leads[k] = {}
  BY <1>1, <1>3 DEF TableInv, Old
<1> QED
  BY <1>1, <1>2, <1>3, <1>4, VisitSimple

\* The first reader after a write will hold its metadata.
LEMMA VisitInWrittenSimple ==
  ASSUME IInv, IInv', SInv, AllAlone, VisitInWritten
  PROVE  SInv'
<1> USE DEF IInv
<1>1. /\ Visiting("IN") /\ Old # None /\ meta[Old].type = "OUT" /\ Assign
      /\ meta' = Entered(meta) /\ targets' = <<Target(Owner(Old), TRUE, Old)>>
  BY DEF VisitInWritten
<1>2. ReadersAdded
  BY <1>1, EnteredReads DEF ReadersAdded
<1>3. PICK k \in Blocks : k = Block
  BY <1>1, VisitFacts
<1>4. /\ task \in Tasks /\ Old \in Ids /\ Owner(Old) \in leads[k] /\ k \in writes[Owner(Old)]
      /\ \A o \in leads[k] : o <= Owner(Old)
      /\ table[k] = Old /\ k \in reads[task]
      /\ task' = task /\ arg' = arg
  BY <1>1, <1>3, VisitFacts DEF TableInv, Old
<1>5. writes[task] = {} /\ \A b \in reads[task] : b = k
  BY <1>4 DEF AllAlone, Alone
<1>6. waits[task] = {}
  BY <1>1, <1>4, <1>5 DEF SInv, WaitInv
<1>7. /\ ToSet(targets') = {Target(Owner(Old), TRUE, Old)}
      /\ Target(Owner(Old), TRUE, Old).owner = Owner(Old)
      /\ Target(Owner(Old), TRUE, Old).link = Old
  BY <1>1, OneElement DEF Target
<1>8. Pending' = {Owner(Old)}
  BY <1>7 DEF Pending
<1>9. PICK w : w = Owner(Old)
  OBVIOUS
<1>10. Linked(arg, w)'
  BY <1>1, <1>4, <1>7, <1>9 DEF Linked
<1>11. w \in leads[k] /\ w # task /\ \A o \in leads[k] : o <= w
  BY <1>4, <1>5, <1>9
<1>12. \A o \in leads[k] : o < task => Chained(k, task, o)'
  BY <1>1, <1>3, <1>4, TakenChains DEF TypeOK
<1>13. \A o \in Pending' : k \in writes[o]
  BY <1>4, <1>8
<1>14. \A to \in ToSet(targets') : targets' = <<to>>
  BY <1>1, <1>7
<1> QED
  BY <1>1, <1>2, <1>3, <1>6, <1>10, <1>11, <1>12, <1>13, <1>14, VisitSimple

\* A further reader waits for the writer the first one holds, or finds that
\* the first one finished.
LEMMA VisitInReadSimple ==
  ASSUME IInv, IInv', SInv, AllAlone, VisitInRead
  PROVE  SInv'
<1> USE DEF IInv
<1>1. Visiting("IN") /\ Old # None /\ meta[Old].type = "IN"
  BY DEF VisitInRead
<1>2. PICK k \in Blocks : k = Block
  BY <1>1, VisitFacts
<1>3. /\ task \in Tasks /\ task \in Nat /\ Old \in Ids /\ Owner(Old) \in Tasks
      /\ Owner(Old) \in leads[k] /\ Owner(Old) <= task /\ k \in reads[Owner(Old)]
      /\ \A o \in leads[k] : o <= Owner(Old)
      /\ table[k] = Old /\ k \in reads[task]
      /\ UNCHANGED <<task, arg, phase, waits>> /\ targets = <<>>
  <2>1. /\ task \in Tasks /\ Old \in Ids /\ table[k] = Old /\ k \in reads[task]
        /\ UNCHANGED <<task, arg, phase, waits>> /\ targets = <<>>
    BY <1>1, <1>2, VisitFacts DEF Old, Visiting
  <2> QED
    BY <1>1, <2>1, IdsAre DEF TableInv
<1>4. /\ writes[task] = {} /\ \A b \in reads[task] : b = k
      /\ writes[Owner(Old)] = {} /\ \A b \in reads[Owner(Old)] : b = k
  BY <1>3 DEF AllAlone, Alone
<1>5. CASE ~Alive(Owner(Old))
  <2>1. meta' = Entered(meta) /\ Assign /\ targets' = <<>>
    BY <1>3, <1>5 DEF VisitInRead
  <2>2. ReadersAdded /\ Pending' = {} /\ ToSet(targets') = {}
    BY <1>1, <2>1, EnteredReads, EmptyElements DEF ReadersAdded, Pending
  <2>3. \A o \in leads[k] : o < task => Chained(k, task, o)'
    BY <1>2, <1>3, <2>1, TakenChains DEF TypeOK
  <2>4. Finished(Owner(Old)) /\ Started(Owner(Old))
    <3>1. phase[Owner(Old)] # "absent"
      <4>1. Owner(Old) = task \/ Owner(Old) < task
        BY <1>3, TaskOrder
      <4> QED
        BY <1>3, <4>1 DEF StageInv
    <3> QED
      BY <1>3, <1>5, <3>1 DEF Alive, Finished, Started, TypeOK
  <2>5. ASSUME NEW o \in leads[k]
        PROVE  Finished(o)
    <3>1. o \in Tasks /\ o <= Owner(Old)
      BY <1>3, LeadsExist
    <3>2. CASE o = Owner(Old)
      BY <2>4, <3>2
    <3>3. CASE o # Owner(Old)
      <4>1. o < Owner(Old)
        BY <1>3, <3>1, <3>3, TaskOrder
      <4> QED
        BY <1>3, <2>4, <4>1 DEF LeadsOrdered
    <3> QED
      BY <3>2, <3>3
  <2> QED
    BY <1>1, <1>2, <2>1, <2>2, <2>3, <2>5, VisitSimple
<1>6. CASE Alive(Owner(Old))
  <2>1. PICK w : w = meta[Old].dependent
    OBVIOUS
  <2>2. /\ meta' = [Entered(meta) EXCEPT ![Old].readers = <<task>> \o @]
        /\ UNCHANGED <<table, leads>>
        /\ targets' = IF w # None /\ Owner(Old) \notin {task, depsLast}
                      THEN <<Target(Owner(w), FALSE, None)>> ELSE <<>>
    BY <1>6, <2>1 DEF VisitInRead
  <2>3. ReadersAdded
    BY <1>1, <1>3, <2>2, JoinedReads
  <2>4. Target(Owner(w), FALSE, None).owner = Owner(w)
        /\ Target(Owner(w), FALSE, None).link = None
    BY DEF Target
  <2>5. /\ Pending' = IF w # None /\ Owner(Old) \notin {task, depsLast}
                      THEN {Owner(w)} ELSE {}
        /\ \A to \in ToSet(targets') : to.link = None
    <3>1. CASE ~(w # None /\ Owner(Old) \notin {task, depsLast})
      BY <2>2, <3>1, EmptyElements DEF Pending
    <3>2. CASE w # None /\ Owner(Old) \notin {task, depsLast}
      <4>1. ToSet(targets') = {Target(Owner(w), FALSE, None)}
        BY <2>2, <3>2, OneElement
      <4> QED
        BY <2>4, <3>2, <4>1 DEF Pending
    <3> QED
      BY <3>1, <3>2
  <2>6. w # None => /\ w \in Ids /\ Owner(w) < Owner(Old) /\ k \in writes[Owner(w)]
                    /\ Owner(w) \in Nat /\ Owner(Old) \in Nat
    <3> SUFFICES ASSUME w # None
                 PROVE  /\ w \in Ids /\ Owner(w) < Owner(Old) /\ k \in writes[Owner(w)]
                        /\ Owner(w) \in Nat /\ Owner(Old) \in Nat
      OBVIOUS
    <3>1. w \in Ids /\ Owner(w) < Owner(Old)
      BY <1>3, <2>1 DEF TypeOK, MetaInv
    <3>2. reads[Owner(Old)] \cap writes[Owner(w)] # {}
      BY <1>3, <2>1 DEF SInv, DependentInv
    <3> QED
      BY <1>3, <1>4, <3>1, <3>2, IdsAre
  <2>7. ASSUME NEW o \in leads[k], k \in writes[o], o < task
        PROVE  Chained(k, task, o)'
    <3>1. o \in Tasks
      BY LeadsExist
    <3>2. \/ Finished(o)
          \/ \E u \in leads[k] : o <= u /\ u # Owner(Old) /\ Linked(Old, u)
      BY <1>1, <1>3, <2>7 DEF SInv, LinkInv
    <3>3. CASE Finished(o)
      BY <1>3, <3>3 DEF Chained, Finished
    <3>4. ASSUME NEW u \in leads[k], o <= u, u # Owner(Old), Linked(Old, u)
          PROVE  Chained(k, task, o)'
      <4>1. w # None /\ Owner(w) = u
        BY <1>3, <2>1, <3>4, EmptyElements DEF Linked
      <4>2. CASE Owner(Old) = task
        <5>1. Chained(k, task, o)
          BY <1>3, <2>7, <4>2 DEF ChainInv, Chained
        <5>2. Pending = {}
          BY <1>3, EmptyElements DEF Pending
        <5> QED
          BY <1>3, <2>2, <5>1, <5>2 DEF Chained, Finished
      <4>3. CASE Owner(Old) = depsLast
        <5>1. depsLast \in waits[task] /\ depsLast \in Tasks
          BY <1>3, <4>3, IdsAre DEF StageInv
        <5>2. reads[task] \cap writes[depsLast] # {}
          BY <1>3, <1>4, <5>1 DEF SInv, WaitInv
        <5> QED
          BY <1>4, <4>3, <5>2
      <4>4. CASE Owner(Old) \notin {task, depsLast}
        <5>1. u \in Pending' /\ u < task
          BY <1>3, <2>5, <2>6, <4>1, <4>4
        <5> QED
          BY <1>3, <2>2, <3>4, <5>1 DEF Chained
      <4> QED
        BY <4>2, <4>3, <4>4
    <3> QED
      BY <3>2, <3>3, <3>4
  <2> QED
    BY <1>1, <1>2, <2>2, <2>3, <2>5, <2>6, <2>7, VisitSimple
<1> QED
  BY <1>5, <1>6

\* A stack_push call: when it registers the task for the first time, it keeps
\* the metadata of the writer as dependent_metadata.
LEMMA TryPushSimple ==
  ASSUME IInv, IInv', SInv, AllAlone, TryPush
  PROVE  SInv'
<1> USE DEF IInv, SInv
<1>1. PICK to : PushMade(to)
  BY PushFacts
<1>2. /\ targets # <<>> /\ targets' = Tail(targets)
      /\ UNCHANGED <<phase, table, task, arg, visits, reads, writes, leads>>
      /\ task \in Tasks /\ phase[task] = "creating" /\ arg \in Ids /\ Owner(arg) = task
      /\ ToSet(targets) = {to} \cup ToSet(targets') /\ to.owner \in Tasks
      /\ to.link # None => to.link \in Ids /\ Owner(to.link) = to.owner
      /\ Pending = {to.owner} \cup Pending'
  BY <1>1 DEF PushMade
<1>3. /\ \A t \in Tasks : t # task => waits'[t] = waits[t]
      /\ \A t \in Tasks : waits[t] \subseteq waits'[t]
      /\ waits'[task] \subseteq waits[task] \cup {to.owner}
      /\ Accepts(to) => to.owner \in waits'[task]
  BY <1>1 DEF PushMade
<1>4. \A m \in Ids :
        /\ meta'[m].type = meta[m].type
        /\ meta'[m].dependent = IF m = arg /\ Accepts(to) /\ to.link # None
                                THEN to.link ELSE meta[m].dependent
  BY <1>1 DEF PushMade
<1>5. \A t : (Finished(t)' <=> Finished(t)) /\ (Started(t)' <=> Started(t))
  BY <1>2 DEF Finished, Started
<1>6. ASSUME to.link # None
      PROVE  /\ targets = <<to>> /\ targets' = <<>> /\ waits[task] = {}
             /\ reads[task] \cap writes[to.owner] # {}
             /\ meta[arg].dependent = None
             /\ Accepts(to) \/ phase[to.owner] = "closed"
  <2>1. /\ targets = <<to>> /\ waits[task] = {}
        /\ reads[task] \cap writes[to.owner] # {}
    BY <1>2, <1>6 DEF WaitInv
  <2>2. targets' = <<>>
    BY <1>2, <2>1
  <2>3. depsLast = None
    BY <2>1 DEF StageInv
  <2>4. to.owner # task
    BY <1>2, <2>1 DEF AllAlone, Alone
  <2>5. to.owner # None
    BY <1>2, IdsAre
  <2>6. meta[arg].dependent = None
    BY <1>2, <2>1 DEF DependentInv
  <2> QED
    BY <2>1, <2>2, <2>3, <2>4, <2>5, <2>6 DEF Accepts
<1>7. JoinInv'
  <2>0. Creating' /\ Covered(visits)' = Covered(visits)
    BY <1>1, <1>2 DEF PushMade, Creating, Covered
  <2> SUFFICES ASSUME NEW b \in Blocks, NEW s \in Tasks, b \in reads[s],
                      NEW o \in leads[b], b \in writes[o], o < s,
                      ~(s = task /\ b \in Covered(visits))
               PROVE  Chained(b, s, o)'
    BY <1>2, <2>0 DEF JoinInv
  <2>1. Chained(b, s, o)
    BY DEF JoinInv
  <2> QED
    BY <2>1, PushChains
<1>8. LinkInv'
  <2> SUFFICES ASSUME NEW b \in Blocks, NEW m, m = table[b], m # None,
                      meta'[m].type = "IN", NEW o \in leads[b], b \in writes[o],
                      ~Finished(o)
               PROVE  \E u \in leads[b] : o <= u /\ u # Owner(m) /\ Linked(m, u)'
    BY <1>2, <1>5 DEF LinkInv, Linked
  <2>1. m \in Ids /\ meta[m].type = "IN"
    BY <1>4 DEF TypeOK
  <2>2. PICK u \in leads[b] : o <= u /\ u # Owner(m) /\ Linked(m, u)
    BY <2>1 DEF LinkInv
  <2>3. CASE meta[m].dependent # None /\ Owner(meta[m].dependent) = u
    <3>1. meta'[m].dependent = meta[m].dependent
      BY <1>4, <1>6, <2>1, <2>3
    <3> QED
      BY <2>2, <2>3, <3>1 DEF Linked
  <2>4. CASE m = arg /\ \E p \in ToSet(targets) : p.link # None /\ p.owner = u
    <3>1. PICK p \in ToSet(targets) : p.link # None /\ p.owner = u
      BY <2>4
    <3>2. targets = <<p>>
      BY <3>1 DEF WaitInv
    <3>3. p = to
      <4>1. ToSet(targets) = {p}
        BY <3>2, OneElement
      <4> QED
        BY <1>2, <4>1
    <3>4. CASE Accepts(to)
      <4>1. meta'[m].dependent = to.link
        BY <1>4, <2>1, <2>4, <3>1, <3>3, <3>4
      <4> QED
        BY <1>2, <2>2, <3>1, <3>3, <4>1 DEF Linked
    <3>5. CASE phase[u] = "closed"
      <4>1. Finished(u) /\ Started(u)
        BY <3>5 DEF Finished, Started
      <4>2. o \in Tasks /\ u \in Tasks
        BY LeadsExist
      <4>3. o # u => o < u
        BY <2>2, <4>2, TaskOrder
      <4> QED
        BY <4>1, <4>3 DEF LeadsOrdered
    <3> QED
      BY <1>6, <3>1, <3>3, <3>4, <3>5
  <2> QED
    BY <2>2, <2>3, <2>4 DEF Linked
<1>9. DependentInv'
  <2> SUFFICES ASSUME NEW m \in Ids, meta'[m].dependent # None
               PROVE  /\ reads[Owner(m)] \cap writes[Owner(meta'[m].dependent)] # {}
                      /\ waits'[Owner(m)] # {}
    BY <1>2 DEF DependentInv
  <2>1. CASE m = arg /\ Accepts(to) /\ to.link # None
    BY <1>2, <1>3, <1>4, <1>6, <2>1
  <2>2. CASE meta'[m].dependent = meta[m].dependent
    <3>1. Owner(m) \in Tasks
      BY IdsAre
    <3> QED
      BY <1>3, <2>2, <3>1 DEF DependentInv
  <2> QED
    BY <1>4, <2>1, <2>2
<1>10. WaitInv'
  <2>1. ASSUME NEW t \in Tasks, NEW o \in Tasks,
               o \in waits'[t] \/ (t = task /\ o \in Pending')
        PROVE  writes[t] # {} \/ reads[t] \cap writes[o] # {}
    <3>1. o \in waits[t] \/ (t = task /\ o \in Pending)
      BY <1>2, <1>3, <2>1
    <3> QED
      BY <3>1 DEF WaitInv
  <2>2. ASSUME NEW p \in ToSet(targets'), p.link # None
        PROVE  FALSE
    <3>1. targets = <<p>> /\ p \in ToSet(targets)
      BY <1>2, <2>2 DEF WaitInv
    <3>2. p = to
      BY <1>2, <3>1, OneElement
    <3> QED
      BY <1>6, <2>2, <3>2, EmptyElements
  <2>3. \/ writes[task] # {}
        \/ \E b \in reads[task] : table[b] # None /\ meta[table[b]].type = "IN"
    BY <1>2 DEF WaitInv
  <2>4. \A b \in reads[task] : table[b] # None => meta'[table[b]].type = meta[table[b]].type
    BY <1>2, <1>4 DEF TypeOK
  <2> QED
    BY <1>2, <2>1, <2>2, <2>3, <2>4 DEF WaitInv
<1>11. LeadsInv'
  BY <1>2 DEF LeadsInv
<1>12. StartedInv'
  <2>1. ~Started(task)
    BY <1>2 DEF Started
  <2> QED
    BY <1>2, <1>3, <1>5, <2>1 DEF StartedInv
<1> QED
  BY <1>7, <1>8, <1>9, <1>10, <1>11, <1>12

\* What the accesses of the tasks become in a step.
LEMMA AccessesGrow ==
  ASSUME IInv, [Next]_vars
  PROVE  \/ UNCHANGED <<reads, writes>>
         \/ \E t \in Tasks, extent \in Extents :
              \/ reads' = [reads EXCEPT ![t] = @ \cup Covered(extent)] /\ writes' = writes
              \/ writes' = [writes EXCEPT ![t] = @ \cup Covered(extent)] /\ reads' = reads
<1>1. CASE EndTask \/ Done \/ Analyse \/ UNCHANGED vars
  BY <1>1 DEF EndTask, Done, Analyse, VisitOut, VisitInNew, VisitInWritten, VisitInRead,
              Visiting, TryPush, vars
<1>2. CASE \E t \in Tasks : Start(t) \/ Release(t) \/ Close(t)
  BY <1>2 DEF Start, Release, Close, Enter
<1>3. ASSUME NEW type \in {"IN", "OUT"}, NEW extent \in Extents,
             NewTask(type, extent) \/ NextArg(type, extent)
      PROVE  \E t \in Tasks :
              \/ reads' = [reads EXCEPT ![t] = @ \cup Covered(extent)] /\ writes' = writes
              \/ writes' = [writes EXCEPT ![t] = @ \cup Covered(extent)] /\ reads' = reads
  <2>1. CASE NewTask(type, extent)
    <3>1. task + 1 \in Tasks /\ Argument(task + 1, 1, type, extent)
      BY <2>1, AnalysisAssumption DEF NewTask, IInv, TypeOK, Tasks
    <3> QED
      BY <3>1 DEF Argument
  <2>2. CASE NextArg(type, extent)
    <3>1. task \in Tasks /\ Argument(task, arg[2] + 1, type, extent)
      BY <2>2 DEF NextArg, Creating, IInv, TypeOK, Tasks
    <3> QED
      BY <3>1 DEF Argument
  <2> QED
    BY <1>3, <2>1, <2>2
<1> QED
  BY <1>1, <1>2, <1>3 DEF Next

\* All steps of programs with tasks of one argument in one block.
LEMMA StepSimple ==
  ASSUME IInv, IInv', [Next]_vars, AllAlone => SInv, AllAlone'
  PROVE  SInv'
<1> USE DEF IInv
<1>1. AllAlone
  <2>1. reads \in [Tasks -> SUBSET Blocks] /\ writes \in [Tasks -> SUBSET Blocks]
    BY DEF TypeOK
  <2>2. \A f \in [Tasks -> SUBSET Blocks] : \A t, o \in Tasks : \A S :
          f[o] \subseteq [f EXCEPT ![t] = @ \cup S][o]
    OBVIOUS
  <2>3. \A t \in Tasks : reads[t] \subseteq reads'[t] /\ writes[t] \subseteq writes'[t]
    BY <2>1, <2>2, AccessesGrow
  <2> QED
    BY <2>3, AloneBefore
<1>2. SInv
  BY <1>1
<1>3. CASE UNCHANGED vars
  BY <1>2, <1>3 DEF SInv, vars, JoinInv, LinkInv, DependentInv, WaitInv, LeadsInv, StartedInv,
              Linked, Chained, Creating, Covered, Pending, Finished, Started
<1>4. CASE EndTask
  <2>1. task \in Tasks /\ Enter(task, "waiting") /\ phase[task] = "creating" /\ Idle
        /\ phase' = [phase EXCEPT ![task] = "waiting"]
    BY <1>4 DEF EndTask, Enter, Creating, TypeOK, Tasks
  <2>2. ~Finished(task) /\ phase[task] # "closed"
    BY <2>1 DEF Finished
  <2>3. PICK t \in Tasks : t = task
    BY <2>1
  <2>4. ~Started(t)' /\ ~Finished(t) /\ phase[t] # "closed" /\ Enter(t, "waiting")
    <3>1. phase'[t] = "waiting"
      BY <2>1, <2>3 DEF TypeOK
    <3> QED
      BY <2>1, <2>2, <2>3, <3>1 DEF Started
  <2> QED
    BY <1>2, <2>1, <2>4, LifeSimple
<1>5. ASSUME NEW t \in Tasks, Start(t)
      PROVE  SInv'
  BY <1>2, <1>5, LifeSimple DEF Start, Started, Finished
<1>6. ASSUME NEW t \in Tasks, Release(t) \/ Close(t)
      PROVE  SInv'
  BY <1>2, <1>6, LifeSimple DEF Release, Close, Started, Finished
<1>7. CASE Analyse
  BY <1>1, <1>2, <1>7, VisitOutSimple, VisitInNewSimple, VisitInWrittenSimple,
     VisitInReadSimple, TryPushSimple DEF Analyse
<1>8. ASSUME NEW type \in {"IN", "OUT"}, NEW extent \in Extents, NewTask(type, extent)
      PROVE  SInv'
  <2>1. PICK t \in Tasks : t = task + 1
    BY <1>8 DEF NewTask, TypeOK, Tasks
  <2>2. /\ task \in Nat /\ task < t /\ ~Creating /\ 1 \in 1 .. MaxArgs /\ Idle
        /\ task' = t /\ phase' = [phase EXCEPT ![t] = "creating"]
        /\ Argument(t, 1, type, extent)
    <3>1. task \in Nat /\ 1 \in 1 .. MaxArgs
      BY AnalysisAssumption DEF TypeOK
    <3> QED
      BY <1>8, <2>1, <3>1 DEF NewTask, StageInv
  <2>3. /\ phase'[t] = "creating" /\ \A o \in Tasks : o # t => phase'[o] = phase[o]
    BY <2>2 DEF TypeOK
  <2>4. phase[t] = "absent" /\ waits[t] = {} /\ t > task /\ task <= t /\ t # task
    <3>1. t > task /\ task <= t /\ t # task
      BY <2>1, <2>2
    <3> QED
      BY <3>1 DEF StageInv
  <2>5. ArgumentAdded(t, 1, type, extent)
    BY <2>1, <2>2, <2>3, <2>4, ArgumentFacts
  <2> QED
    BY <1>2, <2>2, <2>3, <2>4, <2>5, ArgumentSimple
<1>9. ASSUME NEW type \in {"IN", "OUT"}, NEW extent \in Extents, NextArg(type, extent)
      PROVE  SInv'
  <2>1. Creating /\ Idle /\ task \in Tasks /\ task \in Nat /\ phase' = phase /\ task' = task
    BY <1>9 DEF NextArg, Creating, TypeOK, Tasks
  <2>2. arg \in Ids /\ phase[task] = "creating" /\ arg[2] \in 1 .. MaxArgs
    BY <2>1, IdsAre DEF StageInv, Creating
  <2>3. PICK n \in 1 .. MaxArgs : n = arg[2] + 1 /\ n > arg[2]
    BY <1>9, <2>2, AnalysisAssumption DEF NextArg
  <2>4. Argument(task, n, type, extent)
    BY <1>9, <2>3 DEF NextArg
  <2>5. PICK t \in Tasks : t = task
    BY <2>1
  <2>6. /\ Argument(t, n, type, extent) /\ task' = t /\ task <= t
        /\ phase'[t] = "creating" /\ phase[t] = "creating"
        /\ \A o \in Tasks : o # t => phase'[o] = phase[o]
    BY <2>1, <2>2, <2>4, <2>5
  <2>7. ArgumentAdded(t, n, type, extent)
    BY <2>1, <2>3, <2>5, <2>6, ArgumentFacts
  <2> QED
    BY <1>2, <2>1, <2>5, <2>6, <2>7, ArgumentSimple
<1> QED
  BY <1>3, <1>4, <1>5, <1>6, <1>7, <1>8, <1>9 DEF Next, Done

\* A task accesses finitely many blocks, so that they can be counted.
FiniteInv == \A t \in Tasks : IsFiniteSet(reads[t]) /\ IsFiniteSet(writes[t])

LEMMA CoveredFinite ==
  ASSUME NEW extent \in Extents
  PROVE  IsFiniteSet(Covered(extent))
<1> DEFINE block == [i \in 1 .. Len(extent) |-> extent[i].block]
<1>1. Len(extent) \in Nat /\ DOMAIN extent = 1 .. Len(extent)
  BY CoveredBlocks, LenProperties
<1>2. block \in Surjection(1 .. Len(extent), Covered(extent))
  BY <1>1 DEF Surjection, Covered, ToSet
<1>3. IsFiniteSet(1 .. Len(extent))
  BY <1>1, FS_Interval
<1> QED
  BY <1>2, <1>3, FS_Surjection

LEMMA StepFinite ==
  ASSUME IInv, FiniteInv, [Next]_vars
  PROVE  FiniteInv'
<1>1. reads \in [Tasks -> SUBSET Blocks] /\ writes \in [Tasks -> SUBSET Blocks]
  BY DEF IInv, TypeOK
<1>2. \A S, T : IsFiniteSet(S) /\ IsFiniteSet(T) => IsFiniteSet(S \cup T)
  BY FS_Union
<1>3. CASE UNCHANGED <<reads, writes>>
  BY <1>3 DEF FiniteInv
<1>4. ASSUME NEW t \in Tasks, NEW extent \in Extents,
             \/ reads' = [reads EXCEPT ![t] = @ \cup Covered(extent)] /\ writes' = writes
             \/ writes' = [writes EXCEPT ![t] = @ \cup Covered(extent)] /\ reads' = reads
      PROVE  FiniteInv'
  <2>1. IsFiniteSet(Covered(extent))
    BY CoveredFinite
  <2>2. ASSUME NEW o \in Tasks
        PROVE  /\ reads'[o] \in {reads[o], reads[o] \cup Covered(extent)}
               /\ writes'[o] \in {writes[o], writes[o] \cup Covered(extent)}
    BY <1>1, <1>4
  <2> QED
    BY <1>2, <2>1, <2>2 DEF FiniteInv
<1> QED
  BY <1>3, <1>4, AccessesGrow

\* A task with at most one access, counted, is Alone.
LEMMA SimpleAlone ==
  ASSUME FiniteInv, NEW t \in Tasks, Simple(t)
  PROVE  Alone(t)
<1>1. PICK R, W : R = reads[t] /\ W = writes[t]
  OBVIOUS
<1>2. IsFiniteSet(R) /\ IsFiniteSet(W)
  BY <1>1 DEF FiniteInv
<1>3. PICK i, j : i = Cardinality(R) /\ j = Cardinality(W)
  OBVIOUS
<1>4. i \in Nat /\ j \in Nat /\ i + j <= 1
  BY <1>1, <1>2, <1>3, FS_CardinalityType DEF Simple
<1>5. (i = 0 \/ j = 0) /\ (i = 0 \/ i = 1) /\ (j = 0 \/ j = 1)
  BY <1>4
<1>6. \A S : IsFiniteSet(S) =>
         /\ Cardinality(S) = 0 => S = {}
         /\ Cardinality(S) = 1 => \E x : S = {x}
  BY FS_EmptySet, FS_Singleton
<1>7. /\ i = 0 => R = {}
      /\ j = 0 => W = {}
      /\ i = 1 => \E x : R = {x}
      /\ j = 1 => \E x : W = {x}
  BY <1>2, <1>3, <1>6
<1>8. R = {} \/ W = {}
  BY <1>5, <1>7
<1>9. (\A b, c \in R : b = c) /\ (\A b, c \in W : b = c)
  BY <1>5, <1>7
<1> QED
  BY <1>1, <1>8, <1>9 DEF Alone

LEMMA SimpleInductive == Spec => [](FiniteInv /\ (AllAlone => SInv))
<1>1. Init => FiniteInv /\ (AllAlone => SInv)
  <2> SUFFICES ASSUME Init PROVE FiniteInv /\ SInv
    OBVIOUS
  <2>1. FiniteInv
    BY FS_EmptySet DEF Init, FiniteInv
  <2>2. JoinInv /\ LinkInv /\ LeadsInv
    BY DEF Init, JoinInv, LinkInv, LeadsInv
  <2>3. DependentInv /\ WaitInv /\ StartedInv
    BY EmptyElements DEF Init, DependentInv, WaitInv, StartedInv, Pending
  <2> QED
    BY <2>1, <2>2, <2>3 DEF SInv
<1>2. /\ IInv /\ IInv' /\ FiniteInv /\ (AllAlone => SInv) /\ [Next]_vars
      => (FiniteInv /\ (AllAlone => SInv))'
  <2> SUFFICES ASSUME IInv, IInv', FiniteInv, AllAlone => SInv, [Next]_vars
               PROVE  FiniteInv' /\ (AllAlone' => SInv')
    OBVIOUS
  <2> QED
    BY StepFinite, StepSimple
<1> QED
  BY <1>1, <1>2, Inductive, PTL DEF Spec

\* In programs whose tasks have one argument in one block each, every reader,
\* the ones that only joined the readers of another task included, starts after
\* the writers of what it reads finished.
THEOREM ReadersInOrderWhenSimple == Spec => []ReadersOrderedWhenSimple
<1>1. ASSUME IInv, FiniteInv, AllAlone => SInv
      PROVE  ReadersOrderedWhenSimple
  <2> USE <1>1 DEF IInv
  <2> SUFFICES ASSUME \A t \in Tasks : Simple(t),
                      NEW t \in Tasks, Started(t), NEW o \in Tasks, o < t,
                      NEW b \in writes[o] \cap reads[t]
               PROVE  Finished(o)
    BY DEF ReadersOrderedWhenSimple, ReadersOrdered, Ordered
  <2>1. SInv
    BY SimpleAlone DEF AllAlone
  <2>2. b \in Blocks /\ t \in Nat /\ o \in Nat /\ task \in Nat
    BY IdsAre DEF TypeOK
  <2>3. t <= task /\ o # task
    BY <2>2 DEF StageInv, Started
  <2>4. o \in leads[b]
    BY <2>2, <2>3 DEF AccessInv
  <2>5. ~(t = task /\ Creating)
    BY DEF Started, Creating
  <2>6. Chained(b, t, o)
    BY <2>1, <2>2, <2>4, <2>5 DEF SInv, JoinInv
  <2>7. ASSUME NEW u \in leads[b], o <= u, u \in waits[t] \/ (t = task /\ u \in Pending)
        PROVE  Finished(o)
    <3>1. t = task => Pending = {}
      BY <2>5, EmptyElements DEF StageInv, Idle, Pending
    <3>2. phase[u] = "closed"
      BY <2>1, <2>7, <3>1 DEF SInv, StartedInv
    <3>3. Finished(u) /\ Started(u) /\ u \in Tasks
      BY <2>2, <3>2, LeadsExist DEF Finished, Started
    <3>4. o = u \/ o < u
      BY <2>7, <3>3, TaskOrder
    <3> QED
      BY <2>2, <2>4, <3>3, <3>4 DEF LeadsOrdered
  <2> QED
    BY <2>6, <2>7 DEF Chained
<1> QED
  BY <1>1, Inductive, SimpleInductive, PTL
=============================================================================
