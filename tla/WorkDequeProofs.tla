--------------------------- MODULE WorkDequeProofs ---------------------------
(***************************************************************************)
(* Proofs about WorkDeque, for any size of the array, any number of        *)
(* thieves and any number of tasks.                                        *)
(*                                                                         *)
(* The counters wrap around, so everything is said with the number of      *)
(* tasks between two counters (Count) and with the place of the i-th of    *)
(* them in the array (Slot); the first lemmas are the arithmetic of those  *)
(* two, and the rest does not look into them.                              *)
(***************************************************************************)
EXTENDS WorkDeque, TLAPS

-----------------------------------------------------------------------------
(* The inductive invariant *)

Count(b, t) == (b + Modulus - t) % Modulus
Slot(t, i) == Index(t + i - 1)

Waiting == Count(LogicalBottom, top)
Item(i) == entries[Slot(top, i)]

\* An enqueue that was not refused has a task left to offer.
Offering == owner.pc \in {"store", "advance"} => offered < MaxTasks

\* The deque holds, once each, the tasks offered and not yet handed out.
Held ==
  /\ Waiting <= Size
  /\ \A i \in 1..Waiting : Item(i) \in 1..offered /\ taken[Item(i)] = 0
  /\ \A i, j \in 1..Waiting : Item(i) = Item(j) => i = j
  /\ \A x \in 1..offered :
       /\ taken[x] \in {0, 1}
       /\ taken[x] = 0 => \E i \in 1..Waiting : Item(i) = x
  /\ \A x \in Tasks : x > offered => taken[x] = 0

\* The locals of the owner agree with what it shares.
Owner ==
  /\ owner.pc = "null" => Waiting = 0
  /\ owner.pc \in {"store", "advance"} => owner.b = bottom /\ Waiting < Size
  /\ owner.pc = "advance" => entries[Index(bottom)] = offered + 1
  /\ owner.pc \in {"reserved", "cas", "restore"} => owner.b = bottom
  /\ owner.pc = "cas" =>
       /\ owner.t = bottom /\ owner.val = entries[Index(bottom)]
       /\ top \in {bottom, Plus1(bottom)}
  /\ owner.pc = "restore" => owner.t = Plus1(bottom) /\ top = Plus1(bottom)

\* A thief whose CAS can succeed without having been lapped saw a deque that
\* still holds the task it read.
Thief ==
  \A p \in Thieves \ lapped : thief[p].t = top =>
    /\ thief[p].pc \in {"entry", "cas"} => Waiting > 0
    /\ thief[p].pc = "cas" => thief[p].val = Item(1)

IInv == TypeOK /\ Offering /\ (~fooled => Held /\ Owner /\ Thief)

-----------------------------------------------------------------------------
(* Counters that wrap around *)

\* The remainder of a number below three times the modulus.
LEMMA Remainder ==
  ASSUME NEW m \in Nat \ {0}, NEW x \in 0..(3 * m - 1)
  PROVE  x % m = IF x < m THEN x ELSE IF x < 2 * m THEN x - m ELSE x - 2 * m
<1>1. CASE x < m
  BY <1>1
<1>2. CASE x >= m /\ x < 2 * m
  BY <1>2
<1>3. CASE x >= 2 * m
  BY <1>3
<1> QED BY <1>1, <1>2, <1>3

\* Plus1 and Minus1 are the two directions round the counters.
LEMMA Neighbours ==
  ASSUME NEW c \in Counters
  PROVE  /\ Plus1(c) = (IF c = Modulus - 1 THEN 0 ELSE c + 1)
         /\ Minus1(c) = (IF c = 0 THEN Modulus - 1 ELSE c - 1)
         /\ Plus1(c) \in Counters /\ Minus1(c) \in Counters
         /\ Plus1(Minus1(c)) = c /\ Plus1(c) # c
<1>1. Modulus \in Nat \ {0} /\ Modulus >= 2 /\ c \in 0..(Modulus - 1)
  BY DequeAssumption DEF Modulus, Counters
<1>2. ASSUME NEW d \in 0..(Modulus - 1)
      PROVE  Plus1(d) = IF d = Modulus - 1 THEN 0 ELSE d + 1
  <2> DEFINE x == d + 1
  <2>1. x \in 0..(3 * Modulus - 1)
    BY <1>1
  <2> HIDE DEF x
  <2>2. Plus1(d) = IF x < Modulus THEN x ELSE IF x < 2 * Modulus THEN x - Modulus ELSE x - 2 * Modulus
    BY <1>1, <2>1, Remainder, Zenon DEF Plus1, x
  <2> QED BY <1>1, <2>2 DEF x
<1>3. ASSUME NEW d \in 0..(Modulus - 1)
      PROVE  Minus1(d) = IF d = 0 THEN Modulus - 1 ELSE d - 1
  <2> DEFINE x == d + Modulus - 1
  <2>1. x \in 0..(3 * Modulus - 1)
    BY <1>1
  <2> HIDE DEF x
  <2>2. Minus1(d) = IF x < Modulus THEN x ELSE IF x < 2 * Modulus THEN x - Modulus ELSE x - 2 * Modulus
    BY <1>1, <2>1, Remainder, Zenon DEF Minus1, x
  <2> QED BY <1>1, <2>2 DEF x
<1>4. Minus1(c) \in 0..(Modulus - 1) /\ Plus1(c) \in 0..(Modulus - 1)
  BY <1>1, <1>2, <1>3
<1>5. Plus1(Minus1(c)) = c
  BY <1>1, <1>2, <1>3, <1>4
<1> QED BY <1>1, <1>2, <1>3, <1>4, <1>5 DEF Counters

\* Count is the distance of two counters, however often they wrapped.
LEMMA CountValue ==
  ASSUME NEW b \in Counters, NEW t \in Counters
  PROVE  Count(b, t) = IF b >= t THEN b - t ELSE b + Modulus - t
<1>1. Modulus \in Nat \ {0} /\ b \in 0..(Modulus - 1) /\ t \in 0..(Modulus - 1)
  BY DequeAssumption DEF Modulus, Counters
<1> DEFINE x == b + Modulus - t
<1>2. x \in 0..(3 * Modulus - 1)
  BY <1>1
<1> HIDE DEF x
<1>3. Count(b, t) = IF x < Modulus THEN x ELSE IF x < 2 * Modulus THEN x - Modulus ELSE x - 2 * Modulus
  BY <1>1, <1>2, Remainder, Zenon DEF Count, x
<1> QED BY <1>1, <1>3 DEF x

\* Index takes a counter off the array by at most two rounds.
LEMMA IndexValue ==
  ASSUME NEW c \in 0..(3 * Size - 1)
  PROVE  Index(c) = IF c < Size THEN c ELSE IF c < 2 * Size THEN c - Size ELSE c - 2 * Size
<1>1. Size \in Nat \ {0}
  BY DequeAssumption
<1> QED BY <1>1, Remainder, Zenon DEF Index

\* How the number of tasks between two counters changes.
LEMMA CountLaws ==
  ASSUME NEW b \in Counters, NEW t \in Counters
  PROVE  /\ Count(b, t) \in 0..(Modulus - 1)
         /\ Count(b, t) = 0 <=> b = t
         /\ Plus1(b) # t => Count(Plus1(b), t) = Count(b, t) + 1
         /\ b # t => Count(b, Plus1(t)) = Count(b, t) - 1
         /\ Plus1(b) = t <=> Count(b, t) = Modulus - 1
<1>1. Modulus \in Nat \ {0} /\ Modulus >= 2 /\ b \in 0..(Modulus - 1) /\ t \in 0..(Modulus - 1)
  BY DequeAssumption DEF Modulus, Counters
<1>2. /\ Plus1(b) \in Counters /\ Plus1(b) = IF b = Modulus - 1 THEN 0 ELSE b + 1
      /\ Plus1(t) \in Counters /\ Plus1(t) = IF t = Modulus - 1 THEN 0 ELSE t + 1
  BY Neighbours
<1>3. Count(b, t) = IF b >= t THEN b - t ELSE b + Modulus - t
  BY CountValue
<1>4. Count(Plus1(b), t) = IF Plus1(b) >= t THEN Plus1(b) - t ELSE Plus1(b) + Modulus - t
  BY <1>2, CountValue
<1>5. Count(b, Plus1(t)) = IF b >= Plus1(t) THEN b - Plus1(t) ELSE b + Modulus - Plus1(t)
  BY <1>2, CountValue
<1>6. Count(b, t) \in 0..(Modulus - 1)
  BY <1>1, <1>3
<1>7. Count(b, t) = 0 <=> b = t
  BY <1>1, <1>3
<1>8. Plus1(b) # t => Count(Plus1(b), t) = Count(b, t) + 1
  BY <1>1, <1>2, <1>3, <1>4
<1>9. b # t => Count(b, Plus1(t)) = Count(b, t) - 1
  BY <1>1, <1>2, <1>3, <1>5
<1>10. Plus1(b) = t <=> Count(b, t) = Modulus - 1
  BY <1>1, <1>2, <1>3
<1> QED BY <1>6, <1>7, <1>8, <1>9, <1>10

\* Full tells exactly the counters that are Size apart.
LEMMA FullLaw ==
  ASSUME NEW b \in Counters, NEW t \in Counters
  PROVE  Full(b, t) <=> Count(b, t) = Size
<1>1. Size \in Nat \ {0} /\ Modulus = 2 * Size /\ b \in 0..(2 * Size - 1) /\ t \in 0..(2 * Size - 1)
  BY DequeAssumption DEF Modulus, Counters
<1>2. Count(b, t) = IF b >= t THEN b - t ELSE b + 2 * Size - t
  BY <1>1, CountValue
<1>3. Index(b) = IF b < Size THEN b ELSE b - Size
  BY <1>1, IndexValue
<1>4. Index(t) = IF t < Size THEN t ELSE t - Size
  BY <1>1, IndexValue
<1> QED BY <1>1, <1>2, <1>3, <1>4 DEF Full

\* The places of Size consecutive counters are distinct, and bottom's is the
\* one after the last task.
LEMMA SlotLaws ==
  ASSUME NEW t \in Counters
  PROVE  /\ \A i \in 1..(Size + 1) : Slot(t, i) \in 0..(Size - 1)
         /\ \A i, j \in 1..Size : Slot(t, i) = Slot(t, j) => i = j
         /\ \A i \in 1..Size : Slot(Plus1(t), i) = Slot(t, i + 1)
         /\ Slot(t, 1) = Index(t)
         /\ \A b \in Counters : Count(b, t) <= Size => Slot(t, Count(b, t) + 1) = Index(b)
<1>1. Size \in Nat \ {0} /\ Modulus = 2 * Size /\ t \in 0..(2 * Size - 1)
  BY DequeAssumption DEF Modulus, Counters
<1>2. \A c \in 0..(3 * Size - 1) :
        Index(c) = IF c < Size THEN c ELSE IF c < 2 * Size THEN c - Size ELSE c - 2 * Size
  BY IndexValue
<1>3. \A u \in 0..(2 * Size - 1), i \in 1..(Size + 1) :
        Slot(u, i) = IF u + i - 1 < Size THEN u + i - 1
                     ELSE IF u + i - 1 < 2 * Size THEN u + i - 1 - Size ELSE u + i - 1 - 2 * Size
  <2> SUFFICES ASSUME NEW u \in 0..(2 * Size - 1), NEW i \in 1..(Size + 1)
               PROVE  Slot(u, i) = IF u + i - 1 < Size THEN u + i - 1
                                   ELSE IF u + i - 1 < 2 * Size THEN u + i - 1 - Size
                                   ELSE u + i - 1 - 2 * Size
    OBVIOUS
  <2>1. u + i - 1 \in 0..(3 * Size - 1)
    BY <1>1
  <2> QED BY <1>1, <1>2, <2>1 DEF Slot
<1>4. Plus1(t) \in 0..(2 * Size - 1) /\ Plus1(t) = IF t = 2 * Size - 1 THEN 0 ELSE t + 1
  BY <1>1, Neighbours DEF Counters
<1>5. \A i \in 1..Size : Slot(Plus1(t), i) = Slot(t, i + 1)
  <2> SUFFICES ASSUME NEW i \in 1..Size PROVE Slot(Plus1(t), i) = Slot(t, i + 1)
    OBVIOUS
  <2>1. i \in 1..(Size + 1) /\ i + 1 \in 1..(Size + 1)
    BY <1>1
  <2>2. Slot(t, i + 1) = IF t + i < Size THEN t + i
                         ELSE IF t + i < 2 * Size THEN t + i - Size ELSE t + i - 2 * Size
    BY <1>1, <1>3, <2>1
  <2>3. Slot(Plus1(t), i) = IF Plus1(t) + i - 1 < Size THEN Plus1(t) + i - 1
                            ELSE IF Plus1(t) + i - 1 < 2 * Size THEN Plus1(t) + i - 1 - Size
                            ELSE Plus1(t) + i - 1 - 2 * Size
    BY <1>1, <1>3, <1>4, <2>1
  <2> QED BY <1>1, <1>4, <2>2, <2>3
<1>6. ASSUME NEW b \in Counters, Count(b, t) <= Size
      PROVE  Slot(t, Count(b, t) + 1) = Index(b)
  <2>1. Count(b, t) = IF b >= t THEN b - t ELSE b + 2 * Size - t
    BY <1>1, CountValue
  <2>2. Count(b, t) + 1 \in 1..(Size + 1) /\ b \in 0..(2 * Size - 1)
    BY <1>1, <1>6, <2>1 DEF Counters
  <2>3. Index(b) = IF b < Size THEN b ELSE b - Size
    BY <1>1, <1>2, <2>2
  <2> DEFINE k == Count(b, t) + 1
  <2>4. Slot(t, k) = IF t + k - 1 < Size THEN t + k - 1
                     ELSE IF t + k - 1 < 2 * Size THEN t + k - 1 - Size ELSE t + k - 1 - 2 * Size
    <3> HIDE DEF k
    <3>1. k \in 1..(Size + 1)
      BY <2>2 DEF k
    <3> QED BY <1>1, <1>3, <3>1
  <2> QED BY <1>1, <2>1, <2>2, <2>3, <2>4
<1>7. Slot(t, 1) = Index(t)
  BY <1>1 DEF Slot
<1>8. \A i, j \in 1..Size : Slot(t, i) = Slot(t, j) => i = j
  BY <1>1, <1>3
<1>9. \A i \in 1..(Size + 1) : Slot(t, i) \in 0..(Size - 1)
  BY <1>1, <1>3
<1> QED BY <1>5, <1>6, <1>7, <1>8, <1>9

-----------------------------------------------------------------------------
(* Types *)

OwnerType == [pc : {"idle", "null", "store", "advance", "reserved", "cas", "restore"},
              b : Counters, t : Counters, val : Tasks \cup {NoTask}]
ThiefType == [pc : {"idle", "bottom", "entry", "cas"},
              t : Counters, val : Tasks \cup {NoTask}]

\* Whatever counter a slot is read at, it is in the array and holds a task.
LEMMA EntryType ==
  ASSUME TypeOK, NEW c \in Counters
  PROVE  Index(c) \in 0..(Size - 1) /\ entries[Index(c)] \in Tasks \cup {NoTask}
<1>1. Size \in Nat \ {0} /\ c \in Nat
  BY DequeAssumption DEF Counters, Modulus
<1>2. Index(c) \in 0..(Size - 1)
  <2>1. Index(c) = IF c < Size THEN c ELSE IF c < 2 * Size THEN c - Size ELSE c - 2 * Size
    <3>1. c \in 0..(3 * Size - 1)
      BY <1>1 DEF Counters, Modulus
    <3> QED BY <3>1, IndexValue
  <2> QED BY <1>1, <2>1 DEF Counters, Modulus
<1> QED BY <1>2 DEF TypeOK

\* Handing a task out keeps the record of who took it well-typed.
LEMMA TakenType ==
  ASSUME taken \in [Tasks -> Nat], NEW x, HandOut(x)
  PROVE  taken' \in [Tasks -> Nat]
<1>1. CASE x \in Tasks
  BY <1>1 DEF HandOut
<1>2. CASE x \notin Tasks
  BY <1>2 DEF HandOut
<1> QED BY <1>1, <1>2

\* No step of tdeque_enqueue leaves the types.
LEMMA EnqueueTypeStep ==
  ASSUME TypeOK, Offering, Enqueue
  PROVE  TypeOK' /\ Offering'
<1>1. owner \in OwnerType
  BY DEF TypeOK, OwnerType
<1>2. CASE EnqueueFull
  <2>1. owner' \in OwnerType
    BY <1>1, <1>2 DEF EnqueueFull, OwnerType
  <2>2. taken' \in [Tasks -> Nat]
    BY <1>2, TakenType DEF EnqueueFull, TypeOK
  <2>3. offered' \in 0..MaxTasks
    BY <1>2, DequeAssumption DEF EnqueueFull, TypeOK
  <2> QED BY <1>2, <2>1, <2>2, <2>3 DEF EnqueueFull, TypeOK, Offering, OwnerType, rounds
<1>3. CASE EnqueueBegin
  <2>1. owner' \in OwnerType
    BY <1>1, <1>3 DEF EnqueueBegin, OwnerType, TypeOK
  <2> QED BY <1>3, <2>1 DEF EnqueueBegin, TypeOK, Offering, OwnerType, rounds
<1>4. CASE EnqueueStore
  <2>1. owner' \in OwnerType
    BY <1>1, <1>4 DEF EnqueueStore, OwnerType
  <2>2. entries' \in [0..(Size - 1) -> Tasks \cup {NoTask}]
    <3>1. offered + 1 \in Tasks
      BY <1>4, DequeAssumption DEF EnqueueStore, Offering, TypeOK, Tasks
    <3> QED BY <1>4, <3>1 DEF EnqueueStore, TypeOK
  <2>3. offered < MaxTasks
    BY <1>4 DEF EnqueueStore, Offering
  <2> QED BY <1>4, <2>1, <2>2, <2>3 DEF EnqueueStore, TypeOK, Offering, OwnerType, rounds
<1>5. CASE EnqueueAdvance
  <2>1. owner' \in OwnerType
    BY <1>1, <1>5 DEF EnqueueAdvance, OwnerType
  <2>2. bottom' \in Counters
    BY <1>1, <1>5, Neighbours DEF EnqueueAdvance, OwnerType
  <2>3. offered' \in 0..MaxTasks
    BY <1>5, DequeAssumption DEF EnqueueAdvance, Offering, TypeOK
  <2> QED BY <1>5, <2>1, <2>2, <2>3 DEF EnqueueAdvance, TypeOK, Offering, OwnerType, rounds
<1> QED BY <1>2, <1>3, <1>4, <1>5 DEF Enqueue

\* No step of the owner's dequeue leaves the types.
LEMMA DequeueFrontTypeStep ==
  ASSUME TypeOK, DequeueFront
  PROVE  TypeOK' /\ Offering'
<1>1. owner \in OwnerType /\ NoTask \in Tasks \cup {NoTask}
  BY DEF TypeOK, OwnerType
<1>2. owner.b \in Counters /\ entries[Index(owner.b)] \in Tasks \cup {NoTask} /\ top \in Counters
  BY <1>1, EntryType DEF OwnerType, TypeOK
<1>3. Minus1(bottom) \in Counters /\ Plus1(top) \in Counters /\ Plus1(owner.t) \in Counters
  BY <1>1, Neighbours DEF OwnerType, TypeOK
<1>4. CASE PopReserve
  <2>1. owner' \in OwnerType
    BY <1>1, <1>3, <1>4 DEF PopReserve, OwnerType
  <2>2. bottom' \in Counters
    BY <1>3, <1>4 DEF PopReserve
  <2>3. owner'.pc = "reserved"
    BY <1>1, <1>4 DEF PopReserve, OwnerType
  <2> QED BY <1>4, <2>1, <2>2, <2>3 DEF PopReserve, TypeOK, Offering, OwnerType, rounds
<1>5. CASE PopEmpty
  <2>1. owner' \in OwnerType /\ owner'.pc = "restore"
    BY <1>1, <1>2, <1>5 DEF PopEmpty, OwnerType
  <2> QED BY <1>5, <2>1 DEF PopEmpty, TypeOK, Offering, OwnerType, rounds
<1>6. CASE PopUncontended
  <2>1. owner' \in OwnerType /\ owner'.pc = "idle"
    BY <1>1, <1>6 DEF PopUncontended, OwnerType
  <2>2. taken' \in [Tasks -> Nat]
    BY <1>6, TakenType DEF PopUncontended, TypeOK
  <2> QED BY <1>6, <2>1, <2>2 DEF PopUncontended, TypeOK, Offering, OwnerType, rounds
<1>7. CASE PopLast
  <2>1. owner' \in OwnerType /\ owner'.pc = "cas"
    BY <1>1, <1>2, <1>7 DEF PopLast, OwnerType
  <2> QED BY <1>7, <2>1 DEF PopLast, TypeOK, Offering, OwnerType, rounds
<1>8. CASE PopCasWon
  <2>1. owner' \in OwnerType /\ owner'.pc = "restore"
    BY <1>1, <1>3, <1>8 DEF PopCasWon, OwnerType
  <2>2. taken' \in [Tasks -> Nat]
    BY <1>8, TakenType DEF PopCasWon, TypeOK
  <2>3. top' \in Counters /\ lapped' \subseteq Thieves
    BY <1>3, <1>8 DEF PopCasWon, Overtaken
  <2> QED BY <1>8, <2>1, <2>2, <2>3 DEF PopCasWon, TypeOK, Offering, OwnerType
<1>9. CASE PopCasLost
  <2>1. owner' \in OwnerType /\ owner'.pc = "restore"
    BY <1>1, <1>3, <1>9 DEF PopCasLost, OwnerType
  <2> QED BY <1>9, <2>1 DEF PopCasLost, TypeOK, Offering, OwnerType, rounds
<1>10. CASE PopRestore
  <2>1. owner' \in OwnerType /\ owner'.pc \in {"null", "idle"}
    BY <1>1, <1>10 DEF PopRestore, OwnerType
  <2>2. bottom' \in Counters
    BY <1>1, <1>10 DEF PopRestore, OwnerType
  <2> QED BY <1>10, <2>1, <2>2 DEF PopRestore, TypeOK, Offering, OwnerType, rounds
<1> QED BY <1>4, <1>5, <1>6, <1>7, <1>8, <1>9, <1>10 DEF DequeueFront

\* Thief p moves to pc with the given locals, the others stay.
Moves(p, pc, c, v) ==
  /\ thief' \in [Thieves -> ThiefType]
  /\ thief'[p].pc = pc /\ thief'[p].t = c /\ thief'[p].val = v
  /\ \A q \in Thieves : q # p => thief'[q] = thief[q]

\* A thief that sets its pc and its loaded top moves to those values.
LEMMA MovePcTop ==
  ASSUME thief \in [Thieves -> ThiefType], NEW p \in Thieves,
         NEW x \in {"idle", "bottom", "entry", "cas"}, NEW c \in Counters,
         thief' = [thief EXCEPT ![p].pc = x, ![p].t = c]
  PROVE  Moves(p, x, c, thief[p].val)
<1> DEFINE g == [thief EXCEPT ![p].pc = x]
<1> DEFINE h == [g EXCEPT ![p].t = c]
<1>1. /\ g \in [Thieves -> ThiefType]
      /\ g[p].pc = x /\ g[p].val = thief[p].val
      /\ \A q \in Thieves : q # p => g[q] = thief[q]
  BY DEF ThiefType
<1>2. /\ h \in [Thieves -> ThiefType]
      /\ h[p].pc = x /\ h[p].t = c /\ h[p].val = thief[p].val
      /\ \A q \in Thieves : q # p => h[q] = thief[q]
  <2> HIDE DEF g
  <2> QED BY <1>1 DEF ThiefType
<1>3. thief' = h
  BY Zenon
<1> QED BY <1>2, <1>3, Zenon DEF Moves

\* A thief that sets its pc and the task it read moves to those values.
LEMMA MovePcVal ==
  ASSUME thief \in [Thieves -> ThiefType], NEW p \in Thieves,
         NEW x \in {"idle", "bottom", "entry", "cas"}, NEW v \in Tasks \cup {NoTask},
         thief' = [thief EXCEPT ![p].pc = x, ![p].val = v]
  PROVE  Moves(p, x, thief[p].t, v)
<1> DEFINE g == [thief EXCEPT ![p].pc = x]
<1> DEFINE h == [g EXCEPT ![p].val = v]
<1>1. /\ g \in [Thieves -> ThiefType]
      /\ g[p].pc = x /\ g[p].t = thief[p].t
      /\ \A q \in Thieves : q # p => g[q] = thief[q]
  BY DEF ThiefType
<1>2. /\ h \in [Thieves -> ThiefType]
      /\ h[p].pc = x /\ h[p].t = thief[p].t /\ h[p].val = v
      /\ \A q \in Thieves : q # p => h[q] = thief[q]
  <2> HIDE DEF g
  <2> QED BY <1>1 DEF ThiefType
<1>3. thief' = h
  BY Zenon
<1> QED BY <1>2, <1>3, Zenon DEF Moves

\* How each step of dequeue_back moves its thief.
LEMMA StealMoves ==
  ASSUME TypeOK, NEW p \in Thieves
  PROVE  /\ StealLoadTop(p) => Moves(p, "bottom", top, thief[p].val)
         /\ StealLoadBottom(p) =>
              Moves(p, IF Empty(bottom, thief[p].t) THEN "idle" ELSE "entry",
                    thief[p].t, thief[p].val)
         /\ StealLoadEntry(p) =>
              Moves(p, "cas", thief[p].t, entries[Index(thief[p].t)])
         /\ StealCasWon(p) \/ StealCasLost(p) => Moves(p, "idle", thief[p].t, NoTask)
<1>1. thief \in [Thieves -> ThiefType] /\ top \in Counters /\ NoTask \in Tasks \cup {NoTask}
  BY DEF TypeOK, ThiefType
<1>2. entries[Index(thief[p].t)] \in Tasks \cup {NoTask}
  BY <1>1, EntryType DEF ThiefType
<1>3. StealLoadTop(p) => Moves(p, "bottom", top, thief[p].val)
  BY <1>1, MovePcTop DEF StealLoadTop
<1>4. StealLoadEntry(p) => Moves(p, "cas", thief[p].t, entries[Index(thief[p].t)])
  BY <1>1, <1>2, MovePcVal DEF StealLoadEntry
<1>5. StealCasWon(p) \/ StealCasLost(p) => Moves(p, "idle", thief[p].t, NoTask)
  BY <1>1, MovePcVal DEF StealCasWon, StealCasLost
<1>6. StealLoadBottom(p) =>
        Moves(p, IF Empty(bottom, thief[p].t) THEN "idle" ELSE "entry",
              thief[p].t, thief[p].val)
  BY <1>1 DEF StealLoadBottom, Moves, ThiefType
<1> QED BY <1>3, <1>4, <1>5, <1>6

\* No step of a thief leaves the types.
LEMMA DequeueBackTypeStep ==
  ASSUME TypeOK, Offering, NEW p \in Thieves, DequeueBack(p)
  PROVE  TypeOK' /\ Offering'
<1>1. thief' \in [Thieves -> ThiefType]
  BY StealMoves DEF Moves, DequeueBack
<1>2. UNCHANGED <<bottom, entries, owner, offered>>
  BY DEF DequeueBack, StealLoadTop, StealLoadBottom, StealLoadEntry, StealCasWon,
         StealCasLost
<1>3. Plus1(top) \in Counters
  BY Neighbours DEF TypeOK
<1>4. top' \in Counters
  BY <1>3 DEF DequeueBack, StealLoadTop, StealLoadBottom, StealLoadEntry, StealCasWon,
              StealCasLost, TypeOK
<1>5. lapped' \subseteq Thieves /\ fooled' \in BOOLEAN
  BY DEF DequeueBack, StealLoadTop, StealLoadBottom, StealLoadEntry, StealCasWon,
         StealCasLost, TypeOK, Overtaken, rounds
<1>6. taken' \in [Tasks -> Nat]
  <2>1. CASE StealCasWon(p)
    BY <2>1, TakenType DEF StealCasWon, TypeOK
  <2>2. CASE ~StealCasWon(p)
    BY <2>2 DEF DequeueBack, StealLoadTop, StealLoadBottom, StealLoadEntry, StealCasLost,
                TypeOK
  <2> QED BY <2>1, <2>2
<1> QED BY <1>1, <1>2, <1>4, <1>5, <1>6 DEF TypeOK, Offering, ThiefType

-----------------------------------------------------------------------------
(* What the deque holds, and how it changes *)

\* The number of tasks that wait is a distance of two counters.
LEMMA WaitingType ==
  ASSUME TypeOK
  PROVE  LogicalBottom \in Counters /\ Waiting \in 0..(Modulus - 1)
<1>1. LogicalBottom \in Counters
  BY Neighbours DEF LogicalBottom, TypeOK
<1> QED BY <1>1, CountLaws DEF Waiting, TypeOK

\* The same tasks at the same places.
Same ==
  /\ Waiting' = Waiting
  /\ \A i \in 1..Waiting : Item(i)' = Item(i)
  /\ UNCHANGED <<offered, taken>>

\* A step that leaves the tasks leaves them offered and not taken.
LEMMA HeldSame ==
  ASSUME Held, Same
  PROVE  Held'
<1>1. \A i \in 1..Waiting : Item(i)' \in 1..offered /\ taken[Item(i)'] = 0
  BY DEF Held, Same
<1>2. \A i, j \in 1..Waiting : Item(i)' = Item(j)' => i = j
  BY DEF Held, Same
<1>3. \A x \in 1..offered : taken[x] \in {0, 1} /\ (taken[x] = 0 => \E i \in 1..Waiting : Item(i)' = x)
  BY DEF Held, Same
<1>4. Waiting <= Size /\ \A x \in Tasks : x > offered => taken[x] = 0
  BY DEF Held
<1> QED BY <1>1, <1>2, <1>3, <1>4 DEF Held, Same

\* A task of the deque is handed to an executor.
LEMMA HandOutEffect ==
  ASSUME TypeOK, Held, NEW k \in 1..Waiting, HandOut(Item(k))
  PROVE  /\ Item(k) \in 1..offered /\ Item(k) \in Tasks
         /\ taken'[Item(k)] = 1
         /\ \A x \in Tasks : x # Item(k) => taken'[x] = taken[x]
<1>1. Item(k) \in 1..offered /\ taken[Item(k)] = 0
  BY DEF Held
<1>2. Item(k) \in Tasks
  BY <1>1, DequeAssumption DEF TypeOK, Tasks
<1>3. taken' = [taken EXCEPT ![Item(k)] = taken[Item(k)] + 1]
  BY DEF HandOut
<1> QED BY <1>1, <1>2, <1>3 DEF TypeOK

\* The oldest leaves: the others move up by one.
TakesOldest ==
  /\ Waiting > 0 /\ Waiting' = Waiting - 1
  /\ \A i \in 1..(Waiting - 1) : Item(i)' = Item(i + 1)
  /\ HandOut(Item(1))
  /\ UNCHANGED offered

\* Taking the oldest task moves it from the deque to the taken ones.
LEMMA HeldTakesOldest ==
  ASSUME TypeOK, Held, TakesOldest
  PROVE  Held'
<1> DEFINE n == Waiting
<1>0. n \in Nat /\ offered \in Nat /\ n <= Size /\ n > 0 /\ n' = n - 1 /\ offered' = offered
      /\ Size \in Nat /\ 1 \in 1..n
  BY WaitingType, DequeAssumption DEF TypeOK, Held, TakesOldest
<1>1. /\ Item(1) \in 1..offered /\ taken'[Item(1)] = 1
      /\ \A x \in Tasks : x # Item(1) => taken'[x] = taken[x]
  BY <1>0, HandOutEffect DEF TakesOldest
<1>2. \A i \in 1..(n - 1) : Item(i)' = Item(i + 1) /\ i + 1 \in 1..n /\ i + 1 # 1
  BY <1>0 DEF TakesOldest
<1>3. 1..offered \subseteq Tasks
  BY DequeAssumption DEF TypeOK, Tasks
<1> HIDE DEF n
<1>4. ASSUME NEW i \in 1..(n - 1)
      PROVE  Item(i)' \in 1..offered /\ taken'[Item(i)'] = 0
  <2>1. Item(i + 1) \in 1..offered /\ taken[Item(i + 1)] = 0 /\ Item(i + 1) # Item(1)
    BY <1>0, <1>2 DEF Held, n
  <2> QED BY <1>1, <1>2, <1>3, <2>1
<1>5. ASSUME NEW i \in 1..(n - 1), NEW j \in 1..(n - 1), Item(i)' = Item(j)'
      PROVE  i = j
  <2>1. Item(i + 1) = Item(j + 1) /\ i + 1 \in 1..n /\ j + 1 \in 1..n
    BY <1>2, <1>5
  <2>2. i + 1 = j + 1
    BY <2>1 DEF Held, n
  <2> QED BY <2>2
<1>6. ASSUME NEW x \in 1..offered
      PROVE  taken'[x] \in {0, 1} /\ (taken'[x] = 0 => \E i \in 1..(n - 1) : Item(i)' = x)
  <2>1. CASE x = Item(1)
    BY <1>1, <2>1
  <2>2. CASE x # Item(1)
    <3>1. taken'[x] = taken[x] /\ taken[x] \in {0, 1}
      BY <1>1, <1>3, <2>2 DEF Held
    <3>2. ASSUME taken[x] = 0 PROVE \E i \in 1..(n - 1) : Item(i)' = x
      <4>1. PICK j \in 1..n : Item(j) = x
        BY <3>2 DEF Held, n
      <4>2. j - 1 \in 1..(n - 1) /\ Item(j - 1)' = Item((j - 1) + 1) /\ (j - 1) + 1 = j
        <5>1. j # 1
          BY <2>2, <4>1
        <5>2. j - 1 \in 1..(n - 1) /\ (j - 1) + 1 = j
          BY <1>0, <5>1
        <5> QED BY <1>2, <5>2
      <4> QED BY <4>1, <4>2
    <3> QED BY <3>1, <3>2
  <2> QED BY <2>1, <2>2
<1>7. \A x \in Tasks : x > offered => taken'[x] = 0
  BY <1>0, <1>1 DEF Held
<1>8. n' <= Size
  BY <1>0
<1> QED BY <1>0, <1>4, <1>5, <1>6, <1>7, <1>8 DEF Held, n

\* The latest leaves: the others stay where they are.
TakesLatest ==
  /\ Waiting > 0 /\ Waiting' = Waiting - 1
  /\ \A i \in 1..Waiting : Item(i)' = Item(i)
  /\ HandOut(Item(Waiting))
  /\ UNCHANGED offered

\* Taking the latest task moves it from the deque to the taken ones.
LEMMA HeldTakesLatest ==
  ASSUME TypeOK, Held, TakesLatest
  PROVE  Held'
<1> DEFINE n == Waiting
<1>0. n \in Nat /\ offered \in Nat /\ n <= Size /\ n > 0 /\ n' = n - 1 /\ offered' = offered
      /\ Size \in Nat /\ n \in 1..n
  BY WaitingType, DequeAssumption DEF TypeOK, Held, TakesLatest
<1>1. /\ Item(n) \in 1..offered /\ taken'[Item(n)] = 1
      /\ \A x \in Tasks : x # Item(n) => taken'[x] = taken[x]
  BY <1>0, HandOutEffect DEF TakesLatest
<1>2. \A i \in 1..n : Item(i)' = Item(i)
  BY DEF TakesLatest
<1>3. 1..offered \subseteq Tasks
  BY DequeAssumption DEF TypeOK, Tasks
<1> HIDE DEF n
<1>4. ASSUME NEW i \in 1..(n - 1)
      PROVE  Item(i)' \in 1..offered /\ taken'[Item(i)'] = 0
  <2>1. i \in 1..n /\ i # n
    BY <1>0
  <2>2. Item(i) \in 1..offered /\ taken[Item(i)] = 0 /\ Item(i) # Item(n)
    BY <1>0, <2>1 DEF Held, n
  <2> QED BY <1>1, <1>2, <1>3, <2>1, <2>2
<1>5. ASSUME NEW i \in 1..(n - 1), NEW j \in 1..(n - 1), Item(i)' = Item(j)'
      PROVE  i = j
  <2>1. Item(i) = Item(j) /\ i \in 1..n /\ j \in 1..n
    BY <1>0, <1>2, <1>5
  <2> QED BY <2>1 DEF Held, n
<1>6. ASSUME NEW x \in 1..offered
      PROVE  taken'[x] \in {0, 1} /\ (taken'[x] = 0 => \E i \in 1..(n - 1) : Item(i)' = x)
  <2>1. CASE x = Item(n)
    BY <1>1, <2>1
  <2>2. CASE x # Item(n)
    <3>1. taken'[x] = taken[x] /\ taken[x] \in {0, 1}
      BY <1>1, <1>3, <2>2 DEF Held
    <3>2. ASSUME taken[x] = 0 PROVE \E i \in 1..(n - 1) : Item(i)' = x
      <4>1. PICK j \in 1..n : Item(j) = x
        BY <3>2 DEF Held, n
      <4>2. j \in 1..(n - 1)
        BY <1>0, <2>2, <4>1
      <4> QED BY <1>2, <4>1, <4>2
    <3> QED BY <3>1, <3>2
  <2> QED BY <2>1, <2>2
<1>7. \A x \in Tasks : x > offered => taken'[x] = 0
  BY <1>0, <1>1 DEF Held
<1>8. n' <= Size
  BY <1>0
<1> QED BY <1>0, <1>4, <1>5, <1>6, <1>7, <1>8 DEF Held, n

\* The next task joins at the bottom.
Adds ==
  /\ Waiting < Size /\ Waiting' = Waiting + 1
  /\ \A i \in 1..Waiting : Item(i)' = Item(i)
  /\ \A i : i = Waiting + 1 => Item(i)' = offered + 1
  /\ offered < MaxTasks /\ offered' = offered + 1
  /\ UNCHANGED taken

\* A task added becomes the latest.
LEMMA HeldAdds ==
  ASSUME TypeOK, Held, Adds
  PROVE  Held'
<1>n. PICK n \in Nat : n = Waiting
  BY WaitingType
<1>0. /\ offered \in Nat /\ Size \in Nat /\ Waiting' = n + 1 /\ n < Size
      /\ \A i \in 1..n : Item(i)' = Item(i)
      /\ Item(n + 1)' = offered + 1
      /\ offered < MaxTasks /\ offered' = offered + 1 /\ taken' = taken
  BY <1>n, DequeAssumption DEF TypeOK, Adds
<1>1. offered + 1 \in Tasks /\ taken[offered + 1] = 0
  BY <1>0, DequeAssumption DEF Held, Tasks
<1>2. ASSUME NEW i \in 1..(n + 1)
      PROVE  Item(i)' \in 1..(offered + 1) /\ taken[Item(i)'] = 0
  <2>1. CASE i = n + 1
    BY <1>0, <1>1, <2>1
  <2>2. CASE i \in 1..n
    BY <1>n, <1>0, <2>2 DEF Held
  <2> QED BY <1>0, <2>1, <2>2
<1>3. \A i \in 1..n : Item(i)' # offered + 1
  BY <1>n, <1>0 DEF Held
<1>4. ASSUME NEW i \in 1..(n + 1), NEW j \in 1..(n + 1), Item(i)' = Item(j)'
      PROVE  i = j
  <2>1. CASE i \in 1..n /\ j \in 1..n
    BY <1>n, <1>0, <1>4, <2>1 DEF Held
  <2>2. CASE i = n + 1 \/ j = n + 1
    BY <1>0, <1>3, <1>4, <2>2
  <2> QED BY <1>0, <2>1, <2>2
<1>5. ASSUME NEW x \in 1..(offered + 1)
      PROVE  taken[x] \in {0, 1} /\ (taken[x] = 0 => \E i \in 1..(n + 1) : Item(i)' = x)
  <2>1. CASE x = offered + 1
    BY <1>0, <1>1, <2>1
  <2>2. CASE x \in 1..offered
    <3>1. taken[x] = 0 => \E i \in 1..n : Item(i) = x
      BY <1>n, <2>2 DEF Held
    <3> QED BY <1>0, <2>2, <3>1 DEF Held
  <2> QED BY <1>0, <2>1, <2>2
<1>6. \A x \in Tasks : x > offered + 1 => taken[x] = 0
  BY <1>0 DEF Held, Tasks
<1>7. n + 1 <= Size
  BY <1>0
<1> QED BY <1>0, <1>2, <1>4, <1>5, <1>6, <1>7 DEF Held

\* A task the full deque refuses goes to its owner.
Refuses ==
  /\ Waiting = Size /\ Waiting' = Waiting
  /\ \A i \in 1..Waiting : Item(i)' = Item(i)
  /\ offered < MaxTasks /\ offered' = offered + 1
  /\ HandOut(offered + 1)

\* A task the full deque refuses is executed by its creator at once.
LEMMA HeldRefuses ==
  ASSUME TypeOK, Held, Refuses
  PROVE  Held'
<1> USE DEF Refuses
<1>0. Waiting \in Nat /\ offered \in Nat /\ offered + 1 \in Tasks
  BY WaitingType, DequeAssumption DEF TypeOK, Tasks
<1>1. taken[offered + 1] = 0
  BY <1>0 DEF Held
<1>2. taken'[offered + 1] = 1 /\ \A x \in Tasks : x # offered + 1 => taken'[x] = taken[x]
  BY <1>0, <1>1 DEF HandOut, TypeOK
<1>3. 1..offered \subseteq Tasks /\ \A x \in 1..offered : x # offered + 1
  BY <1>0, DequeAssumption DEF TypeOK, Tasks
<1>4. \A i \in 1..Waiting : Item(i)' = Item(i)
  OBVIOUS
<1>5. \A i \in 1..Waiting : Item(i) \in 1..(offered + 1) /\ taken'[Item(i)] = 0
  BY <1>0, <1>2, <1>3 DEF Held
<1>6. \A i, j \in 1..Waiting : Item(i) = Item(j) => i = j
  BY DEF Held
<1>7. ASSUME NEW x \in 1..(offered + 1)
      PROVE  taken'[x] \in {0, 1} /\ (taken'[x] = 0 => \E i \in 1..Waiting : Item(i) = x)
  <2>1. CASE x = offered + 1
    BY <1>2, <2>1
  <2>2. CASE x \in 1..offered
    BY <1>2, <1>3, <2>2 DEF Held
  <2> QED BY <1>0, <2>1, <2>2
<1>8. \A x \in Tasks : x > offered + 1 => taken'[x] = 0
  BY <1>0, <1>2 DEF Held, Tasks
<1> QED BY <1>4, <1>5, <1>6, <1>7, <1>8 DEF Held

-----------------------------------------------------------------------------
(* The steps of the owner *)

Good == Held /\ Owner /\ Thief

\* What it takes for a step to leave the tasks.
LEMMA SameIf ==
  ASSUME UNCHANGED <<LogicalBottom, top, entries, offered, taken>>
  PROVE  Same
BY DEF Same, Waiting, Item

\* The thieves do not notice a step that leaves top and the oldest task.
LEMMA ThiefFrame ==
  ASSUME Thief, UNCHANGED <<top, thief, lapped>>,
         Waiting > 0 => Waiting' > 0 /\ Item(1)' = Item(1)
  PROVE  Thief'
BY DEF Thief

\* Thieves do not notice a step that leaves the tasks.
LEMMA ThiefSame ==
  ASSUME TypeOK, Thief, UNCHANGED <<top, thief, lapped>>, Same
  PROVE  Thief'
<1>1. Waiting \in Nat
  BY WaitingType
<1> QED BY <1>1, ThiefFrame DEF Same

\* When top advances every thief that would not notice becomes lapped.
LEMMA ThiefAdvance ==
  ASSUME TypeOK, NEW S \in SUBSET Thieves, top' = Plus1(top), lapped' = Overtaken(S),
         \A p \in S : thief'[p] = thief[p],
         \A p \in Thieves \ S : thief'[p].pc = "idle"
  PROVE  Thief'
<1>1. \A p \in Thieves \ lapped' : thief'[p].t = top' => thief'[p].pc = "idle"
  BY DEF Overtaken
<1> QED BY <1>1 DEF Thief

\* Each step of tdeque_enqueue leaves the tasks, adds one or refuses one.
LEMMA EnqueueGood ==
  ASSUME TypeOK, Offering, Good, Enqueue, TypeOK'
  PROVE  (Same \/ Adds \/ Refuses) /\ Owner' /\ Thief'
<1> USE DEF Good
<1>0. /\ Waiting \in Nat /\ bottom \in Counters /\ top \in Counters
      /\ owner.pc \in {"idle", "null", "store", "advance"} => LogicalBottom = bottom
      /\ owner \in OwnerType
  BY WaitingType DEF TypeOK, LogicalBottom, OwnerType
<1>1. CASE EnqueueFull
  <2>1. owner'.pc = "idle" /\ UNCHANGED <<bottom, top, entries, thief, lapped>>
    BY <1>0, <1>1 DEF EnqueueFull, rounds, OwnerType
  <2>2. UNCHANGED LogicalBottom
    BY <1>0, <1>1, <2>1 DEF EnqueueFull, LogicalBottom, Resting
  <2>3. Waiting' = Waiting /\ \A i \in 1..Waiting : Item(i)' = Item(i)
    BY <2>1, <2>2 DEF Waiting, Item
  <2>4. Waiting = Size
    BY <1>0, <1>1, FullLaw DEF EnqueueFull, Waiting, Resting
  <2>5. Refuses
    BY <1>1, <2>3, <2>4 DEF Refuses, EnqueueFull
  <2>6. Item(1)' = Item(1)
    BY <2>1 DEF Item
  <2>7. Thief'
    BY <1>0, <2>1, <2>3, <2>6, ThiefFrame
  <2>8. Owner'
    BY <2>1 DEF Owner
  <2> QED BY <2>5, <2>7, <2>8
<1>2. CASE EnqueueBegin
  <2>1. owner'.pc = "store" /\ owner'.b = bottom
        /\ UNCHANGED <<bottom, top, entries, thief, lapped, offered, taken>>
    BY <1>0, <1>2 DEF EnqueueBegin, rounds, OwnerType
  <2>2. UNCHANGED LogicalBottom
    BY <1>0, <1>2, <2>1 DEF EnqueueBegin, LogicalBottom, Resting
  <2>3. Same
    BY <2>1, <2>2, SameIf
  <2>4. Waiting # Size
    BY <1>0, <1>2, FullLaw DEF EnqueueBegin, Waiting, Resting
  <2>5. Waiting' < Size
    BY <1>0, <2>3, <2>4, DequeAssumption DEF Same, Held
  <2>6. Owner'
    BY <2>1, <2>5 DEF Owner
  <2> QED BY <2>1, <2>3, <2>6, ThiefSame
<1>3. CASE EnqueueStore
  <2>1. owner'.pc = "advance" /\ owner'.b = owner.b /\ owner.b = bottom
        /\ UNCHANGED <<bottom, top, thief, lapped, offered, taken>>
    BY <1>0, <1>3 DEF EnqueueStore, rounds, OwnerType, Owner
  <2>2. UNCHANGED LogicalBottom /\ LogicalBottom = bottom /\ Waiting < Size
    BY <1>0, <1>3, <2>1 DEF EnqueueStore, LogicalBottom, Owner
  <2>3. Waiting' = Waiting
    BY <2>1, <2>2 DEF Waiting
  <2>4. Slot(top, Waiting + 1) = Index(bottom) /\ Waiting + 1 \in 1..Size
    BY <1>0, <2>2, SlotLaws, DequeAssumption DEF Waiting
  <2>5. \A i \in 1..Waiting : Slot(top, i) \in 0..(Size - 1) /\ Slot(top, i) # Index(bottom)
    BY <1>0, <2>2, <2>4, SlotLaws, DequeAssumption
  <2>6. /\ entries'[Index(bottom)] = offered + 1
        /\ \A s \in 0..(Size - 1) : s # Index(bottom) => entries'[s] = entries[s]
    <3>1. Index(bottom) \in 0..(Size - 1)
      BY <1>0, EntryType
    <3> QED BY <1>3, <2>1, <3>1 DEF EnqueueStore, TypeOK
  <2>7. \A i \in 1..Waiting : Item(i)' = Item(i)
    BY <2>1, <2>5, <2>6 DEF Item
  <2>8. Same
    BY <2>1, <2>3, <2>7 DEF Same
  <2>9. Owner'
    BY <2>1, <2>2, <2>3, <2>6 DEF Owner
  <2> QED BY <2>1, <2>8, <2>9, ThiefSame
<1>4. CASE EnqueueAdvance
  <2>1. owner'.pc = "idle" /\ bottom' = Plus1(bottom) /\ LogicalBottom = bottom
        /\ UNCHANGED <<top, entries, thief, lapped, taken>>
    BY <1>0, <1>4 DEF EnqueueAdvance, rounds, OwnerType, Owner
  <2>2. LogicalBottom' = Plus1(bottom) /\ Waiting < Size /\ entries[Index(bottom)] = offered + 1
        /\ offered < MaxTasks /\ offered' = offered + 1
    BY <1>4, <2>1 DEF EnqueueAdvance, LogicalBottom, Owner, Offering
  <2>3. Plus1(bottom) # top
    BY <1>0, <2>1, <2>2, CountLaws, DequeAssumption DEF Waiting, Modulus
  <2>4. Waiting' = Waiting + 1
    BY <1>0, <2>1, <2>2, <2>3, CountLaws DEF Waiting
  <2>5. Slot(top, Waiting + 1) = Index(bottom)
    BY <1>0, <2>1, <2>2, SlotLaws, DequeAssumption DEF Waiting
  <2>6. \A i : Item(i)' = Item(i)
    BY <2>1 DEF Item
  <2>7. \A i : i = Waiting + 1 => Item(i)' = offered + 1
    BY <2>2, <2>5, <2>6 DEF Item
  <2>8. Adds
    BY <2>1, <2>2, <2>4, <2>6, <2>7 DEF Adds
  <2>9. Thief'
    BY <1>0, <2>1, <2>4, <2>6, ThiefFrame
  <2>10. Owner'
    BY <2>1 DEF Owner
  <2> QED BY <2>8, <2>9, <2>10
<1> QED BY <1>1, <1>2, <1>3, <1>4 DEF Enqueue

\* One task less is still below every bound on the tasks.
LEMMA OneLess ==
  ASSUME NEW a, NEW b, a \in Nat, b \in Nat, a = b + 1, b # 0
  PROVE  /\ b > 0 /\ b = a - 1 /\ a > 0 /\ b <= a
         /\ \A s : s \in Nat /\ a <= s => b <= s
OBVIOUS

\* Each step of the owner's dequeue leaves the tasks or takes one of the ends.
LEMMA DequeueFrontGood ==
  ASSUME TypeOK, Good, DequeueFront, TypeOK'
  PROVE  (Same \/ TakesLatest \/ TakesOldest) /\ Owner' /\ Thief'
<1> USE DEF Good
<1>0. /\ Waiting \in Nat /\ bottom \in Counters /\ top \in Counters /\ owner \in OwnerType
      /\ Plus1(bottom) \in Counters /\ Plus1(bottom) # bottom
      /\ LogicalBottom = IF owner.pc \in {"reserved", "cas", "restore"}
                         THEN Plus1(bottom) ELSE bottom
  BY WaitingType, Neighbours DEF TypeOK, LogicalBottom, OwnerType
<1>1. CASE PopReserve
  <2>1. owner'.pc = "reserved" /\ bottom' = Minus1(bottom) /\ owner'.b = bottom'
        /\ UNCHANGED <<top, entries, thief, lapped, offered, taken>>
    BY <1>0, <1>1 DEF PopReserve, rounds, OwnerType
  <2>2. LogicalBottom' = Plus1(Minus1(bottom)) /\ LogicalBottom = bottom
    BY <1>0, <1>1, <2>1 DEF LogicalBottom, PopReserve, Resting
  <2>3. Same
    BY <1>0, <2>1, <2>2, Neighbours, SameIf
  <2>4. Owner'
    BY <2>1 DEF Owner
  <2> QED BY <2>1, <2>3, <2>4, ThiefSame
<1>2. CASE PopEmpty
  <2>1. /\ owner.pc = "reserved" /\ owner.b = bottom /\ Plus1(bottom) = top
        /\ owner'.pc = "restore" /\ owner'.t = top /\ owner'.b = bottom
        /\ UNCHANGED <<bottom, top, entries, thief, lapped, offered, taken>>
    BY <1>0, <1>2 DEF PopEmpty, rounds, OwnerType, Owner
  <2>2. Same
    BY <2>1, SameIf DEF LogicalBottom
  <2>3. Owner'
    BY <2>1 DEF Owner
  <2> QED BY <2>1, <2>2, <2>3, ThiefSame
<1>3. CASE PopUncontended
  <2>1. /\ owner.pc = "reserved" /\ owner.b = bottom /\ Plus1(bottom) # top /\ bottom # top
        /\ owner'.pc = "idle" /\ HandOut(entries[Index(bottom)])
        /\ UNCHANGED <<bottom, top, entries, thief, lapped, offered>>
    BY <1>0, <1>3 DEF PopUncontended, rounds, OwnerType, Owner
  <2>2. Waiting = Count(Plus1(bottom), top) /\ Waiting' = Count(bottom, top)
    BY <1>0, <2>1 DEF Waiting, LogicalBottom
  <2>3. Waiting' \in Nat /\ Waiting' # 0 /\ Waiting = Waiting' + 1
    BY <1>0, <2>1, <2>2, CountLaws
  <2>n. Waiting' > 0 /\ Waiting' = Waiting - 1 /\ Waiting > 0 /\ Waiting' <= Waiting
    BY <1>0, <2>3, OneLess, Zenon
  <2>4. Waiting' <= Size
    <3>1. Waiting <= Size /\ Size \in Nat
      BY DequeAssumption DEF Held
    <3> QED BY <1>0, <2>3, <3>1, OneLess, Zenon
  <2>5. Slot(top, Count(bottom, top) + 1) = Index(bottom)
    BY <1>0, <2>2, <2>4, SlotLaws
  <2>6. Item(Waiting) = entries[Index(bottom)]
    BY <2>2, <2>3, <2>5 DEF Item
  <2>7. \A i : Item(i)' = Item(i)
    BY <2>1 DEF Item
  <2>8. TakesLatest
    BY <2>1, <2>6, <2>7, <2>n DEF TakesLatest
  <2>9. Thief'
    BY <2>1, <2>7, <2>n, ThiefFrame
  <2>10. Owner'
    BY <2>1 DEF Owner
  <2> QED BY <2>8, <2>9, <2>10
<1>4. CASE PopLast
  <2>1. /\ owner.pc = "reserved" /\ owner.b = bottom /\ bottom = top
        /\ owner'.pc = "cas" /\ owner'.t = top /\ owner'.val = entries[Index(bottom)]
        /\ owner'.b = bottom
        /\ UNCHANGED <<bottom, top, entries, thief, lapped, offered, taken>>
    BY <1>0, <1>4 DEF PopLast, rounds, OwnerType, Owner
  <2>2. Same
    BY <2>1, SameIf DEF LogicalBottom
  <2>3. Owner'
    BY <2>1 DEF Owner
  <2> QED BY <2>1, <2>2, <2>3, ThiefSame
<1>5. CASE PopCasWon
  <2>1. /\ owner.pc = "cas" /\ owner.b = bottom /\ owner.t = bottom /\ bottom = top
        /\ owner.val = entries[Index(top)]
        /\ owner'.pc = "restore" /\ owner'.t = Plus1(bottom) /\ owner'.b = bottom
        /\ top' = Plus1(top) /\ lapped' = Overtaken(Thieves)
        /\ HandOut(entries[Index(top)])
        /\ UNCHANGED <<bottom, entries, thief, offered>>
    BY <1>0, <1>5 DEF PopCasWon, OwnerType, Owner
  <2>2. Waiting = Count(Plus1(top), top) /\ Waiting' = Count(Plus1(top), Plus1(top))
    BY <1>0, <2>1 DEF Waiting, LogicalBottom
  <2>3. Waiting = 1 /\ Waiting' = 0
    <3>1. Count(top, top) = 0 /\ Count(Plus1(top), Plus1(top)) = 0
      BY <1>0, <2>1, CountLaws
    <3> QED BY <1>0, <2>1, <2>2, <3>1, CountLaws
  <2>4. Item(1) = entries[Index(top)]
    BY <1>0, SlotLaws DEF Item
  <2>5. TakesOldest
    BY <2>1, <2>3, <2>4 DEF TakesOldest
  <2>6. Owner'
    BY <2>1 DEF Owner
  <2>7. Thief'
    BY <2>1, ThiefAdvance
  <2> QED BY <2>5, <2>6, <2>7
<1>6. CASE PopCasLost
  <2>1. /\ owner.pc = "cas" /\ owner.b = bottom /\ owner.t = bottom /\ top = Plus1(bottom)
        /\ owner'.pc = "restore" /\ owner'.t = Plus1(bottom) /\ owner'.b = bottom
        /\ UNCHANGED <<bottom, top, entries, thief, lapped, offered, taken>>
    BY <1>0, <1>6 DEF PopCasLost, OwnerType, Owner, rounds
  <2>2. Same
    BY <2>1, SameIf DEF LogicalBottom
  <2>3. Owner'
    BY <2>1 DEF Owner
  <2> QED BY <2>1, <2>2, <2>3, ThiefSame
<1>7. CASE PopRestore
  <2>1. /\ owner.pc = "restore" /\ top = Plus1(bottom) /\ bottom' = Plus1(bottom)
        /\ owner'.pc \in {"null", "idle"}
        /\ UNCHANGED <<top, entries, thief, lapped, offered, taken>>
    BY <1>0, <1>7 DEF PopRestore, OwnerType, Owner, rounds
  <2>2. LogicalBottom' = LogicalBottom /\ LogicalBottom = top
    BY <1>0, <2>1 DEF LogicalBottom
  <2>3. Same
    BY <2>1, <2>2, SameIf
  <2>4. Waiting' = 0
    BY <1>0, <2>2, <2>3, CountLaws DEF Waiting, Same
  <2>5. Owner'
    BY <2>1, <2>4 DEF Owner
  <2> QED BY <2>1, <2>3, <2>5, ThiefSame
<1> QED BY <1>1, <1>2, <1>3, <1>4, <1>5, <1>6, <1>7 DEF DequeueFront

-----------------------------------------------------------------------------
(* The steps of the thieves *)

\* The owner's locals do not depend on the thieves, and only a task less waits
\* for it when top advances.
LEMMA OwnerFrame ==
  ASSUME TypeOK, Owner, UNCHANGED <<owner, bottom, entries, offered, top>>, Same
  PROVE  Owner'
BY DEF Owner, Same

\* Each step of a thief leaves the tasks, takes the oldest, or fools the thief.
LEMMA StealGood ==
  ASSUME TypeOK, Good, NEW p \in Thieves, DequeueBack(p), TypeOK', ~fooled'
  PROVE  (Same \/ TakesOldest) /\ Owner' /\ Thief'
<1> USE DEF Good
<1>0. /\ Waiting \in Nat /\ bottom \in Counters /\ top \in Counters
      /\ Plus1(bottom) \in Counters /\ LogicalBottom \in Counters
  BY WaitingType, Neighbours DEF TypeOK
<1>1. ASSUME ~StealCasWon(p)
      PROVE  /\ UNCHANGED <<bottom, top, entries, owner, offered, taken>>
             /\ lapped' = (IF StealLoadTop(p) THEN lapped \ {p} ELSE lapped)
             /\ Same /\ Owner'
  <2>1. /\ UNCHANGED <<bottom, top, entries, owner, offered, taken>>
        /\ lapped' = (IF StealLoadTop(p) THEN lapped \ {p} ELSE lapped)
    BY <1>1 DEF DequeueBack, StealLoadTop, StealLoadBottom, StealLoadEntry, StealCasLost,
                rounds
  <2>2. Same
    BY <2>1, SameIf DEF LogicalBottom
  <2> QED BY <2>1, <2>2, OwnerFrame
<1>2. ASSUME ~StealCasWon(p),
             p \notin lapped' /\ thief'[p].t = top' =>
               /\ thief'[p].pc \in {"entry", "cas"} => Waiting > 0
               /\ thief'[p].pc = "cas" => thief'[p].val = Item(1),
             \A q \in Thieves : q # p => thief'[q] = thief[q]
      PROVE  Thief'
  <2>1. Waiting' = Waiting /\ (Waiting > 0 => Item(1)' = Item(1))
    BY <1>0, <1>1, <1>2 DEF Same
  <2>2. ASSUME NEW q \in Thieves \ lapped', thief'[q].t = top'
        PROVE  /\ thief'[q].pc \in {"entry", "cas"} => Waiting' > 0
               /\ thief'[q].pc = "cas" => thief'[q].val = Item(1)'
    <3>1. CASE q = p
      BY <1>2, <2>1, <2>2, <3>1
    <3>2. CASE q # p
      <4>1. q \in Thieves \ lapped /\ thief[q].t = top /\ thief'[q] = thief[q]
        BY <1>1, <1>2, <2>2, <3>2
      <4> QED BY <2>1, <4>1 DEF Thief
    <3> QED BY <3>1, <3>2
  <2> QED BY <2>2 DEF Thief
<1>3. CASE StealLoadTop(p)
  <2>1. ~StealCasWon(p)
    BY <1>3 DEF StealLoadTop, StealCasWon
  <2>2. thief'[p].pc = "bottom" /\ \A q \in Thieves : q # p => thief'[q] = thief[q]
    BY <1>3, StealMoves DEF Moves
  <2> QED BY <1>1, <1>2, <2>1, <2>2
<1>4. CASE StealLoadBottom(p)
  <2>1. ~StealCasWon(p) /\ ~StealLoadTop(p)
    BY <1>4 DEF StealLoadTop, StealCasWon, StealLoadBottom
  <2>2. /\ thief'[p].pc = (IF Empty(bottom, thief[p].t) THEN "idle" ELSE "entry")
        /\ thief'[p].t = thief[p].t
        /\ \A q \in Thieves : q # p => thief'[q] = thief[q]
    BY <1>4, StealMoves DEF Moves
  <2>3. ~Empty(bottom, top) => Waiting > 0
    BY <1>0, CountLaws DEF Empty, Waiting, LogicalBottom
  <2> QED BY <1>1, <1>2, <2>1, <2>2, <2>3
<1>5. CASE StealLoadEntry(p)
  <2>1. ~StealCasWon(p) /\ ~StealLoadTop(p) /\ thief[p].pc = "entry"
    BY <1>5 DEF StealLoadTop, StealCasWon, StealLoadEntry
  <2>2. /\ thief'[p].pc = "cas" /\ thief'[p].val = entries[Index(thief[p].t)]
        /\ thief'[p].t = thief[p].t
        /\ \A q \in Thieves : q # p => thief'[q] = thief[q]
    BY <1>5, StealMoves DEF Moves
  <2>3. Item(1) = entries[Index(top)]
    BY <1>0, SlotLaws DEF Item
  <2>4. p \notin lapped /\ thief[p].t = top => Waiting > 0
    BY <2>1 DEF Thief
  <2> QED BY <1>1, <1>2, <2>1, <2>2, <2>3, <2>4
<1>6. CASE StealCasWon(p)
  <2>1. /\ thief[p].pc = "cas" /\ thief[p].t = top /\ p \notin lapped
        /\ top' = Plus1(top) /\ lapped' = Overtaken(Thieves \ {p})
        /\ HandOut(thief[p].val)
        /\ UNCHANGED <<bottom, entries, owner, offered>>
    BY <1>6 DEF StealCasWon
  <2>2. thief'[p].pc = "idle" /\ \A q \in Thieves : q # p => thief'[q] = thief[q]
    BY <1>6, StealMoves DEF Moves
  <2>3. Waiting > 0 /\ thief[p].val = Item(1)
    BY <2>1 DEF Thief
  <2>4. UNCHANGED LogicalBottom /\ LogicalBottom # top
    BY <1>0, <2>1, <2>3, CountLaws DEF Waiting, LogicalBottom
  <2>5. Waiting' = Waiting - 1
    BY <1>0, <2>1, <2>4, CountLaws DEF Waiting
  <2>6. \A i \in 1..(Waiting - 1) : Item(i)' = Item(i + 1)
    <3>1. \A i \in 1..Size : Slot(Plus1(top), i) = Slot(top, i + 1)
      BY <1>0, SlotLaws
    <3>2. \A i \in 1..(Waiting - 1) : i \in 1..Size
      BY <1>0, DequeAssumption DEF Held
    <3> QED BY <2>1, <3>1, <3>2 DEF Item
  <2>7. TakesOldest
    BY <2>1, <2>3, <2>5, <2>6 DEF TakesOldest
  <2>8. Thief'
    BY <2>1, <2>2, ThiefAdvance
  <2>9. Owner'
    <3>1. owner.pc # "restore"
      BY <1>0, <2>4 DEF Owner, LogicalBottom
    <3>2. owner.pc = "cas" => top' = Plus1(bottom)
      BY <2>1, <2>4 DEF Owner, LogicalBottom
    <3>3. owner.pc # "null"
      BY <2>3 DEF Owner
    <3>4. Waiting < Size => Waiting' < Size
      BY <1>0, <2>5, DequeAssumption
    <3> QED BY <2>1, <3>1, <3>2, <3>3, <3>4 DEF Owner
  <2> QED BY <2>7, <2>8, <2>9
<1>7. CASE StealCasLost(p)
  <2>1. ~StealCasWon(p) /\ ~StealLoadTop(p)
    BY <1>7 DEF StealLoadTop, StealCasWon, StealCasLost
  <2>2. thief'[p].pc = "idle" /\ \A q \in Thieves : q # p => thief'[q] = thief[q]
    BY <1>7, StealMoves DEF Moves
  <2> QED BY <1>1, <1>2, <2>1, <2>2
<1> QED BY <1>3, <1>4, <1>5, <1>6, <1>7 DEF DequeueBack

-----------------------------------------------------------------------------
(* The invariant *)

\* At the start the deque is empty and nobody is under way.
LEMMA InitIInv == Init => IInv
<1> SUFFICES ASSUME Init PROVE IInv
  OBVIOUS
<1>0. Size \in Nat \ {0} /\ 0 \in Counters /\ NoTask \in Tasks \cup {NoTask}
  BY DequeAssumption DEF Counters, Modulus
<1>1. TypeOK
  <2>1. owner \in OwnerType /\ thief \in [Thieves -> ThiefType]
    BY <1>0 DEF Init, OwnerType, ThiefType
  <2>2. taken \in [Tasks -> Nat] /\ offered \in 0..MaxTasks
    BY DequeAssumption DEF Init
  <2> QED BY <1>0, <2>1, <2>2 DEF Init, TypeOK, OwnerType, ThiefType
<1>2. Waiting = 0
  BY CountLaws DEF Init, Waiting, LogicalBottom
<1>3. Held
  BY <1>0, <1>2 DEF Init, Held
<1>4. Owner /\ Thief /\ Offering
  BY DEF Init, Owner, Thief, Offering
<1> QED BY <1>1, <1>3, <1>4 DEF IInv

\* Until a thief is fooled every step does one of five things to the deque.
LEMMA Moved ==
  ASSUME IInv, Next, TypeOK', ~fooled'
  PROVE  Good /\ Good' /\ (Same \/ Adds \/ Refuses \/ TakesLatest \/ TakesOldest)
<1>1. ~fooled
  <2>1. CASE \E p \in Thieves : DequeueBack(p)
    BY <2>1 DEF DequeueBack, StealLoadTop, StealLoadBottom, StealLoadEntry, StealCasWon,
                StealCasLost, rounds
  <2>2. CASE Enqueue
    BY <2>2 DEF Enqueue, EnqueueFull, EnqueueBegin, EnqueueStore, EnqueueAdvance, rounds
  <2>3. CASE DequeueFront
    BY <2>3 DEF DequeueFront, PopReserve, PopEmpty, PopUncontended, PopLast, PopCasWon,
                PopCasLost, PopRestore, rounds
  <2> QED BY <2>1, <2>2, <2>3 DEF Next
<1>2. TypeOK /\ Offering /\ Good
  BY <1>1 DEF IInv, Good
<1>3. (Same \/ Adds \/ Refuses \/ TakesLatest \/ TakesOldest) /\ Owner' /\ Thief'
  <2>1. CASE Enqueue
    BY <1>2, <2>1, EnqueueGood
  <2>2. CASE DequeueFront
    BY <1>2, <2>2, DequeueFrontGood
  <2>3. CASE \E p \in Thieves : DequeueBack(p)
    BY <1>2, <2>3, StealGood
  <2> QED BY <2>1, <2>2, <2>3 DEF Next
<1>4. Held'
  BY <1>2, <1>3, HeldSame, HeldAdds, HeldRefuses, HeldTakesLatest, HeldTakesOldest DEF Good
<1> QED BY <1>2, <1>3, <1>4 DEF Good

\* Every step preserves the invariant.
LEMMA NextStep ==
  ASSUME IInv, [Next]_vars
  PROVE  IInv'
<1>1. CASE UNCHANGED vars
  <2>1. TypeOK' /\ Offering'
    BY <1>1 DEF IInv, vars, rounds, TypeOK, Offering
  <2>2. UNCHANGED <<Waiting, Held, Owner, Thief, fooled>>
    BY <1>1 DEF vars, rounds, Waiting, LogicalBottom, Held, Owner, Thief, Item
  <2> QED BY <2>1, <2>2 DEF IInv
<1>2. CASE Next
  <2>1. TypeOK' /\ Offering'
    BY <1>2, EnqueueTypeStep, DequeueFrontTypeStep, DequeueBackTypeStep DEF Next, IInv
  <2>2. ~fooled' => Good'
    BY <1>2, <2>1, Moved
  <2> QED BY <2>1, <2>2 DEF IInv, Good
<1> QED BY <1>1, <1>2

\* The invariant holds in every state of queue.c's operations.
LEMMA Invariant == Spec => []IInv
<1> QED BY InitIInv, NextStep, PTL DEF Spec

\* The counters stay in their width and the locals hold what queue.c can have
\* loaded, fooled or not.
THEOREM TypeCorrect == Spec => []TypeOK
<1>1. IInv => TypeOK
  BY DEF IInv
<1> QED BY <1>1, Invariant, PTL

-----------------------------------------------------------------------------
(* What the invariant says of the properties *)

\* The queued tasks as a sequence.
InSequence ==
  /\ Items \in Seq(Tasks) /\ Len(Items) = Waiting /\ Waiting \in Nat
  /\ DOMAIN Items = 1..Waiting
  /\ \A i \in 1..Waiting : Items[i] = Item(i)

\* Items is the sequence of the tasks that wait.
LEMMA ItemsSequence == TypeOK /\ Held => InSequence
<1> SUFFICES ASSUME TypeOK, Held PROVE InSequence
  OBVIOUS
<1>1. Items = [i \in 1..Waiting |-> Item(i)]
  BY DEF Items, Waiting, Count, Item, Slot
<1>2. Waiting \in Nat /\ \A i \in 1..Waiting : Item(i) \in Tasks
  BY WaitingType, DequeAssumption DEF Held, TypeOK, Tasks
<1>3. Items \in [1..Waiting -> Tasks]
  BY <1>1, <1>2
<1>4. \A n \in Nat : \A f \in [1..n -> Tasks] : f \in Seq(Tasks) /\ Len(f) = n
  OBVIOUS
<1> QED BY <1>1, <1>2, <1>3, <1>4 DEF InSequence

\* For arrays of any size and any number of thieves: a task is queued or was
\* handed out, once, as long as no thief slept through a round of the counter.
THEOREM NeverTwiceNeverLost == Spec => []ExactlyOnce
<1>1. ASSUME IInv PROVE ExactlyOnce
  <2> SUFFICES ASSUME ~fooled, NEW x \in 1..offered
               PROVE  LET queued == {i \in DOMAIN Items : Items[i] = x}
                      IN  \/ taken[x] = 1 /\ queued = {}
                          \/ /\ taken[x] = 0 /\ owner.pc # "null"
                             /\ \E i \in queued : queued = {i}
    BY DEF ExactlyOnce
  <2>1. TypeOK /\ Held /\ Owner /\ Waiting \in Nat
    BY <1>1, WaitingType DEF IInv
  <2> DEFINE queued == {i \in DOMAIN Items : Items[i] = x}
  <2>2. queued = {i \in 1..Waiting : Item(i) = x}
    BY <2>1, ItemsSequence DEF InSequence
  <2> HIDE DEF queued
  <2>3. CASE taken[x] = 0
    <3>1. PICK i \in 1..Waiting : Item(i) = x
      BY <2>1, <2>3 DEF Held
    <3>2. queued = {i}
      BY <2>1, <2>2, <3>1 DEF Held
    <3>3. owner.pc # "null"
      BY <2>1, <3>1 DEF Owner
    <3> QED BY <2>3, <3>2, <3>3 DEF queued
  <2>4. CASE taken[x] # 0
    <3>1. taken[x] = 1
      BY <2>1, <2>4 DEF Held
    <3>2. queued = {}
      BY <2>1, <2>2, <2>4 DEF Held
    <3> QED BY <3>1, <3>2 DEF queued
  <2> QED BY <2>3, <2>4
<1> QED BY <1>1, Invariant, PTL

-----------------------------------------------------------------------------
(* Refinement of DequeSpec *)

\* Every step of queue.c is a step of DequeSpec, or invisible there.
LEMMA StepRefines ==
  ASSUME IInv, Next, TypeOK', ~fooled'
  PROVE  [Abstract!Next]_(Abstract!vars)
<1>1. /\ TypeOK /\ Held /\ Held'
      /\ Same \/ Adds \/ Refuses \/ TakesLatest \/ TakesOldest
  BY Moved DEF Good, IInv
<1>2. /\ Items \in Seq(Tasks) /\ Len(Items) = Waiting /\ Waiting \in Nat
      /\ \A i \in 1..Waiting : Items[i] = Item(i)
  BY <1>1, ItemsSequence DEF InSequence
<1>3. /\ Items' \in Seq(Tasks) /\ Len(Items') = Waiting' /\ Waiting' \in Nat
      /\ \A i \in 1..Waiting' : Items'[i] = Item(i)'
  <2>1. (TypeOK /\ Held)' => InSequence'
    BY ItemsSequence, PTL
  <2> QED BY <1>1, <2>1 DEF InSequence
<1>4. CASE Same
  <2>1. Items' = Items
    BY <1>2, <1>3, <1>4 DEF Same
  <2> QED BY <1>4, <2>1 DEF Same, Abstract!vars
<1>5. CASE Adds
  <2>1. offered + 1 \in Tasks
    BY <1>1, <1>5, DequeAssumption DEF Adds, TypeOK, Tasks
  <2>2. Items' = Append(Items, offered + 1)
    BY <1>2, <1>3, <1>5, <2>1 DEF Adds
  <2>3. Abstract!Push
    BY <1>2, <1>5, <2>2 DEF Adds, Abstract!Push
  <2> QED BY <2>3 DEF Abstract!Next
<1>6. CASE Refuses
  <2>1. Items' = Items
    BY <1>2, <1>3, <1>6 DEF Refuses
  <2>2. Abstract!Refuse
    BY <1>2, <1>6, <2>1 DEF Refuses, Abstract!Refuse, HandOut, Abstract!HandOut
  <2> QED BY <2>2 DEF Abstract!Next
<1>7. CASE TakesLatest
  <2>1. Items # <<>> /\ Items[Len(Items)] = Item(Waiting)
    BY <1>2, <1>7 DEF TakesLatest
  <2>2. Items' = SubSeq(Items, 1, Len(Items) - 1)
    BY <1>2, <1>3, <1>7 DEF TakesLatest
  <2>3. Abstract!PopLatest
    BY <1>7, <2>1, <2>2 DEF TakesLatest, Abstract!PopLatest, HandOut, Abstract!HandOut
  <2> QED BY <2>3 DEF Abstract!Next
<1>8. CASE TakesOldest
  <2>1. Items # <<>> /\ Head(Items) = Item(1)
    BY <1>2, <1>8 DEF TakesOldest
  <2>2. Items' = Tail(Items)
    BY <1>2, <1>3, <1>8 DEF TakesOldest
  <2>3. Abstract!StealOldest
    BY <1>8, <2>1, <2>2 DEF TakesOldest, Abstract!StealOldest, HandOut, Abstract!HandOut
  <2> QED BY <2>3 DEF Abstract!Next
<1> QED BY <1>1, <1>4, <1>5, <1>6, <1>7, <1>8

\* The step-by-step deque of queue.c behaves as a bounded sequence with atomic
\* operations, up to the step that fools a thief.
THEOREM DequeImplementsSequence == Spec => Refinement
<1>1. Init => Abstract!Init
  <2> SUFFICES ASSUME Init PROVE Abstract!Init
    OBVIOUS
  <2>1. TypeOK /\ Held
    BY InitIInv DEF IInv, Init
  <2>2. Waiting = 0
    BY CountLaws DEF Init, Waiting, LogicalBottom
  <2>3. Items = <<>>
    BY <2>1, <2>2, ItemsSequence DEF InSequence
  <2> QED BY <2>3 DEF Init, Abstract!Init, Tasks
<1>2. IInv /\ [Next]_vars => [fooled' \/ Abstract!Next]_(Abstract!vars)
  <2> SUFFICES ASSUME IInv, [Next]_vars, ~fooled'
               PROVE  [Abstract!Next]_(Abstract!vars)
    OBVIOUS
  <2>1. TypeOK'
    BY NextStep DEF IInv
  <2>2. CASE UNCHANGED vars
    BY <2>2 DEF vars, rounds, Abstract!vars, Items, LogicalBottom
  <2>3. CASE Next
    BY <2>1, <2>3, StepRefines
  <2> QED BY <2>2, <2>3
<1> QED BY <1>1, <1>2, Invariant, PTL DEF Spec, Refinement
=============================================================================
