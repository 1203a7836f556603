------------------------------ MODULE GridProofs ------------------------------
(***************************************************************************)
(* Proofs about Grid, for every size of block, grid and table, any number  *)
(* of threads and every set of arguments.                                  *)
(***************************************************************************)
EXTENDS Grid, TLAPS

-----------------------------------------------------------------------------
(* Arithmetic *)

LEMMA MulMono ==
  ASSUME NEW a \in Int, NEW b \in Int, NEW c \in Int, a <= b, c >= 0
  PROVE  a * c <= b * c
BY SMT

LEMMA DivMod ==
  ASSUME NEW x \in Int, NEW b \in Int, b > 0
  PROVE  /\ x \div b \in Int
         /\ x % b \in 0 .. b - 1
         /\ x = (x \div b) * b + (x % b)
BY SMT

LEMMA DivBelow ==
  ASSUME NEW x \in Int, NEW b \in Int, b > 0, NEW k \in Int, x < k * b
  PROVE  x \div b < k
<1>1. x \div b \in Int /\ x >= (x \div b) * b
  BY DivMod, SMT
<1>2. SUFFICES ASSUME x \div b >= k PROVE FALSE
  BY <1>1, SMT
<1>3. k * b <= (x \div b) * b
  BY <1>1, <1>2, MulMono, SMT
<1> QED
  BY <1>1, <1>3, SMT

LEMMA DivAtLeast ==
  ASSUME NEW x \in Int, NEW b \in Int, b > 0, NEW k \in Int, x >= k * b
  PROVE  x \div b >= k
<1>1. x \div b \in Int /\ x < (x \div b) * b + b
  BY DivMod, SMT
<1>2. SUFFICES ASSUME x \div b + 1 <= k PROVE FALSE
  BY <1>1, SMT
<1>3. (x \div b + 1) * b <= k * b
  BY <1>1, <1>2, MulMono, SMT
<1> QED
  BY <1>1, <1>3, SMT

LEMMA IndexInGrid ==
  ASSUME NEW a \in Int
  PROVE  GetIndex(a) \in Indices
<1>1. a \div BlockSize \in Int
  BY GridAssumption, DivMod, SMT
<1> QED
  BY <1>1, GridAssumption, DivMod, SMT DEF GetIndex, Indices

\* A segment is longer than the object and a whole number of blocks.
LEMMA SegmentCovers ==
  ASSUME NEW size \in Nat
  PROVE  Segment(size) \in Nat /\ Segment(size) > size
BY GridAssumption, DivMod, SMT DEF Segment

LEMMA SegmentIsWhole ==
  ASSUME NEW size \in Nat
  PROVE  \E q \in Int : Segment(size) = q * BlockSize
<1>1. BlockSize \in Int /\ BlockSize > 0 /\ size \in Int
  BY GridAssumption
<1>2. PICK q \in Int : size = q * BlockSize + (size % BlockSize)
  BY <1>1, DivMod
<1>3. size % BlockSize \in Int /\ q * BlockSize \in Int
  BY <1>1, DivMod, SMT
<1>4. (q + 1) * BlockSize = q * BlockSize + BlockSize
  BY <1>1, SMT
<1>5. Segment(size) = (q + 1) * BlockSize
  BY <1>1, <1>2, <1>3, <1>4, SMT DEF Segment
<1> QED
  BY <1>5

-----------------------------------------------------------------------------
(* The look-up table *)

Tries == [Ups -> [Downs -> Elements \cup {NULL}] \cup {NULL}]

LEMMA Levels ==
  ASSUME NEW i \in Indices
  PROVE  /\ FirstLevel(i) \in Ups /\ SecondLevel(i) \in Downs
         /\ i = FirstLevel(i) * DownSize + SecondLevel(i)
<1>1. i \in Int /\ DownSize \in Int /\ DownSize > 0 /\ UpSize \in Int
      /\ i >= 0 * DownSize /\ i < UpSize * DownSize
  BY TableAssumption, WalkAssumption, GridAssumption, SMT DEF Indices
<1>2. i \div DownSize \in Int /\ i \div DownSize >= 0 /\ i \div DownSize < UpSize
  BY <1>1, DivMod, DivBelow, DivAtLeast, SMT
<1>3. i % DownSize \in 0 .. DownSize - 1
      /\ i = (i \div DownSize) * DownSize + (i % DownSize)
  BY <1>1, DivMod
<1> DEFINE q == i \div DownSize
           p == q * DownSize
<1>4. p \in Int
  BY <1>1, <1>2, SMT
<1> QED
  BY <1>1, <1>2, <1>3, <1>4, SMT DEF FirstLevel, SecondLevel, Ups, Downs

LEMMA LevelIsNotNull ==
  ASSUME NEW level \in [Downs -> Elements \cup {NULL}]
  PROVE  level # NULL
BY WalkAssumption DEF Elements

\* get_or_create_node changes no node.
LEMMA GetOrCreateKeeps ==
  ASSUME NEW t \in Tries, NEW i \in Indices
  PROVE  /\ GetOrCreate(t, i) \in Tries
         /\ GetOrCreate(t, i)[FirstLevel(i)] # NULL
         /\ \A j \in Indices : GetNode(GetOrCreate(t, i), j) = GetNode(t, j)
<1>1. NewLevel \in [Downs -> Elements \cup {NULL}] /\ NewLevel # NULL
  BY LevelIsNotNull DEF NewLevel
<1>2. FirstLevel(i) \in Ups
  BY Levels
<1>3. ASSUME NEW j \in Indices
      PROVE  GetNode(GetOrCreate(t, i), j) = GetNode(t, j)
  <2>1. FirstLevel(j) \in Ups /\ SecondLevel(j) \in Downs
    BY Levels
  <2> QED
    BY <1>1, <1>2, <2>1 DEF GetNode, GetOrCreate, NewLevel, Tries
<1> QED
  BY <1>1, <1>2, <1>3 DEF GetOrCreate, Tries

\* set_node changes one node.
LEMMA SetNodeSets ==
  ASSUME NEW t \in Tries, NEW i \in Indices, t[FirstLevel(i)] # NULL,
         NEW n \in Elements
  PROVE  /\ SetNode(t, i, n) \in Tries
         /\ GetNode(SetNode(t, i, n), i) = n
         /\ \A j \in Indices \ {i} : GetNode(SetNode(t, i, n), j) = GetNode(t, j)
<1> DEFINE u == FirstLevel(i)
           d == SecondLevel(i)
           level == [t[u] EXCEPT ![d] = n]
<1>1. u \in Ups /\ d \in Downs
  BY Levels
<1>2. level \in [Downs -> Elements \cup {NULL}] /\ level[d] = n
  BY <1>1 DEF Tries
<1>3. level # NULL
  BY <1>2, LevelIsNotNull
<1>4. SetNode(t, i, n) = [t EXCEPT ![u] = level]
  BY DEF SetNode
<1>5. ASSUME NEW j \in Indices \ {i}
      PROVE  GetNode(SetNode(t, i, n), j) = GetNode(t, j)
  <2>1. /\ FirstLevel(j) \in Ups /\ SecondLevel(j) \in Downs
        /\ FirstLevel(j) # u \/ SecondLevel(j) # d
    BY Levels
  <2> QED
    BY <1>1, <1>2, <1>3, <1>4, <2>1 DEF GetNode, Tries
<1>6. SetNode(t, i, n) \in Tries
  BY <1>1, <1>2, <1>4 DEF Tries
<1>7. GetNode(SetNode(t, i, n), i) = n
  BY <1>1, <1>2, <1>3, <1>4 DEF GetNode, Tries
<1> QED
  BY <1>5, <1>6, <1>7

-----------------------------------------------------------------------------
(* The inductive invariant *)

End(c) == calls[c].start + Segment(calls[c].size)

\* A call that no call overlapped: while it is under way it is the last one;
\* then Top and the calls after it stay behind its segment.
HeapInv ==
  \A c \in DOMAIN calls \ overlapped :
    /\ c \in UnderWay => UnderWay = {c} /\ c = Len(calls)
    /\ c \notin UnderWay =>
         /\ End(c) <= Top
         /\ \A d \in UnderWay : c < d
         /\ \A d \in DOMAIN calls : c < d => End(c) <= calls[d].start

Aligned(a) == \E k \in Int : a = k * BlockSize

AlignedInv == Aligned(Top) /\ \A c \in DOMAIN calls : Aligned(calls[c].start)

\* While an argument is analysed only the address of its rows differs.
ArgInv ==
  /\ ArgumentRestored
  /\ arg.type = given.type
  /\ stage # "idle" =>
       /\ args \in Elements
       /\ IF IsStride(given.type)
          THEN IF IsOut(given.type)
               THEN arg = [given EXCEPT !.addr_out = arg.addr_out]
               ELSE arg = [given EXCEPT !.addr_in = arg.addr_in]
          ELSE arg = given /\ row = 0

IInv == TypeOK /\ HeapInv /\ AlignedInv /\ ArgInv /\ TableIsFunction

LEMMA InitIInv == Init => IInv
<1> SUFFICES ASSUME Init PROVE IInv
  OBVIOUS
<1>1. TypeOK
  BY GridAssumption, WalkAssumption, SMT
  DEF Init, TypeOK, Argument, Nothing, NewTrie, Indices, Elements
<1>2. HeapInv
  BY DEF Init, HeapInv
<1>3. AlignedInv
  <2>1. 0 = 0 * BlockSize
    BY GridAssumption, SMT
  <2> QED
    BY <2>1 DEF Init, AlignedInv, Aligned
<1>4. ArgInv
  BY DEF Init, ArgInv, ArgumentRestored
<1>5. TableIsFunction
  <2> SUFFICES ASSUME NEW i \in Indices PROVE GetNode(trie, i) = latest[i]
    BY DEF TableIsFunction
  <2> QED
    BY Levels DEF Init, GetNode, NewTrie
<1> QED
  BY <1>1, <1>2, <1>3, <1>4, <1>5 DEF IInv

\* The calls as a sequence, in every state of the right type.
CallRecords == [start : Nat, size : Nat \ {0}]

LEMMA CallsTyped ==
  ASSUME TypeOK
  PROVE  /\ Len(calls) \in Nat /\ DOMAIN calls = 1 .. Len(calls)
         /\ \A c \in DOMAIN calls : calls[c] \in CallRecords
<1>1. calls \in Seq(CallRecords)
  BY DEF TypeOK, CallRecords
<1> QED
  BY <1>1

LEMMA CallsAppended ==
  ASSUME TypeOK, NEW call \in CallRecords, calls' = Append(calls, call)
  PROVE  /\ calls' \in Seq(CallRecords)
         /\ Len(calls') = Len(calls) + 1 /\ DOMAIN calls' = 1 .. Len(calls) + 1
         /\ calls'[Len(calls) + 1] = call
         /\ \A c \in DOMAIN calls : calls'[c] = calls[c]
<1>1. calls \in Seq(CallRecords)
  BY DEF TypeOK, CallRecords
<1> QED
  BY <1>1

-----------------------------------------------------------------------------
(* balloc_alloc *)

LEMMA LoadTopHeap ==
  ASSUME IInv, NEW th \in Threads, NEW size \in Sizes, LoadTop(th, size)
  PROVE  IInv'
<1> DEFINE n == Len(calls) + 1
<1> USE DEF IInv
<1>1. /\ n \in Nat /\ n > 0 /\ n <= MaxCalls /\ Len(calls') = n
      /\ DOMAIN calls = 1 .. Len(calls) /\ DOMAIN calls' = 1 .. n
      /\ calls'[n] = [start |-> Top, size |-> size]
      /\ \A c \in 1 .. Len(calls) : calls'[c] = calls[c]
      /\ \A c \in DOMAIN calls : calls[c] \in CallRecords
      /\ calls' \in Seq(CallRecords)
  <2>1. [start |-> Top, size |-> size] \in CallRecords
    BY WalkAssumption DEF TypeOK, CallRecords
  <2>2. calls' = Append(calls, [start |-> Top, size |-> size]) /\ Len(calls) < MaxCalls
    BY DEF LoadTop
  <2> QED
    BY <2>1, <2>2, CallsTyped, CallsAppended, WalkAssumption, SMT
<1>2. size \in Nat \ {0}
  BY WalkAssumption
<1>3. UnderWay' = UnderWay \cup {n} /\ UnderWay \subseteq DOMAIN calls
  <2>1. \A u \in Threads : inCall'[u] = IF u = th THEN n ELSE inCall[u]
    BY DEF LoadTop, TypeOK
  <2>2. inCall[th] = 0 /\ n # 0
    BY <1>1, SMT DEF LoadTop
  <2>3. UnderWay' = {inCall'[u] : u \in Threads} \ {0}
    BY DEF UnderWay
  <2>4. UnderWay' = UnderWay \cup {n}
    BY <2>1, <2>2, <2>3 DEF UnderWay
  <2>5. UnderWay \subseteq DOMAIN calls
    BY <1>1, WalkAssumption, SMT DEF UnderWay, TypeOK
  <2> QED
    BY <2>4, <2>5
<1>4. TypeOK'
  <2>1. calls' \in Seq([start : Nat, size : Nat \ {0}])
    BY <1>1 DEF CallRecords
  <2>2. inCall' \in [Threads -> 0 .. MaxCalls]
        /\ \A u \in Threads : inCall'[u] <= Len(calls')
    BY <1>1, WalkAssumption, SMT DEF LoadTop, TypeOK
  <2>3. overlapped' \subseteq Calls
    <3>1. n \in Calls /\ DOMAIN calls \subseteq Calls
      BY <1>1, WalkAssumption, SMT DEF Calls
    <3> QED
      BY <1>3, <3>1 DEF LoadTop, TypeOK
  <2> QED
    BY <2>1, <2>2, <2>3 DEF LoadTop, TypeOK, walk
<1>5. HeapInv'
  <2> SUFFICES ASSUME NEW c \in DOMAIN calls', c \notin overlapped'
               PROVE  /\ c \in UnderWay' => UnderWay' = {c} /\ c = Len(calls')
                      /\ c \notin UnderWay' =>
                           /\ End(c)' <= Top'
                           /\ \A d \in UnderWay' : c < d
                           /\ \A d \in DOMAIN calls' : c < d => End(c)' <= calls'[d].start
    BY DEF HeapInv
  <2>1. CASE c = n
    <3>1. UnderWay = {}
      BY <2>1 DEF LoadTop
    <3> QED
      BY <1>1, <1>3, <2>1, <3>1
  <2>2. CASE c # n
    <3>1. c \in DOMAIN calls \ overlapped /\ c < n /\ c \notin UnderWay
      BY <1>1, <1>3, <2>2, SMT DEF LoadTop
    <3>2. End(c)' = End(c) /\ Top' = Top
      BY <1>1, <3>1 DEF LoadTop, End
    <3>3. /\ End(c) <= Top
          /\ \A d \in UnderWay : c < d
          /\ \A d \in DOMAIN calls : c < d => End(c) <= calls[d].start
      BY <3>1 DEF HeapInv
    <3> QED
      BY <1>1, <1>3, <2>2, <3>1, <3>2, <3>3
  <2> QED
    BY <2>1, <2>2
<1>6. AlignedInv'
  BY <1>1, CallsTyped DEF AlignedInv, Aligned, LoadTop
<1>7. ArgInv' /\ TableIsFunction'
  BY DEF ArgInv, ArgumentRestored, TableIsFunction, LoadTop, walk
<1> QED
  BY <1>4, <1>5, <1>6, <1>7

LEMMA StoreTopHeap ==
  ASSUME IInv, NEW th \in Threads, StoreTop(th)
  PROVE  IInv'
<1> DEFINE e == inCall[th]
<1> USE DEF IInv
<1>1. /\ e \in DOMAIN calls /\ e \in UnderWay /\ e \in Nat
      /\ DOMAIN calls = 1 .. Len(calls) /\ calls' = calls
      /\ overlapped' = overlapped /\ Top' = End(e)
      /\ \A c \in DOMAIN calls : calls[c] \in CallRecords
  <2>1. e \in UnderWay
    BY DEF StoreTop, UnderWay
  <2>2. e \in 0 .. MaxCalls /\ e # 0 /\ e <= Len(calls) /\ Len(calls) \in Nat
        /\ DOMAIN calls = 1 .. Len(calls)
    BY DEF StoreTop, TypeOK
  <2>3. e \in DOMAIN calls
    BY <2>2, WalkAssumption, SMT
  <2>4. calls' = calls /\ overlapped' = overlapped /\ Top' = End(e)
    BY DEF StoreTop, End
  <2>5. \A c \in DOMAIN calls : calls[c] \in CallRecords
    BY CallsTyped
  <2> QED
    BY <2>1, <2>2, <2>3, <2>4, <2>5
<1>2. UnderWay' \subseteq UnderWay /\ \A c \in UnderWay : c # e => c \in UnderWay'
  <2>1. \A u \in Threads : inCall'[u] = IF u = th THEN 0 ELSE inCall[u]
    BY DEF StoreTop, TypeOK
  <2>2. UnderWay' = {inCall'[u] : u \in Threads} \ {0}
    BY DEF UnderWay
  <2> QED
    BY <2>1, <2>2 DEF UnderWay
<1>3. \A c \in DOMAIN calls : /\ Segment(calls[c].size) \in Nat
                              /\ End(c) \in Nat /\ calls[c].start <= End(c)
                              /\ End(c)' = End(c)
  <2> SUFFICES ASSUME NEW c \in DOMAIN calls
               PROVE  /\ Segment(calls[c].size) \in Nat
                      /\ End(c) \in Nat /\ calls[c].start <= End(c)
                      /\ End(c)' = End(c)
    OBVIOUS
  <2>1. calls[c].start \in Nat /\ calls[c].size \in Nat
    BY <1>1 DEF CallRecords
  <2>2. Segment(calls[c].size) \in Nat
    BY <2>1, SegmentCovers
  <2>3. End(c)' = End(c)
    BY <1>1 DEF End
  <2> QED
    BY <2>1, <2>2, <2>3, SMT DEF End
<1>4. TypeOK'
  BY <1>1, <1>3, WalkAssumption, SMT DEF TypeOK, StoreTop, walk
<1>5. HeapInv'
  <2> SUFFICES ASSUME NEW c \in DOMAIN calls, c \notin overlapped
               PROVE  /\ c \in UnderWay' => UnderWay' = {c} /\ c = Len(calls)
                      /\ c \notin UnderWay' =>
                           /\ End(c) <= Top'
                           /\ \A d \in UnderWay' : c < d
                           /\ \A d \in DOMAIN calls : c < d => End(c) <= calls[d].start
    BY <1>1, <1>3 DEF HeapInv
  <2>1. CASE c \in UnderWay
    <3>1. UnderWay = {c} /\ c = Len(calls) /\ e = c
      BY <1>1, <2>1 DEF HeapInv
    <3> QED
      BY <1>1, <1>2, <1>3, <3>1, SMT
  <2>2. CASE c \notin UnderWay
    <3>1. /\ \A d \in UnderWay : c < d
          /\ \A d \in DOMAIN calls : c < d => End(c) <= calls[d].start
      BY <2>2 DEF HeapInv
    <3>2. End(c) <= End(e)
      <4>1. End(c) <= calls[e].start /\ calls[e].start \in Nat
        BY <1>1, <3>1 DEF CallRecords
      <4>2. End(c) \in Nat /\ End(e) \in Nat /\ calls[e].start <= End(e)
        BY <1>1, <1>3
      <4> QED
        BY <4>1, <4>2, SMT
    <3> QED
      BY <1>1, <1>2, <2>2, <3>1, <3>2
  <2> QED
    BY <2>1, <2>2
<1>6. AlignedInv'
  <2>1. PICK k \in Int : calls[e].start = k * BlockSize
    BY <1>1 DEF AlignedInv, Aligned
  <2>2. PICK q \in Int : Segment(calls[e].size) = q * BlockSize
    BY <1>1, SegmentIsWhole DEF CallRecords
  <2>3. End(e) = (k + q) * BlockSize
    BY <2>1, <2>2, GridAssumption, SMT DEF End
  <2> QED
    BY <1>1, <2>3 DEF AlignedInv, Aligned
<1>7. ArgInv' /\ TableIsFunction'
  BY DEF ArgInv, ArgumentRestored, TableIsFunction, StoreTop, walk
<1> QED
  BY <1>4, <1>5, <1>6, <1>7

-----------------------------------------------------------------------------
(* handle_argument *)

\* The walk leaves the heap alone.
LEMMA HeapKept ==
  ASSUME IInv, UNCHANGED heap
  PROVE  HeapInv' /\ AlignedInv'
<1>1. UnderWay' = UnderWay
  BY DEF heap, UnderWay
<1>2. \A c : End(c)' = End(c)
  BY DEF heap, End
<1> QED
  BY <1>1, <1>2 DEF IInv, HeapInv, AlignedInv, Aligned, heap

LEMMA NewArgumentWalk ==
  ASSUME IInv, NEW address \in Addresses, NEW shape \in Shapes,
         NewArgument(address, shape)
  PROVE  IInv'
<1> USE DEF IInv
<1>1. /\ shape.type \in SUBSET (0 .. 6) /\ shape.size \in Nat
      /\ shape.stride \in Nat /\ shape.element_num \in Nat /\ shape.apart \in Nat
  BY WalkAssumption
<1>2. address \in Int
  <2>1. CASE address \in Elsewhere
    BY <2>1, WalkAssumption
  <2>2. ASSUME NEW c \in DOMAIN calls, address = calls[c].start
        PROVE  address \in Int
    BY <2>2, CallsTyped DEF CallRecords
  <2> QED
    BY <2>1, <2>2 DEF Addresses
<1>3. given' \in Argument /\ arg' = given'
  BY <1>1, <1>2, SMT DEF NewArgument, Argument
<1>4. args' \in Elements
  BY WalkAssumption, SMT DEF NewArgument, TypeOK, Elements
<1>5. TypeOK'
  <2>1. UNCHANGED heap
    BY DEF NewArgument
  <2>2. args' \in 0 .. MaxArgs
    BY <1>4, WalkAssumption, SMT DEF Elements
  <2> QED
    BY <1>3, <2>1, <2>2 DEF NewArgument, TypeOK, heap
<1>6. ArgInv'
  BY <1>3, <1>4 DEF NewArgument, ArgInv, ArgumentRestored
<1>7. TableIsFunction'
  BY DEF NewArgument, TableIsFunction
<1> QED
  BY <1>5, <1>6, <1>7, HeapKept DEF NewArgument

LEMMA BeginRowWalk ==
  ASSUME IInv, BeginRow
  PROVE  IInv'
<1> USE DEF IInv
<1>1. arg.addr_in \in Int /\ arg.addr_out \in Int /\ arg.size \in Int
  BY DEF TypeOK, Argument
<1>2. block' \in Indices /\ last' \in Indices
  BY <1>1, IndexInGrid DEF BeginRow
<1>3. TypeOK'
  <2>1. block' \in 0 .. GridBlocks
    BY <1>2, GridAssumption, SMT DEF Indices
  <2> QED
    BY <1>2, <2>1 DEF BeginRow, TypeOK, heap
<1>4. ArgInv'
  BY DEF BeginRow, ArgInv, ArgumentRestored
<1>5. TableIsFunction'
  BY DEF BeginRow, TableIsFunction
<1> QED
  BY <1>3, <1>4, <1>5, HeapKept DEF BeginRow

LEMMA VisitWalk ==
  ASSUME IInv, Visit
  PROVE  IInv'
<1> DEFINE found == GetOrCreate(trie, block)
<1> USE DEF IInv
<1>1. block \in Indices /\ trie \in Tries /\ args \in Elements
  BY GridAssumption, SMT DEF Visit, TypeOK, ArgInv, Indices, Tries
<1>2. /\ found \in Tries /\ found[FirstLevel(block)] # NULL
      /\ \A j \in Indices : GetNode(found, j) = latest[j]
  BY <1>1, GetOrCreateKeeps DEF TableIsFunction
<1>3. trie' \in Tries /\ latest' \in [Indices -> Elements \cup {NULL}]
      /\ TableIsFunction'
  <2>1. CASE /\ trie' = SetNode(found, block, args)
             /\ latest' = [latest EXCEPT ![block] = args]
    <3>1. /\ trie' \in Tries /\ GetNode(trie', block) = args
          /\ \A j \in Indices \ {block} : GetNode(trie', j) = GetNode(found, j)
      BY <1>1, <1>2, <2>1, SetNodeSets
    <3>2. /\ latest' \in [Indices -> Elements \cup {NULL}] /\ latest'[block] = args
          /\ \A j \in Indices \ {block} : latest'[j] = latest[j]
      BY <1>1, <2>1 DEF TypeOK
    <3> QED
      BY <1>2, <3>1, <3>2 DEF TableIsFunction
  <2>2. CASE trie' = found /\ UNCHANGED latest
    BY <1>2, <2>2 DEF TableIsFunction, TypeOK
  <2> QED
    BY <2>1, <2>2 DEF Visit
<1>4. TypeOK'
  <2>1. block' \in 0 .. GridBlocks
    BY <1>1, GridAssumption, SMT DEF Visit, Indices
  <2>2. visited' \subseteq Indices
    BY <1>1 DEF Visit, TypeOK
  <2> QED
    BY <1>3, <2>1, <2>2 DEF Visit, TypeOK, heap, Tries
<1>5. ArgInv'
  BY DEF Visit, ArgInv, ArgumentRestored
<1> QED
  BY <1>3, <1>4, <1>5, HeapKept DEF Visit

LEMMA EndRowWalk ==
  ASSUME IInv, EndRow
  PROVE  IInv'
<1> USE DEF IInv
<1>1. CASE IsStride(arg.type)
  <2>1. /\ arg' = IF IsOut(arg.type)
                  THEN [arg EXCEPT !.addr_out = arg.addr_out + arg.stride]
                  ELSE [arg EXCEPT !.addr_in = arg.addr_in + arg.stride]
        /\ row' = row + 1 /\ stage' = "row"
    BY <1>1 DEF EndRow
  <2>2. arg \in Argument /\ given \in Argument /\ row \in Nat
    BY DEF TypeOK
  <2>3. arg' \in Argument /\ row' \in Nat
    <3>1. arg.addr_out + arg.stride \in Int /\ arg.addr_in + arg.stride \in Int
      BY <2>2, SMT DEF Argument
    <3> QED
      BY <2>1, <2>2, <3>1 DEF Argument
  <2>4. TypeOK'
    BY <2>1, <2>3 DEF EndRow, TypeOK, heap
  <2>5. ArgInv'
    BY <1>1, <2>1, <2>2 DEF EndRow, ArgInv, ArgumentRestored, Argument
  <2> QED
    BY <2>4, <2>5, HeapKept DEF EndRow, TableIsFunction
<1>2. CASE ~IsStride(arg.type)
  <2>1. stage' = "idle" /\ arg' = arg /\ row' = row
    BY <1>2 DEF EndRow
  <2>2. TypeOK'
    BY <2>1 DEF EndRow, TypeOK, heap
  <2>3. ArgInv'
    BY <1>2, <2>1 DEF EndRow, ArgInv, ArgumentRestored
  <2> QED
    BY <2>2, <2>3, HeapKept DEF EndRow, TableIsFunction
<1> QED
  BY <1>1, <1>2

LEMMA EndRowsWalk ==
  ASSUME IInv, EndRows
  PROVE  IInv'
<1> USE DEF IInv
<1>1. arg \in Argument /\ given \in Argument
  BY DEF TypeOK
<1>2. arg' \in Argument
  BY <1>1 DEF EndRows, Argument
<1>3. TypeOK'
  BY <1>2 DEF EndRows, TypeOK, heap
<1>4. ArgInv'
  <2>1. CASE IsStride(given.type) /\ IsOut(given.type)
    BY <1>1, <2>1 DEF EndRows, ArgInv, ArgumentRestored, Argument
  <2>2. CASE IsStride(given.type) /\ ~IsOut(given.type)
    BY <1>1, <2>2 DEF EndRows, ArgInv, ArgumentRestored, Argument
  <2>3. CASE ~IsStride(given.type)
    <3>1. stage = "row" /\ row = 1
      BY <2>3 DEF EndRows, Rows, ArgInv
    <3> QED
      BY <2>3, <3>1 DEF ArgInv
  <2> QED
    BY <2>1, <2>2, <2>3
<1> QED
  BY <1>3, <1>4, HeapKept DEF EndRows, TableIsFunction

LEMMA StepIInv == IInv /\ [Next]_vars => IInv'
<1> SUFFICES ASSUME IInv, [Next]_vars PROVE IInv'
  OBVIOUS
<1>1. ASSUME NEW th \in Threads, Alloc(th) PROVE IInv'
  BY <1>1, LoadTopHeap, StoreTopHeap DEF Alloc
<1>2. ASSUME Handle PROVE IInv'
  BY <1>2, NewArgumentWalk, BeginRowWalk, VisitWalk, EndRowWalk, EndRowsWalk DEF Handle
<1>3. CASE UNCHANGED vars
  BY <1>3, HeapKept
  DEF IInv, vars, heap, walk, TypeOK, ArgInv, ArgumentRestored, TableIsFunction
<1> QED
  BY <1>1, <1>2, <1>3 DEF Next

THEOREM Inductive == Spec => []IInv
BY InitIInv, StepIInv, PTL DEF Spec

-----------------------------------------------------------------------------
(* The theorems *)

\* Every state of the grid, the table and the walk has its type; no index that
\* GET_INDEX computes is outside the table.
THEOREM TypeCorrect == Spec => []TypeOK
<1>1. IInv => TypeOK
  BY DEF IInv
<1> QED
  BY <1>1, Inductive, PTL

\* The two levels implement a function of the block (trie.c:102-206), whatever
\* the number of bits of each level.
THEOREM TableCorrect == Spec => []TableIsFunction
<1>1. IInv => TableIsFunction
  BY DEF IInv
<1> QED
  BY <1>1, Inductive, PTL

\* handle_argument gives the task its argument back as it was passed
\* (deps.c:567, 578), whatever its rows and its flags.
THEOREM ArgumentsRestored == Spec => []ArgumentRestored
<1>1. IInv => ArgumentRestored
  BY DEF IInv, ArgInv
<1> QED
  BY <1>1, Inductive, PTL

LEMMA IndexBelowEnd ==
  ASSUME NEW a \in Int, 0 <= a, a < GridSize
  PROVE  GetIndex(a) = a \div BlockSize
<1>1. BlockSize \in Int /\ BlockSize > 0 /\ GridBlocks \in Int /\ GridBlocks > 0
  BY GridAssumption
<1>2. a < GridBlocks * BlockSize /\ a >= 0 * BlockSize
  BY <1>1, SMT DEF GridSize
<1>3. a \div BlockSize \in Int /\ a \div BlockSize >= 0 /\ a \div BlockSize < GridBlocks
  BY <1>1, <1>2, DivMod, DivBelow, DivAtLeast, SMT
<1> DEFINE q == a \div BlockSize
<1>4. q \in Int /\ q >= 0 /\ q < GridBlocks
  BY <1>3
<1> HIDE DEF q
<1>5. q % GridBlocks = q
  BY <1>1, <1>4, SMT
<1> QED
  BY <1>5 DEF GetIndex, q

\* A call of tpc_malloc that ran alone keeps its memory and its blocks
\* (balloc.c:35-44), whatever calls race before or after it.
THEOREM MemoryKept == Spec => []LoneSegmentsKept
<1>1. IInv => LoneSegmentsKept
  <2> SUFFICES ASSUME IInv, NEW c \in DOMAIN calls, NEW d \in DOMAIN calls,
                      c < d, c \notin overlapped, c \notin UnderWay
               PROVE  /\ Bytes(c) \cap Bytes(d) = {}
                      /\ InGrid(c) /\ InGrid(d) =>
                           {GetIndex(x) : x \in Bytes(c)}
                             \cap {GetIndex(x) : x \in Bytes(d)} = {}
    BY DEF LoneSegmentsKept
  <2>1. /\ calls[c].start \in Nat /\ calls[c].size \in Nat
        /\ calls[d].start \in Nat /\ calls[d].size \in Nat
    BY CallsTyped DEF IInv, CallRecords
  <2>2. calls[c].start + calls[c].size < End(c) /\ End(c) \in Nat
    <3>1. Segment(calls[c].size) \in Nat /\ Segment(calls[c].size) > calls[c].size
      BY <2>1, SegmentCovers
    <3> QED
      BY <2>1, <3>1, SMT DEF End
  <2>3. End(c) <= calls[d].start
    BY DEF IInv, HeapInv
  <2>4. ASSUME NEW x \in Bytes(c), NEW y \in Bytes(d)
        PROVE  x \in Int /\ y \in Int /\ 0 <= x /\ x < calls[d].start /\ calls[d].start <= y
    BY <2>1, <2>2, <2>3, SMT DEF Bytes
  <2>5. Bytes(c) \cap Bytes(d) = {}
    <3> SUFFICES ASSUME NEW x \in Bytes(c), x \in Bytes(d) PROVE FALSE
      OBVIOUS
    <3> QED
      BY <2>1, <2>4, SMT
  <2>6. ASSUME InGrid(c), InGrid(d), NEW x \in Bytes(c), NEW y \in Bytes(d)
        PROVE  GetIndex(x) # GetIndex(y)
    <3>1. x \in Int /\ y \in Int /\ 0 <= x /\ x < GridSize /\ 0 <= y /\ y < GridSize
      <4>1. GridSize \in Int
        BY GridAssumption, SMT DEF GridSize
      <4> QED
        BY <2>1, <2>6, <4>1, SMT DEF Bytes, InGrid
    <3>2. PICK k \in Int : calls[d].start = k * BlockSize
      BY DEF IInv, AlignedInv, Aligned
    <3>3. BlockSize \in Int /\ BlockSize > 0 /\ k * BlockSize \in Int
      BY GridAssumption, SMT
    <3>4. x < k * BlockSize /\ y >= k * BlockSize
      BY <2>1, <2>4, <3>1, <3>2, <3>3, SMT
    <3>5. x \div BlockSize < k /\ y \div BlockSize >= k
      BY <3>1, <3>3, <3>4, DivBelow, DivAtLeast
    <3>6. x \div BlockSize \in Int /\ y \div BlockSize \in Int
      BY <3>1, <3>3, DivMod
    <3>7. x \div BlockSize # y \div BlockSize
      BY <3>5, <3>6, SMT
    <3> QED
      BY <3>1, <3>7, IndexBelowEnd
  <2> QED
    BY <2>5, <2>6
<1> QED
  BY <1>1, Inductive, PTL

-----------------------------------------------------------------------------
(* The blocks of a row *)

LEMMA DivMono ==
  ASSUME NEW x \in Int, NEW y \in Int, NEW b \in Int, b > 0, x <= y
  PROVE  x \div b <= y \div b
<1>1. x \div b \in Int /\ (x \div b) * b \in Int /\ (x \div b) * b <= x
  BY DivMod, SMT
<1> QED
  BY <1>1, DivAtLeast, SMT

LEMMA DivOfMultiple ==
  ASSUME NEW k \in Int, NEW b \in Int, b > 0
  PROVE  (k * b) \div b = k
<1>1. k * b \in Int /\ (k + 1) * b = k * b + b
  BY SMT
<1>2. (k * b) \div b >= k /\ (k * b) \div b < k + 1
  BY <1>1, DivAtLeast, DivBelow, SMT
<1>3. (k * b) \div b \in Int
  BY <1>1, DivMod
<1> QED
  BY <1>2, <1>3, SMT

\* Within one length of the grid GET_INDEX subtracts a constant.
LEMMA IndexInLength ==
  ASSUME NEW x \in Int, NEW m \in Int, x \div GridSize = m
  PROVE  GetIndex(x) = x \div BlockSize - m * GridBlocks
<1> DEFINE q == x \div BlockSize
<1>1. /\ BlockSize \in Int /\ BlockSize > 0 /\ GridBlocks \in Int /\ GridBlocks > 0
      /\ GridSize \in Int /\ GridSize > 0
  <2>1. BlockSize \in Int /\ BlockSize > 0 /\ GridBlocks \in Int /\ GridBlocks > 0
    BY GridAssumption
  <2>2. GridSize \in Int /\ 0 * GridBlocks <= BlockSize * GridBlocks
        /\ 1 * GridBlocks <= BlockSize * GridBlocks
    BY <2>1, MulMono, SMT DEF GridSize
  <2> QED
    BY <2>1, <2>2, SMT DEF GridSize
<1>2. m * GridSize <= x /\ x < (m + 1) * GridSize
  <2>1. x = m * GridSize + (x % GridSize) /\ x % GridSize \in 0 .. GridSize - 1
    BY <1>1, DivMod
  <2>2. (m + 1) * GridSize = m * GridSize + GridSize /\ m * GridSize \in Int
    BY <1>1, SMT
  <2> QED
    BY <1>1, <2>1, <2>2, SMT
<1>3. /\ (m * GridBlocks) * BlockSize = m * GridSize
      /\ ((m + 1) * GridBlocks) * BlockSize = (m + 1) * GridSize
      /\ m * GridBlocks \in Int /\ (m + 1) * GridBlocks \in Int
  BY <1>1, SMT DEF GridSize
<1>4. q \in Int /\ m * GridBlocks <= q /\ q < (m + 1) * GridBlocks
  BY <1>1, <1>2, <1>3, DivMod, DivBelow, DivAtLeast
<1> HIDE DEF q
<1>5. q \div GridBlocks >= m /\ q \div GridBlocks < m + 1 /\ q \div GridBlocks \in Int
  BY <1>1, <1>4, DivMod, DivBelow, DivAtLeast
<1>6. q \div GridBlocks = m
  BY <1>5, SMT
<1>7. q = m * GridBlocks + (q % GridBlocks) /\ q % GridBlocks \in Int
  BY <1>1, <1>4, <1>6, DivMod
<1>8. q % GridBlocks = q - m * GridBlocks
  BY <1>3, <1>4, <1>7, SMT
<1> QED
  BY <1>8 DEF GetIndex, q

\* The blocks of a row are those from the index of its first byte to that of
\* its last one.
LEMMA RowBlocks ==
  ASSUME NEW s \in Int, NEW n \in Nat, Straight(s, n)
  PROVE  /\ GetIndex(s) <= GetIndex(s + n - 1)
         /\ BlocksOf(s, s + n - 1) = GetIndex(s) .. GetIndex(s + n - 1)
<1> DEFINE e == s + n - 1
           m == s \div GridSize
           shift == m * GridBlocks
<1>1. /\ BlockSize \in Int /\ BlockSize > 0 /\ GridBlocks \in Int
      /\ GridSize \in Int /\ GridSize > 0
  <2>1. BlockSize \in Int /\ BlockSize > 0 /\ GridBlocks \in Int /\ GridBlocks > 0
    BY GridAssumption
  <2>2. 1 * GridBlocks <= BlockSize * GridBlocks
    BY <2>1, MulMono, SMT
  <2> QED
    BY <2>1, <2>2, SMT DEF GridSize
<1>2. e \in Int /\ s <= e /\ m \in Int /\ e \div GridSize = m
  BY <1>1, DivMod, SMT DEF Straight
<1>3. shift \in Int
  BY <1>1, <1>2, SMT
<1>4. ASSUME NEW x \in s .. e
      PROVE  /\ x \in Int /\ x \div BlockSize \in Int
             /\ GetIndex(x) = x \div BlockSize - shift
             /\ s \div BlockSize <= x \div BlockSize
             /\ x \div BlockSize <= e \div BlockSize
  <2>1. x \in Int /\ s <= x /\ x <= e
    BY <1>2, SMT
  <2>2. m <= x \div GridSize /\ x \div GridSize <= m /\ x \div GridSize \in Int
    BY <1>1, <1>2, <2>1, DivMono, DivMod
  <2>3. x \div GridSize = m
    BY <1>2, <2>2, SMT
  <2> QED
    BY <1>1, <1>2, <2>1, <2>3, DivMono, DivMod, IndexInLength
<1>5. s \in s .. e /\ e \in s .. e
  BY <1>2, SMT
<1>6. /\ GetIndex(s) = s \div BlockSize - shift /\ s \div BlockSize \in Int
      /\ GetIndex(e) = e \div BlockSize - shift /\ e \div BlockSize \in Int
      /\ s \div BlockSize <= e \div BlockSize
  BY <1>4, <1>5
<1> DEFINE first == s \div BlockSize
           final == e \div BlockSize
<1>7. ASSUME NEW x \in s .. e PROVE GetIndex(x) \in GetIndex(s) .. GetIndex(e)
  <2> DEFINE q == x \div BlockSize
  <2>1. q \in Int /\ GetIndex(x) = q - shift /\ first <= q /\ q <= final
    BY <1>4
  <2> HIDE DEF q, first, final, shift
  <2> QED
    BY <1>3, <1>6, <2>1, SMT DEF first, final
<1>8. ASSUME NEW j \in GetIndex(s) .. GetIndex(e)
      PROVE  \E x \in s .. e : GetIndex(x) = j
  <2> DEFINE p == j + shift
  <2>1. p \in Int /\ first <= p /\ p <= final
    <3> HIDE DEF shift
    <3> QED
      BY <1>3, <1>6, SMT
  <2>2. p * BlockSize \in Int /\ (p * BlockSize) \div BlockSize = p
    BY <1>1, <2>1, DivOfMultiple, SMT
  <2>3. CASE s <= p * BlockSize
    <3>1. p * BlockSize <= final * BlockSize /\ final * BlockSize <= e
      BY <1>1, <1>2, <1>6, <2>1, MulMono, DivMod, SMT
    <3>2. p * BlockSize \in s .. e
      <4>1. final * BlockSize \in Int
        BY <1>1, <1>6, SMT
      <4> QED
        BY <1>2, <2>2, <2>3, <3>1, <4>1, SMT
    <3>3. GetIndex(p * BlockSize) = p - shift
      BY <1>4, <2>2, <3>2
    <3>4. p - shift = j
      <4> HIDE DEF shift
      <4> QED
        BY <1>3, <1>6, SMT
    <3> QED
      BY <3>2, <3>3, <3>4
  <2>4. CASE p * BlockSize < s
    <3>1. first >= p
      BY <1>1, <2>1, <2>2, <2>4, DivAtLeast, SMT
    <3>2. first = p
      BY <1>6, <2>1, <3>1, SMT
    <3>3. GetIndex(s) = p - shift
      BY <1>6, <3>2
    <3>4. p - shift = j
      <4> HIDE DEF shift
      <4> QED
        BY <1>3, <1>6, SMT
    <3> QED
      BY <1>5, <3>3, <3>4
  <2> QED
    BY <1>2, <2>2, <2>3, <2>4, SMT
<1>9. GetIndex(s) <= GetIndex(e)
  <2> HIDE DEF shift
  <2> QED
    BY <1>3, <1>6, SMT
<1> QED
  BY <1>7, <1>8, <1>9 DEF BlocksOf

-----------------------------------------------------------------------------
(* The walk over the rows *)

Current     == IF IsOut(arg.type) THEN arg.addr_out ELSE arg.addr_in
Base        == IF IsOut(given.type) THEN given.addr_out ELSE given.addr_in
RowStart(r) == Base + r * given.stride
Cover(r)    == BlocksOf(RowStart(r), RowStart(r) + given.size - 1)
Number      == IF IsStride(given.type) THEN given.element_num ELSE 1
DoneRows(n) == UNION {Cover(r) : r \in 0 .. n - 1}
AllStraight == \A r \in 0 .. Number - 1 : Straight(RowStart(r), given.size)

\* The blocks visited so far: those of the rows done, and of the current row
\* those up to block.
VisitInv ==
  AllStraight =>
    /\ stage = "row" =>
         /\ row <= Number /\ Current = RowStart(row)
         /\ visited = DoneRows(row)
    /\ stage = "blocks" =>
         /\ row < Number /\ Current = RowStart(row)
         /\ last = GetIndex(RowStart(row) + given.size - 1)
         /\ GetIndex(RowStart(row)) <= block /\ block <= last + 1
         /\ visited = DoneRows(row)
                        \cup (GetIndex(RowStart(row)) .. block - 1)
    /\ stage = "idle" /\ args > 0 =>
         visited = IF IsSafe(given.type) THEN {}
                   ELSE DoneRows(Number)

SafeInv == stage # "idle" => ~IsSafe(given.type)

LEMMA RowTyped ==
  ASSUME TypeOK, NEW r \in Nat
  PROVE  /\ given.size \in Nat /\ given.stride \in Nat /\ Base \in Int
         /\ Number \in Nat /\ RowStart(r) \in Int /\ GetIndex(RowStart(r)) \in Int
         /\ RowStart(r + 1) = RowStart(r) + given.stride
<1>1. given.size \in Nat /\ given.stride \in Nat /\ Base \in Int /\ Number \in Nat
  BY DEF TypeOK, Argument, Base, Number
<1>2. r * given.stride \in Int /\ (r + 1) * given.stride = r * given.stride + given.stride
  BY <1>1, SMT
<1>3. RowStart(r) \in Int /\ RowStart(r + 1) = RowStart(r) + given.stride
  BY <1>1, <1>2, SMT DEF RowStart
<1>4. GetIndex(RowStart(r)) \in Int
  BY <1>3, IndexInGrid, GridAssumption, SMT DEF Indices
<1> QED
  BY <1>1, <1>3, <1>4

\* One more row.
LEMMA RowAdded ==
  ASSUME NEW n \in Nat
  PROVE  DoneRows(n + 1)
           = DoneRows(n) \cup Cover(n)
<1>1. 0 .. (n + 1) - 1 = (0 .. n - 1) \cup {n}
  BY SMT
<1> QED
  BY <1>1 DEF DoneRows

LEMMA WalkStep ==
  ASSUME IInv, IInv', SafeInv, VisitInv, [Next]_vars
  PROVE  SafeInv' /\ VisitInv'
<1>0. /\ stage \in {"idle", "row", "blocks"} /\ row \in Nat /\ last \in Indices
      /\ block \in 0 .. GridBlocks /\ arg.type = given.type /\ TypeOK /\ GridBlocks \in Nat
      /\ block \in Int /\ last \in Int
  BY GridAssumption, SMT DEF IInv, TypeOK, ArgInv, Indices
<1>1. ASSUME NEW address \in Addresses, NEW shape \in Shapes, NewArgument(address, shape)
      PROVE  SafeInv' /\ VisitInv'
  <2>1. given'.type = shape.type /\ arg' = given' /\ visited' = {} /\ row' = 0
        /\ stage' = IF IsSafe(shape.type) THEN "idle" ELSE "row"
    BY <1>1 DEF NewArgument
  <2>2. SafeInv'
    BY <2>1 DEF SafeInv
  <2>3. CASE IsSafe(shape.type)
    BY <2>1, <2>2, <2>3 DEF VisitInv
  <2>4. CASE ~IsSafe(shape.type)
    <3>1. Current' = Base' /\ Base' \in Int /\ Number' \in Nat /\ given'.stride \in Nat
      BY <2>1 DEF IInv, TypeOK, Argument, Current, Base, Number
    <3>2. RowStart(0)' = Base'
      BY <3>1, SMT DEF RowStart
    <3>3. 0 .. row' - 1 = {}
      BY <2>1, SMT
    <3>4. row' <= Number'
      BY <2>1, <3>1, SMT
    <3>5. RowStart(row)' = RowStart(0)'
      BY <2>1 DEF RowStart
    <3>6. visited' = DoneRows(row)'
      BY <2>1, <3>3 DEF DoneRows
    <3> QED
      BY <2>1, <2>2, <2>4, <3>1, <3>2, <3>4, <3>5, <3>6 DEF VisitInv
  <2> QED
    BY <2>3, <2>4
<1>2. ASSUME given' = given
      PROVE  /\ Base' = Base /\ Number' = Number /\ AllStraight' = AllStraight
             /\ \A r : RowStart(r)' = RowStart(r) /\ DoneRows(r)' = DoneRows(r)
  BY <1>2 DEF Base, Number, AllStraight, RowStart, Cover, Straight, DoneRows
<1>3. CASE BeginRow
  <2>1. /\ given' = given /\ arg' = arg /\ row' = row /\ visited' = visited
        /\ stage = "row" /\ stage' = "blocks" /\ row < Rows
        /\ block' = GetIndex(Current) /\ last' = GetIndex(Current + arg.size - 1)
    BY <1>3 DEF BeginRow, Current
  <2>2. SafeInv'
    BY <2>1 DEF SafeInv
  <2>3. ASSUME AllStraight
        PROVE  /\ row' < Number /\ Current' = RowStart(row)
               /\ last' = GetIndex(RowStart(row) + given.size - 1)
               /\ GetIndex(RowStart(row)) <= block' /\ block' <= last' + 1
               /\ visited' = DoneRows(row)
                               \cup (GetIndex(RowStart(row)) .. block' - 1)
    <3>1. /\ Current = RowStart(row) /\ Current' = Current
          /\ visited = DoneRows(row)
      BY <2>1, <2>3 DEF VisitInv, Current
    <3>2. arg.size = given.size
      BY <2>1 DEF IInv, ArgInv, TypeOK, Argument
    <3>3. row < Number
      BY <2>1, <2>3, <3>2, <1>0 DEF IInv, ArgInv, TypeOK, Argument, Number, Rows, VisitInv
    <3>4. /\ RowStart(row) \in Int /\ given.size \in Nat /\ GetIndex(RowStart(row)) \in Int
          /\ Number \in Nat
      BY <1>0, RowTyped
    <3>5. GetIndex(RowStart(row)) <= GetIndex(RowStart(row) + given.size - 1)
      <4>1. row \in 0 .. Number - 1
        BY <1>0, <3>3, <3>4, SMT
      <4> QED
        BY <2>3, <3>4, <4>1, RowBlocks DEF AllStraight
    <3>6. GetIndex(RowStart(row) + given.size - 1) \in Int
      BY <3>4, IndexInGrid, GridAssumption, SMT DEF Indices
    <3>7. GetIndex(RowStart(row)) .. block' - 1 = {}
      BY <2>1, <3>1, <3>4, SMT
    <3>8. GetIndex(RowStart(row)) <= block' /\ block' <= last' + 1
      BY <2>1, <3>1, <3>2, <3>4, <3>5, <3>6, SMT
    <3> QED
      BY <2>1, <3>1, <3>2, <3>3, <3>7, <3>8
  <2> QED
    BY <1>2, <2>1, <2>2, <2>3 DEF VisitInv
<1>4. CASE Visit
  <2>1. /\ given' = given /\ arg' = arg /\ row' = row /\ last' = last
        /\ stage = "blocks" /\ stage' = "blocks" /\ block <= last
        /\ block' = block + 1 /\ visited' = visited \cup {block}
    BY <1>4 DEF Visit
  <2>2. SafeInv'
    BY <2>1 DEF SafeInv
  <2>3. ASSUME AllStraight
        PROVE  /\ row < Number /\ Current' = RowStart(row)
               /\ last' = GetIndex(RowStart(row) + given.size - 1)
               /\ GetIndex(RowStart(row)) <= block' /\ block' <= last' + 1
               /\ visited' = DoneRows(row)
                               \cup (GetIndex(RowStart(row)) .. block' - 1)
    <3> DEFINE first == GetIndex(RowStart(row))
    <3>1. first \in Int
      BY <1>0, RowTyped
    <3>2. /\ row < Number /\ Current = RowStart(row)
          /\ last = GetIndex(RowStart(row) + given.size - 1) /\ first <= block
          /\ visited = DoneRows(row) \cup (first .. block - 1)
      BY <2>1, <2>3 DEF VisitInv
    <3>3. first .. block' - 1 = (first .. block - 1) \cup {block}
          /\ first <= block' /\ block' <= last' + 1
      <4> HIDE DEF first
      <4> QED
        BY <1>0, <2>1, <3>1, <3>2, SMT
    <3> QED
      BY <2>1, <3>2, <3>3 DEF Current
  <2> QED
    BY <1>2, <2>1, <2>2, <2>3 DEF VisitInv
<1>5. ASSUME stage = "blocks", block > last, AllStraight
      PROVE  /\ row < Number /\ Current = RowStart(row)
             /\ visited = DoneRows(row + 1)
  <2> DEFINE first == GetIndex(RowStart(row))
  <2>1. /\ row < Number /\ Current = RowStart(row)
        /\ last = GetIndex(RowStart(row) + given.size - 1)
        /\ block <= last + 1
        /\ visited = DoneRows(row) \cup (first .. block - 1)
    BY <1>5 DEF VisitInv
  <2>2. RowStart(row) \in Int /\ given.size \in Nat /\ Number \in Nat
    BY <1>0, RowTyped
  <2>3. block - 1 = last
    BY <1>0, <1>5, <2>1, SMT
  <2>4. row \in 0 .. Number - 1
    BY <1>0, <2>1, <2>2, SMT
  <2>5. Cover(row) = first .. last
    BY <1>5, <2>1, <2>2, <2>4, RowBlocks DEF AllStraight, Cover
  <2> QED
    BY <1>0, <2>1, <2>3, <2>5, RowAdded
<1>6. CASE EndRow
  <2>1. /\ given' = given /\ visited' = visited /\ args' = args
        /\ stage = "blocks" /\ block > last
    BY <1>6 DEF EndRow
  <2>2. ~IsSafe(given.type)
    BY <2>1 DEF SafeInv
  <2>3. CASE IsStride(arg.type)
    <3>1. /\ stage' = "row" /\ row' = row + 1
          /\ arg' = IF IsOut(arg.type)
                    THEN [arg EXCEPT !.addr_out = arg.addr_out + arg.stride]
                    ELSE [arg EXCEPT !.addr_in = arg.addr_in + arg.stride]
      BY <1>6, <2>3 DEF EndRow
    <3>2. ASSUME AllStraight
          PROVE  /\ row' <= Number /\ Current' = RowStart(row')
                 /\ visited' = DoneRows(row')
      <4>1. /\ row < Number /\ Current = RowStart(row)
            /\ visited = DoneRows(row + 1)
        BY <1>5, <2>1, <3>2
      <4>2. arg \in Argument /\ arg.stride = given.stride
        BY <2>1 DEF IInv, ArgInv, TypeOK, Argument
      <4>3. Current' = Current + arg.stride
        BY <3>1, <4>2 DEF Current, Argument
      <4>4. RowStart(row + 1) = RowStart(row) + given.stride /\ Number \in Nat
        BY <1>0, RowTyped
      <4>5. row' <= Number
        BY <1>0, <3>1, <4>1, <4>4, SMT
      <4> QED
        BY <2>1, <3>1, <4>1, <4>2, <4>3, <4>4, <4>5
    <3> QED
      BY <1>2, <2>1, <2>2, <3>1, <3>2 DEF VisitInv, SafeInv
  <2>4. CASE ~IsStride(arg.type)
    <3>1. stage' = "idle" /\ row = 0 /\ Number = 1
      BY <1>0, <1>6, <2>1, <2>4 DEF EndRow, IInv, ArgInv, Number
    <3>2. row + 1 = Number
      BY <3>1, SMT
    <3>3. AllStraight => visited' = DoneRows(Number)
      BY <1>5, <2>1, <3>2
    <3> QED
      BY <1>2, <2>1, <2>2, <3>1, <3>3 DEF VisitInv, SafeInv
  <2> QED
    BY <2>3, <2>4
<1>7. CASE EndRows
  <2>1. /\ given' = given /\ visited' = visited /\ args' = args
        /\ stage = "row" /\ row = Rows /\ stage' = "idle"
    BY <1>7 DEF EndRows
  <2>2. ~IsSafe(given.type)
    BY <2>1 DEF SafeInv
  <2>3. Rows = Number
    BY <1>0, <2>1 DEF IInv, ArgInv, TypeOK, Argument, Number, Rows
  <2>4. AllStraight => visited' = DoneRows(Number)
    BY <2>1, <2>3 DEF VisitInv
  <2> QED
    BY <1>2, <2>1, <2>2, <2>4 DEF VisitInv, SafeInv
<1>8. ASSUME UNCHANGED walk PROVE SafeInv' /\ VisitInv'
  BY <1>2, <1>8 DEF walk, SafeInv, VisitInv, Current
<1>9. CASE UNCHANGED vars
  BY <1>8, <1>9 DEF vars, walk
<1>10. ASSUME NEW th \in Threads, Alloc(th) PROVE SafeInv' /\ VisitInv'
  BY <1>8, <1>10 DEF Alloc, LoadTop, StoreTop
<1> QED
  BY <1>1, <1>3, <1>4, <1>6, <1>7, <1>9, <1>10 DEF Next, Handle

\* The analysis of an argument visits the blocks that its bytes lie in, for
\* every grid and every argument whose rows do not go round the end of the
\* grid (GET_INDEX, deps.c:38; handle_argument, deps.c:509-583).
THEOREM VisitsCover == Spec => []VisitedAreCovered
<1>1. Init => SafeInv /\ VisitInv
  <2> SUFFICES ASSUME Init PROVE SafeInv /\ VisitInv
    OBVIOUS
  <2>1. stage = "idle" /\ ~(args > 0)
    BY SMT DEF Init
  <2> QED
    BY <2>1 DEF SafeInv, VisitInv
<1>2. IInv /\ IInv' /\ (SafeInv /\ VisitInv) /\ [Next]_vars => (SafeInv /\ VisitInv)'
  BY WalkStep
<1>3. IInv /\ VisitInv => VisitedAreCovered
  <2> SUFFICES ASSUME IInv, VisitInv, stage = "idle", args > 0,
                      \A s \in Meant(given, IsStride(given.type)) : Straight(s, given.size)
               PROVE  visited = IF IsSafe(given.type) THEN {}
                                ELSE UNION {BlocksOf(s, s + given.size - 1) :
                                              s \in Meant(given, IsStride(given.type))}
    BY DEF VisitedAreCovered
  <2>1. Meant(given, IsStride(given.type)) = {RowStart(r) : r \in 0 .. Number - 1}
    <3>1. 0 .. 1 - 1 = {0}
      BY SMT
    <3>2. Base + 0 * given.stride = Base + 0 * given.stride
      OBVIOUS
    <3> QED
      BY <3>1 DEF Meant, RowStart, Base, Number
  <2>2. AllStraight
    BY <2>1 DEF AllStraight
  <2>3. visited = IF IsSafe(given.type) THEN {}
                  ELSE DoneRows(Number)
    BY <2>2 DEF VisitInv
  <2> QED
    BY <2>1, <2>3 DEF Cover, DoneRows
<1> QED
  BY <1>1, <1>2, <1>3, Inductive, PTL DEF Spec
=============================================================================
