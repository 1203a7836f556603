--------------------------------- MODULE Grid ---------------------------------
(***************************************************************************)
(* The memory that tasks share and how the dependence analysis sees it.    *)
(*                                                                         *)
(* Threads allocate objects with tpc_malloc (balloc_alloc in               *)
(* src/src/balloc.c), which reads and advances Top without a lock.  A      *)
(* parent hands arguments to tasks; handle_argument and create_dependency  *)
(* (src/src/deps.c) walk over the blocks of each argument, row after row,  *)
(* and keep the parent's look-up table.  What the analysis decides at a    *)
(* block is the subject of DepAnalysis; here it decides only whether the   *)
(* table takes the new metadata element.                                   *)
(***************************************************************************)
EXTENDS GridIndex, LookupTable, Sequences, FiniteSets

CONSTANTS Threads,    \* the threads that allocate
          MaxCalls,   \* bound: calls of tpc_malloc
          Sizes,      \* the sizes that are asked for
          MaxArgs,    \* bound: arguments, and metadata elements, of the parent
          Shapes,     \* the arguments: type, size, stride, element_num and how
                      \* far addr_in is from addr_out
          Elsewhere   \* addresses of arguments that tpc_malloc did not return

ASSUME WalkAssumption ==
  /\ GridBlocks = UpSize * DownSize
  /\ MaxCalls \in Nat /\ MaxArgs \in Nat
  /\ Sizes \subseteq Nat \ {0}
  /\ Elsewhere \subseteq Int
  /\ Shapes \subseteq [type : SUBSET (0 .. 6), size : Nat, stride : Nat,
                       element_num : Nat, apart : Nat]
  /\ NULL \notin 1 .. MaxArgs
  /\ \A level \in [Downs -> (1 .. MaxArgs) \cup {NULL}] : level # NULL

VARIABLES
  Top,         \* the first free byte of the grid
  calls,       \* history: the calls of tpc_malloc, in the order they read Top
  inCall,      \* inCall[th]: the call thread th is in, 0 if none
  overlapped,  \* history: the calls during which another one was under way
  stage,       \* where the parent is in handle_argument
  args,        \* number of arguments so far; the metadata element of the last
  arg,         \* the argument as the parent and the task see it
  given,       \* history: the argument as it was passed
  row, block, last,  \* loop variables of handle_argument and create_dependency
  trie,        \* parent->metadata
  visited,     \* history: the blocks visited for the argument
  latest       \* history: the metadata last set for each block

heap == <<Top, calls, inCall, overlapped>>
walk == <<stage, args, arg, given, row, block, last, trie, visited, latest>>
vars == <<heap, walk>>

Calls    == 1 .. MaxCalls
Elements == 1 .. MaxArgs
Nothing  == [addr_in |-> 0, addr_out |-> 0, type |-> {}, size |-> 0,
             stride |-> 0, element_num |-> 0]

Init ==
  /\ Top = 0
  /\ calls = <<>>
  /\ inCall = [th \in Threads |-> 0]
  /\ overlapped = {}
  /\ stage = "idle"
  /\ args = 0
  /\ arg = Nothing /\ given = Nothing
  /\ row = 0 /\ block = 0 /\ last = 0
  /\ trie = NewTrie
  /\ visited = {}
  /\ latest = [i \in Indices |-> NULL]

-----------------------------------------------------------------------------
(* balloc_alloc: the compiled function loads Top once and stores it once   *)

UnderWay == {inCall[th] : th \in Threads} \ {0}

LoadTop(th, size) ==
  /\ inCall[th] = 0
  /\ Len(calls) < MaxCalls
  /\ calls' = Append(calls, [start |-> Top, size |-> size])
  /\ inCall' = [inCall EXCEPT ![th] = Len(calls) + 1]
  /\ overlapped' = IF UnderWay = {} THEN overlapped
                   ELSE overlapped \cup UnderWay \cup {Len(calls) + 1}
  /\ UNCHANGED <<Top, walk>>

StoreTop(th) ==
  /\ inCall[th] # 0
  /\ LET call == calls[inCall[th]] IN Top' = call.start + Segment(call.size)
  /\ inCall' = [inCall EXCEPT ![th] = 0]
  /\ UNCHANGED <<calls, overlapped, walk>>

-----------------------------------------------------------------------------
(* handle_argument *)

\* Addresses a program passes: of objects it has, and of its own variables.
Addresses ==
  Elsewhere \cup {calls[c].start : c \in DOMAIN calls \ UnderWay}

\* SAFE arguments, and with them BYVALUE ones, are skipped; for the others
\* there is a new metadata element.
NewArgument(address, shape) ==
  /\ stage = "idle"
  /\ args < MaxArgs
  /\ args' = args + 1
  /\ given' = [addr_in |-> address + shape.apart, addr_out |-> address,
               type |-> shape.type, size |-> shape.size,
               stride |-> shape.stride, element_num |-> shape.element_num]
  /\ arg' = given'
  /\ stage' = IF IsSafe(shape.type) THEN "idle" ELSE "row"
  /\ row' = 0
  /\ visited' = {}
  /\ UNCHANGED <<heap, block, last, trie, latest>>

\* The argument is analysed in one piece, or in element_num rows.
Rows == IF IsStride(arg.type) THEN arg.element_num ELSE 1

\* Variant: one byte too many.
BeginRowLong ==
  /\ stage = "row" /\ row < Rows
  /\ LET address == IF IsOut(arg.type) THEN arg.addr_out ELSE arg.addr_in IN
     /\ block' = GetIndex(address)
     /\ last' = GetIndex(address + arg.size)
  /\ stage' = "blocks"
  /\ UNCHANGED <<heap, args, arg, given, row, trie, visited, latest>>

\* create_dependency begins.
BeginRow ==
  /\ stage = "row" /\ row < Rows
  /\ LET address == IF IsOut(arg.type) THEN arg.addr_out ELSE arg.addr_in IN
     /\ block' = GetIndex(address)
     /\ last' = GetIndex(address + arg.size - 1)
  /\ stage' = "blocks"
  /\ UNCHANGED <<heap, args, arg, given, row, trie, visited, latest>>

\* One block.  An OUT argument always takes it; an IN argument takes it if
\* nobody used it, or if the analysis of the last use decides so.
Visit ==
  /\ stage = "blocks" /\ block <= last
  /\ LET found == GetOrCreate(trie, block) IN
     \/ /\ trie' = SetNode(found, block, args)
        /\ latest' = [latest EXCEPT ![block] = args]
     \/ /\ ~IsOut(arg.type) /\ GetNode(found, block) # NULL
        /\ trie' = found
        /\ UNCHANGED latest
  /\ visited' = visited \cup {block}
  /\ block' = block + 1
  /\ UNCHANGED <<heap, stage, args, arg, given, row, last>>

\* create_dependency returns, and so does handle_argument unless there are
\* rows; the address moves on to the next row.
EndRow ==
  /\ stage = "blocks" /\ block > last
  /\ IF IsStride(arg.type)
     THEN /\ arg' = IF IsOut(arg.type)
                    THEN [arg EXCEPT !.addr_out = @ + arg.stride]
                    ELSE [arg EXCEPT !.addr_in = @ + arg.stride]
          /\ row' = row + 1
          /\ stage' = "row"
     ELSE stage' = "idle" /\ UNCHANGED <<arg, row>>
  /\ UNCHANGED <<heap, args, given, block, last, trie, visited, latest>>

\* Variant: leaves the address behind the last row.
EndRowsAdvanced ==
  /\ stage = "row" /\ row = Rows
  /\ stage' = "idle"
  /\ UNCHANGED <<heap, args, arg, given, row, block, last, trie, visited, latest>>

\* After the last row the address is reset, to addr_in (tmp) in both branches.
EndRows ==
  /\ stage = "row" /\ row = Rows
  /\ arg' = IF IsOut(arg.type) THEN [arg EXCEPT !.addr_out = given.addr_in]
                               ELSE [arg EXCEPT !.addr_in = given.addr_in]
  /\ stage' = "idle"
  /\ UNCHANGED <<heap, args, given, row, block, last, trie, visited, latest>>

-----------------------------------------------------------------------------
Alloc(th) == (\E size \in Sizes : LoadTop(th, size)) \/ StoreTop(th)

Handle ==
  \/ \E address \in Addresses, shape \in Shapes : NewArgument(address, shape)
  \/ BeginRow \/ Visit \/ EndRow \/ EndRows

Next == (\E th \in Threads : Alloc(th)) \/ Handle

Spec == Init /\ [][Next]_vars

-----------------------------------------------------------------------------
(* Properties *)

Argument == [addr_in : Int, addr_out : Int, type : SUBSET (0 .. 6), size : Nat,
             stride : Nat, element_num : Nat]

TypeOK ==
  /\ Top \in Nat
  /\ calls \in Seq([start : Nat, size : Nat \ {0}])
  /\ inCall \in [Threads -> 0 .. MaxCalls]
  /\ \A th \in Threads : inCall[th] <= Len(calls)
  /\ overlapped \subseteq Calls
  /\ stage \in {"idle", "row", "blocks"}
  /\ args \in 0 .. MaxArgs
  /\ arg \in Argument /\ given \in Argument
  /\ row \in Nat /\ block \in 0 .. GridBlocks /\ last \in Indices
  /\ trie \in [Ups -> [Downs -> Elements \cup {NULL}] \cup {NULL}]
  /\ visited \subseteq Indices
  /\ latest \in [Indices -> Elements \cup {NULL}]

\* The blocks that the bytes from a to b lie in.
BlocksOf(a, b) == {GetIndex(x) : x \in a .. b}

Bytes(c) == calls[c].start .. calls[c].start + calls[c].size - 1
InGrid(c) == calls[c].start + calls[c].size <= GridSize

\* A call of tpc_malloc during which no other call was under way keeps its
\* memory: no later call returns a byte of it, and inside the grid none even
\* of its last block, so that tasks with different objects do not wait for
\* each other (balloc.c:38-43: "check if the size of grid is is ok").  After
\* two calls that overlapped Top may go back, and later calls return memory
\* that was handed out long before.
LoneSegmentsKept ==
  \A c, d \in DOMAIN calls :
    c < d /\ c \notin overlapped /\ c \notin UnderWay =>
      /\ Bytes(c) \cap Bytes(d) = {}
      /\ InGrid(c) /\ InGrid(d) =>
           {GetIndex(x) : x \in Bytes(c)} \cap {GetIndex(x) : x \in Bytes(d)} = {}

\* The rows of an argument as the program means them: a strided argument has
\* element_num rows, any other argument is one piece.
Meant(a, strided) ==
  LET start == IF IsOut(a.type) THEN a.addr_out ELSE a.addr_in IN
  {start + r * a.stride : r \in IF strided THEN 0 .. a.element_num - 1 ELSE {0}}

\* A row that does not go round the end of the grid.
Straight(start, size) ==
  size > 0 /\ start \div GridSize = (start + size - 1) \div GridSize

\* The analysis of an argument visits the blocks its bytes lie in and no
\* others, wherever the argument is, unless a row goes round the end of the
\* grid (GET_INDEX, deps.c:38): two arguments that share a byte share a block.
\* BYVALUE arguments are skipped; HIGHPRIORITY sets the bit of STRIDE
\* (partee.h:16-20), so that such an argument counts as element_num rows.
VisitedAreCovered ==
  LET rows == Meant(given, IsStride(given.type)) IN
  (stage = "idle" /\ args > 0 /\ \A s \in rows : Straight(s, given.size)) =>
     visited = IF IsSafe(given.type) THEN {}
               ELSE UNION {BlocksOf(s, s + given.size - 1) : s \in rows}

\* The two levels implement a function of the block: each node is what was
\* last set for its block and NULL before, whatever other blocks were used in
\* between (trie.c:102-206).
TableIsFunction == \A i \in Indices : GetNode(trie, i) = latest[i]

\* "Return the pointer to the right place!!" (deps.c:567, 578): the task finds
\* its argument as it was passed.  A strided OUT argument gets addr_in for
\* addr_out, which is right only if they are equal.
ArgumentRestored ==
  (stage = "idle" /\ (IsOut(given.type) /\ IsStride(given.type)
                        => given.addr_in = given.addr_out)) => arg = given
=============================================================================
