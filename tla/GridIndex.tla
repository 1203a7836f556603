------------------------------ MODULE GridIndex ------------------------------
(***************************************************************************)
(* The address arithmetic of the runtime: the blocks of the grid           *)
(* (GET_INDEX, src/src/deps.c:38), the segments balloc_alloc cuts from it  *)
(* (src/src/balloc.c:35) and the flags of arguments                        *)
(* (src/include/partee.h:12).                                              *)
(*                                                                         *)
(* An address is an integer relative to grid_t.  GET_INDEX computes with   *)
(* unsigned machine words; their range is a multiple of the size of the    *)
(* grid, so that the index below of a negative integer is the index of the *)
(* address in front of the grid it stands for.                             *)
(***************************************************************************)
EXTENDS Integers

CONSTANTS BlockSize,    \* BLOCK_SZ
          GridBlocks    \* GRID_SZ / BLOCK_SZ

ASSUME GridAssumption ==
  /\ BlockSize \in Nat \ {0}
  /\ GridBlocks \in Nat \ {0}

GridSize == BlockSize * GridBlocks

Indices == 0 .. GridBlocks - 1

\* Variant: the index is not reduced.
GetIndexUnbounded(address) == address \div BlockSize

GetIndex(address) == (address \div BlockSize) % GridBlocks

\* Variant: whole blocks, rounded down.
SegmentShort(size) == size - (size % BlockSize)

\* What balloc_alloc takes for an object: at least one byte more than its size.
Segment(size) == size + BlockSize - (size % BlockSize)

-----------------------------------------------------------------------------
(* The type of an argument is the set of the bits set in it.  The masks    *)
(* overlap: BYVALUE has the bits of IN and SAFE, REGION those of OUT and   *)
(* STRIDE, HIGHPRIORITY that of STRIDE.                                    *)

IN_ARG           == {0}
OUT_ARG          == {1}
INOUT_ARG        == {0, 1}
STRIDE_ARG       == {2}
SAFE_ARG         == {3}
BYVALUE_ARG      == {0, 3, 4}
REGION_ARG       == {1, 2, 4}
HIGHPRIORITY_ARG == {2, 5, 6}

IsOut(type)    == type \cap OUT_ARG # {}
IsStride(type) == type \cap STRIDE_ARG # {}
IsSafe(type)   == type \cap SAFE_ARG # {}
=============================================================================
