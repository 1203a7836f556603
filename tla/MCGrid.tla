-------------------------------- MODULE MCGrid --------------------------------
(* Instance of Grid for TLC: blocks of 4 bytes, a grid of 8 blocks. *)
EXTENDS Grid

Shape(type, size, stride, rows, apart) ==
  [type |-> type, size |-> size, stride |-> stride, element_num |-> rows,
   apart |-> apart]

\* Pieces of one byte, a block and a bit more; rows in the same, in adjacent
\* and in distant blocks; empty arguments and arguments without rows; the
\* flags whose masks overlap.
SmallShapes ==
  { Shape(IN_ARG, 1, 0, 0, 0), Shape(INOUT_ARG, 5, 0, 0, 0),
    Shape(OUT_ARG, 4, 0, 0, 2), Shape(IN_ARG, 0, 0, 0, 0),
    Shape(IN_ARG \cup STRIDE_ARG, 2, 3, 3, 2),
    Shape(INOUT_ARG \cup STRIDE_ARG, 5, 8, 2, 0),
    Shape(OUT_ARG \cup STRIDE_ARG, 1, 4, 2, 4),
    Shape(INOUT_ARG \cup STRIDE_ARG, 4, 4, 0, 0),
    Shape(BYVALUE_ARG, 4, 0, 0, 0), Shape(INOUT_ARG \cup SAFE_ARG, 4, 0, 0, 0),
    Shape(IN_ARG \cup HIGHPRIORITY_ARG, 4, 0, 0, 0),
    Shape(REGION_ARG, 4, 0, 1, 0) }
\* In front of the grid, and around its end.
OtherAddresses == {-6, 27}
=============================================================================
