---------------------------- MODULE MCDepAnalysis ----------------------------
(* Instance of DepAnalysis for TLC. *)
EXTENDS DepAnalysis

\* The visits of an argument with these rows, each a sequence of blocks.
Visits(rows) ==
  FlattenSeq([r \in DOMAIN rows |->
    [i \in DOMAIN rows[r] |-> [block |-> rows[r][i], newRow |-> i = 1]]])

\* One block; two adjacent blocks; two rows of a strided argument.
Shapes == {Visits(rows) : rows \in { << <<1>> >>, << <<2>> >>, << <<1, 2>> >>,
                                     << <<1>>, <<2>> >> }}
OneBlock == {Visits(<< <<1>> >>)}
=============================================================================
