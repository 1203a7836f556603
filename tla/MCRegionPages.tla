--------------------------- MODULE MCRegionPages ----------------------------
(* Instance of RegionPages for TLC.  Regions are interchangeable until they  *)
(* are created: they are taken in order.                                     *)
EXTENDS RegionPages, TLC
Taken(x) == life[x] # "none" \/ \E t \in Threads : r[t] = x
\* PAGE_GROUP_SIZE is 1 at first and grows with the pages malloc returned
\* (pages.c:44); here it is 1 once.
Growing == obtained' > obtained => (obtained' = obtained + 1 <=> obtained = 0)
InOrder == \A x \in Regions : x > 1 /\ Taken(x)' => Taken(x - 1)'
=============================================================================
