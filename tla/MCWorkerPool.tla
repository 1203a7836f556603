---------------------------- MODULE MCWorkerPool -----------------------------
(* Instance of WorkerPool for TLC.  Descriptors are interchangeable until    *)
(* they are allocated: they are taken in order.                              *)
EXTENDS WorkerPool, TLC
InOrder == \A t \in Tasks : t > 1 /\ parent'[t] # None => parent'[t - 1] # None
=============================================================================
