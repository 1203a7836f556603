------------------------------ MODULE TaskGraph ------------------------------
(***************************************************************************)
(* What the runtime promises to a task-parallel program: a task starts     *)
(* after every task it depends on was released, a task is released after   *)
(* it returned and all its children were, and the main program gets past   *)
(* tpc_shutdown when every task was released.                              *)
(***************************************************************************)
CONSTANTS Tasks, Main, None

VARIABLES phase,      \* where each task is in its life
          parent,     \* the task that spawned it
          dependsOn   \* the siblings whose release it waits for

vars == <<phase, parent, dependsOn>>

Init ==
  /\ phase = [t \in Tasks \cup {Main} |-> IF t = Main THEN "running" ELSE "absent"]
  /\ parent = [t \in Tasks |-> None]
  /\ dependsOn = [t \in Tasks |-> {}]

Siblings(p) == {s \in Tasks : parent[s] = p}

Spawn(p, t) ==
  /\ phase[p] = "running"
  /\ phase[t] = "absent"
  /\ phase' = [phase EXCEPT ![t] = "waiting"]
  /\ parent' = [parent EXCEPT ![t] = p]
  /\ \E D \in SUBSET Siblings(p) : dependsOn' = [dependsOn EXCEPT ![t] = D]

Start(t) ==
  /\ phase[t] = "waiting"
  /\ \A d \in dependsOn[t] : phase[d] = "released"
  /\ phase' = [phase EXCEPT ![t] = "running"]
  /\ UNCHANGED <<parent, dependsOn>>

Finish(t) ==
  /\ phase[t] = "running"
  /\ phase' = [phase EXCEPT ![t] = "finished"]
  /\ UNCHANGED <<parent, dependsOn>>

Release(t) ==
  /\ phase[t] = "finished"
  /\ \A c \in Siblings(t) : phase[c] = "released"
  /\ phase' = [phase EXCEPT ![t] = "released"]
  /\ UNCHANGED <<parent, dependsOn>>

Shutdown ==
  /\ phase[Main] = "running"
  /\ \A t \in Tasks : phase[t] \in {"absent", "released"}
  /\ phase' = [phase EXCEPT ![Main] = "finished"]
  /\ UNCHANGED <<parent, dependsOn>>

Next ==
  \/ Shutdown
  \/ \E t \in Tasks :
       \/ Start(t) \/ Finish(t) \/ Release(t)
       \/ \E p \in Tasks \cup {Main} : Spawn(p, t)

Spec == Init /\ [][Next]_vars
=============================================================================
