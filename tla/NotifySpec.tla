----------------------------- MODULE NotifySpec -----------------------------
(***************************************************************************)
(* What the list of tasks to notify promises to the dependence analysis:   *)
(* a registration is accepted, and then delivered exactly once, or refused *)
(* because the list was closed before.                                     *)
(***************************************************************************)
EXTENDS FiniteSets

CONSTANT Pushers        \* the registrations attempted

VARIABLES accepted, refused, delivered,   \* sets of registrations
          closed                          \* the owner takes no more

vars == <<accepted, refused, delivered, closed>>

Init ==
  /\ accepted = {} /\ refused = {} /\ delivered = {}
  /\ closed = FALSE

Accept(p) ==
  /\ ~closed
  /\ p \notin accepted \cup refused
  /\ accepted' = accepted \cup {p}
  /\ UNCHANGED <<refused, delivered, closed>>

Refuse(p) ==
  /\ closed
  /\ p \notin accepted \cup refused
  /\ refused' = refused \cup {p}
  /\ UNCHANGED <<accepted, delivered, closed>>

Close ==
  /\ ~closed
  /\ closed' = TRUE
  /\ UNCHANGED <<accepted, refused, delivered>>

Deliver(p) ==
  /\ closed
  /\ p \in accepted \ delivered
  /\ delivered' = delivered \cup {p}
  /\ UNCHANGED <<accepted, refused, closed>>

Next == Close \/ \E p \in Pushers : Accept(p) \/ Refuse(p) \/ Deliver(p)

Spec == Init /\ [][Next]_vars
=============================================================================
