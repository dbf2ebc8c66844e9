---------------------------- MODULE PermitPool ----------------------------
(***************************************************************************)
(* What the resource manager promises to the rest of the program: for each *)
(* resource a set of live permits, never enlarged at or beyond the number  *)
(* of permits the resource is allowed at that moment.  A lowered limit     *)
(* revokes nothing; it only stops new grants until enough permits return.  *)
(***************************************************************************)
EXTENDS Naturals, FiniteSets

CONSTANTS
  Resources,     \* the kinds of permit (ResourceType)
  Requests       \* identities of the holders

VARIABLES
  holders,       \* [Resources -> SUBSET Requests]: who has a live permit
  capacity       \* [Resources -> Nat]: the limit in force

poolVars == <<holders, capacity>>

Init ==
  /\ holders = [r \in Resources |-> {}]
  /\ capacity \in [Resources -> Nat]

Grant(r, q) ==
  /\ q \notin holders[r]
  /\ Cardinality(holders[r]) < capacity[r]
  /\ holders' = [holders EXCEPT ![r] = @ \cup {q}]
  /\ UNCHANGED capacity

Return(r, q) ==
  /\ q \in holders[r]
  /\ holders' = [holders EXCEPT ![r] = @ \ {q}]
  /\ UNCHANGED capacity

Resize ==
  /\ capacity' \in [Resources -> Nat]
  /\ UNCHANGED holders

Next ==
  \/ \E r \in Resources, q \in Requests : Grant(r, q) \/ Return(r, q)
  \/ Resize

Spec == Init /\ [][Next]_poolVars
===========================================================================
