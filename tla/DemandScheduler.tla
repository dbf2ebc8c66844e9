--------------------------- MODULE DemandScheduler ---------------------------
(***************************************************************************)
(* The demands of the torrents as dht/scheduler.rs keeps them: entries is  *)
(* a function from the info hashes with a subscriber to their entry.       *)
(*                                                                         *)
(* Of a DhtDemandState only its class is kept, and of next_eligible_at     *)
(* whether it has come (due).  Intervals and their backoff decide how long *)
(* an entry waits, which is left to the passing of time.                   *)
(***************************************************************************)
EXTENDS Integers, FiniteSets

Class == {"RoutineRefresh", "NoConnectedPeers", "AwaitingMetadata"}

Entry ==
  [class : Class, subscriber_count : Nat \ {0}, in_progress : BOOLEAN,
   due : BOOLEAN, retrigger_pending : BOOLEAN]

scheduler_priority(c) ==
  CASE c = "AwaitingMetadata" -> 3
    [] c = "NoConnectedPeers" -> 2
    [] c = "RoutineRefresh"   -> 1

NewEntry(c) ==
  [class |-> c, subscriber_count |-> 1, in_progress |-> FALSE,
   due |-> TRUE, retrigger_pending |-> FALSE]

(***************************************************************************)
(* A rise in priority makes the entry due at once, or, while a lookup is   *)
(* under way, as soon as that has ended.                                   *)
(***************************************************************************)
apply_demand_update_OnlyWhenIdle(e, c) ==
  IF e.in_progress THEN [e EXCEPT !.retrigger_pending = TRUE]
                   ELSE [e EXCEPT !.class = c, !.due = TRUE]

apply_demand_update(e, c) ==
  LET raised == scheduler_priority(c) > scheduler_priority(e.class)
  IN  [e EXCEPT !.class = c,
                !.retrigger_pending = @ \/ (raised /\ e.in_progress),
                !.due = @ \/ (raised /\ ~e.in_progress)]

With(E, h, e) == [k \in DOMAIN E \cup {h} |-> IF k = h THEN e ELSE E[k]]
Without(E, h) == [k \in DOMAIN E \ {h} |-> E[k]]

register(E, h, c) ==
  IF h \in DOMAIN E
  THEN With(E, h, [apply_demand_update(E[h], c)
                     EXCEPT !.subscriber_count = E[h].subscriber_count + 1])
  ELSE With(E, h, NewEntry(c))

\* n of the demand's subscribers are gone; the last takes the entry along.
unregister(E, h, n) ==
  CASE h \notin DOMAIN E            -> E
    [] E[h].subscriber_count <= n   -> Without(E, h)
    [] OTHER -> [E EXCEPT ![h].subscriber_count = @ - n]

update(E, h, c) ==
  IF h \in DOMAIN E THEN With(E, h, apply_demand_update(E[h], c)) ELSE E

due_candidates(E) == {h \in DOMAIN E : E[h].due /\ ~E[h].in_progress}

mark_in_progress(E, H) ==
  [h \in DOMAIN E |->
     IF h \in H
     THEN [E[h] EXCEPT !.in_progress = TRUE, !.retrigger_pending = FALSE]
     ELSE E[h]]

finish(E, H) ==
  [h \in DOMAIN E |->
     IF h \in H
     THEN [E[h] EXCEPT !.in_progress = FALSE, !.due = E[h].retrigger_pending,
                       !.retrigger_pending = FALSE]
     ELSE E[h]]

reset_active_OnlyRetriggers(E) ==
  [h \in DOMAIN E |-> [E[h] EXCEPT !.due = @ \/ E[h].retrigger_pending]]

reset_active(E) ==
  [h \in DOMAIN E |->
     [E[h] EXCEPT !.in_progress = FALSE, !.due = @ \/ E[h].retrigger_pending]]

=============================================================================
