------------------------- MODULE IntegrityScheduler -------------------------
(***************************************************************************)
(* The integrity scheduler of src/integrity_scheduler.rs, as operators on  *)
(* its state.  A value S of the scheduler is a record of                   *)
(*   torrents    one state per known torrent (IntegrityTorrentState), and  *)
(*   in_flight   in_flight_probe_batches, the batches thought to be out.   *)
(* The application owns one scheduler and calls these operators from its   *)
(* event handlers; DataHealth composes the two.                            *)
(*                                                                         *)
(* Instants are kept relative to the scheduler's clock: due is the time    *)
(* until next_due_at (negative when overdue, down to -MaxLate, since only  *)
(* the order of overdue torrents matters), age is the time since           *)
(* last_probe_started_at.  One unit is INTEGRITY_SCHEDULER_TICK_INTERVAL,  *)
(* the only amount by which the application moves the clock.               *)
(***************************************************************************)
EXTENDS Integers, FiniteSets

CONSTANTS
  Torrents,            \* info hashes
  HashOrder,           \* their order, as a number each
  MaxInFlight,         \* MAX_IN_FLIGHT_PROBE_BATCHES
  BatchTimeout,        \* PROBE_BATCH_TIMEOUT
  PendingRetry,        \* PENDING_METADATA_RETRY_INTERVAL
  RecoveryRetry,       \* RECOVERY_RETRY_INTERVAL
  SmallRetry, ActiveRetry, IdleRetry,   \* the healthy retry intervals
  SmallManifests,      \* torrents of less than 1000 files
  Tolerance,           \* the 5 s of healthy_deadline_mismatch
  DispatchRetry,       \* DISPATCH_FAILURE_RETRY_INTERVAL
  MaxLate              \* bound: overdue torrents are told apart up to here

ASSUME SchedulerAssumption ==
  /\ IsFiniteSet(Torrents)
  /\ HashOrder \in [Torrents -> Nat]
  /\ \A t, u \in Torrents : HashOrder[t] = HashOrder[u] => t = u
  /\ MaxInFlight \in Nat /\ BatchTimeout \in Nat /\ MaxLate \in Nat
  /\ {PendingRetry, RecoveryRetry, SmallRetry, ActiveRetry, IdleRetry,
      Tolerance, DispatchRetry} \subseteq Nat
  /\ SmallManifests \subseteq Torrents

Availability == {"Unknown", "Available", "Unavailable"}

(* current_sweep_problem_files is kept as the batches it has entries of.   *)
TorrentSched(Batches) ==
  [probe_epoch : Nat, next_batch : Batches, problems : SUBSET Batches,
   in_flight : BOOLEAN, pending_metadata : BOOLEAN,
   availability : Availability, has_completed_probe : BOOLEAN,
   is_downloading : BOOLEAN, is_active : BOOLEAN,
   due : Int, age : Nat]

NewTorrentSched ==
  [probe_epoch |-> 0, next_batch |-> 0, problems |-> {},
   in_flight |-> FALSE, pending_metadata |-> FALSE,
   availability |-> "Unknown", has_completed_probe |-> FALSE,
   is_downloading |-> FALSE, is_active |-> FALSE,
   due |-> 0, age |-> 0]

EmptyScheduler == [torrents |-> <<>>, in_flight |-> 0]

Known(S) == DOMAIN S.torrents
InFlight(S) == {t \in Known(S) : S.torrents[t].in_flight}
SaturatingSub(m, n) == IF m > n THEN m - n ELSE 0

(* A scheduler with t's state replaced, and one batch fewer counted out if *)
(* t had one in flight.                                                    *)
WithTorrent(S, t, s) == [S EXCEPT !.torrents[t] = s]
Landed(S, t, s) ==
  [torrents |-> [S.torrents EXCEPT ![t] = s],
   in_flight |-> IF S.torrents[t].in_flight THEN SaturatingSub(S.in_flight, 1)
                                            ELSE S.in_flight]

priority_rank(s) ==
  CASE s.availability = "Unavailable" -> 0
    [] s.availability # "Unavailable" /\ s.is_active -> 1
    [] OTHER -> 2

healthy_retry_interval(t, s) ==
  IF t \in SmallManifests THEN SmallRetry
  ELSE IF s.is_active THEN ActiveRetry ELSE IdleRetry

schedule_next_full_probe(t, s) ==
  [s EXCEPT !.due = IF priority_rank(s) = 0 THEN RecoveryRetry
                                            ELSE healthy_retry_interval(t, s)]

AbsDiff(m, n) == IF m > n THEN m - n ELSE n - m

healthy_deadline_mismatch(t, s) ==
  /\ s.has_completed_probe /\ ~s.in_flight /\ ~s.pending_metadata
  /\ s.availability = "Available"
  /\ s.due > 0
  /\ AbsDiff(s.due, healthy_retry_interval(t, s)) > Tolerance

advance_time(S) ==
  [S EXCEPT !.torrents =
     [t \in Known(S) |->
       [S.torrents[t] EXCEPT
         !.due = IF @ > -MaxLate THEN @ - 1 ELSE @,
         !.age = IF S.torrents[t].in_flight /\ @ < BatchTimeout
                   THEN @ + 1 ELSE @]]]

(* snap maps the torrents the application shows, except those it is        *)
(* deleting, to what it knows of them.                                     *)
Synced(S, t, snap) ==
  LET old == IF t \in Known(S) THEN S.torrents[t] ELSE NewTorrentSched
      new == [old EXCEPT
                !.is_active = snap.is_active,
                !.is_downloading = snap.is_downloading,
                !.availability = IF ~snap.data_available THEN "Unavailable"
                                 ELSE IF old.has_completed_probe
                                 THEN "Available" ELSE @]
  IN IF healthy_deadline_mismatch(t, new)
       THEN [new EXCEPT !.due = healthy_retry_interval(t, new)]
       ELSE new

sync_torrents(S, snaps) ==
  LET torrents == [t \in DOMAIN snaps |-> Synced(S, t, snaps[t])]
  IN [torrents |-> torrents,
      in_flight |-> Cardinality({t \in DOMAIN snaps : torrents[t].in_flight})]

remove_torrent(S, t) ==
  LET left == [u \in Known(S) \ {t} |-> S.torrents[u]]
  IN [torrents |-> left,
      in_flight |-> Cardinality({u \in DOMAIN left : left[u].in_flight})]

on_metadata_loaded(S, t) ==
  IF t \in Known(S)
    THEN WithTorrent(S, t, [S.torrents[t] EXCEPT !.pending_metadata = FALSE,
                              !.next_batch = 0, !.problems = {}, !.due = 0])
    ELSE S

(* A sweep given up: whatever answer is still under way has an old epoch.  *)
Restarted_SameEpoch(s) ==
  [s EXCEPT !.in_flight = FALSE, !.next_batch = 0, !.problems = {}, !.due = 0,
            !.pending_metadata = FALSE]
Restarted(s) ==
  [s EXCEPT !.probe_epoch = @ + 1, !.in_flight = FALSE, !.next_batch = 0,
            !.problems = {}, !.due = 0, !.pending_metadata = FALSE]

(* saved_location is fixed for a torrent; near are the torrents saved to   *)
(* the same place as t.                                                    *)
on_data_availability_fault(S, t, near) ==
  LET hit == IF t \in Known(S) THEN near \cap Known(S) ELSE {}
  IN [torrents |->
        [u \in Known(S) |->
          IF u = t
            THEN [Restarted(S.torrents[u]) EXCEPT !.availability = "Unavailable"]
          ELSE IF u \in hit THEN Restarted(S.torrents[u])
          ELSE S.torrents[u]],
      in_flight |->
        SaturatingSub(S.in_flight,
          Cardinality({u \in hit \cup ({t} \cap Known(S)) :
                         S.torrents[u].in_flight}))]

TimedOut(S) == {t \in InFlight(S) : S.torrents[t].age >= BatchTimeout}

reclaim_timed_out_probe_batches(S) ==
  [torrents |-> [t \in Known(S) |->
     IF t \in TimedOut(S) THEN [Restarted(S.torrents[t]) EXCEPT !.age = 0]
                          ELSE S.torrents[t]],
   in_flight |-> SaturatingSub(S.in_flight, Cardinality(TimedOut(S)))]

Due_CompleteOnly(S) ==
  {t \in Known(S) : /\ ~S.torrents[t].in_flight
                    /\ S.torrents[t].due <= 0
                    /\ ~S.torrents[t].is_downloading}
Due(S) ==
  {t \in Known(S) :
     /\ ~S.torrents[t].in_flight
     /\ S.torrents[t].due <= 0
     /\ ~S.torrents[t].is_downloading
          \/ S.torrents[t].availability = "Unavailable"}

(* The order of pick_next_due_torrent: priority class, deadline, hash.     *)
Before(S, t, u) ==
  LET x == S.torrents[t]
      y == S.torrents[u]
  IN \/ priority_rank(x) < priority_rank(y)
     \/ /\ priority_rank(x) = priority_rank(y)
        /\ \/ x.due < y.due
           \/ x.due = y.due /\ HashOrder[t] < HashOrder[u]

(* drain_due_probe_requests: reclaiming comes first, and picking one due   *)
(* torrent changes nothing about the others, so that the loop takes the    *)
(* first of them for which there is room: picked = Picked(S).              *)
Picked(S) ==
  {t \in Due(S) : Cardinality({u \in Due(S) : Before(S, u, t)})
                    < SaturatingSub(MaxInFlight, S.in_flight)}

drain_due_probe_requests(S, picked) ==
  [torrents |-> [t \in Known(S) |->
     IF t \in picked
       THEN [S.torrents[t] EXCEPT
               !.problems = IF S.torrents[t].next_batch = 0 THEN {} ELSE @,
               !.in_flight = TRUE, !.age = 0]
       ELSE S.torrents[t]],
   in_flight |-> S.in_flight + Cardinality(picked)]

on_dispatch_failed_StillOut(S, failed) ==
  [S EXCEPT !.torrents = [t \in Known(S) |->
     IF t \in failed THEN [S.torrents[t] EXCEPT !.due = DispatchRetry]
                     ELSE S.torrents[t]]]
on_dispatch_failed(S, failed) ==
  [torrents |-> [t \in Known(S) |->
     IF t \in failed
       THEN [S.torrents[t] EXCEPT !.in_flight = FALSE, !.due = DispatchRetry]
       ELSE S.torrents[t]],
   in_flight |-> SaturatingSub(S.in_flight,
                               Cardinality(failed \cap InFlight(S)))]

(* An answer r has the epoch and the first batch asked for, the batches    *)
(* with problem files, and whether the manifest ended or was missing.      *)
Accepts(S, t, r) == t \in Known(S) /\ r.epoch = S.torrents[t].probe_epoch

on_probe_batch_result(S, t, r) ==
  LET s == [S.torrents[t] EXCEPT !.in_flight = FALSE]
      found == s.problems \cup r.problems
      verdict == IF found = {} THEN "Available" ELSE "Unavailable"
      pending == [s EXCEPT !.pending_metadata = TRUE, !.next_batch = 0,
                           !.problems = {}, !.due = PendingRetry]
      finished == schedule_next_full_probe(t,
                    [s EXCEPT !.pending_metadata = FALSE, !.problems = {},
                              !.next_batch = 0, !.has_completed_probe = TRUE,
                              !.availability = verdict])
      going_on == [s EXCEPT !.pending_metadata = FALSE, !.problems = found,
                            !.next_batch = r.next, !.due = 0]
  IN Landed(S, t, IF r.pending THEN pending
                  ELSE IF r.end THEN finished ELSE going_on)

(* ProbeBatchOutcome::CompletedSweep { problem_files }                     *)
SweepProblems(S, t, r) == S.torrents[t].problems \cup r.problems
=============================================================================
