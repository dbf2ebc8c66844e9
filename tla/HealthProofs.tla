---------------------------- MODULE HealthProofs ----------------------------
(***************************************************************************)
(* Proofs about DataHealth: the marks and the count of the integrity       *)
(* scheduler are exact, and the answers it accepts continue the sweep it   *)
(* is at, for any number of torrents, batches, probes and events.          *)
(*                                                                         *)
(* Two assumptions on the environment are needed, and both are refuted     *)
(* without: a torrent is added again only when the tasks of its last time  *)
(* have ended (the scheduler starts it at epoch 0 again), and a torrent    *)
(* added without its manifest has one batch (MetadataLoaded may come late  *)
(* and resets the sweep within the epoch).                                 *)
(***************************************************************************)
EXTENDS DataHealth, FiniteSetTheorems, TLAPS

OneBatchMagnets == \A t \in Magnets : LastBatch[t] = 0

-----------------------------------------------------------------------------
(* Types, with the batches each torrent has.                               *)

CommandOf(t) ==
  [probe : {TRUE}, epoch : Nat, start : BatchesOf(t), stale : BOOLEAN]
    \cup [probe : {FALSE}, available : BOOLEAN]

Tasks == {m \in Request : m.start \in BatchesOf(m.t)}
Answers == {m \in Answer : /\ m.start \in BatchesOf(m.t) /\ m.next \in BatchesOf(m.t)
                           /\ m.problems \in SUBSET BatchesOf(m.t)}

Scheduled(S) ==
  /\ S = [torrents |-> S.torrents, in_flight |-> S.in_flight]
  /\ Known(S) \in SUBSET Torrents
  /\ S.torrents = [t \in Known(S) |-> S.torrents[t]]
  /\ \A t \in Known(S) : S.torrents[t] \in TorrentSched(BatchesOf(t))

AppType ==
  /\ Scheduled(sched) /\ sched.in_flight \in Nat
  /\ Known(sched) = Shown
  /\ display \in [Shown -> Display]
  /\ commands \in [Torrents -> Seq(UNION {CommandOf(t) : t \in Torrents})]
  /\ \A t \in Torrents : commands[t] \in Seq(CommandOf(t))
  /\ \A t \in Torrents \ Shown : commands[t] = <<>>
  /\ probes \in SUBSET Tasks /\ answers \in SUBSET Answers

RestType ==
  /\ manager \in [Torrents -> Manager]
  /\ metrics \in [Torrents -> Optional(Metrics)]
  /\ reported \in SUBSET Torrents /\ late_uploads \in SUBSET Torrents
  /\ loaded \in SUBSET Magnets
  /\ \A t \in Torrents : manager[t].metadata \/ t \in Magnets
  /\ broken \in [Torrents -> SUBSET AllBatches]
  /\ \A t \in Torrents : broken[t] \in SUBSET BatchesOf(t)
  /\ faults \in 0 .. MaxFaults

-----------------------------------------------------------------------------
(* What is under way for one torrent: the commands of q, the tasks of P    *)
(* and the answers of A that have epoch e.                                 *)

CommandsAt(q, e) == {i \in DOMAIN q : q[i].probe /\ q[i].epoch = e}
TasksAt(M, t, e) == {m \in M : m.t = t /\ m.epoch = e}

(* Nothing is newer than the scheduler's epoch, and what is of that epoch  *)
(* belongs to the sweep under way.                                         *)
Follows(m, s) ==
  /\ m.epoch <= s.probe_epoch
  /\ m.epoch = s.probe_epoch => ~m.stale /\ m.start = s.next_batch

OneOut(C, P, A) ==
  \/ (\E x : C = {x}) /\ P = {} /\ A = {}
  \/ C = {} /\ (\E x : P = {x}) /\ A = {}
  \/ C = {} /\ P = {} /\ (\E x : A = {x})

NoneOut(C, P, A) == C = {} /\ P = {} /\ A = {}

(* m is the task, or the answer to the task, that c asks for.              *)
TaskFor(m, t, c) ==
  m.t = t /\ m.epoch = c.epoch /\ m.start = c.start /\ m.stale = c.stale

(* Taking the command c starts the task m if c asks for one.               *)
Started(P2, P, c, m) == P2 = IF c.probe THEN P \cup {m} ELSE P

Linked(t, s, q, P, A) ==
  /\ \A i \in DOMAIN q : q[i].probe => Follows(q[i], s)
  /\ \A m \in P \cup A : m.t = t => Follows(m, s)
  /\ IF s.in_flight
       THEN OneOut(CommandsAt(q, s.probe_epoch), TasksAt(P, t, s.probe_epoch),
                   TasksAt(A, t, s.probe_epoch))
       ELSE NoneOut(CommandsAt(q, s.probe_epoch), TasksAt(P, t, s.probe_epoch),
                    TasksAt(A, t, s.probe_epoch))

Exact ==
  /\ sched.in_flight = Cardinality(InFlight(sched))
  /\ sched.in_flight <= MaxInFlight
  /\ \A t \in Shown : Linked(t, sched.torrents[t], commands[t], probes, answers)

HealthInv == AppType /\ RestType /\ Exact

-----------------------------------------------------------------------------
(* The scheduler's operators.                                              *)

LEMMA Batches ==
  \A t \in Torrents : /\ LastBatch[t] \in Nat /\ 0 \in BatchesOf(t)
                      /\ BatchesOf(t) \in SUBSET Nat /\ BatchesOf(t) \in SUBSET AllBatches
  BY HealthAssumption DEF BatchesOf, AllBatches

LEMMA Retry ==
  ASSUME NEW t, NEW s
  PROVE  healthy_retry_interval(t, s) \in Nat
  BY SchedulerAssumption DEF healthy_retry_interval

LEMMA NewTyped ==
  ASSUME NEW t \in Torrents
  PROVE  NewTorrentSched \in TorrentSched(BatchesOf(t))
  BY Batches DEF NewTorrentSched, TorrentSched, Availability

Snapshot == [data_available : BOOLEAN, is_downloading : BOOLEAN, is_active : BOOLEAN]

LEMMA SyncedIs ==
  ASSUME NEW S, Scheduled(S), NEW t \in Torrents, NEW snap \in Snapshot
  PROVE  LET old == IF t \in Known(S) THEN S.torrents[t] ELSE NewTorrentSched
             new == Synced(S, t, snap)
         IN /\ old \in TorrentSched(BatchesOf(t)) /\ new \in TorrentSched(BatchesOf(t))
            /\ new.probe_epoch = old.probe_epoch /\ new.in_flight = old.in_flight
            /\ new.next_batch = old.next_batch
<1> DEFINE old == IF t \in Known(S) THEN S.torrents[t] ELSE NewTorrentSched
           avail == IF ~snap.data_available THEN "Unavailable"
                    ELSE IF old.has_completed_probe THEN "Available" ELSE old.availability
           new == [old EXCEPT !.is_active = snap.is_active,
                              !.is_downloading = snap.is_downloading,
                              !.availability = avail]
<1>1. old \in TorrentSched(BatchesOf(t))
  BY NewTyped DEF Scheduled
<1>2. Synced(S, t, snap) = IF healthy_deadline_mismatch(t, new)
                             THEN [new EXCEPT !.due = healthy_retry_interval(t, new)] ELSE new
  BY DEF Synced
<1> HIDE DEF old
<1>3. avail \in Availability
  BY <1>1 DEF TorrentSched, Availability
<1> HIDE DEF avail
<1>4. /\ new \in TorrentSched(BatchesOf(t))
      /\ new.probe_epoch = old.probe_epoch /\ new.in_flight = old.in_flight
      /\ new.next_batch = old.next_batch
  BY <1>1, <1>3, Zenon DEF TorrentSched, Snapshot
<1> HIDE DEF new
<1>5. healthy_retry_interval(t, new) \in Int
  BY Retry
<1>6. [new EXCEPT !.due = healthy_retry_interval(t, new)] \in TorrentSched(BatchesOf(t))
  BY <1>4, <1>5 DEF TorrentSched
<1>7. /\ [new EXCEPT !.due = healthy_retry_interval(t, new)].probe_epoch = new.probe_epoch
      /\ [new EXCEPT !.due = healthy_retry_interval(t, new)].in_flight = new.in_flight
      /\ [new EXCEPT !.due = healthy_retry_interval(t, new)].next_batch = new.next_batch
  BY <1>4 DEF TorrentSched
<1> QED BY <1>1, <1>2, <1>4, <1>6, <1>7 DEF old

LEMMA RestartedIs ==
  ASSUME NEW t \in Torrents, NEW s \in TorrentSched(BatchesOf(t))
  PROVE  /\ Restarted(s) \in TorrentSched(BatchesOf(t))
         /\ Restarted(s).probe_epoch = s.probe_epoch + 1
         /\ Restarted(s).in_flight = FALSE
         /\ [Restarted(s) EXCEPT !.age = 0] \in TorrentSched(BatchesOf(t))
         /\ [Restarted(s) EXCEPT !.age = 0].probe_epoch = s.probe_epoch + 1
         /\ [Restarted(s) EXCEPT !.age = 0].in_flight = FALSE
         /\ [Restarted(s) EXCEPT !.availability = "Unavailable"] \in TorrentSched(BatchesOf(t))
         /\ [Restarted(s) EXCEPT !.availability = "Unavailable"].probe_epoch = s.probe_epoch + 1
         /\ [Restarted(s) EXCEPT !.availability = "Unavailable"].in_flight = FALSE
<1>1. 0 \in BatchesOf(t)
  BY Batches
<1> DEFINE e == s.probe_epoch + 1
<1>e. e \in Nat /\ {} \in SUBSET BatchesOf(t)
  BY DEF TorrentSched
<1> HIDE DEF e
<1>r. Restarted(s) = [s EXCEPT !.probe_epoch = e, !.in_flight = FALSE, !.next_batch = 0,
                               !.problems = {}, !.due = 0, !.pending_metadata = FALSE]
  BY DEF Restarted, e
<1>2. /\ Restarted(s) \in TorrentSched(BatchesOf(t))
      /\ Restarted(s).probe_epoch = e
      /\ Restarted(s).in_flight = FALSE
  <2>1. Restarted(s) = [probe_epoch |-> e, next_batch |-> 0, problems |-> {},
                        in_flight |-> FALSE, pending_metadata |-> FALSE,
                        availability |-> s.availability,
                        has_completed_probe |-> s.has_completed_probe,
                        is_downloading |-> s.is_downloading, is_active |-> s.is_active,
                        due |-> 0, age |-> s.age]
    BY <1>r, Zenon DEF TorrentSched
  <2> QED BY <1>1, <1>e, <2>1 DEF TorrentSched
<1> QED BY <1>2 DEF TorrentSched, Availability, e

LEMMA ResetIs ==
  ASSUME NEW t \in Torrents, NEW s \in TorrentSched(BatchesOf(t))
  PROVE  LET x == [s EXCEPT !.pending_metadata = FALSE, !.next_batch = 0, !.problems = {}, !.due = 0]
         IN /\ x \in TorrentSched(BatchesOf(t)) /\ x.probe_epoch = s.probe_epoch
            /\ x.next_batch = 0 /\ x.in_flight = s.in_flight
<1> DEFINE x == [s EXCEPT !.pending_metadata = FALSE, !.next_batch = 0, !.problems = {}, !.due = 0]
<1>1. 0 \in BatchesOf(t) /\ {} \in SUBSET BatchesOf(t)
  BY Batches
<1>r. x = [s EXCEPT !.pending_metadata = FALSE, !.next_batch = 0, !.problems = {}, !.due = 0]
  OBVIOUS
<1> HIDE DEF x
<1>2. x = [probe_epoch |-> s.probe_epoch, next_batch |-> 0, problems |-> {},
           in_flight |-> s.in_flight, pending_metadata |-> FALSE,
           availability |-> s.availability,
           has_completed_probe |-> s.has_completed_probe,
           is_downloading |-> s.is_downloading, is_active |-> s.is_active,
           due |-> 0, age |-> s.age]
  BY <1>r, Zenon DEF TorrentSched
<1>3. /\ s.probe_epoch \in Nat /\ s.in_flight \in BOOLEAN /\ s.availability \in Availability
      /\ s.has_completed_probe \in BOOLEAN /\ s.is_downloading \in BOOLEAN
      /\ s.is_active \in BOOLEAN /\ s.age \in Nat
  BY DEF TorrentSched
<1>4. x \in TorrentSched(BatchesOf(t))
  BY <1>1, <1>2, <1>3 DEF TorrentSched
<1>5. x.probe_epoch = s.probe_epoch /\ x.next_batch = 0 /\ x.in_flight = s.in_flight
  BY <1>2
<1> QED BY <1>4, <1>5 DEF x

(* The torrents first in the order of pick_next_due_torrent are as many as *)
(* there is room for: their ranks are distinct.                            *)
LEMMA BeforeOrder ==
  ASSUME NEW S, Scheduled(S)
  PROVE  /\ \A t \in Known(S) : ~Before(S, t, t)
         /\ \A t, u \in Known(S) : t = u \/ Before(S, t, u) \/ Before(S, u, t)
         /\ \A t, u, v \in Known(S) : Before(S, t, u) /\ Before(S, u, v) => Before(S, t, v)
<1>1. \A t \in Known(S) : /\ priority_rank(S.torrents[t]) \in Nat /\ S.torrents[t].due \in Int
                          /\ HashOrder[t] \in Nat /\ t \in Torrents
  <2> TAKE t \in Known(S)
  <2>1. t \in Torrents /\ S.torrents[t] \in TorrentSched(BatchesOf(t))
    BY DEF Scheduled
  <2> QED BY <2>1, SchedulerAssumption DEF TorrentSched, priority_rank
<1>2. \A t, u \in Known(S) : HashOrder[t] = HashOrder[u] => t = u
  BY <1>1, SchedulerAssumption
<1> QED BY <1>1, <1>2 DEF Before

LEMMA FewPicked ==
  ASSUME NEW S, Scheduled(S), S.in_flight \in Nat
  PROVE  /\ Picked(S) \in SUBSET Known(S) /\ IsFiniteSet(Picked(S))
         /\ Cardinality(Picked(S)) \in Nat
         /\ Cardinality(Picked(S)) <= SaturatingSub(MaxInFlight, S.in_flight)
<1> DEFINE Ahead(t) == {u \in Due(S) : Before(S, u, t)}
           room == SaturatingSub(MaxInFlight, S.in_flight)
           rank == [t \in Picked(S) |-> Cardinality(Ahead(t))]
<1>1. room \in Nat
  BY SchedulerAssumption DEF SaturatingSub
<1>2. Due(S) \in SUBSET Known(S) /\ Picked(S) \in SUBSET Due(S)
  BY DEF Due, Picked
<1>3. IsFiniteSet(Due(S)) /\ IsFiniteSet(Picked(S)) /\ Picked(S) \in SUBSET Known(S)
  <2>1. Due(S) \in SUBSET Torrents /\ Picked(S) \in SUBSET Torrents
    BY <1>2 DEF Scheduled
  <2> QED BY <1>2, <2>1, SchedulerAssumption, FS_Subset
<1>4. \A t \in Known(S) : IsFiniteSet(Ahead(t)) /\ Cardinality(Ahead(t)) \in Nat
  <2>1. \A t \in Known(S) : Ahead(t) \in SUBSET Due(S)
    OBVIOUS
  <2> QED BY <1>3, <2>1, FS_Subset, FS_CardinalityType
<1>5. \A t \in Picked(S) : Cardinality(Ahead(t)) < room
  BY DEF Picked
<1>6. ASSUME NEW t \in Due(S), NEW u \in Due(S), Before(S, t, u)
      PROVE  Cardinality(Ahead(t)) < Cardinality(Ahead(u))
  <2>1. Ahead(t) \subseteq Ahead(u) /\ t \in Ahead(u) /\ t \notin Ahead(t)
    BY <1>2, <1>6, BeforeOrder
  <2>2. IsFiniteSet(Ahead(t)) /\ IsFiniteSet(Ahead(u)) /\ Ahead(t) # Ahead(u)
    BY <1>2, <1>4, <2>1
  <2> HIDE DEF Ahead
  <2>3. Cardinality(Ahead(t)) <= Cardinality(Ahead(u)) /\ Cardinality(Ahead(t)) # Cardinality(Ahead(u))
    BY <2>1, <2>2, FS_Subset
  <2>4. Cardinality(Ahead(t)) \in Nat /\ Cardinality(Ahead(u)) \in Nat
    BY <2>2, FS_CardinalityType
  <2> QED BY <2>3, <2>4
<1>7. \A t, u \in Picked(S) : t # u => Cardinality(Ahead(t)) # Cardinality(Ahead(u))
  <2> SUFFICES ASSUME NEW t \in Picked(S), NEW u \in Picked(S), t # u
               PROVE  Cardinality(Ahead(t)) # Cardinality(Ahead(u))
    OBVIOUS
  <2>1. Before(S, t, u) \/ Before(S, u, t)
    BY <1>2, BeforeOrder
  <2>2. Cardinality(Ahead(t)) \in Nat /\ Cardinality(Ahead(u)) \in Nat
    BY <1>2, <1>4
  <2>3. \/ Cardinality(Ahead(t)) < Cardinality(Ahead(u))
        \/ Cardinality(Ahead(u)) < Cardinality(Ahead(t))
    BY <1>2, <1>6, <2>1
  <2> HIDE DEF Ahead
  <2> QED BY <2>2, <2>3
<1> HIDE DEF Ahead, room
<1>8. rank \in [Picked(S) -> 0 .. room - 1]
  <2>1. \A t \in Picked(S) : Cardinality(Ahead(t)) \in 0 .. room - 1
    BY <1>1, <1>2, <1>4, <1>5
  <2> QED BY <2>1
<1>9. rank \in Injection(Picked(S), 0 .. room - 1)
  <2>1. \A t, u \in Picked(S) : rank[t] = rank[u] => t = u
    BY <1>7
  <2> QED BY <1>8, <2>1 DEF Injection, IsInjective
<1>10. IsFiniteSet(0 .. room - 1) /\ Cardinality(0 .. room - 1) = room
  <2>1. 0 \in Int /\ room - 1 \in Int
    BY <1>1
  <2>2. IsFiniteSet(0 .. room - 1) /\ Cardinality(0 .. room - 1) = IF 0 > room - 1 THEN 0 ELSE room - 1 - 0 + 1
    BY <2>1, FS_Interval, Zenon
  <2> QED BY <1>1, <2>2
<1>11. Cardinality(Picked(S)) <= Cardinality(0 .. room - 1)
  BY <1>9, <1>10, FS_Injection
<1>12. Cardinality(Picked(S)) <= room
  BY <1>10, <1>11
<1> QED BY <1>3, <1>12, FS_CardinalityType DEF room

(* The three stages of dispatch_integrity_probe_batches.                   *)
Marks(S) == IsFiniteSet(InFlight(S)) /\ Cardinality(InFlight(S)) \in Nat

LEMMA FiniteMarks == ASSUME NEW S, Known(S) \in SUBSET Torrents PROVE Marks(S)
<1>1. InFlight(S) \in SUBSET Torrents
  BY DEF InFlight
<1> QED BY <1>1, SchedulerAssumption, FS_Subset, FS_CardinalityType DEF Marks

LEMMA SyncIs ==
  ASSUME NEW S, Scheduled(S), NEW d, DOMAIN d \in SUBSET Torrents, d \in [DOMAIN d -> Display]
  PROVE  LET y == sync_torrents(S, Snapshots(d))
         IN /\ Scheduled(y) /\ Known(y) = DOMAIN d
            /\ y.in_flight = Cardinality(InFlight(y)) /\ y.in_flight \in Nat
            /\ \A t \in DOMAIN d :
                 LET old == IF t \in Known(S) THEN S.torrents[t] ELSE NewTorrentSched
                 IN /\ y.torrents[t].probe_epoch = old.probe_epoch
                    /\ y.torrents[t].in_flight = old.in_flight
                    /\ y.torrents[t].next_batch = old.next_batch
<1> DEFINE snaps == Snapshots(d)
           T == [t \in DOMAIN d |-> Synced(S, t, snaps[t])]
           y == sync_torrents(S, snaps)
<1>1. DOMAIN snaps = DOMAIN d /\ \A t \in DOMAIN d : snaps[t] \in Snapshot
  BY DEF Snapshots, Snapshot, Display
<1> HIDE DEF snaps
<1>2. y = [torrents |-> T, in_flight |-> Cardinality({t \in DOMAIN d : T[t].in_flight})]
  BY <1>1 DEF sync_torrents
<1> HIDE DEF y
<1>3. \A t \in DOMAIN d :
        LET old == IF t \in Known(S) THEN S.torrents[t] ELSE NewTorrentSched
        IN /\ T[t] \in TorrentSched(BatchesOf(t)) /\ T[t].probe_epoch = old.probe_epoch
           /\ T[t].in_flight = old.in_flight /\ T[t].next_batch = old.next_batch
  <2> TAKE t \in DOMAIN d
  <2>1. T[t] = Synced(S, t, snaps[t]) /\ t \in Torrents /\ snaps[t] \in Snapshot
    BY <1>1
  <2> QED BY <2>1, SyncedIs
<1>4. y.torrents = T /\ DOMAIN T = DOMAIN d
  BY <1>2
<1>5. y.in_flight = Cardinality({t \in DOMAIN d : T[t].in_flight})
  BY <1>2
<1> HIDE DEF T
<1>6. Known(y) = DOMAIN d /\ InFlight(y) = {t \in DOMAIN d : T[t].in_flight}
  BY <1>4 DEF Known, InFlight
<1>7. Scheduled(y)
  <2>1. y = [torrents |-> y.torrents, in_flight |-> y.in_flight]
    BY <1>2, <1>4, <1>5
  <2>2. y.torrents = [t \in DOMAIN d |-> y.torrents[t]]
    BY <1>4 DEF T
  <2> QED BY <1>3, <1>4, <1>6, <2>1, <2>2 DEF Scheduled
<1>8. y.in_flight = Cardinality(InFlight(y)) /\ y.in_flight \in Nat
  BY <1>5, <1>6, FiniteMarks DEF Marks
<1> QED BY <1>3, <1>4, <1>6, <1>7, <1>8 DEF y, snaps

LEMMA ReclaimIs ==
  ASSUME NEW S, Scheduled(S), S.in_flight = Cardinality(InFlight(S))
  PROVE  LET y == reclaim_timed_out_probe_batches(S)
         IN /\ Scheduled(y) /\ Known(y) = Known(S)
            /\ y.in_flight = Cardinality(InFlight(y)) /\ y.in_flight \in Nat
            /\ y.in_flight <= S.in_flight
            /\ \A t \in Known(S) :
                 \/ y.torrents[t] = S.torrents[t]
                 \/ /\ y.torrents[t].probe_epoch = S.torrents[t].probe_epoch + 1
                    /\ y.torrents[t].in_flight = FALSE
<1> DEFINE y == reclaim_timed_out_probe_batches(S)
           T == [t \in Known(S) |->
                  IF t \in TimedOut(S) THEN [Restarted(S.torrents[t]) EXCEPT !.age = 0]
                                       ELSE S.torrents[t]]
           n == SaturatingSub(S.in_flight, Cardinality(TimedOut(S)))
<1>1. y = [torrents |-> T, in_flight |-> n]
  BY DEF reclaim_timed_out_probe_batches
<1> HIDE DEF y, n
<1>2. \A t \in Known(S) : /\ t \in Torrents /\ S.torrents[t] \in TorrentSched(BatchesOf(t))
  BY DEF Scheduled
<1>3. \A t \in Known(S) :
        /\ T[t] \in TorrentSched(BatchesOf(t))
        /\ t \notin TimedOut(S) => T[t] = S.torrents[t]
        /\ t \in TimedOut(S) => /\ T[t].probe_epoch = S.torrents[t].probe_epoch + 1
                                /\ T[t].in_flight = FALSE
  BY <1>2, RestartedIs, Zenon
<1>4. y.torrents = T /\ y.in_flight = n /\ DOMAIN T = Known(S)
  BY <1>1
<1>5. Scheduled(y) /\ Known(y) = Known(S)
  <2>1. y = [torrents |-> y.torrents, in_flight |-> y.in_flight]
    BY <1>1, <1>4
  <2>2. y.torrents = [t \in Known(S) |-> y.torrents[t]]
    BY <1>4
  <2> HIDE DEF T
  <2>3. Known(y) = Known(S)
    BY <1>4 DEF Known
  <2> QED BY <1>3, <1>4, <2>1, <2>2, <2>3 DEF Scheduled
<1> HIDE DEF T
<1>6. TimedOut(S) \in SUBSET InFlight(S) /\ InFlight(S) \in SUBSET Known(S)
  BY DEF TimedOut, InFlight
<1>7. InFlight(y) = InFlight(S) \ TimedOut(S)
  BY <1>3, <1>4, <1>5, <1>6 DEF InFlight
<1>8. IsFiniteSet(InFlight(S)) /\ Cardinality(InFlight(S)) \in Nat
  BY FiniteMarks DEF Scheduled, Marks
<1>9. IsFiniteSet(TimedOut(S)) /\ Cardinality(TimedOut(S)) <= Cardinality(InFlight(S))
  BY <1>6, <1>8, FS_Subset
<1>10. Cardinality(TimedOut(S)) \in Nat
  BY <1>9, FS_CardinalityType
<1>11. Cardinality(InFlight(S) \ TimedOut(S)) = Cardinality(InFlight(S)) - Cardinality(TimedOut(S))
  <2>1. InFlight(S) \cap TimedOut(S) = TimedOut(S)
    BY <1>6
  <2>2. Cardinality(InFlight(S) \ TimedOut(S))
          = Cardinality(InFlight(S)) - Cardinality(InFlight(S) \cap TimedOut(S))
    BY <1>8, <1>9, FS_Difference, Zenon
  <2> QED BY <2>1, <2>2
<1>12. n = Cardinality(InFlight(S)) - Cardinality(TimedOut(S)) /\ n \in Nat /\ n <= S.in_flight
  BY <1>8, <1>9, <1>10 DEF n, SaturatingSub
<1> QED BY <1>3, <1>4, <1>5, <1>7, <1>11, <1>12 DEF y

(* Requests are drained, and those of lost are taken back at once.         *)
Drained(S, P, lost, y) ==
  /\ Scheduled(y) /\ Known(y) = Known(S)
  /\ y.in_flight = Cardinality(InFlight(y)) /\ y.in_flight \in Nat
  /\ y.in_flight <= MaxInFlight
  /\ \A t \in Known(S) :
       /\ y.torrents[t].probe_epoch = S.torrents[t].probe_epoch
       /\ y.torrents[t].next_batch = S.torrents[t].next_batch
       /\ t \in P => S.torrents[t].in_flight = FALSE
       /\ y.torrents[t].in_flight
            = IF t \in P \ lost THEN TRUE ELSE S.torrents[t].in_flight

LEMMA DrainIs ==
  ASSUME NEW S, Scheduled(S), S.in_flight = Cardinality(InFlight(S)), S.in_flight <= MaxInFlight,
         NEW P, P = Picked(S), NEW lost \in SUBSET P,
         NEW y, y = on_dispatch_failed(drain_due_probe_requests(S, P), lost)
  PROVE  Drained(S, P, lost, y)
<1> DEFINE D == drain_due_probe_requests(S, P)
           T1 == [t \in Known(S) |->
                    IF t \in P
                      THEN [S.torrents[t] EXCEPT
                              !.problems = IF S.torrents[t].next_batch = 0 THEN {} ELSE @,
                              !.in_flight = TRUE, !.age = 0]
                      ELSE S.torrents[t]]
           T2 == [t \in Known(S) |->
                    IF t \in lost THEN [T1[t] EXCEPT !.in_flight = FALSE, !.due = DispatchRetry]
                                  ELSE T1[t]]
           n == SaturatingSub(S.in_flight + Cardinality(P), Cardinality(lost \cap InFlight(D)))
<1>0. IsFiniteSet(InFlight(S)) /\ Cardinality(InFlight(S)) \in Nat /\ S.in_flight \in Nat
  BY FiniteMarks DEF Scheduled, Marks
<1>1. /\ P \in SUBSET Known(S) /\ IsFiniteSet(P) /\ Cardinality(P) \in Nat
      /\ Cardinality(P) <= SaturatingSub(MaxInFlight, S.in_flight)
  BY <1>0, FewPicked
<1>2. \A t \in P : S.torrents[t].in_flight = FALSE
  <2> SUFFICES ASSUME NEW t \in P PROVE S.torrents[t].in_flight = FALSE
    BY Zenon
  <2>1. ~S.torrents[t].in_flight /\ t \in Known(S)
    BY DEF Picked, Due
  <2>2. S.torrents[t].in_flight \in BOOLEAN
    BY <2>1 DEF Scheduled, TorrentSched
  <2> QED BY <2>1, <2>2
<1>3. D = [torrents |-> T1, in_flight |-> S.in_flight + Cardinality(P)]
  BY Zenon DEF drain_due_probe_requests
<1>4. D.torrents = T1 /\ D.in_flight = S.in_flight + Cardinality(P) /\ Known(D) = Known(S)
  <2>1. DOMAIN T1 = Known(S)
    OBVIOUS
  <2> HIDE DEF T1, D
  <2>2. D.torrents = T1 /\ D.in_flight = S.in_flight + Cardinality(P)
    BY <1>3
  <2> QED BY <2>1, <2>2 DEF Known
<1>5. y = [torrents |-> T2, in_flight |-> n]
  BY <1>4, Zenon DEF on_dispatch_failed
<1> HIDE DEF D, n
<1>6. \A t \in Known(S) : t \in Torrents /\ S.torrents[t] \in TorrentSched(BatchesOf(t))
  BY DEF Scheduled
<1>7. \A t \in Known(S) :
        /\ T1[t] \in TorrentSched(BatchesOf(t))
        /\ T1[t].probe_epoch = S.torrents[t].probe_epoch
        /\ T1[t].next_batch = S.torrents[t].next_batch
        /\ T1[t].in_flight = IF t \in P THEN TRUE ELSE S.torrents[t].in_flight
  <2> TAKE t \in Known(S)
  <2>1. CASE t \notin P
    BY <1>6, <2>1
  <2>2. CASE t \in P
    <3> DEFINE s == S.torrents[t]
               pr == IF s.next_batch = 0 THEN {} ELSE s.problems
    <3>1. T1[t] = [s EXCEPT !.problems = pr, !.in_flight = TRUE, !.age = 0]
      BY <2>2
    <3>2. s \in TorrentSched(BatchesOf(t)) /\ pr \in SUBSET BatchesOf(t)
      BY <1>6 DEF TorrentSched
    <3> HIDE DEF s, pr, T1
    <3>3. /\ T1[t] \in TorrentSched(BatchesOf(t)) /\ T1[t].probe_epoch = s.probe_epoch
          /\ T1[t].next_batch = s.next_batch /\ T1[t].in_flight = TRUE
      <4>1. T1[t] = [probe_epoch |-> s.probe_epoch, next_batch |-> s.next_batch, problems |-> pr,
                     in_flight |-> TRUE, pending_metadata |-> s.pending_metadata,
                     availability |-> s.availability,
                     has_completed_probe |-> s.has_completed_probe,
                     is_downloading |-> s.is_downloading, is_active |-> s.is_active,
                     due |-> s.due, age |-> 0]
        BY <3>1, <3>2, Zenon DEF TorrentSched
      <4> QED BY <3>2, <4>1 DEF TorrentSched
    <3> QED BY <2>2, <3>3, Zenon DEF s
  <2> QED BY <2>1, <2>2
<1>8. DOMAIN T1 = Known(S) /\ DOMAIN T2 = Known(S)
  OBVIOUS
<1>9. \A t \in Known(S) : T2[t] = IF t \in lost
                                    THEN [T1[t] EXCEPT !.in_flight = FALSE, !.due = DispatchRetry]
                                    ELSE T1[t]
  OBVIOUS
<1> HIDE DEF T1
<1>10. \A t \in Known(S) :
        /\ T2[t] \in TorrentSched(BatchesOf(t))
        /\ T2[t].probe_epoch = S.torrents[t].probe_epoch
        /\ T2[t].next_batch = S.torrents[t].next_batch
        /\ T2[t].in_flight = IF t \in P \ lost THEN TRUE ELSE S.torrents[t].in_flight
  <2> TAKE t \in Known(S)
  <2> DEFINE s == T1[t]
  <2>0. DispatchRetry \in Int
    BY SchedulerAssumption
  <2>1. s \in TorrentSched(BatchesOf(t))
    BY <1>7, Zenon
  <2>2. CASE t \notin lost
    BY <1>7, <1>9, <2>2, Zenon
  <2>3. CASE t \in lost
    <3>1. t \in P /\ S.torrents[t].in_flight = FALSE
      BY <1>2, <2>3
    <3>2. T2[t] = [s EXCEPT !.in_flight = FALSE, !.due = DispatchRetry]
      BY <1>9, <2>3
    <3> HIDE DEF s, T2
    <3>3. /\ T2[t] \in TorrentSched(BatchesOf(t)) /\ T2[t].probe_epoch = s.probe_epoch
          /\ T2[t].next_batch = s.next_batch /\ T2[t].in_flight = FALSE
      BY <2>0, <2>1, <3>2, Zenon DEF TorrentSched
    <3> QED BY <1>7, <2>3, <3>1, <3>3, Zenon DEF s
  <2> QED BY <2>2, <2>3, Zenon
<1>11. y.torrents = T2 /\ y.in_flight = n
  <2> HIDE DEF T2
  <2> QED BY <1>5
<1>12. Scheduled(y) /\ Known(y) = Known(S)
  <2>1. y = [torrents |-> y.torrents, in_flight |-> y.in_flight]
    BY <1>5, <1>11, Zenon
  <2>2. y.torrents = [t \in Known(S) |-> y.torrents[t]]
    BY <1>11, Zenon
  <2> HIDE DEF T2
  <2>3. Known(y) = Known(S)
    BY <1>8, <1>11 DEF Known
  <2> QED BY <1>10, <1>11, <2>1, <2>2, <2>3, ZenonT(30) DEF Scheduled
<1> HIDE DEF T2
<1>13. InFlight(D) = InFlight(S) \cup P
  BY <1>1, <1>4, <1>7, Zenon DEF InFlight
<1>14. InFlight(y) = InFlight(S) \cup (P \ lost)
  BY <1>1, <1>10, <1>11, <1>12, Zenon DEF InFlight
<1>15. InFlight(S) \cap P = {} /\ lost \in SUBSET P
  BY <1>2 DEF InFlight
<1>16. IsFiniteSet(lost) /\ Cardinality(lost) \in Nat /\ Cardinality(lost) <= Cardinality(P)
  BY <1>1, <1>15, FS_Subset, FS_CardinalityType
<1>17. Cardinality(P \ lost) = Cardinality(P) - Cardinality(lost) /\ IsFiniteSet(P \ lost)
  <2>1. P \cap lost = lost
    BY <1>15
  <2>2. IsFiniteSet(P \ lost) /\ Cardinality(P \ lost) = Cardinality(P) - Cardinality(P \cap lost)
    BY <1>1, FS_Difference, Zenon
  <2> QED BY <2>1, <2>2
<1>18. Cardinality(InFlight(y)) = Cardinality(InFlight(S)) + Cardinality(P \ lost)
  <2>1. InFlight(S) \cap (P \ lost) = {}
    BY <1>15
  <2>2. Cardinality(InFlight(S) \cup (P \ lost))
          = Cardinality(InFlight(S)) + Cardinality(P \ lost) - Cardinality(InFlight(S) \cap (P \ lost))
    BY <1>0, <1>17, FS_Union
  <2>3. Cardinality(P \ lost) \in Nat /\ Cardinality({}) = 0
    BY <1>17, FS_CardinalityType, FS_EmptySet
  <2>4. Cardinality(InFlight(S) \cap (P \ lost)) = 0
    BY <2>1, <2>3
  <2>5. Cardinality(InFlight(S) \cup (P \ lost)) = Cardinality(InFlight(S)) + Cardinality(P \ lost)
    BY <1>0, <2>2, <2>3, <2>4
  <2> QED BY <1>14, <2>5
<1>19. lost \cap InFlight(D) = lost
  BY <1>13, <1>15
<1>20. n = S.in_flight + Cardinality(P) - Cardinality(lost)
  <2>1. n = SaturatingSub(S.in_flight + Cardinality(P), Cardinality(lost))
    BY <1>19 DEF n
  <2> QED BY <1>0, <1>1, <1>16, <2>1 DEF SaturatingSub
<1>21. S.in_flight + Cardinality(P) <= MaxInFlight
  BY <1>0, <1>1, SchedulerAssumption DEF SaturatingSub
<1>22. y.in_flight = Cardinality(InFlight(y)) /\ y.in_flight \in Nat /\ y.in_flight <= MaxInFlight
  <2>1. n \in Nat /\ n <= MaxInFlight
    BY <1>0, <1>1, <1>16, <1>20, <1>21, SchedulerAssumption
  <2> QED BY <1>0, <1>1, <1>11, <1>16, <1>17, <1>18, <1>20, <2>1, Zenon
<1> QED BY <1>2, <1>10, <1>11, <1>12, <1>22, Zenon DEF Drained

-----------------------------------------------------------------------------
(* What the ghost marks leave alone.                                       *)

LEMMA MarkIs ==
  ASSUME NEW S1, NEW S2, NEW M, M \in SUBSET Tasks \/ M \in SUBSET Answers
  PROVE  /\ M \in SUBSET Tasks => Mark(M, S1, S2) \in SUBSET Tasks
         /\ M \in SUBSET Answers => Mark(M, S1, S2) \in SUBSET Answers
         /\ \A m \in Mark(M, S1, S2) :
              \E n \in M : /\ m.t = n.t /\ m.epoch = n.epoch /\ m.start = n.start
                           /\ ~GivenUp(S1, S2, n.t) => m = n
         /\ \A n \in M : ~GivenUp(S1, S2, n.t) => n \in Mark(M, S1, S2)
<1> DEFINE f(n) == IF GivenUp(S1, S2, n.t) THEN [n EXCEPT !.stale = TRUE] ELSE n
<1>1. \A n \in Tasks : /\ f(n) \in Tasks /\ f(n).t = n.t /\ f(n).epoch = n.epoch
                       /\ f(n).start = n.start
  BY Zenon DEF Tasks, Request
<1>2. \A n \in Answers : /\ f(n) \in Answers /\ f(n).t = n.t /\ f(n).epoch = n.epoch
                         /\ f(n).start = n.start
  BY Zenon DEF Answers, Answer
<1>3. \A n \in M : ~GivenUp(S1, S2, n.t) => f(n) = n
  OBVIOUS
<1>4. Mark(M, S1, S2) = {f(n) : n \in M}
  BY DEF Mark
<1> HIDE DEF f
<1>5. \A n \in M : f(n).t = n.t /\ f(n).epoch = n.epoch /\ f(n).start = n.start
  BY <1>1, <1>2
<1> QED BY <1>1, <1>2, <1>3, <1>4, <1>5

LEMMA MarkCommandsIs ==
  ASSUME NEW S1, NEW S2, NEW t \in Torrents, NEW q \in Seq(CommandOf(t)),
         NEW n, n = MarkCommands(q, S1, S2, t)
  PROVE  /\ n \in Seq(CommandOf(t)) /\ DOMAIN n = DOMAIN q
         /\ ~GivenUp(S1, S2, t) => n = q
         /\ \A i \in DOMAIN q : /\ n[i].probe = q[i].probe
                                /\ q[i].probe => n[i].epoch = q[i].epoch
<1> DEFINE f(c) == IF GivenUp(S1, S2, t) /\ c.probe THEN [c EXCEPT !.stale = TRUE] ELSE c
<1>1. \A c \in CommandOf(t) : f(c) \in CommandOf(t) /\ f(c).probe = c.probe
                              /\ (c.probe => f(c).epoch = c.epoch)
  BY Zenon DEF CommandOf
<1>2. n = [i \in DOMAIN q |-> f(q[i])]
  BY DEF MarkCommands
<1>3. ~GivenUp(S1, S2, t) => \A c : f(c) = c
  OBVIOUS
<1> HIDE DEF f
<1>4. DOMAIN q = 1..Len(q) /\ Len(q) \in Nat /\ \A i \in DOMAIN q : q[i] \in CommandOf(t)
  OBVIOUS
<1>5. DOMAIN n = DOMAIN q /\ \A i \in DOMAIN q : n[i] = f(q[i])
  BY <1>2
<1>6. n \in Seq(CommandOf(t))
  <2>1. n = [i \in 1..Len(q) |-> f(q[i])] /\ \A i \in 1..Len(q) : f(q[i]) \in CommandOf(t)
    BY <1>1, <1>2, <1>4
  <2> QED BY <1>4, <2>1
<1>7. ~GivenUp(S1, S2, t) => n = q
  BY <1>2, <1>3
<1> QED BY <1>1, <1>4, <1>5, <1>6, <1>7

(* Marking what belongs to sweeps given up breaks no link.                 *)
LEMMA MarkLinked ==
  ASSUME NEW S1, NEW S2, NEW t \in Torrents, NEW s \in TorrentSched(BatchesOf(t)),
         NEW q \in Seq(CommandOf(t)), NEW P \in SUBSET Tasks, NEW A \in SUBSET Answers,
         NEW B, B = A \/ B = Mark(A, S1, S2),
         Linked(t, s, q, P, A),
         GivenUp(S1, S2, t) => ~s.in_flight
  PROVE  Linked(t, s, MarkCommands(q, S1, S2, t), Mark(P, S1, S2), B)
<1> DEFINE e == s.probe_epoch
           n == MarkCommands(q, S1, S2, t)
           Q == Mark(P, S1, S2)
<1>1. /\ DOMAIN n = DOMAIN q /\ (~GivenUp(S1, S2, t) => n = q)
      /\ \A i \in DOMAIN q : n[i].probe = q[i].probe /\ (q[i].probe => n[i].epoch = q[i].epoch)
  <2> HIDE DEF n
  <2>1. n = MarkCommands(q, S1, S2, t)
    BY DEF n
  <2> QED BY <2>1, MarkCommandsIs
<1>2. /\ \A m \in Q : \E k \in P : /\ m.t = k.t /\ m.epoch = k.epoch
                                   /\ ~GivenUp(S1, S2, k.t) => m = k
      /\ \A k \in P : ~GivenUp(S1, S2, k.t) => k \in Q
  BY MarkIs
<1>3. /\ \A m \in B : \E k \in A : /\ m.t = k.t /\ m.epoch = k.epoch
                                   /\ ~GivenUp(S1, S2, k.t) => m = k
      /\ \A k \in A : ~GivenUp(S1, S2, k.t) => k \in B
  <2>1. CASE B = A
    BY <2>1
  <2>2. CASE B = Mark(A, S1, S2)
    BY <2>2, MarkIs
  <2> QED BY <2>1, <2>2
<1>4. /\ \A i \in DOMAIN q : q[i].probe => Follows(q[i], s)
      /\ \A m \in P \cup A : m.t = t => Follows(m, s)
  BY Zenon DEF Linked
<1> HIDE DEF n, Q
<1>5. CASE ~GivenUp(S1, S2, t)
  <2>1. n = q /\ TasksAt(Q, t, e) = TasksAt(P, t, e) /\ TasksAt(B, t, e) = TasksAt(A, t, e)
    BY <1>1, <1>2, <1>3, <1>5, ZenonT(30) DEF TasksAt
  <2>2. \A m \in Q \cup B : m.t = t => Follows(m, s)
    BY <1>2, <1>3, <1>4, <1>5, Zenon
  <2> QED BY <1>4, <2>1, <2>2, Zenon DEF Linked, n, Q
<1>6. CASE GivenUp(S1, S2, t)
  <2>1. ~s.in_flight /\ CommandsAt(q, e) = {} /\ TasksAt(P, t, e) = {} /\ TasksAt(A, t, e) = {}
    BY <1>6, Zenon DEF Linked, NoneOut
  <2>2. \A i \in DOMAIN q : q[i].probe => q[i].epoch <= e /\ q[i].epoch # e
    BY <1>4, <2>1, Zenon DEF Follows, CommandsAt
  <2>3. \A m \in P \cup A : m.t = t => m.epoch <= e /\ m.epoch # e
    BY <1>4, <2>1, Zenon DEF Follows, TasksAt
  <2>4. \A i \in DOMAIN n : n[i].probe => n[i].epoch <= e /\ n[i].epoch # e
    BY <1>1, <2>2
  <2>5. \A m \in Q \cup B : m.t = t => m.epoch <= e /\ m.epoch # e
    BY <1>2, <1>3, <2>3, ZenonT(30)
  <2> HIDE DEF e
  <2>6. CommandsAt(n, e) = {} /\ TasksAt(Q, t, e) = {} /\ TasksAt(B, t, e) = {}
    BY <2>4, <2>5, Zenon DEF CommandsAt, TasksAt
  <2>7. /\ \A i \in DOMAIN n : n[i].probe => Follows(n[i], s)
        /\ \A m \in Q \cup B : m.t = t => Follows(m, s)
    BY <2>4, <2>5 DEF Follows, e
  <2> QED BY <2>1, <2>6, <2>7 DEF Linked, NoneOut, n, Q, e
<1> QED BY <1>5, <1>6

(* A request is queued for a torrent that had none.                        *)
LEMMA AskLinked ==
  ASSUME NEW t \in Torrents, NEW s \in TorrentSched(BatchesOf(t)),
         NEW q \in Seq(CommandOf(t)), NEW P, NEW A,
         Linked(t, s, q, P, A), s.in_flight = FALSE,
         NEW s2, s2.in_flight = TRUE, s2.probe_epoch = s.probe_epoch, s2.next_batch = s.next_batch
  PROVE  /\ Linked(t, s2, Append(q, ProbeFileBatch(s)), P, A)
         /\ Append(q, ProbeFileBatch(s)) \in Seq(CommandOf(t))
<1> DEFINE c == ProbeFileBatch(s)
           n == Append(q, c)
           e == s.probe_epoch
<1>1. /\ c \in CommandOf(t) /\ c.probe = TRUE /\ c.epoch = e /\ c.stale = FALSE
      /\ c.start = s.next_batch /\ e \in Nat
  BY Zenon DEF ProbeFileBatch, CommandOf, TorrentSched
<1> HIDE DEF c
<1>2. /\ Len(q) \in Nat /\ DOMAIN q = 1..Len(q) /\ DOMAIN n = 1 .. Len(q) + 1
      /\ \A i \in 1..Len(q) : n[i] = q[i]
      /\ n[Len(q) + 1] = c /\ n \in Seq(CommandOf(t))
  BY <1>1
<1>3. /\ CommandsAt(q, e) = {} /\ TasksAt(P, t, e) = {} /\ TasksAt(A, t, e) = {}
      /\ \A i \in DOMAIN q : q[i].probe => Follows(q[i], s)
      /\ \A m \in P \cup A : m.t = t => Follows(m, s)
  BY Zenon DEF Linked, NoneOut
<1>4. CommandsAt(n, e) = {Len(q) + 1}
  BY <1>1, <1>2, <1>3 DEF CommandsAt
<1>5. Follows(c, s2) /\ \A m : Follows(m, s) => Follows(m, s2)
  BY <1>1 DEF Follows
<1>6. \A i \in DOMAIN n : n[i].probe => Follows(n[i], s2)
  BY <1>2, <1>3, <1>5
<1> HIDE DEF n
<1> QED BY <1>2, <1>3, <1>4, <1>5, <1>6, Zenon DEF Linked, OneOut, n, c

(* Links depend on three fields of a torrent's state; a new epoch has      *)
(* nothing under way.                                                      *)
LEMMA SameLinked ==
  ASSUME NEW t, NEW s, NEW q, NEW P, NEW A, Linked(t, s, q, P, A),
         NEW s2, s2.in_flight = s.in_flight, s2.probe_epoch = s.probe_epoch,
         s2.next_batch = s.next_batch
  PROVE  Linked(t, s2, q, P, A)
  BY DEF Linked, Follows

LEMMA RestartLinked ==
  ASSUME NEW t, NEW s, s.probe_epoch \in Nat, NEW q \in Seq(CommandOf(t)),
         NEW P \in SUBSET Tasks, NEW A \in SUBSET Answers,
         Linked(t, s, q, P, A),
         NEW s2, s2.in_flight = FALSE, s2.probe_epoch = s.probe_epoch + 1
  PROVE  Linked(t, s2, q, P, A)
<1> DEFINE e == s.probe_epoch
<1>1. \A i \in DOMAIN q : q[i].probe => q[i].epoch \in Nat /\ q[i].epoch <= e
  <2>1. \A i \in DOMAIN q : q[i] \in CommandOf(t)
    OBVIOUS
  <2>2. \A x \in CommandOf(t) : x.probe => x.epoch \in Nat
    BY Zenon DEF CommandOf
  <2> QED BY <2>1, <2>2 DEF Linked, Follows
<1>2. \A m \in P \cup A : m.t = t => m.epoch \in Nat /\ m.epoch <= e
  <2>1. \A m \in P \cup A : m.epoch \in Nat
    BY DEF Tasks, Answers, Request, Answer
  <2> QED BY <2>1 DEF Linked, Follows
<1> HIDE DEF e
<1>3. e \in Nat /\ s2.probe_epoch = e + 1
  BY DEF e
<1>4. \A k \in Nat : k <= e => k <= s2.probe_epoch /\ k # s2.probe_epoch
  BY <1>3
<1>5. /\ \A i \in DOMAIN q : q[i].probe => Follows(q[i], s2)
      /\ \A m \in P \cup A : m.t = t => Follows(m, s2)
  BY <1>1, <1>2, <1>4 DEF Follows
<1>6. NoneOut(CommandsAt(q, s2.probe_epoch), TasksAt(P, t, s2.probe_epoch),
              TasksAt(A, t, s2.probe_epoch))
  BY <1>1, <1>2, <1>4 DEF NoneOut, CommandsAt, TasksAt
<1> QED BY <1>5, <1>6, Zenon DEF Linked

-----------------------------------------------------------------------------
(* dispatch_integrity_probe_batches, called with a scheduler S, the        *)
(* torrents shown d, the commands c, and A the answers that stay under way.*)

Ready(S, d, c, A) ==
  /\ Scheduled(S) /\ Known(S) \in SUBSET Known(sched)
  /\ DOMAIN d \in SUBSET Torrents /\ d \in [DOMAIN d -> Display]
  /\ \A t \in Torrents : c[t] \in Seq(CommandOf(t))
  /\ \A t \in Torrents \ DOMAIN d : c[t] = <<>>
  /\ A \in SUBSET Answers
  /\ \A t \in Known(S) : S.torrents[t].in_flight =>
       /\ sched.torrents[t].in_flight
       /\ S.torrents[t].probe_epoch = sched.torrents[t].probe_epoch
  /\ \A t \in DOMAIN d :
       IF t \in Known(S) THEN Linked(t, S.torrents[t], c[t], probes, A)
       ELSE /\ c[t] = <<>> /\ t \notin Known(sched)
            /\ \A m \in probes \cup A : m.t # t

LEMMA NewLinked ==
  ASSUME NEW t, NEW s, s.in_flight = FALSE, NEW q, q = <<>>, NEW P, NEW A,
         \A m \in P \cup A : m.t # t
  PROVE  Linked(t, s, q, P, A)
  BY DEF Linked, NoneOut, CommandsAt, TasksAt

LEMMA Dispatch ==
  ASSUME AppType, Exact, NEW S, NEW d, NEW c, NEW open, NEW A,
         Ready(S, d, c, A), dispatch_integrity_probe_batches(S, d, c, open),
         answers' = A \/ answers' = Mark(A, sched, sched')
  PROVE  AppType' /\ Exact'
<1> DEFINE y == sync_torrents(S, Snapshots(d))
<1>1. PICK synced, asked, lost, S2 :
        /\ synced = reclaim_timed_out_probe_batches(y)
        /\ asked = Picked(synced)
        /\ lost = {t \in asked : t \notin open \/ Len(c[t]) >= CommandCapacity}
        /\ S2 = on_dispatch_failed(drain_due_probe_requests(synced, asked), lost)
        /\ sched' = S2 /\ display' = d
        /\ commands' = [t \in Torrents |->
             LET q == MarkCommands(c[t], sched, S2, t)
             IN IF t \in asked \ lost
                  THEN Append(q, ProbeFileBatch(synced.torrents[t])) ELSE q]
        /\ probes' = Mark(probes, sched, S2)
  BY DEF dispatch_integrity_probe_batches
<1>2. /\ Scheduled(y) /\ Known(y) = DOMAIN d
      /\ y.in_flight = Cardinality(InFlight(y)) /\ y.in_flight \in Nat
      /\ \A t \in DOMAIN d :
           LET old == IF t \in Known(S) THEN S.torrents[t] ELSE NewTorrentSched
           IN /\ y.torrents[t].probe_epoch = old.probe_epoch
              /\ y.torrents[t].in_flight = old.in_flight
              /\ y.torrents[t].next_batch = old.next_batch
  BY SyncIs DEF Ready
<1> HIDE DEF y
<1>3. /\ Scheduled(synced) /\ Known(synced) = DOMAIN d
      /\ synced.in_flight = Cardinality(InFlight(synced)) /\ synced.in_flight \in Nat
      /\ synced.in_flight <= y.in_flight
      /\ \A t \in DOMAIN d :
           \/ synced.torrents[t] = y.torrents[t]
           \/ /\ synced.torrents[t].probe_epoch = y.torrents[t].probe_epoch + 1
              /\ synced.torrents[t].in_flight = FALSE
  BY <1>1, <1>2, ReclaimIs, Zenon
<1>4. y.in_flight <= MaxInFlight
  <2>1. InFlight(y) \in SUBSET InFlight(sched)
    <3> SUFFICES ASSUME NEW t \in InFlight(y) PROVE t \in InFlight(sched)
      OBVIOUS
    <3>1. t \in DOMAIN d /\ y.torrents[t].in_flight
      BY <1>2 DEF InFlight
    <3>2. t \in Known(S) /\ S.torrents[t].in_flight
      BY <1>2, <3>1, Zenon DEF NewTorrentSched
    <3>3. t \in Known(sched) /\ sched.torrents[t].in_flight
      BY <3>2 DEF Ready
    <3> QED BY <3>3 DEF InFlight
  <2>2. IsFiniteSet(InFlight(sched)) /\ Cardinality(InFlight(sched)) \in Nat
    BY FiniteMarks DEF AppType, Scheduled, Marks
  <2>3. Cardinality(InFlight(y)) <= Cardinality(InFlight(sched))
    BY <2>1, <2>2, FS_Subset
  <2>4. sched.in_flight = Cardinality(InFlight(sched)) /\ sched.in_flight <= MaxInFlight
    BY Zenon DEF Exact
  <2>5. MaxInFlight \in Nat
    BY SchedulerAssumption, Zenon
  <2>6. y.in_flight = Cardinality(InFlight(y)) /\ y.in_flight \in Nat
    BY <1>2, Zenon
  <2> HIDE DEF Exact
  <2> QED BY <2>2, <2>3, <2>4, <2>5, <2>6
<1>5. synced.in_flight <= MaxInFlight
  BY <1>2, <1>3, <1>4, SchedulerAssumption
<1>6. lost \in SUBSET asked
  BY <1>1
<1>7. /\ Scheduled(S2) /\ Known(S2) = DOMAIN d
      /\ S2.in_flight = Cardinality(InFlight(S2)) /\ S2.in_flight \in Nat
      /\ S2.in_flight <= MaxInFlight
      /\ \A t \in DOMAIN d :
           /\ S2.torrents[t].probe_epoch = synced.torrents[t].probe_epoch
           /\ S2.torrents[t].next_batch = synced.torrents[t].next_batch
           /\ t \in asked => synced.torrents[t].in_flight = FALSE
           /\ S2.torrents[t].in_flight
                = IF t \in asked \ lost THEN TRUE ELSE synced.torrents[t].in_flight
  <2>1. /\ Scheduled(synced) /\ synced.in_flight = Cardinality(InFlight(synced))
        /\ synced.in_flight <= MaxInFlight /\ asked = Picked(synced) /\ lost \in SUBSET asked
        /\ S2 = on_dispatch_failed(drain_due_probe_requests(synced, asked), lost)
    BY <1>1, <1>3, <1>5, <1>6, Zenon
  <2>2. Drained(synced, asked, lost, S2)
    BY <2>1, DrainIs
  <2> QED BY <1>3, <2>2, Zenon DEF Drained
<1>8. asked \in SUBSET DOMAIN d
  BY <1>1, <1>3, Zenon DEF Picked, Due
<1>9. answers' = A \/ answers' = Mark(A, sched, S2)
  BY <1>1 DEF AppType, Ready
<1>10. probes' \in SUBSET Tasks /\ answers' \in SUBSET Answers
  <2>1. probes \in SUBSET Tasks /\ A \in SUBSET Answers
    BY DEF AppType, Ready
  <2>2. Mark(probes, sched, S2) \in SUBSET Tasks /\ Mark(A, sched, S2) \in SUBSET Answers
    BY <2>1, MarkIs, Zenon
  <2> QED BY <1>1, <2>1, <2>2, Zenon
<1>11. ASSUME NEW t \in DOMAIN d
       PROVE  /\ Linked(t, sched'.torrents[t], commands'[t], probes', answers')
              /\ commands'[t] \in Seq(CommandOf(t))
  <2> DEFINE s == synced.torrents[t]
             n == MarkCommands(c[t], sched, S2, t)
  <2>1. /\ t \in Torrents /\ s \in TorrentSched(BatchesOf(t)) /\ c[t] \in Seq(CommandOf(t))
        /\ probes \in SUBSET Tasks /\ A \in SUBSET Answers
    BY <1>3 DEF Scheduled, Ready, AppType
  <2>2. y.torrents[t].probe_epoch \in Nat
    BY <1>2, Zenon DEF Scheduled, TorrentSched
  <2>3. Linked(t, y.torrents[t], c[t], probes, A)
    <3>1. CASE t \in Known(S)
      <4>1. Linked(t, S.torrents[t], c[t], probes, A)
        BY <3>1, Zenon DEF Ready
      <4>2. /\ y.torrents[t].probe_epoch = S.torrents[t].probe_epoch
            /\ y.torrents[t].in_flight = S.torrents[t].in_flight
            /\ y.torrents[t].next_batch = S.torrents[t].next_batch
        BY <1>2, <3>1
      <4> QED BY <4>1, <4>2, SameLinked, Zenon
    <3>2. CASE t \notin Known(S)
      <4>1. c[t] = <<>> /\ \A m \in probes \cup A : m.t # t
        BY <3>2 DEF Ready
      <4>2. y.torrents[t].in_flight = FALSE
        BY <1>2, <3>2, Zenon DEF NewTorrentSched
      <4> QED BY <4>1, <4>2, NewLinked, ZenonT(30)
    <3> QED BY <3>1, <3>2, Zenon
  <2>4. Linked(t, s, c[t], probes, A)
    <3>1. CASE s = y.torrents[t]
      BY <2>3, <3>1
    <3>2. CASE s.probe_epoch = y.torrents[t].probe_epoch + 1 /\ s.in_flight = FALSE
      BY <2>1, <2>2, <2>3, <3>2, RestartLinked, Zenon
    <3> QED BY <1>3, <3>1, <3>2, Zenon
  <2>5. GivenUp(sched, S2, t) => ~s.in_flight
    <3> SUFFICES ASSUME GivenUp(sched, S2, t), s.in_flight PROVE FALSE
      OBVIOUS
    <3>1. /\ t \in Known(sched) /\ sched.torrents[t].probe_epoch # s.probe_epoch
      BY <1>7, Zenon DEF GivenUp
    <3>2. s = y.torrents[t]
      BY <1>3
    <3>3. t \in Known(S) /\ S.torrents[t].in_flight /\ s.probe_epoch = S.torrents[t].probe_epoch
      BY <1>2, <3>2, ZenonT(30) DEF NewTorrentSched
    <3> QED BY <3>1, <3>3, Zenon DEF Ready
  <2> HIDE DEF s
  <2>6. Linked(t, s, n, probes', answers')
    BY <1>1, <1>9, <2>1, <2>4, <2>5, MarkLinked, Zenon
  <2>7. n \in Seq(CommandOf(t))
    BY <2>1, MarkCommandsIs, Zenon
  <2>8. commands'[t] = IF t \in asked \ lost THEN Append(n, ProbeFileBatch(s)) ELSE n
    BY <1>1, <2>1 DEF s
  <2> HIDE DEF n
  <2>9. /\ S2.torrents[t].probe_epoch = s.probe_epoch
        /\ S2.torrents[t].next_batch = s.next_batch
        /\ t \in asked => s.in_flight = FALSE
        /\ S2.torrents[t].in_flight = IF t \in asked \ lost THEN TRUE ELSE s.in_flight
    BY <1>7, Zenon DEF s
  <2>10. CASE t \in asked \ lost
    <3>1. /\ Linked(t, S2.torrents[t], Append(n, ProbeFileBatch(s)), probes', answers')
          /\ Append(n, ProbeFileBatch(s)) \in Seq(CommandOf(t))
      BY <2>1, <2>6, <2>7, <2>9, <2>10, AskLinked, Zenon
    <3> QED BY <1>1, <2>8, <2>10, <3>1, Zenon
  <2>11. CASE t \notin asked \ lost
    <3>1. Linked(t, S2.torrents[t], n, probes', answers')
      BY <2>6, <2>9, <2>11, SameLinked, Zenon
    <3> QED BY <1>1, <2>7, <2>8, <2>11, <3>1
  <2> QED BY <2>10, <2>11, Zenon
<1>12. ASSUME NEW t \in Torrents \ DOMAIN d PROVE commands'[t] = <<>>
  <2>1. c[t] = <<>> /\ t \notin asked
    BY <1>8, <1>12 DEF Ready
  <2>2. MarkCommands(c[t], sched, S2, t) = <<>>
    BY <2>1 DEF MarkCommands
  <2> QED BY <1>1, <2>1, <2>2, Zenon
<1>s. ASSUME NEW t \in Torrents PROVE commands'[t] \in Seq(CommandOf(t))
  <2>1. CASE t \in DOMAIN d
    BY <1>11, <2>1, Zenon
  <2>2. CASE t \notin DOMAIN d
    <3>1. commands'[t] = <<>>
      BY <1>12, <2>2
    <3> QED BY <3>1
  <2> QED BY <2>1, <2>2, Zenon
<1>13. commands' \in [Torrents -> Seq(UNION {CommandOf(t) : t \in Torrents})]
  <2> DEFINE U == UNION {CommandOf(t) : t \in Torrents}
  <2>1. \A t \in Torrents : CommandOf(t) \in SUBSET U
    OBVIOUS
  <2> HIDE DEF U
  <2>3. \A t \in Torrents : commands'[t] \in Seq(U)
    BY <1>s, <2>1
  <2>4. commands' = [t \in Torrents |-> commands'[t]]
    BY <1>1, Zenon
  <2> QED BY <2>3, <2>4 DEF U
<1>14. DOMAIN display' = DOMAIN d /\ DOMAIN d \in SUBSET Torrents /\ d \in [DOMAIN d -> Display]
  BY <1>1 DEF Ready
<1>15. AppType'
  <2>1. Scheduled(sched') /\ sched'.in_flight \in Nat /\ Known(sched') = Shown'
    BY <1>1, <1>7, <1>14 DEF Shown
  <2>2. display' \in [Shown' -> Display] /\ Shown' = DOMAIN d
    BY <1>1, <1>14, Zenon DEF Shown
  <2>3. \A t \in Torrents \ Shown' : commands'[t] = <<>>
    BY <1>12, <2>2
  <2> QED BY <1>s, <1>10, <1>13, <2>1, <2>2, <2>3, Zenon DEF AppType
<1>16. Exact'
  BY <1>1, <1>7, <1>11, <1>14, Zenon DEF Exact, Shown
<1> QED BY <1>15, <1>16

-----------------------------------------------------------------------------
(* What the handlers pass to dispatch_integrity_probe_batches.             *)

SameMark(x, s) ==
  /\ x.probe_epoch = s.probe_epoch /\ x.next_batch = s.next_batch
  /\ x.in_flight = s.in_flight
NewSweep(x, s) == x.probe_epoch = s.probe_epoch + 1 /\ x.in_flight = FALSE

LEMMA AppFacts ==
  ASSUME AppType, Exact
  PROVE  /\ Scheduled(sched) /\ Known(sched) = Shown /\ Shown = DOMAIN display
         /\ Shown \in SUBSET Torrents /\ display \in [Shown -> Display]
         /\ probes \in SUBSET Tasks /\ answers \in SUBSET Answers
         /\ \A t \in Torrents : commands[t] \in Seq(CommandOf(t))
         /\ \A t \in Torrents \ Shown : commands[t] = <<>>
         /\ \A t \in Shown : /\ sched.torrents[t] \in TorrentSched(BatchesOf(t))
                             /\ sched.torrents[t].probe_epoch \in Nat
                             /\ Linked(t, sched.torrents[t], commands[t], probes, answers)
<1>1. Scheduled(sched) /\ Known(sched) = Shown
  BY DEF AppType
<1>2. Shown \in SUBSET Torrents /\ \A t \in Shown : sched.torrents[t] \in TorrentSched(BatchesOf(t))
  BY <1>1 DEF Scheduled
<1>3. \A t \in Shown : sched.torrents[t].probe_epoch \in Nat
  BY <1>2, Zenon DEF TorrentSched
<1> QED BY <1>1, <1>2, <1>3 DEF AppType, Exact, Shown

LEMMA ReadyFrom ==
  ASSUME AppType, Exact, NEW S, Scheduled(S), Known(S) = Shown,
         NEW d \in [Shown -> Display],
         \A t \in Shown : \/ SameMark(S.torrents[t], sched.torrents[t])
                          \/ NewSweep(S.torrents[t], sched.torrents[t])
  PROVE  Ready(S, d, commands, answers)
<1>1. DOMAIN d = Shown
  OBVIOUS
<1>2. \A t \in Shown : Linked(t, S.torrents[t], commands[t], probes, answers)
  <2> TAKE t \in Shown
  <2>1. /\ Linked(t, sched.torrents[t], commands[t], probes, answers)
        /\ sched.torrents[t].probe_epoch \in Nat /\ commands[t] \in Seq(CommandOf(t))
        /\ probes \in SUBSET Tasks /\ answers \in SUBSET Answers
    BY AppFacts, Zenon
  <2>2. CASE SameMark(S.torrents[t], sched.torrents[t])
    BY <2>1, <2>2, SameLinked DEF SameMark
  <2>3. CASE NewSweep(S.torrents[t], sched.torrents[t])
    BY <2>1, <2>3, RestartLinked, Zenon DEF NewSweep
  <2> QED BY <2>2, <2>3, Zenon
<1>3. \A t \in Shown : S.torrents[t].in_flight =>
        sched.torrents[t].in_flight /\ S.torrents[t].probe_epoch = sched.torrents[t].probe_epoch
  BY Zenon DEF SameMark, NewSweep
<1> QED BY <1>1, <1>2, <1>3, AppFacts, Zenon DEF Ready

LEMMA DropLinked ==
  ASSUME NEW t, NEW s, NEW q, NEW P, NEW A, Linked(t, s, q, P, A),
         NEW r, ~(r.t = t /\ r.epoch = s.probe_epoch)
  PROVE  Linked(t, s, q, P, A \ {r})
<1>1. TasksAt(A \ {r}, t, s.probe_epoch) = TasksAt(A, t, s.probe_epoch)
  BY Zenon DEF TasksAt
<1> QED BY <1>1 DEF Linked

LEMMA TakeLinked ==
  ASSUME NEW t, NEW s, s.in_flight \in BOOLEAN, NEW q, NEW P, NEW A, Linked(t, s, q, P, A),
         NEW r \in A, r.t = t, r.epoch = s.probe_epoch,
         NEW s2, s2.probe_epoch = s.probe_epoch, ~s2.in_flight
  PROVE  Linked(t, s2, q, P, A \ {r})
<1> DEFINE e == s.probe_epoch
<1>1. r \in TasksAt(A, t, e)
  BY Zenon DEF TasksAt
<1>2. s.in_flight /\ CommandsAt(q, e) = {} /\ TasksAt(P, t, e) = {} /\ \E x : TasksAt(A, t, e) = {x}
  BY <1>1, Zenon DEF Linked, OneOut, NoneOut
<1>3. TasksAt(A \ {r}, t, e) = {}
  BY <1>1, <1>2, Zenon DEF TasksAt
<1>4. /\ \A i \in DOMAIN q : q[i].probe => q[i].epoch <= e /\ q[i].epoch # e
      /\ \A m \in P \cup (A \ {r}) : m.t = t => m.epoch <= e /\ m.epoch # e
  BY <1>2, <1>3, Zenon DEF Linked, Follows, CommandsAt, TasksAt
<1>5. /\ \A i \in DOMAIN q : q[i].probe => Follows(q[i], s2)
      /\ \A m \in P \cup (A \ {r}) : m.t = t => Follows(m, s2)
  BY <1>4 DEF Follows
<1> QED BY <1>2, <1>3, <1>5, Zenon DEF Linked, NoneOut

LEMMA TellLinked ==
  ASSUME NEW t, NEW s, NEW q \in Seq(CommandOf(t)), NEW P, NEW A, Linked(t, s, q, P, A),
         NEW b \in BOOLEAN
  PROVE  /\ TrySend(q, SetDataAvailability(b)) \in Seq(CommandOf(t))
         /\ Linked(t, s, TrySend(q, SetDataAvailability(b)), P, A)
<1> DEFINE c == SetDataAvailability(b)
           n == Append(q, c)
<1>1. c \in CommandOf(t) /\ c.probe = FALSE
  BY Zenon DEF SetDataAvailability, CommandOf
<1>2. TrySend(q, c) = n \/ TrySend(q, c) = q
  BY DEF TrySend
<1> HIDE DEF c
<1>3. /\ Len(q) \in Nat /\ DOMAIN q = 1..Len(q) /\ DOMAIN n = 1 .. Len(q) + 1
      /\ \A i \in 1..Len(q) : n[i] = q[i]
      /\ n[Len(q) + 1] = c /\ n \in Seq(CommandOf(t))
  BY <1>1
<1> HIDE DEF n
<1>4. \A e : CommandsAt(n, e) = CommandsAt(q, e)
  BY <1>1, <1>3 DEF CommandsAt
<1>5. \A i \in DOMAIN n : n[i].probe => Follows(n[i], s)
  <2>1. \A i \in DOMAIN q : q[i].probe => Follows(q[i], s)
    BY Zenon DEF Linked
  <2> QED BY <1>1, <1>3, <2>1
<1>6. Linked(t, s, n, P, A)
  BY <1>4, <1>5 DEF Linked
<1> QED BY <1>2, <1>3, <1>6 DEF c

-----------------------------------------------------------------------------
(* The handlers of the application.                                        *)

LEMMA TickStep == HealthInv /\ Tick => (AppType /\ Exact)'
<1> SUFFICES ASSUME AppType, Exact, Tick PROVE (AppType /\ Exact)'
  BY DEF HealthInv
<1> DEFINE S == advance_time(sched)
<1>1. /\ dispatch_integrity_probe_batches(S, display, commands, Open)
      /\ answers' = Mark(answers, sched, sched')
  BY DEF Tick
<1> DEFINE T == [t \in Known(sched) |->
             [sched.torrents[t] EXCEPT
                !.due = IF @ > -MaxLate THEN @ - 1 ELSE @,
                !.age = IF sched.torrents[t].in_flight /\ @ < BatchTimeout THEN @ + 1 ELSE @]]
<1>2. S.torrents = T /\ S.in_flight = sched.in_flight
      /\ S = [torrents |-> S.torrents, in_flight |-> S.in_flight]
  <2>1. S = [sched EXCEPT !.torrents = T]
    BY DEF advance_time
  <2> HIDE DEF T, S
  <2> QED BY <2>1 DEF AppType, Scheduled
<1>3. \A t \in Shown : T[t] \in TorrentSched(BatchesOf(t)) /\ SameMark(T[t], sched.torrents[t])
  <2> TAKE t \in Shown
  <2> DEFINE s == sched.torrents[t]
             due == IF s.due > -MaxLate THEN s.due - 1 ELSE s.due
             age == IF s.in_flight /\ s.age < BatchTimeout THEN s.age + 1 ELSE s.age
  <2>1. s \in TorrentSched(BatchesOf(t)) /\ t \in Known(sched)
    BY AppFacts, Zenon
  <2>2. due \in Int /\ age \in Nat
    BY <2>1 DEF TorrentSched
  <2>3. T[t] = [s EXCEPT !.due = due, !.age = age]
    BY <2>1
  <2> HIDE DEF s, due, age, T
  <2>4. T[t] \in TorrentSched(BatchesOf(t)) /\ SameMark(T[t], s)
    BY <2>1, <2>2, <2>3, Zenon DEF TorrentSched, SameMark
  <2> QED BY <2>4, Zenon DEF s
<1>4. DOMAIN T = Known(sched) /\ T = [t \in Known(sched) |-> T[t]]
  OBVIOUS
<1> HIDE DEF T, S
<1>5. Known(S) = Shown /\ Scheduled(S)
  <2>1. Known(S) = Shown
    BY <1>2, <1>4, AppFacts, Zenon DEF Known
  <2> QED BY <1>2, <1>3, <1>4, <2>1, AppFacts, Zenon DEF Scheduled
<1>6. Ready(S, display, commands, answers)
  BY <1>2, <1>3, <1>5, AppFacts, ReadyFrom, Zenon
<1> QED BY <1>1, <1>6, Dispatch

LEMMA FaultStep ==
  ASSUME HealthInv, NEW t \in Torrents, DataAvailabilityFault(t)
  PROVE  (AppType /\ Exact)'
<1>0. AppType /\ Exact
  BY DEF HealthInv
<1> DEFINE S == on_data_availability_fault(sched, t, Near(t))
           d == [u \in Shown |->
                  IF u = t THEN [display[u] EXCEPT !.data_available = FALSE] ELSE display[u]]
<1>1. /\ dispatch_integrity_probe_batches(S, d, commands, Open)
      /\ answers' = Mark(answers, sched, sched')
  BY Zenon DEF DataAvailabilityFault
<1>2. d \in [Shown -> Display]
  <2>1. \A u \in Shown : display[u] \in Display
    BY <1>0, AppFacts
  <2>2. \A x \in Display : [x EXCEPT !.data_available = FALSE] \in Display
    BY Zenon DEF Display
  <2> QED BY <2>1, <2>2, Zenon
<1> HIDE DEF d
<1> DEFINE hit == IF t \in Known(sched) THEN Near(t) \cap Known(sched) ELSE {}
           T == [u \in Known(sched) |->
                  IF u = t
                    THEN [Restarted(sched.torrents[u]) EXCEPT !.availability = "Unavailable"]
                  ELSE IF u \in hit THEN Restarted(sched.torrents[u])
                  ELSE sched.torrents[u]]
           n == SaturatingSub(sched.in_flight,
                  Cardinality({u \in hit \cup ({t} \cap Known(sched)) : sched.torrents[u].in_flight}))
<1>3. S = [torrents |-> T, in_flight |-> n]
  BY Zenon DEF on_data_availability_fault
<1>4. \A u \in Shown : /\ T[u] \in TorrentSched(BatchesOf(u))
                       /\ SameMark(T[u], sched.torrents[u]) \/ NewSweep(T[u], sched.torrents[u])
  <2> TAKE u \in Shown
  <2> DEFINE s == sched.torrents[u]
  <2>1. s \in TorrentSched(BatchesOf(u)) /\ u \in Known(sched) /\ u \in Torrents
    BY <1>0, AppFacts, Zenon
  <2>2. \/ T[u] = [Restarted(s) EXCEPT !.availability = "Unavailable"]
        \/ T[u] = Restarted(s) \/ T[u] = s
    BY <2>1
  <2> HIDE DEF s, T
  <2>3. /\ T[u] \in TorrentSched(BatchesOf(u))
        /\ SameMark(T[u], s) \/ NewSweep(T[u], s)
    BY <2>1, <2>2, RestartedIs, Zenon DEF SameMark, NewSweep
  <2> QED BY <2>3, Zenon DEF s
<1>5. DOMAIN T = Known(sched) /\ T = [u \in Known(sched) |-> T[u]]
  OBVIOUS
<1> HIDE DEF T, S, n
<1>6. S.torrents = T /\ S = [torrents |-> S.torrents, in_flight |-> S.in_flight]
  BY <1>3
<1>7. Known(S) = Shown /\ Scheduled(S)
  <2>1. Known(S) = Shown
    BY <1>0, <1>5, <1>6, AppFacts, Zenon DEF Known
  <2> QED BY <1>0, <1>4, <1>5, <1>6, <2>1, AppFacts, Zenon DEF Scheduled
<1>8. Ready(S, d, commands, answers)
  BY <1>0, <1>2, <1>4, <1>6, <1>7, ReadyFrom, Zenon
<1> QED BY <1>0, <1>1, <1>8, Dispatch, Zenon

LEMMA MetadataStep ==
  ASSUME OneBatchMagnets, HealthInv, NEW t \in Torrents, MetadataLoaded(t)
  PROVE  (AppType /\ Exact)'
<1>0. AppType /\ Exact /\ t \in Magnets
  BY DEF HealthInv, RestType, MetadataLoaded
<1> DEFINE S == on_metadata_loaded(sched, t)
<1>1. /\ dispatch_integrity_probe_batches(S, display, commands, Open)
      /\ answers' = Mark(answers, sched, sched')
  BY DEF MetadataLoaded
<1>2. CASE t \notin Known(sched)
  <2>1. S = sched
    BY <1>2, Zenon DEF on_metadata_loaded
  <2>2. Ready(sched, display, commands, answers)
    BY <1>0, AppFacts, ReadyFrom, Zenon DEF SameMark
  <2> QED BY <1>0, <1>1, <2>1, <2>2, Dispatch
<1>3. CASE t \in Known(sched)
  <2> DEFINE s == sched.torrents[t]
             x == [s EXCEPT !.pending_metadata = FALSE, !.next_batch = 0, !.problems = {}, !.due = 0]
             T == [sched.torrents EXCEPT ![t] = x]
  <2>1. s \in TorrentSched(BatchesOf(t)) /\ t \in Shown
    BY <1>0, <1>3, AppFacts
  <2>2. S = [sched EXCEPT !.torrents[t] = x]
    BY <1>3 DEF on_metadata_loaded, WithTorrent
  <2>3. S = [torrents |-> T, in_flight |-> sched.in_flight]
    BY <1>0, <1>3, <2>2, Zenon DEF AppType, Scheduled
  <2>4. BatchesOf(t) = {0}
    BY <1>0, HealthAssumption DEF OneBatchMagnets, BatchesOf
  <2> HIDE DEF s, S
  <2>5. x \in TorrentSched(BatchesOf(t)) /\ SameMark(x, s)
    <3>1. s.next_batch = 0 /\ 0 \in BatchesOf(t)
      BY <2>1, <2>4 DEF TorrentSched
    <3>2. /\ x \in TorrentSched(BatchesOf(t)) /\ x.probe_epoch = s.probe_epoch
          /\ x.next_batch = 0 /\ x.in_flight = s.in_flight
      BY <2>1, ResetIs, Zenon
    <3> QED BY <3>1, <3>2 DEF SameMark
  <2> HIDE DEF x
  <2>6. /\ DOMAIN T = Known(sched) /\ T[t] = x
        /\ \A u \in Known(sched) : u # t => T[u] = sched.torrents[u]
        /\ T = [u \in Known(sched) |-> T[u]]
    BY <1>0, <1>3 DEF AppType, Scheduled, Known
  <2> HIDE DEF T
  <2>7. S.torrents = T /\ S = [torrents |-> S.torrents, in_flight |-> S.in_flight]
    BY <2>3, Zenon
  <2>8. \A u \in Shown : T[u] \in TorrentSched(BatchesOf(u)) /\ SameMark(T[u], sched.torrents[u])
    <3> TAKE u \in Shown
    <3>1. CASE u = t
      BY <2>5, <2>6, <3>1, Zenon DEF s
    <3>2. CASE u # t
      BY <1>0, <2>6, <3>2, AppFacts, Zenon DEF SameMark
    <3> QED BY <3>1, <3>2, Zenon
  <2>9. Known(S) = Shown /\ Scheduled(S)
    <3>1. Known(S) = Shown
      BY <1>0, <2>6, <2>7, AppFacts, Zenon DEF Known
    <3> QED BY <1>0, <2>6, <2>7, <2>8, <3>1, AppFacts, Zenon DEF Scheduled
  <2>10. Ready(S, display, commands, answers)
    BY <1>0, <2>7, <2>8, <2>9, AppFacts, ReadyFrom, Zenon
  <2> QED BY <1>0, <1>1, <2>10, Dispatch, Zenon DEF S
<1> QED BY <1>2, <1>3, Zenon

(* The state on_probe_batch_result leaves a torrent in.                    *)
LEMMA ResultIs ==
  ASSUME AppType, Exact, NEW r \in Answers, r.t \in Known(sched)
  PROVE  \E x \in TorrentSched(BatchesOf(r.t)) :
           /\ on_probe_batch_result(sched, r.t, r) = Landed(sched, r.t, x)
           /\ x.probe_epoch = sched.torrents[r.t].probe_epoch /\ x.in_flight = FALSE
<1> DEFINE t == r.t
           B == BatchesOf(t)
           s == [sched.torrents[t] EXCEPT !.in_flight = FALSE]
           found == s.problems \cup r.problems
           verdict == IF found = {} THEN "Available" ELSE "Unavailable"
           pending == [s EXCEPT !.pending_metadata = TRUE, !.next_batch = 0,
                                !.problems = {}, !.due = PendingRetry]
           ended == [s EXCEPT !.pending_metadata = FALSE, !.problems = {},
                              !.next_batch = 0, !.has_completed_probe = TRUE,
                              !.availability = verdict]
           finished == schedule_next_full_probe(t, ended)
           going_on == [s EXCEPT !.pending_metadata = FALSE, !.problems = found,
                                 !.next_batch = r.next, !.due = 0]
<1>1. /\ t \in Torrents /\ sched.torrents[t] \in TorrentSched(B)
      /\ r.next \in B /\ r.problems \in SUBSET B /\ 0 \in B /\ {} \in SUBSET B
  BY AppFacts, Batches, Zenon DEF Answers
<1>2. s \in TorrentSched(B) /\ s.probe_epoch = sched.torrents[t].probe_epoch /\ s.in_flight = FALSE
  <2> DEFINE o == sched.torrents[t]
  <2>1. o \in TorrentSched(B) /\ s = [o EXCEPT !.in_flight = FALSE]
    BY <1>1
  <2> HIDE DEF o, s, B
  <2>2. s \in TorrentSched(B) /\ s.probe_epoch = o.probe_epoch /\ s.in_flight = FALSE
    BY <2>1, Zenon DEF TorrentSched
  <2> QED BY <2>2 DEF o
<1>3. on_probe_batch_result(sched, t, r)
        = Landed(sched, t, IF r.pending THEN pending ELSE IF r.end THEN finished ELSE going_on)
  BY Zenon DEF on_probe_batch_result
<1> HIDE DEF s, B
<1>4. found \in SUBSET B /\ verdict \in Availability
  BY <1>1, <1>2, Zenon DEF TorrentSched, Availability
<1>5. PendingRetry \in Int /\ RecoveryRetry \in Int
  BY SchedulerAssumption
<1>6. pending \in TorrentSched(B) /\ pending.probe_epoch = s.probe_epoch /\ pending.in_flight = FALSE
  <2>1. pending = [s EXCEPT !.pending_metadata = TRUE, !.next_batch = 0,
                            !.problems = {}, !.due = PendingRetry]
    OBVIOUS
  <2> HIDE DEF pending
  <2>2. pending = [probe_epoch |-> s.probe_epoch, next_batch |-> 0, problems |-> {},
                   in_flight |-> s.in_flight, pending_metadata |-> TRUE,
                   availability |-> s.availability,
                   has_completed_probe |-> s.has_completed_probe,
                   is_downloading |-> s.is_downloading, is_active |-> s.is_active,
                   due |-> PendingRetry, age |-> s.age]
    BY <1>2, <2>1, Zenon DEF TorrentSched
  <2> QED BY <1>1, <1>2, <1>5, <2>2 DEF TorrentSched
<1> HIDE DEF found, verdict
<1>7. going_on \in TorrentSched(B) /\ going_on.probe_epoch = s.probe_epoch /\ going_on.in_flight = FALSE
  <2>1. going_on = [s EXCEPT !.pending_metadata = FALSE, !.problems = found,
                             !.next_batch = r.next, !.due = 0]
    OBVIOUS
  <2> HIDE DEF going_on
  <2>2. going_on = [probe_epoch |-> s.probe_epoch, next_batch |-> r.next, problems |-> found,
                    in_flight |-> s.in_flight, pending_metadata |-> FALSE,
                    availability |-> s.availability,
                    has_completed_probe |-> s.has_completed_probe,
                    is_downloading |-> s.is_downloading, is_active |-> s.is_active,
                    due |-> 0, age |-> s.age]
    BY <1>2, <2>1, Zenon DEF TorrentSched
  <2> QED BY <1>1, <1>2, <1>4, <2>2 DEF TorrentSched
<1>8. ended \in TorrentSched(B) /\ ended.probe_epoch = s.probe_epoch /\ ended.in_flight = FALSE
  <2>1. ended = [s EXCEPT !.pending_metadata = FALSE, !.problems = {},
                          !.next_batch = 0, !.has_completed_probe = TRUE,
                          !.availability = verdict]
    OBVIOUS
  <2> HIDE DEF ended
  <2>2. ended = [probe_epoch |-> s.probe_epoch, next_batch |-> 0, problems |-> {},
                 in_flight |-> s.in_flight, pending_metadata |-> FALSE,
                 availability |-> verdict, has_completed_probe |-> TRUE,
                 is_downloading |-> s.is_downloading, is_active |-> s.is_active,
                 due |-> s.due, age |-> s.age]
    BY <1>2, <2>1, Zenon DEF TorrentSched
  <2> QED BY <1>1, <1>2, <1>4, <2>2, Zenon DEF TorrentSched
<1>9. finished \in TorrentSched(B) /\ finished.probe_epoch = s.probe_epoch /\ finished.in_flight = FALSE
  <2> DEFINE w == IF priority_rank(ended) = 0 THEN RecoveryRetry ELSE healthy_retry_interval(t, ended)
  <2>1. finished = [ended EXCEPT !.due = w]
    BY DEF schedule_next_full_probe
  <2>2. w \in Int
    BY <1>5, Retry
  <2> HIDE DEF w, ended, finished
  <2> QED BY <1>8, <2>1, <2>2 DEF TorrentSched
<1> HIDE DEF pending, finished, going_on
<1> QED BY <1>2, <1>3, <1>6, <1>7, <1>9, Zenon DEF B

LEMMA LandedIs ==
  ASSUME AppType, Exact, NEW t \in Known(sched), NEW x \in TorrentSched(BatchesOf(t)),
         NEW S, S = Landed(sched, t, x)
  PROVE  /\ Scheduled(S) /\ Known(S) = Shown /\ S.torrents[t] = x
         /\ \A u \in Shown \ {t} : S.torrents[u] = sched.torrents[u]
<1> DEFINE T == [sched.torrents EXCEPT ![t] = x]
           n == IF sched.torrents[t].in_flight THEN SaturatingSub(sched.in_flight, 1)
                                               ELSE sched.in_flight
<1>1. S = [torrents |-> T, in_flight |-> n]
  BY Zenon DEF Landed
<1>2. /\ DOMAIN T = Known(sched) /\ T[t] = x
      /\ \A u \in Known(sched) : u # t => T[u] = sched.torrents[u]
      /\ T = [u \in Known(sched) |-> T[u]]
  BY DEF AppType, Scheduled, Known
<1> HIDE DEF T, n
<1>3. S.torrents = T /\ S.in_flight = n
  BY <1>1
<1>4. S = [torrents |-> S.torrents, in_flight |-> S.in_flight]
  BY <1>1, <1>3
<1>5. Known(S) = Shown
  BY <1>2, <1>3, AppFacts, Zenon DEF Known
<1>6. \A u \in Shown : T[u] \in TorrentSched(BatchesOf(u))
  BY <1>2, AppFacts, Zenon
<1>7. Scheduled(S)
  BY <1>2, <1>3, <1>4, <1>5, <1>6, AppFacts DEF Scheduled
<1> QED BY <1>2, <1>3, <1>5, <1>7, AppFacts, Zenon

LEMMA ResultStep ==
  ASSUME HealthInv, NEW r, FileProbeBatchResult(r)
  PROVE  (AppType /\ Exact)'
<1>0. /\ AppType /\ Exact /\ r \in answers /\ r \in Answers
      /\ answers' = Mark(answers \ {r}, sched, sched') /\ answers \ {r} \in SUBSET Answers
  BY AppFacts, Zenon DEF HealthInv, FileProbeBatchResult
<1>1. CASE ~Accepts(sched, r.t, r)
  <2>1. dispatch_integrity_probe_batches(sched, display, commands, Open)
    BY <1>1, Zenon DEF FileProbeBatchResult
  <2>2. \A t \in Shown : Linked(t, sched.torrents[t], commands[t], probes, answers \ {r})
    <3> TAKE t \in Shown
    <3>1. ~(r.t = t /\ r.epoch = sched.torrents[t].probe_epoch)
      BY <1>0, <1>1, AppFacts, ZenonT(30) DEF Accepts
    <3>2. Linked(t, sched.torrents[t], commands[t], probes, answers)
      BY <1>0, AppFacts
    <3> QED BY <3>1, <3>2, DropLinked, Zenon
  <2>3. Ready(sched, display, commands, answers \ {r})
    BY <1>0, <2>2, AppFacts, Zenon DEF Ready
  <2> QED BY <1>0, <2>1, <2>3, Dispatch, Zenon
<1>2. CASE Accepts(sched, r.t, r)
  <2> DEFINE S == on_probe_batch_result(sched, r.t, r)
             d == [u \in Shown |-> IF u = r.t THEN ShownAfter(display[u], r) ELSE display[u]]
             c == [commands EXCEPT ![r.t] = Told(@, r)]
  <2>1. dispatch_integrity_probe_batches(S, d, c, Open)
    BY <1>2 DEF FileProbeBatchResult
  <2>2. r.t \in Known(sched) /\ r.t \in Shown /\ r.t \in Torrents
        /\ r.epoch = sched.torrents[r.t].probe_epoch
    BY <1>0, <1>2, AppFacts, Zenon DEF Accepts
  <2>3. PICK x \in TorrentSched(BatchesOf(r.t)) :
          /\ S = Landed(sched, r.t, x)
          /\ x.probe_epoch = sched.torrents[r.t].probe_epoch /\ x.in_flight = FALSE
    BY <1>0, <2>2, ResultIs, ZenonT(30)
  <2> HIDE DEF S
  <2>4. /\ Scheduled(S) /\ Known(S) = Shown /\ S.torrents[r.t] = x
        /\ \A u \in Shown \ {r.t} : S.torrents[u] = sched.torrents[u]
    BY <1>0, <2>2, <2>3, LandedIs
  <2>5. d \in [Shown -> Display]
    <3>1. \A u \in Shown : display[u] \in Display
      BY <1>0, AppFacts
    <3>2. ASSUME NEW z \in Display PROVE ShownAfter(z, r) \in Display
      <4> DEFINE b == z.data_available /\ ~SaysUnavailable(r)
                 p == IF r.pending THEN "PendingMetadata"
                      ELSE IF ~r.end THEN z.probe_status
                      ELSE IF SweepProblems(sched, r.t, r) = {} THEN "Clean"
                      ELSE "Problems"
      <4>1. b \in BOOLEAN /\ p \in {"None", "PendingMetadata", "Clean", "Problems"}
        BY DEF Display
      <4>2. ShownAfter(z, r) = [z EXCEPT !.data_available = b, !.probe_status = p]
        BY Zenon DEF ShownAfter
      <4> HIDE DEF b, p
      <4> QED BY <4>1, <4>2, ZenonT(30) DEF Display
    <3> QED BY <3>1, <3>2, Zenon
  <2> HIDE DEF d
  <2>6. /\ c[r.t] = Told(commands[r.t], r)
        /\ \A u \in Torrents \ {r.t} : c[u] = commands[u]
    BY <1>0, <2>2 DEF AppType
  <2> HIDE DEF c
  <2>7. /\ Linked(r.t, sched.torrents[r.t], commands[r.t], probes, answers)
        /\ commands[r.t] \in Seq(CommandOf(r.t))
        /\ sched.torrents[r.t].in_flight \in BOOLEAN
    BY <1>0, <2>2, AppFacts, Zenon DEF TorrentSched
  <2>8. Linked(r.t, x, commands[r.t], probes, answers \ {r})
    <3>1. PICK t : t = r.t
      OBVIOUS
    <3>2. PICK o : o = sched.torrents[r.t]
      OBVIOUS
    <3>3. Linked(t, o, commands[t], probes, answers) /\ o.in_flight \in BOOLEAN
      BY <2>7, <3>1, <3>2, Zenon
    <3>4. r.t = t /\ r.epoch = o.probe_epoch /\ x.probe_epoch = o.probe_epoch /\ ~x.in_flight
      BY <2>2, <2>3, <3>1, <3>2
    <3>5. r \in answers
      BY <1>0, Zenon
    <3>6. Linked(t, x, commands[t], probes, answers \ {r})
      BY <3>3, <3>4, <3>5, TakeLinked
    <3> QED BY <3>1, <3>6
  <2>9. Linked(r.t, x, c[r.t], probes, answers \ {r}) /\ c[r.t] \in Seq(CommandOf(r.t))
    <3>1. \/ c[r.t] = commands[r.t]
          \/ \E b \in BOOLEAN : c[r.t] = TrySend(commands[r.t], SetDataAvailability(b))
      BY <2>6, ZenonT(30) DEF Told
    <3>2. CASE c[r.t] = commands[r.t]
      BY <2>7, <2>8, <3>2, Zenon
    <3>3. CASE \E b \in BOOLEAN : c[r.t] = TrySend(commands[r.t], SetDataAvailability(b))
      BY <2>7, <2>8, <3>3, TellLinked
    <3> QED BY <3>1, <3>2, <3>3
  <2>10. \A t \in Shown : Linked(t, S.torrents[t], c[t], probes, answers \ {r})
    <3> TAKE t \in Shown
    <3>1. CASE t = r.t
      BY <2>4, <2>9, <3>1, Zenon
    <3>2. CASE t # r.t
      <4>1. Linked(t, sched.torrents[t], commands[t], probes, answers) /\ t \in Torrents
        BY <1>0, AppFacts, Zenon
      <4>2. Linked(t, sched.torrents[t], commands[t], probes, answers \ {r})
        BY <3>2, <4>1, DropLinked, Zenon
      <4> QED BY <2>4, <2>6, <3>2, <4>1, <4>2, Zenon
    <3> QED BY <3>1, <3>2, Zenon
  <2>11. \A t \in Shown : S.torrents[t].in_flight =>
           sched.torrents[t].in_flight /\ S.torrents[t].probe_epoch = sched.torrents[t].probe_epoch
    BY <2>3, <2>4
  <2>12. /\ \A t \in Torrents : c[t] \in Seq(CommandOf(t))
         /\ \A t \in Torrents \ Shown : c[t] = <<>>
    BY <1>0, <2>2, <2>6, <2>9, AppFacts, ZenonT(30)
  <2>13. Ready(S, d, c, answers \ {r})
    <3>1. DOMAIN d = Shown /\ Shown \in SUBSET Torrents /\ Known(sched) = Shown
      BY <1>0, <2>5, AppFacts, ZenonT(30)
    <3> QED BY <1>0, <2>4, <2>5, <2>10, <2>11, <2>12, <3>1, ZenonT(30) DEF Ready
  <2> QED BY <1>0, <2>1, <2>13, Dispatch, Zenon DEF S, d, c
<1> QED BY <1>1, <1>2

LEMMA AddStep ==
  ASSUME QuietReAdd, HealthInv, NEW t \in Torrents, AddTorrent(t)
  PROVE  (AppType /\ Exact)'
<1>0. /\ AppType /\ Exact /\ t \notin Shown /\ answers' = answers
      /\ \A m \in probes \cup answers : m.t # t
  BY Zenon DEF HealthInv, AddTorrent, events
<1> DEFINE d == [u \in Shown \cup {t} |-> IF u = t THEN NewDisplay(t) ELSE display[u]]
           c == [commands EXCEPT ![t] = <<>>]
<1>1. dispatch_integrity_probe_batches(sched, d, c, Open \cup {t})
  BY DEF AddTorrent
<1>2. d \in [Shown \cup {t} -> Display]
  <2>1. \A u \in Shown : display[u] \in Display
    BY <1>0, AppFacts, Zenon
  <2>2. NewDisplay(t) \in Display
    BY DEF NewDisplay, Display
  <2> QED BY <2>1, <2>2, Zenon
<1>3. c[t] = <<>> /\ \A u \in Torrents \ {t} : c[u] = commands[u]
  BY <1>0 DEF AppType
<1> HIDE DEF d, c
<1>4. DOMAIN d = Shown \cup {t}
  BY <1>2, Zenon
<1>5. /\ \A u \in Torrents : c[u] \in Seq(CommandOf(u))
      /\ \A u \in Torrents \ DOMAIN d : c[u] = <<>>
  BY <1>0, <1>3, <1>4, AppFacts, Zenon
<1>6. \A u \in Shown : Linked(u, sched.torrents[u], c[u], probes, answers)
  BY <1>0, <1>3, AppFacts
<1>7. Ready(sched, d, c, answers)
  BY <1>0, <1>2, <1>3, <1>4, <1>5, <1>6, AppFacts, Zenon DEF Ready
<1> QED BY <1>0, <1>1, <1>7, Dispatch, Zenon DEF d, c

LEMMA RemoveStep ==
  ASSUME HealthInv, NEW t \in Torrents, RemoveTorrent(t)
  PROVE  (AppType /\ Exact)'
<1>0. AppType /\ Exact /\ t \in Shown /\ answers' = answers
  BY DEF HealthInv, RemoveTorrent, events
<1> DEFINE S == remove_torrent(sched, t)
           d == [u \in Shown \ {t} |-> display[u]]
           c == [commands EXCEPT ![t] = <<>>]
<1>1. dispatch_integrity_probe_batches(S, d, c, Open \ {t})
  BY Zenon DEF RemoveTorrent
<1>2. d \in [Shown \ {t} -> Display] /\ DOMAIN d = Shown \ {t}
  BY <1>0, AppFacts
<1>3. c[t] = <<>> /\ \A u \in Torrents \ {t} : c[u] = commands[u]
  BY <1>0, Zenon DEF AppType
<1> DEFINE T == [u \in Known(sched) \ {t} |-> sched.torrents[u]]
           n == Cardinality({u \in DOMAIN T : T[u].in_flight})
<1>4. S = [torrents |-> T, in_flight |-> n]
  BY DEF remove_torrent
<1>5. DOMAIN T = Shown \ {t} /\ (\A u \in Shown \ {t} : T[u] = sched.torrents[u])
      /\ T = [u \in Shown \ {t} |-> T[u]]
  BY <1>0, AppFacts, Zenon
<1> HIDE DEF S, T, n, d, c
<1>6. S.torrents = T /\ S = [torrents |-> S.torrents, in_flight |-> S.in_flight]
  BY <1>4
<1>7. Known(S) = Shown \ {t}
  BY <1>5, <1>6, Zenon DEF Known
<1>8. Scheduled(S)
  BY <1>0, <1>5, <1>6, <1>7, AppFacts, Zenon DEF Scheduled
<1>9. /\ \A u \in Torrents : c[u] \in Seq(CommandOf(u))
      /\ \A u \in Torrents \ DOMAIN d : c[u] = <<>>
  <2>1. /\ \A u \in Torrents : commands[u] \in Seq(CommandOf(u))
        /\ \A u \in Torrents \ Shown : commands[u] = <<>>
    BY <1>0, AppFacts
  <2>2. <<>> \in Seq(CommandOf(t))
    OBVIOUS
  <2>3. \A u \in Torrents : c[u] \in Seq(CommandOf(u))
    <3> TAKE u \in Torrents
    <3>1. CASE u = t
      BY <1>3, <2>2, <3>1, Zenon
    <3>2. CASE u # t
      BY <1>3, <2>1, <3>2, Zenon
    <3> QED BY <3>1, <3>2
  <2>4. \A u \in Torrents \ DOMAIN d : c[u] = <<>>
    BY <1>2, <1>3, <2>1, Zenon
  <2> QED BY <2>3, <2>4, Zenon
<1>10. \A u \in Shown \ {t} : Linked(u, S.torrents[u], c[u], probes, answers)
  BY <1>0, <1>3, <1>5, <1>6, AppFacts, Zenon
<1>11. \A u \in Shown \ {t} : S.torrents[u] = sched.torrents[u]
  BY <1>5, <1>6
<1>12. Ready(S, d, c, answers)
  BY <1>0, <1>2, <1>7, <1>8, <1>9, <1>10, <1>11, AppFacts, ZenonT(30) DEF Ready
<1> QED BY <1>0, <1>1, <1>12, Dispatch, Zenon DEF S, d, c

-----------------------------------------------------------------------------
(* The managers' steps.                                                    *)

(* A manager takes the first command of its channel.                       *)
LEMMA TailLinked ==
  ASSUME NEW t, NEW s, NEW q, NEW P, NEW A, NEW k, NEW P2, NEW X, Linked(t, s, q, P, A),
         TaskFor(k, t, Head(q)), Started(P2, P, Head(q), k),
         q \in Seq(X), q # <<>>, s.in_flight \in BOOLEAN
  PROVE  Linked(t, s, Tail(q), P2, A)
<1> DEFINE e == s.probe_epoch
<1>0. /\ k.t = t /\ k.epoch = Head(q).epoch /\ k.start = Head(q).start /\ k.stale = Head(q).stale
      /\ P2 = IF Head(q).probe THEN P \cup {k} ELSE P
  BY Zenon DEF TaskFor, Started
<1>1. /\ 1 \in DOMAIN q /\ Head(q) = q[1]
      /\ \A i \in DOMAIN Tail(q) : i \in Nat /\ i + 1 \in DOMAIN q /\ Tail(q)[i] = q[i + 1]
      /\ \A j \in DOMAIN q : j # 1 => j - 1 \in DOMAIN Tail(q) /\ Tail(q)[j - 1] = q[j] /\ j \in Nat
  OBVIOUS
<1>2. \A i \in DOMAIN Tail(q) : Tail(q)[i].probe => Follows(Tail(q)[i], s)
  BY <1>1, Zenon DEF Linked
<1>3. \A x \in P2 \cup A : x.t = t => Follows(x, s)
  <2>1. Head(q).probe => Follows(Head(q), s)
    BY <1>1, Zenon DEF Linked
  <2>2. Head(q).probe => Follows(k, s)
    BY <1>0, <2>1, Zenon DEF Follows
  <2> QED BY <1>0, <2>2, Zenon DEF Linked
<1>4. \A i : i \in CommandsAt(Tail(q), e) => i + 1 \in CommandsAt(q, e) /\ i \in Nat /\ i + 1 # 1
  <2>1. \A i : i \in CommandsAt(Tail(q), e) => i + 1 \in CommandsAt(q, e) /\ i \in Nat
    BY <1>1, ZenonT(30) DEF CommandsAt
  <2>2. \A i \in Nat : i + 1 = 1 => i = 0
    OBVIOUS
  <2>3. 0 \notin DOMAIN Tail(q)
    OBVIOUS
  <2> QED BY <2>1, <2>2, <2>3, ZenonT(30) DEF CommandsAt
<1>5. \A j : j \in CommandsAt(q, e) /\ j # 1 => j - 1 \in CommandsAt(Tail(q), e)
  BY <1>1, ZenonT(30) DEF CommandsAt
<1>6. CASE Head(q).probe /\ Head(q).epoch = e
  <2>1. 1 \in CommandsAt(q, e)
    BY <1>1, <1>6, ZenonT(30) DEF CommandsAt
  <2>2. s.in_flight /\ CommandsAt(q, e) = {1} /\ TasksAt(P, t, e) = {} /\ TasksAt(A, t, e) = {}
    BY <2>1, ZenonT(30) DEF Linked, OneOut, NoneOut
  <2>3. CommandsAt(Tail(q), e) = {}
    BY <1>4, <2>2, ZenonT(30)
  <2>4. TasksAt(P2, t, e) = {k}
    BY <1>0, <1>6, <2>2, ZenonT(30) DEF TasksAt
  <2> QED BY <1>2, <1>3, <2>2, <2>3, <2>4, Zenon DEF Linked, OneOut
<1>7. CASE ~(Head(q).probe /\ Head(q).epoch = e)
  <2>1. 1 \notin CommandsAt(q, e) /\ CommandsAt(q, e) \in SUBSET Nat
    BY <1>1, <1>7, ZenonT(30) DEF CommandsAt
  <2>2. TasksAt(P2, t, e) = TasksAt(P, t, e)
    BY <1>0, <1>7, Zenon DEF TasksAt
  <2>3. CommandsAt(q, e) = {} => CommandsAt(Tail(q), e) = {}
    BY <1>4
  <2>4. ASSUME NEW x, CommandsAt(q, e) = {x} PROVE \E y : CommandsAt(Tail(q), e) = {y}
    <3>1. x \in Nat /\ x # 1 /\ x - 1 \in CommandsAt(Tail(q), e)
      BY <1>5, <2>1, <2>4, Zenon
    <3>2. \A i : i \in CommandsAt(Tail(q), e) => i \in Nat /\ i + 1 = x
      BY <1>4, <2>4, Zenon
    <3>3. \A i \in Nat : i + 1 = x => i = x - 1
      BY <3>1
    <3>4. \A i : i \in CommandsAt(Tail(q), e) => i = x - 1
      BY <3>2, <3>3, Zenon
    <3> QED BY <3>1, <3>4, Zenon
  <2> QED BY <1>2, <1>3, <2>2, <2>3, <2>4, ZenonT(30) DEF Linked, OneOut, NoneOut
<1> QED BY <1>6, <1>7, Zenon

LEMMA OtherLinked ==
  ASSUME NEW t, NEW s, NEW q, NEW P, NEW A, Linked(t, s, q, P, A), NEW m, m.t # t
  PROVE  Linked(t, s, q, P \cup {m}, A)
<1>1. TasksAt(P \cup {m}, t, s.probe_epoch) = TasksAt(P, t, s.probe_epoch)
  BY Zenon DEF TasksAt
<1> QED BY <1>1 DEF Linked

(* A probe task ends with its answer.                                      *)
LEMMA AnsweredLinked ==
  ASSUME NEW t, NEW s, NEW q, NEW P, NEW A, NEW m, NEW a, Linked(t, s, q, P, A),
         m \in P, TaskFor(a, m.t, m), s.in_flight \in BOOLEAN
  PROVE  Linked(t, s, q, P \ {m}, A \cup {a})
<1> DEFINE e == s.probe_epoch
<1>0. a.t = m.t /\ a.epoch = m.epoch /\ a.start = m.start /\ a.stale = m.stale
  BY Zenon DEF TaskFor
<1>1. \A x \in (P \ {m}) \cup (A \cup {a}) : x.t = t => Follows(x, s)
  <2>1. a.t = t => Follows(m, s)
    BY <1>0, Zenon DEF Linked
  <2>2. a.t = t => Follows(a, s)
    BY <1>0, <2>1, Zenon DEF Follows
  <2> QED BY <2>2, Zenon DEF Linked
<1>2. CASE m.t = t /\ m.epoch = e
  <2>1. m \in TasksAt(P, t, e)
    BY <1>2 DEF TasksAt
  <2>2. /\ s.in_flight /\ CommandsAt(q, e) = {} /\ TasksAt(A, t, e) = {}
        /\ TasksAt(P, t, e) = {m}
    BY <2>1, Zenon DEF Linked, OneOut, NoneOut
  <2>3. TasksAt(P \ {m}, t, e) = {} /\ TasksAt(A \cup {a}, t, e) = {a}
    BY <1>0, <1>2, <2>2, Zenon DEF TasksAt
  <2> QED BY <1>1, <2>2, <2>3, Zenon DEF Linked, OneOut
<1>3. CASE ~(m.t = t /\ m.epoch = e)
  <2>1. TasksAt(P \ {m}, t, e) = TasksAt(P, t, e) /\ TasksAt(A \cup {a}, t, e) = TasksAt(A, t, e)
    BY <1>0, <1>3, Zenon DEF TasksAt
  <2> QED BY <1>1, <2>1, Zenon DEF Linked
<1> QED BY <1>2, <1>3, Zenon

LEMMA CommandStep ==
  ASSUME HealthInv, NEW t \in Torrents, TakeCommand(t)
  PROVE  (AppType /\ Exact)'
<1> DEFINE c == Head(commands[t])
           m == [t |-> t, epoch |-> c.epoch, start |-> c.start,
                 metadata |-> manager[t].metadata, stale |-> c.stale]
<1>0. /\ AppType /\ Exact /\ RestType /\ sched' = sched /\ display' = display /\ answers' = answers
      /\ commands[t] # <<>>
      /\ commands' = [commands EXCEPT ![t] = Tail(@)]
      /\ probes' = IF c.probe THEN probes \cup {m} ELSE probes
  BY DEF HealthInv, TakeCommand, app, events
<1>1. commands[t] \in Seq(CommandOf(t)) /\ t \in Shown
  BY <1>0, AppFacts, Zenon
<1>2. /\ c \in CommandOf(t) /\ Tail(commands[t]) \in Seq(CommandOf(t))
      /\ commands'[t] = Tail(commands[t])
      /\ \A u \in Torrents \ {t} : commands'[u] = commands[u]
      /\ commands' = [u \in Torrents |-> commands'[u]]
  <2>1. c \in CommandOf(t) /\ Tail(commands[t]) \in Seq(CommandOf(t))
    <3>1. PICK q \in Seq(CommandOf(t)) : q = commands[t]
      BY <1>1, Zenon
    <3>2. Head(q) \in CommandOf(t) /\ Tail(q) \in Seq(CommandOf(t))
      BY <1>0, <3>1
    <3> QED BY <3>1, <3>2
  <2>2. DOMAIN commands = Torrents
    BY <1>0, Zenon DEF AppType
  <2> QED BY <1>0, <2>1, <2>2, Zenon
<1>3. c.probe => m \in Tasks
  <2>1. manager[t].metadata \in BOOLEAN
    BY <1>0, Zenon DEF RestType, Manager
  <2>2. SUFFICES ASSUME c.probe PROVE m \in Tasks
    OBVIOUS
  <2>3. c.epoch \in Nat /\ c.start \in BatchesOf(t) /\ c.stale \in BOOLEAN
    BY <1>2, <2>2, ZenonT(30) DEF CommandOf
  <2>4. c.start \in AllBatches
    BY <2>3, Batches
  <2> HIDE DEF c
  <2> QED BY <2>1, <2>3, <2>4, Zenon DEF Tasks, Request
<1>4. probes' \in SUBSET Tasks
  BY <1>0, <1>3, AppFacts, Zenon
<1>5. /\ m.t = t /\ m.epoch = c.epoch /\ m.start = c.start /\ m.stale = c.stale
  OBVIOUS
<1> HIDE DEF m
<1>6. \A u \in Shown : Linked(u, sched.torrents[u], commands'[u], probes', answers)
  <2> TAKE u \in Shown
  <2>1. /\ Linked(u, sched.torrents[u], commands[u], probes, answers)
        /\ sched.torrents[u].in_flight \in BOOLEAN /\ u \in Torrents
    BY <1>0, AppFacts, Zenon DEF TorrentSched
  <2>2. CASE u = t
    <3>1. PICK s : s = sched.torrents[u]
      OBVIOUS
    <3>2. PICK q \in Seq(CommandOf(t)) : q = commands[t]
      BY <1>1, Zenon
    <3>3. Linked(t, s, q, probes, answers) /\ s.in_flight \in BOOLEAN /\ q # <<>>
      BY <1>0, <2>1, <2>2, <3>1, <3>2, Zenon
    <3>4. TaskFor(m, t, Head(q)) /\ Started(probes', probes, Head(q), m)
      BY <1>0, <1>5, <3>2, Zenon DEF TaskFor, Started
    <3>5. Linked(t, s, Tail(q), probes', answers)
      BY <3>3, <3>4, TailLinked, Zenon
    <3> QED BY <1>2, <2>2, <3>1, <3>2, <3>5, Zenon
  <2>3. CASE u # t
    <3>1. commands'[u] = commands[u] /\ m.t # u
      BY <1>2, <1>5, <2>1, <2>3, Zenon
    <3>2. Linked(u, sched.torrents[u], commands[u], probes \cup {m}, answers)
      BY <2>1, <3>1, OtherLinked, Zenon
    <3> QED BY <1>0, <2>1, <3>1, <3>2, Zenon
  <2> QED BY <2>2, <2>3, Zenon
<1>7. Shown' = Shown
  BY <1>0, Zenon DEF Shown
<1>8. \A u \in Torrents : commands'[u] \in Seq(CommandOf(u))
  BY <1>0, <1>2, AppFacts, Zenon
<1>9. commands' \in [Torrents -> Seq(UNION {CommandOf(u) : u \in Torrents})]
  <2>1. \A u \in Torrents : commands'[u] \in Seq(UNION {CommandOf(v) : v \in Torrents})
    <3> TAKE u \in Torrents
    <3>1. commands'[u] \in Seq(CommandOf(u))
      BY <1>8
    <3>2. CommandOf(u) \in SUBSET (UNION {CommandOf(v) : v \in Torrents})
      OBVIOUS
    <3> HIDE DEF c
    <3> QED BY <3>1, <3>2
  <2> QED BY <1>2, <2>1
<1>10. \A u \in Torrents \ Shown : commands'[u] = <<>>
  BY <1>0, <1>1, <1>2, AppFacts, Zenon
<1>11. AppType'
  BY <1>0, <1>4, <1>7, <1>8, <1>9, <1>10, Zenon DEF AppType, Scheduled, Known
<1>12. Exact'
  BY <1>0, <1>6, <1>7, ZenonT(30) DEF Exact, InFlight, Known
<1> QED BY <1>11, <1>12

LEMMA AnswerOf ==
  ASSUME NEW q \in Tasks, RestType
  PROVE  /\ ProbeAnswer(q) \in Answers
         /\ ProbeAnswer(q).t = q.t /\ ProbeAnswer(q).epoch = q.epoch
         /\ ProbeAnswer(q).start = q.start /\ ProbeAnswer(q).stale = q.stale
<1> DEFINE past == q.start > LastBatch[q.t]
           end == past \/ q.start = LastBatch[q.t]
           pending == ~q.metadata
           over == q.metadata /\ end
           next == IF ~q.metadata \/ end THEN 0 ELSE q.start + 1
           found == IF ~q.metadata \/ past THEN {} ELSE broken[q.t] \cap {q.start}
<1>1. ProbeAnswer(q) = [t |-> q.t, epoch |-> q.epoch, start |-> q.start, pending |-> pending,
                        end |-> over, next |-> next, problems |-> found, stale |-> q.stale]
  BY Zenon DEF ProbeAnswer
<1>2. /\ q.t \in Torrents /\ q.epoch \in Nat /\ q.start \in BatchesOf(q.t)
      /\ q.start \in AllBatches /\ q.stale \in BOOLEAN
      /\ pending \in BOOLEAN /\ over \in BOOLEAN
  BY Zenon DEF Tasks, Request
<1>3. next \in BatchesOf(q.t)
  BY <1>2, HealthAssumption DEF BatchesOf
<1>4. found \in SUBSET BatchesOf(q.t)
  BY <1>2, Zenon DEF RestType
<1>5. next \in AllBatches /\ found \in SUBSET AllBatches
  BY <1>2, <1>3, <1>4, Batches
<1> HIDE DEF pending, over, next, found
<1>6. PICK a : a = ProbeAnswer(q)
  BY Zenon
<1>7. /\ a.t = q.t /\ a.epoch = q.epoch /\ a.start = q.start /\ a.next = next
      /\ a.problems = found /\ a.stale = q.stale
  BY <1>1, <1>6
<1>8. a \in Answer
  BY <1>1, <1>2, <1>5, <1>6 DEF Answer
<1>9. a \in Answers
  BY <1>2, <1>3, <1>4, <1>7, <1>8, Zenon DEF Answers
<1> QED BY <1>6, <1>7, <1>9, Zenon

LEMMA BatchStep ==
  ASSUME HealthInv, NEW q, ProbeBatch(q)
  PROVE  (AppType /\ Exact)'
<1>0. /\ AppType /\ Exact /\ RestType /\ sched' = sched /\ display' = display
      /\ commands' = commands /\ q \in probes /\ q \in Tasks
      /\ probes' = probes \ {q} /\ answers' = answers \cup {ProbeAnswer(q)}
  BY Zenon DEF HealthInv, ProbeBatch, app, channels, AppType
<1>1. PICK a \in Answers : a = ProbeAnswer(q) /\ TaskFor(a, q.t, q)
  BY <1>0, AnswerOf, Zenon DEF TaskFor
<1>2. Shown' = Shown
  BY <1>0, Zenon DEF Shown
<1>3. \A u \in Shown : Linked(u, sched.torrents[u], commands[u], probes', answers')
  <2> TAKE u \in Shown
  <2>1. PICK s : s = sched.torrents[u]
    OBVIOUS
  <2>2. Linked(u, s, commands[u], probes, answers) /\ s.in_flight \in BOOLEAN
    BY <1>0, <2>1, AppFacts, ZenonT(30) DEF TorrentSched
  <2>3. Linked(u, s, commands[u], probes \ {q}, answers \cup {a})
    <3>1. q \in probes /\ TaskFor(a, q.t, q)
      BY <1>0, <1>1, Zenon
    <3> QED BY <2>2, <3>1, AnsweredLinked, Zenon
  <2> QED BY <1>0, <1>1, <2>1, <2>3, Zenon
<1>4. probes' \in SUBSET Tasks /\ answers' \in SUBSET Answers
  BY <1>0, <1>1, AppFacts, Zenon
<1>5. AppType'
  BY <1>0, <1>2, <1>4 DEF AppType, Scheduled, Known
<1>6. Exact'
  BY <1>0, <1>2, <1>3, Zenon DEF Exact, InFlight, Known
<1> QED BY <1>5, <1>6, Zenon

LEMMA MetricsStep ==
  ASSUME HealthInv, DrainMetrics
  PROVE  (AppType /\ Exact)'
<1>0. /\ AppType /\ Exact /\ RestType /\ sched' = sched
      /\ commands' = commands /\ probes' = probes /\ answers' = answers
      /\ display' = [t \in Shown |->
           IF metrics[t] = {} THEN display[t]
           ELSE on_metrics(display[t], CHOOSE m \in metrics[t] : TRUE)]
  BY Zenon DEF HealthInv, DrainMetrics, events
<1>1. ASSUME NEW d \in Display, NEW m \in Metrics PROVE on_metrics(d, m) \in Display
  BY Zenon DEF on_metrics, Display, Metrics
<1>2. \A t \in Shown : display'[t] \in Display
  <2> TAKE t \in Shown
  <2>1. display[t] \in Display /\ metrics[t] \in Optional(Metrics)
    BY <1>0, AppFacts, Zenon DEF RestType
  <2>2. metrics[t] # {} => (CHOOSE m \in metrics[t] : TRUE) \in Metrics
    BY <2>1 DEF Optional
  <2> QED BY <1>0, <1>1, <2>1, <2>2
<1>3. Shown' = Shown /\ display' \in [Shown -> Display]
  BY <1>0, <1>2, Zenon DEF Shown
<1>4. AppType'
  BY <1>0, <1>3 DEF AppType, Scheduled, Known
<1>5. Exact'
  BY <1>0, <1>3, Zenon DEF Exact, InFlight, Known
<1> QED BY <1>4, <1>5

LEMMA SameStep ==
  ASSUME HealthInv, UNCHANGED <<sched, display, commands, probes, answers>>
  PROVE  (AppType /\ Exact)'
<1>1. Shown' = Shown
  BY DEF Shown
<1> QED BY <1>1, Zenon DEF HealthInv, AppType, Exact, Scheduled, Known, InFlight

-----------------------------------------------------------------------------
(* What the application does not keep: the managers, their channels, the   *)
(* disk.                                                                   *)

LEMMA ManagerSet ==
  ASSUME NEW x \in Manager
  PROVE  /\ \A b \in BOOLEAN : /\ [x EXCEPT !.data_available = b] \in Manager
                               /\ [x EXCEPT !.data_available = b].metadata = x.metadata
         /\ [x EXCEPT !.metadata = TRUE] \in Manager /\ [x EXCEPT !.metadata = TRUE].metadata
         /\ [x EXCEPT !.complete = TRUE] \in Manager
         /\ [x EXCEPT !.complete = TRUE].metadata = x.metadata
         /\ \A m \in Metrics : /\ [x EXCEPT !.last_sent = {m}] \in Manager
                               /\ [x EXCEPT !.last_sent = {m}].metadata = x.metadata
<1>1. \A m \in Metrics : {m} \in Optional(Metrics)
  BY DEF Optional
<1> QED BY <1>1, Zenon DEF Manager

LEMMA NewManagers ==
  ASSUME NEW t \in Torrents
  PROVE  /\ NewManager(t) \in Manager /\ NoManager(t) \in Manager
         /\ NewManager(t).metadata \/ t \in Magnets
         /\ NoManager(t).metadata \/ t \in Magnets
<1>1. {} \in Optional(Metrics)
  BY Zenon DEF Optional
<1>2. NewManager(t) \in Manager /\ NewManager(t).metadata = (t \notin Magnets)
  <2>1. (t \in Finished \ Magnets) \in BOOLEAN /\ (t \notin Magnets) \in BOOLEAN
    OBVIOUS
  <2> QED BY <1>1, <2>1, Zenon DEF NewManager, Manager
<1>3. NoManager(t) = [NewManager(t) EXCEPT !.running = FALSE]
  BY Zenon DEF NoManager
<1>4. NoManager(t) \in Manager /\ NoManager(t).metadata = NewManager(t).metadata
  BY <1>2, <1>3, Zenon DEF Manager
<1> QED BY <1>2, <1>4, Zenon

(* The managers after a step that changes one of them.                     *)
LEMMA ManagersAfter ==
  ASSUME RestType, NEW t \in Torrents, NEW x \in Manager, x.metadata \/ t \in Magnets,
         manager' = [manager EXCEPT ![t] = x]
  PROVE  /\ manager' \in [Torrents -> Manager]
         /\ \A u \in Torrents : manager'[u].metadata \/ u \in Magnets
<1>1. /\ manager' \in [Torrents -> Manager] /\ manager'[t] = x
      /\ \A u \in Torrents \ {t} : manager'[u] = manager[u]
  BY DEF RestType
<1> QED BY <1>1 DEF RestType

LEMMA FaultTyped ==
  ASSUME RestType, NEW kind, Fault(kind)
  PROVE  faults' \in 0 .. MaxFaults
  BY HealthAssumption DEF RestType, Fault

LEMMA RestManagers ==
  ASSUME HealthInv, NEW t \in Torrents, ManagerStep(t)
  PROVE  RestType'
<1>0. RestType /\ AppType /\ Exact /\ manager[t] \in Manager
      /\ (manager[t].metadata \/ t \in Magnets)
  BY DEF HealthInv, RestType
<1>1. CASE TakeCommand(t)
  <2> DEFINE c == Head(commands[t])
  <2>1. UNCHANGED <<metrics, reported, loaded, late_uploads, broken, faults>>
    BY <1>1 DEF TakeCommand, events
  <2>2. \/ manager' = manager
        \/ ~c.probe /\ manager' = [manager EXCEPT ![t].data_available = c.available]
    BY <1>1 DEF TakeCommand
  <2>3. c \in CommandOf(t)
    <3>1. PICK q \in Seq(CommandOf(t)) : q = commands[t]
      BY <1>0, AppFacts
    <3>2. q # <<>>
      BY <1>1, <3>1 DEF TakeCommand
    <3>3. Head(q) \in CommandOf(t)
      BY <3>2
    <3> QED BY <3>1, <3>3, Zenon
  <2>4. CASE manager' = manager
    BY <1>0, <2>1, <2>4, Zenon DEF RestType
  <2>5. CASE ~c.probe /\ manager' = [manager EXCEPT ![t].data_available = c.available]
    <3>1. c.available \in BOOLEAN
      BY <2>3, <2>5, Zenon DEF CommandOf
    <3> DEFINE x == [manager[t] EXCEPT !.data_available = c.available]
    <3>2. x \in Manager /\ x.metadata = manager[t].metadata /\ manager' = [manager EXCEPT ![t] = x]
      BY <1>0, <2>5, <3>1, ManagerSet, Zenon
    <3> HIDE DEF x
    <3>3. /\ manager' \in [Torrents -> Manager]
          /\ \A u \in Torrents : manager'[u].metadata \/ u \in Magnets
      BY <1>0, <3>2, ManagersAfter, Zenon
    <3> QED BY <1>0, <2>1, <3>3 DEF RestType
  <2> QED BY <2>2, <2>4, <2>5
<1>2. CASE EmitMetrics(t)
  <2>1. PICK a \in ActiveValues :
          LET m == [available |-> manager[t].data_available,
                    complete |-> manager[t].complete, active |-> a]
          IN metrics' = [metrics EXCEPT ![t] = {m}] /\ manager' = [manager EXCEPT ![t].last_sent = {m}]
    BY <1>2, Zenon DEF EmitMetrics
  <2> DEFINE m == [available |-> manager[t].data_available,
                   complete |-> manager[t].complete, active |-> a]
             x == [manager[t] EXCEPT !.last_sent = {m}]
  <2>2. m \in Metrics
    <3>1. a \in BOOLEAN
      BY HealthAssumption
    <3> QED BY <1>0, <3>1 DEF Metrics, Manager
  <2>3. metrics' = [metrics EXCEPT ![t] = {m}] /\ manager' = [manager EXCEPT ![t] = x]
    BY <2>1
  <2> HIDE DEF m
  <2>4. x \in Manager /\ x.metadata = manager[t].metadata
    BY <1>0, <2>2, ManagerSet, Zenon
  <2> HIDE DEF x
  <2>5. /\ manager' \in [Torrents -> Manager]
        /\ \A u \in Torrents : manager'[u].metadata \/ u \in Magnets
    BY <1>0, <2>3, <2>4, ManagersAfter, Zenon
  <2>6. {m} \in Optional(Metrics)
    BY <2>2, Zenon DEF Optional
  <2>7. metrics' \in [Torrents -> Optional(Metrics)]
    BY <1>0, <2>3, <2>6 DEF RestType
  <2>8. UNCHANGED <<reported, loaded, late_uploads, broken, faults>>
    BY <1>2 DEF EmitMetrics, events
  <2> QED BY <1>0, <2>5, <2>7, <2>8 DEF RestType
<1>3. CASE UploadReports(t)
  <2>1. /\ UNCHANGED <<metrics, reported, loaded, broken, faults>>
        /\ late_uploads' \in SUBSET Torrents
        /\ \/ manager' = manager
           \/ manager' = [manager EXCEPT ![t].data_available = FALSE]
    BY <1>0, <1>3 DEF UploadReports, channels, events, RestType
  <2>2. CASE manager' = manager
    BY <1>0, <2>1, <2>2 DEF RestType
  <2>3. CASE manager' = [manager EXCEPT ![t].data_available = FALSE]
    <3> DEFINE x == [manager[t] EXCEPT !.data_available = FALSE]
    <3>1. x \in Manager /\ x.metadata = manager[t].metadata /\ manager' = [manager EXCEPT ![t] = x]
      BY <1>0, <2>3, ManagerSet, Zenon
    <3> HIDE DEF x
    <3>2. /\ manager' \in [Torrents -> Manager]
          /\ \A u \in Torrents : manager'[u].metadata \/ u \in Magnets
      BY <1>0, <3>1, ManagersAfter, Zenon
    <3> QED BY <1>0, <2>1, <3>2 DEF RestType
  <2> QED BY <2>1, <2>2, <2>3
<1>4. CASE \E q \in probes : q.t = t /\ ProbeBatch(q)
  BY <1>0, <1>4 DEF ProbeBatch, channels, RestType
<1> QED BY <1>1, <1>2, <1>3, <1>4, Zenon DEF ManagerStep

LEMMA RestUser ==
  ASSUME HealthInv, NEW t \in Torrents, UserStep(t)
  PROVE  RestType'
<1>0. RestType /\ manager[t] \in Manager /\ (manager[t].metadata \/ t \in Magnets)
  BY DEF HealthInv, RestType
<1>1. {} \in Optional(Metrics)
  BY Zenon DEF Optional
<1>2. CASE AddTorrent(t)
  <2>1. /\ manager' = [manager EXCEPT ![t] = NewManager(t)] /\ metrics' = [metrics EXCEPT ![t] = {}]
        /\ UNCHANGED <<reported, loaded, late_uploads, broken, faults>>
    BY <1>2 DEF AddTorrent, events
  <2>2. /\ manager' \in [Torrents -> Manager]
        /\ \A u \in Torrents : manager'[u].metadata \/ u \in Magnets
    BY <1>0, <2>1, NewManagers, ManagersAfter, Zenon
  <2> QED BY <1>0, <1>1, <2>1, <2>2, Zenon DEF RestType
<1>3. CASE RemoveTorrent(t)
  <2>1. /\ manager' = [manager EXCEPT ![t] = NoManager(t)] /\ metrics' = [metrics EXCEPT ![t] = {}]
        /\ UNCHANGED <<reported, loaded, broken>> /\ late_uploads' = late_uploads \ {t}
        /\ Fault("remove")
    BY <1>3 DEF RemoveTorrent, events
  <2>2. /\ manager' \in [Torrents -> Manager]
        /\ \A u \in Torrents : manager'[u].metadata \/ u \in Magnets
    BY <1>0, <2>1, NewManagers, ManagersAfter, Zenon
  <2>3. faults' \in 0 .. MaxFaults
    BY <1>0, <2>1, FaultTyped, Zenon
  <2> QED BY <1>0, <1>1, <2>1, <2>2, <2>3, Zenon DEF RestType
<1>4. CASE ReceiveMetadata(t)
  <2> DEFINE x == [manager[t] EXCEPT !.metadata = TRUE]
  <2>1. /\ manager' = [manager EXCEPT ![t] = x] /\ loaded' = loaded \cup {t} /\ t \in Magnets
        /\ UNCHANGED <<metrics, reported, late_uploads, broken, faults>>
    BY <1>0, <1>4 DEF ReceiveMetadata, channels
  <2>2. x \in Manager
    BY <1>0, ManagerSet, Zenon
  <2> HIDE DEF x
  <2>3. /\ manager' \in [Torrents -> Manager]
        /\ \A u \in Torrents : manager'[u].metadata \/ u \in Magnets
    BY <1>0, <2>1, <2>2, ManagersAfter, Zenon
  <2> QED BY <1>0, <2>1, <2>3 DEF RestType
<1>5. CASE Complete(t)
  <2> DEFINE x == [manager[t] EXCEPT !.complete = TRUE]
  <2>1. /\ manager' = [manager EXCEPT ![t] = x]
        /\ UNCHANGED <<metrics, reported, loaded, late_uploads, broken, faults>>
    BY <1>5 DEF Complete, channels, events
  <2>2. x \in Manager /\ x.metadata = manager[t].metadata
    BY <1>0, ManagerSet, Zenon
  <2> HIDE DEF x
  <2>3. /\ manager' \in [Torrents -> Manager]
        /\ \A u \in Torrents : manager'[u].metadata \/ u \in Magnets
    BY <1>0, <2>1, <2>2, ManagersAfter, ZenonT(30)
  <2> QED BY <1>0, <2>1, <2>3 DEF RestType
<1>6. CASE ReadFails(t)
  <2>1. /\ UNCHANGED <<manager, metrics, loaded, broken>>
        /\ late_uploads' = late_uploads \cup {t} /\ reported' \in {reported, reported \cup {t}}
        /\ (Fault("read") \/ Fault("read_lost"))
    BY <1>6, Zenon DEF ReadFails, channels
  <2>2. faults' \in 0 .. MaxFaults
    BY <1>0, <2>1, FaultTyped, Zenon
  <2> QED BY <1>0, <2>1, <2>2 DEF RestType
<1>7. CASE Restore(t)
  <2>1. /\ broken' = [broken EXCEPT ![t] = {}]
        /\ UNCHANGED <<manager, metrics, reported, loaded, late_uploads, faults>>
    BY <1>7, Zenon DEF Restore, channels, events
  <2> QED BY <1>0, <2>1 DEF RestType
<1>8. CASE \E b \in BatchesOf(t) \cap Breakable[t] : Break(t, b)
  <2>1. PICK b \in BatchesOf(t) : Break(t, b)
    BY <1>8, Zenon
  <2>2. /\ broken' = [broken EXCEPT ![t] = @ \cup {b}] /\ b \in AllBatches
        /\ UNCHANGED <<manager, metrics, reported, loaded, late_uploads, faults>>
    BY <2>1, Batches DEF Break, channels, events
  <2> QED BY <1>0, <2>2, Zenon DEF RestType
<1> QED BY <1>2, <1>3, <1>4, <1>5, <1>6, <1>7, <1>8, Zenon DEF UserStep

LEMMA RestNext ==
  ASSUME HealthInv, Next
  PROVE  RestType'
<1>0. RestType
  BY Zenon DEF HealthInv
<1>1. CASE Tick
  <2>1. /\ UNCHANGED <<manager, metrics, reported, loaded, late_uploads, broken>>
        /\ (Fault("timeout") \/ faults' = faults)
    BY <1>1, Zenon DEF Tick
  <2>2. faults' \in 0 .. MaxFaults
    BY <1>0, <2>1, FaultTyped, Zenon DEF RestType
  <2> QED BY <1>0, <2>1, <2>2, Zenon DEF RestType
<1>2. CASE DrainMetrics
  <2>1. {} \in Optional(Metrics)
    BY DEF Optional
  <2> QED BY <1>0, <1>2, <2>1 DEF DrainMetrics, RestType, events
<1>3. ASSUME NEW t \in Torrents, AppStep(t) PROVE RestType'
  <2>1. CASE DataAvailabilityFault(t)
    BY <1>0, <2>1, Zenon DEF DataAvailabilityFault, RestType
  <2>2. CASE MetadataLoaded(t)
    BY <1>0, <2>2, Zenon DEF MetadataLoaded, RestType
  <2>3. CASE \E r \in answers : r.t = t /\ FileProbeBatchResult(r)
    BY <1>0, <2>3 DEF FileProbeBatchResult, RestType
  <2> QED BY <1>3, <2>1, <2>2, <2>3 DEF AppStep
<1> QED BY <1>1, <1>2, <1>3, RestManagers, RestUser DEF Next

-----------------------------------------------------------------------------
(* The invariant.                                                          *)

LEMMA HealthInit ==
  ASSUME Init
  PROVE  HealthInv
<1>1. Known(sched) = {} /\ Shown = {} /\ sched.in_flight = 0
  BY DEF Init, EmptyScheduler, Known, Shown
<1>2. Scheduled(sched) /\ display \in [Shown -> Display]
  BY <1>1 DEF Init, EmptyScheduler, Scheduled, Known, Shown
<1>3. /\ commands \in [Torrents -> Seq(UNION {CommandOf(t) : t \in Torrents})]
      /\ \A t \in Torrents : commands[t] \in Seq(CommandOf(t)) /\ commands[t] = <<>>
  <2>1. \A X : <<>> \in Seq(X)
    OBVIOUS
  <2> QED BY <2>1 DEF Init
<1>4. AppType
  BY <1>1, <1>2, <1>3 DEF Init, AppType
<1>5. RestType
  <2>1. {} \in Optional(Metrics)
    BY DEF Optional
  <2>2. \A t \in Torrents : NoManager(t) \in Manager /\ (NoManager(t).metadata \/ t \in Magnets)
    BY NewManagers
  <2> QED BY <2>1, <2>2, HealthAssumption DEF Init, RestType
<1>6. Exact
  <2>1. InFlight(sched) = {}
    BY <1>1 DEF InFlight
  <2>2. Cardinality(InFlight(sched)) = 0
    BY <2>1, FS_EmptySet, Zenon
  <2>3. 0 <= MaxInFlight
    BY SchedulerAssumption
  <2> QED BY <1>1, <2>2, <2>3, Zenon DEF Exact
<1> QED BY <1>4, <1>5, <1>6, Zenon DEF HealthInv

LEMMA HealthNext ==
  ASSUME QuietReAdd, OneBatchMagnets, HealthInv, [Next]_vars
  PROVE  HealthInv'
<1>1. CASE UNCHANGED vars
  <2>1. UNCHANGED <<sched, display, manager, metrics, commands, probes, answers, reported, loaded,
                    late_uploads, broken, faults>>
    BY <1>1, Zenon DEF vars, app, channels, events
  <2>2. (AppType /\ Exact)'
    BY <2>1, SameStep, Zenon
  <2>3. RestType'
    BY <2>1 DEF HealthInv, RestType
  <2> QED BY <2>2, <2>3, Zenon DEF HealthInv
<1>2. CASE Next
  <2>1. RestType'
    BY <1>2, RestNext
  <2>2. ASSUME Tick PROVE (AppType /\ Exact)'
    BY <2>2, TickStep
  <2>3. ASSUME DrainMetrics PROVE (AppType /\ Exact)'
    BY <2>3, MetricsStep, Zenon
  <2>4. ASSUME NEW t \in Torrents, AppStep(t) PROVE (AppType /\ Exact)'
    BY <2>4, FaultStep, MetadataStep, ResultStep, Zenon DEF AppStep
  <2>5. ASSUME NEW t \in Torrents, ManagerStep(t) PROVE (AppType /\ Exact)'
    <3>1. CASE TakeCommand(t)
      BY <3>1, CommandStep
    <3>2. CASE EmitMetrics(t)
      BY <3>2, SameStep DEF EmitMetrics, app, events
    <3>3. CASE UploadReports(t)
      BY <3>3, SameStep DEF UploadReports, app, channels, events
    <3>4. CASE \E q \in probes : q.t = t /\ ProbeBatch(q)
      BY <3>4, BatchStep, Zenon
    <3> QED BY <2>5, <3>1, <3>2, <3>3, <3>4, Zenon DEF ManagerStep
  <2>6. ASSUME NEW t \in Torrents, UserStep(t) PROVE (AppType /\ Exact)'
    <3>1. CASE AddTorrent(t)
      BY <3>1, AddStep
    <3>2. CASE RemoveTorrent(t)
      BY <3>2, RemoveStep
    <3>3. CASE ReceiveMetadata(t)
      BY <3>3, SameStep DEF ReceiveMetadata, app, channels
    <3>4. CASE Complete(t)
      BY <3>4, SameStep, Zenon DEF Complete, app, channels, events
    <3>5. CASE ReadFails(t)
      BY <3>5, SameStep, Zenon DEF ReadFails, app, channels
    <3>6. CASE Restore(t)
      BY <3>6, SameStep, Zenon DEF Restore, app, channels, events
    <3>7. CASE \E b \in BatchesOf(t) \cap Breakable[t] : Break(t, b)
      BY <3>7, SameStep DEF Break, app, channels, events
    <3> QED BY <2>6, <3>1, <3>2, <3>3, <3>4, <3>5, <3>6, <3>7, Zenon DEF UserStep
  <2> QED BY <1>2, <2>1, <2>2, <2>3, <2>4, <2>5, <2>6, Zenon DEF Next, HealthInv
<1> QED BY <1>1, <1>2

LEMMA HealthAlways ==
  ASSUME QuietReAdd, OneBatchMagnets
  PROVE  Spec => []HealthInv
<1>1. Init => HealthInv
  BY HealthInit
<1>2. HealthInv /\ [Next]_vars => HealthInv'
  BY HealthNext, Zenon
<1> QED BY <1>1, <1>2, PTL DEF Spec

LEMMA OneCounted ==
  ASSUME NEW C, NEW P, NEW A
  PROVE  /\ OneOut(C, P, A) => Cardinality(C) + Cardinality(P) + Cardinality(A) = 1
         /\ NoneOut(C, P, A) => Cardinality(C) + Cardinality(P) + Cardinality(A) = 0
<1>1. Cardinality({}) = 0 /\ \A x : Cardinality({x}) = 1
  BY FS_EmptySet, FS_Singleton
<1>2. ASSUME NoneOut(C, P, A) PROVE Cardinality(C) + Cardinality(P) + Cardinality(A) = 0
  BY <1>1, <1>2 DEF NoneOut
<1>3. ASSUME OneOut(C, P, A) PROVE Cardinality(C) + Cardinality(P) + Cardinality(A) = 1
  <2>1. \/ Cardinality(C) = 1 /\ Cardinality(P) = 0 /\ Cardinality(A) = 0
        \/ Cardinality(C) = 0 /\ Cardinality(P) = 1 /\ Cardinality(A) = 0
        \/ Cardinality(C) = 0 /\ Cardinality(P) = 0 /\ Cardinality(A) = 1
    BY <1>1, <1>3, Zenon DEF OneOut
  <2> QED BY <2>1
<1> QED BY <1>2, <1>3, Zenon

LEMMA InvTyped == HealthInv => TypeOK
<1> SUFFICES ASSUME HealthInv PROVE TypeOK
  OBVIOUS
<1>0. AppType /\ RestType /\ Exact
  BY Zenon DEF HealthInv
<1>1. sched.torrents \in [Known(sched) -> TorrentSched(AllBatches)]
  <2>1. \A t \in Known(sched) : sched.torrents[t] \in TorrentSched(AllBatches)
    <3> TAKE t \in Known(sched)
    <3>1. sched.torrents[t] \in TorrentSched(BatchesOf(t)) /\ BatchesOf(t) \in SUBSET AllBatches
      BY <1>0, AppFacts, Batches, Zenon
    <3> QED BY <3>1 DEF TorrentSched
  <2> QED BY <1>0, <2>1, Zenon DEF AppType, Scheduled
<1>2. commands \in [Torrents -> Seq(Command)]
  <2>1. \A t \in Torrents : commands[t] \in Seq(Command)
    <3> TAKE t \in Torrents
    <3>1. commands[t] \in Seq(CommandOf(t))
      BY <1>0, AppFacts
    <3>2. CommandOf(t) \in SUBSET Command
      BY Batches, Zenon DEF CommandOf, Command
    <3> QED BY <3>1, <3>2
  <2> QED BY <1>0, <2>1 DEF AppType
<1>3. probes \subseteq Request /\ answers \subseteq Answer
  BY <1>0, AppFacts, Zenon DEF Tasks, Answers
<1>4. loaded \subseteq Torrents
  BY <1>0, HealthAssumption DEF RestType
<1> QED BY <1>0, <1>1, <1>2, <1>3, <1>4, AppFacts, Zenon DEF AppType, RestType, TypeOK

(* Every variable keeps its type, for every number of torrents, batches    *)
(* and faults: what a probe task reports stays within the manifest of the  *)
(* torrent it was asked about, so that the scheduler's cursor does too.    *)
THEOREM TypeCorrect ==
  ASSUME QuietReAdd, OneBatchMagnets
  PROVE  Spec => []TypeOK
  BY HealthAlways, InvTyped, PTL

(* The scheduler's in-flight marks are exact under every order of faults,  *)
(* timeouts, failed dispatches, removals and late answers, and the count   *)
(* of batches out never passes MAX_IN_FLIGHT_PROBE_BATCHES.                *)
THEOREM InFlightExactAlways ==
  ASSUME QuietReAdd, OneBatchMagnets
  PROVE  Spec => []InFlightExact
<1>1. HealthInv => InFlightExact
  <2> SUFFICES ASSUME HealthInv, NEW t \in Known(sched)
               PROVE  Cardinality(Current(t).command) + Cardinality(Current(t).probe)
                        + Cardinality(Current(t).answer)
                        = IF sched.torrents[t].in_flight THEN 1 ELSE 0
    BY Zenon DEF HealthInv, Exact, InFlightExact
  <2> DEFINE e == sched.torrents[t].probe_epoch
  <2>1. Linked(t, sched.torrents[t], commands[t], probes, answers)
    BY AppFacts, ZenonT(30) DEF HealthInv
  <2>2. /\ Current(t).command = CommandsAt(commands[t], e)
        /\ Current(t).probe = TasksAt(probes, t, e)
        /\ Current(t).answer = TasksAt(answers, t, e)
    BY ZenonT(30) DEF Current, CommandsAt, TasksAt
  <2>3. IF sched.torrents[t].in_flight
        THEN OneOut(Current(t).command, Current(t).probe, Current(t).answer)
        ELSE NoneOut(Current(t).command, Current(t).probe, Current(t).answer)
    BY <2>1, <2>2, ZenonT(30) DEF Linked
  <2> QED BY <2>3, OneCounted, ZenonT(30)
<1> QED BY <1>1, HealthAlways, PTL

(* No answer of a sweep given up is ever taken for one of the sweep under  *)
(* way: an answer on_probe_batch_result accepts continues the manifest     *)
(* where the scheduler stands.                                             *)
THEOREM AnswersContinueSweepAlways ==
  ASSUME QuietReAdd, OneBatchMagnets
  PROVE  Spec => []AnswersContinueSweep
<1>1. HealthInv => AnswersContinueSweep
  <2> SUFFICES ASSUME HealthInv, NEW r \in answers, Accepts(sched, r.t, r)
               PROVE  ~r.stale /\ r.start = sched.torrents[r.t].next_batch
    BY Zenon DEF AnswersContinueSweep
  <2>1. r.t \in Known(sched) /\ r.epoch = sched.torrents[r.t].probe_epoch
    BY Zenon DEF Accepts
  <2>2. Linked(r.t, sched.torrents[r.t], commands[r.t], probes, answers)
    BY <2>1, AppFacts DEF HealthInv
  <2>3. Follows(r, sched.torrents[r.t])
    BY <2>2, Zenon DEF Linked
  <2> QED BY <2>1, <2>3, Zenon DEF Follows
<1> QED BY <1>1, HealthAlways, PTL
=============================================================================
