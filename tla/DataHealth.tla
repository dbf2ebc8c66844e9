----------------------------- MODULE DataHealth -----------------------------
(***************************************************************************)
(* Whether a torrent's files are there, as the application, its integrity  *)
(* scheduler and the torrent managers keep it: the handlers of             *)
(* ManagerEvent::{DataAvailabilityFault, FileProbeBatchResult,             *)
(* MetadataLoaded, DeletionComplete} in src/app.rs, the probe tasks and    *)
(* metrics of torrent_manager/manager.rs, and the scheduler's operators.   *)
(*                                                                         *)
(* broken is the truth, the batches of a torrent's manifest with a missing *)
(* or damaged file.  The application learns of it by probe tasks and by    *)
(* faults of foreground reads; it tells the manager by commands, and takes *)
(* the manager's view back from metrics.  Probe tasks and upload tasks are *)
(* spawned, so their events reach the application in any order.            *)
(***************************************************************************)
EXTENDS IntegrityScheduler, Sequences

CONSTANTS
  LastBatch,           \* [Torrents -> Nat], index of the manifest's last batch
  Magnets,             \* torrents added without their manifest
  Near(_),             \* the torrents saved to the same location
  CommandCapacity,     \* of a manager's command channel
  ActiveValues,        \* the transfer activity metrics may show
  Finished,            \* torrents complete from the start (is_validated)
  Breakable,           \* the batches of a torrent that may lose files
  QuietReAdd,          \* a torrent returns only after its old tasks ended
  FaultKinds,          \* which of the events below occur
  MaxFaults            \* bound: how many of them

ASSUME HealthAssumption ==
  /\ LastBatch \in [Torrents -> Nat]
  /\ Magnets \subseteq Torrents /\ Finished \subseteq Torrents
  /\ \A t \in Torrents : Near(t) \subseteq Torrents
  /\ CommandCapacity \in Nat /\ MaxFaults \in Nat
  /\ ActiveValues \subseteq BOOLEAN /\ ActiveValues # {}
  /\ Breakable \in [Torrents -> SUBSET Nat]
  /\ QuietReAdd \in BOOLEAN

VARIABLES
  sched,               \* the IntegrityScheduler
  display,             \* app_state.torrents
  manager,             \* per torrent: what its manager knows
  metrics,             \* the watch channels: the value not yet seen
  commands,            \* the command channels to the managers
  probes,              \* spawned probe tasks, by the request they answer
  answers, reported, loaded,   \* manager events under way to the app
  late_uploads,        \* uploads that failed, before they tell the manager
  broken,              \* the disk
  faults

app == <<sched, display>>
channels == <<metrics, commands>>
events == <<answers, reported, loaded>>
vars == <<app, manager, channels, probes, events, late_uploads, broken, faults>>

Optional(S) == {{}} \cup {{x} : x \in S}    \* Option<S>
BatchesOf(t) == 0 .. LastBatch[t]
AllBatches == UNION {BatchesOf(t) : t \in Torrents}
Shown == DOMAIN display

Metrics == [available : BOOLEAN, complete : BOOLEAN, active : BOOLEAN]
Display ==
  [data_available : BOOLEAN, is_complete : BOOLEAN, active : BOOLEAN,
   probe_status : {"None", "PendingMetadata", "Clean", "Problems"}]
Manager ==
  [running : BOOLEAN, data_available : BOOLEAN, complete : BOOLEAN,
   metadata : BOOLEAN, last_sent : Optional(Metrics)]
Command ==
  [probe : {TRUE}, epoch : Nat, start : AllBatches, stale : BOOLEAN]
    \cup [probe : {FALSE}, available : BOOLEAN]
Request == [t : Torrents, epoch : Nat, start : AllBatches,
            metadata : BOOLEAN, stale : BOOLEAN]
Answer ==
  [t : Torrents, epoch : Nat, start : AllBatches, next : AllBatches,
   end : BOOLEAN, pending : BOOLEAN, problems : SUBSET AllBatches,
   stale : BOOLEAN]

TypeOK ==
  /\ Known(sched) \subseteq Torrents /\ Shown \subseteq Torrents
  /\ sched.torrents \in [Known(sched) -> TorrentSched(AllBatches)]
  /\ sched.in_flight \in Nat
  /\ display \in [Shown -> Display]
  /\ manager \in [Torrents -> Manager]
  /\ metrics \in [Torrents -> Optional(Metrics)]
  /\ commands \in [Torrents -> Seq(Command)]
  /\ probes \subseteq Request /\ answers \subseteq Answer
  /\ reported \subseteq Torrents /\ loaded \subseteq Torrents
  /\ late_uploads \subseteq Torrents
  /\ broken \in [Torrents -> SUBSET AllBatches]
  /\ faults \in 0 .. MaxFaults

NewDisplay(t) ==
  [data_available |-> TRUE, is_complete |-> t \in Finished \ Magnets,
   active |-> FALSE, probe_status |-> "None"]
NewManager(t) ==
  [running |-> TRUE, data_available |-> TRUE, complete |-> t \in Finished \ Magnets,
   metadata |-> t \notin Magnets, last_sent |-> {}]
NoManager(t) == [NewManager(t) EXCEPT !.running = FALSE]

Init ==
  /\ sched = EmptyScheduler
  /\ display = <<>>
  /\ manager = [t \in Torrents |-> NoManager(t)]
  /\ metrics = [t \in Torrents |-> {}]
  /\ commands = [t \in Torrents |-> <<>>]
  /\ probes = {} /\ answers = {} /\ reported = {} /\ loaded = {}
  /\ late_uploads = {}
  /\ broken = [t \in Torrents |-> {}]
  /\ faults = 0

Fault(kind) ==
  /\ kind \in FaultKinds
  /\ faults < MaxFaults
  /\ faults' = faults + 1

-----------------------------------------------------------------------------
(* current_integrity_snapshots                                             *)
Snapshots(d) ==
  [t \in DOMAIN d |-> [data_available |-> d[t].data_available,
                       is_downloading |-> ~d[t].is_complete,
                       is_active |-> d[t].active]]

(* The ghost field stale marks what was asked before the scheduler gave up *)
(* the sweep it belongs to; the code tells by the epoch alone.             *)
GivenUp(S1, S2, t) ==
  /\ t \in Known(S1) \cap Known(S2)
  /\ S1.torrents[t].probe_epoch # S2.torrents[t].probe_epoch
Mark(set, S1, S2) ==
  {IF GivenUp(S1, S2, m.t) THEN [m EXCEPT !.stale = TRUE] ELSE m : m \in set}
MarkCommands(q, S1, S2, t) ==
  [i \in DOMAIN q |-> IF GivenUp(S1, S2, t) /\ q[i].probe
                        THEN [q[i] EXCEPT !.stale = TRUE] ELSE q[i]]

ProbeFileBatch(s) ==
  [probe |-> TRUE, epoch |-> s.probe_epoch, start |-> s.next_batch,
   stale |-> FALSE]
SetDataAvailability(b) == [probe |-> FALSE, available |-> b]

(* try_send: lost when the channel is full, or gone with its manager.      *)
TrySend(q, c) == IF Len(q) < CommandCapacity THEN Append(q, c) ELSE q

(* dispatch_integrity_probe_batches, which ends every handler below: S is  *)
(* the scheduler the handler leaves, d the torrents shown, c the commands  *)
(* already sent, and open the torrents that have a manager to send to.     *)
dispatch_integrity_probe_batches(S, d, c, open) ==
  \E synced \in
       {reclaim_timed_out_probe_batches(sync_torrents(S, Snapshots(d)))} :
  \E asked \in {Picked(synced)} :
  \E lost \in {{t \in asked : t \notin open \/ Len(c[t]) >= CommandCapacity}} :
  \E S2 \in {on_dispatch_failed(drain_due_probe_requests(synced, asked), lost)} :
     /\ sched' = S2
     /\ display' = d
     /\ commands' = [t \in Torrents |->
          LET q == MarkCommands(c[t], sched, S2, t)
          IN IF t \in asked \ lost
               THEN Append(q, ProbeFileBatch(synced.torrents[t])) ELSE q]
     /\ probes' = Mark(probes, sched, S2)

(* The torrents with a manager's command channel.                          *)
Open == {t \in Shown : manager[t].running}

-----------------------------------------------------------------------------
(* The application's handlers.                                             *)

(* add_torrent_from_file and add_magnet_torrent, or a restart of the       *)
(* application with the torrent in its settings.                           *)
AddTorrent(t) ==
  /\ t \notin Shown
  /\ QuietReAdd => \A m \in probes \cup answers : m.t # t
  /\ \E d \in {[u \in Shown \cup {t} |->
                  IF u = t THEN NewDisplay(t) ELSE display[u]]} :
       dispatch_integrity_probe_batches(sched, d,
         [commands EXCEPT ![t] = <<>>], Open \cup {t})
  /\ manager' = [manager EXCEPT ![t] = NewManager(t)]
  /\ metrics' = [metrics EXCEPT ![t] = {}]
  /\ UNCHANGED <<events, late_uploads, broken, faults>>

(* remove_torrent_runtime and DeletionComplete: the manager's tasks may    *)
(* still be running and report to the application when it is gone; what    *)
(* they report to the manager is lost.                                     *)
RemoveTorrent(t) ==
  /\ t \in Shown
  /\ Fault("remove")
  /\ \E S \in {remove_torrent(sched, t)} :
     \E d \in {[u \in Shown \ {t} |-> display[u]]} :
       dispatch_integrity_probe_batches(S, d, [commands EXCEPT ![t] = <<>>],
                                        Open \ {t})
  /\ manager' = [manager EXCEPT ![t] = NoManager(t)]
  /\ metrics' = [metrics EXCEPT ![t] = {}]
  /\ late_uploads' = late_uploads \ {t}
  /\ UNCHANGED <<events, broken>>

(* ManagerEvent::DataAvailabilityFault                                     *)
DataAvailabilityFault(t) ==
  /\ t \in reported
  /\ \E S \in {on_data_availability_fault(sched, t, Near(t))} :
     \E d \in {[u \in Shown |->
                  IF u = t THEN [display[u] EXCEPT !.data_available = FALSE]
                           ELSE display[u]]} :
       dispatch_integrity_probe_batches(S, d, commands, Open)
  /\ answers' = Mark(answers, sched, sched')
  /\ reported' = reported \ {t}
  /\ UNCHANGED <<manager, metrics, loaded, late_uploads, broken, faults>>

(* data_availability_from_file_probe_result: Some(false), Some(true), None *)
SaysUnavailable(r) == ~r.pending /\ r.problems # {}
SaysAvailable(r) == ~r.pending /\ r.problems = {} /\ r.end

(* What FileProbeBatchResult makes of the torrent shown, and the command   *)
(* it sends before probes are dispatched.                                  *)
ShownAfter(d, r) ==
  [d EXCEPT
     !.data_available = @ /\ ~SaysUnavailable(r),
     !.probe_status = IF r.pending THEN "PendingMetadata"
                      ELSE IF ~r.end THEN @
                      ELSE IF SweepProblems(sched, r.t, r) = {} THEN "Clean"
                      ELSE "Problems"]
NotifiesUnavailable(d, r) == SaysUnavailable(r) /\ d.data_available
RequestsRecovery(d, r) == SaysAvailable(r) /\ ~d.data_available

Told(q, r) ==
  IF r.t \notin Open THEN q
  ELSE IF NotifiesUnavailable(display[r.t], r)
  THEN TrySend(q, SetDataAvailability(FALSE))
  ELSE IF RequestsRecovery(display[r.t], r)
  THEN TrySend(q, SetDataAvailability(TRUE))
  ELSE q

FileProbeBatchResult(r) ==
  /\ r \in answers
  /\ IF ~Accepts(sched, r.t, r)
       THEN dispatch_integrity_probe_batches(sched, display, commands, Open)
       ELSE \E S \in {on_probe_batch_result(sched, r.t, r)} :
            \E d \in {[u \in Shown |->
                         IF u = r.t THEN ShownAfter(display[u], r)
                                    ELSE display[u]]} :
            \E c \in {[commands EXCEPT ![r.t] = Told(@, r)]} :
              dispatch_integrity_probe_batches(S, d, c, Open)
  /\ answers' = Mark(answers \ {r}, sched, sched')
  /\ UNCHANGED <<manager, metrics, reported, loaded, late_uploads, broken,
                 faults>>

(* ManagerEvent::MetadataLoaded                                            *)
MetadataLoaded(t) ==
  /\ t \in loaded
  /\ \E S \in {on_metadata_loaded(sched, t)} :
       dispatch_integrity_probe_batches(S, display, commands, Open)
  /\ loaded' = loaded \ {t}
  /\ answers' = Mark(answers, sched, sched')
  /\ UNCHANGED <<manager, metrics, reported, late_uploads, broken, faults>>

(* The scheduler's interval in the main loop.  That a batch outlives its   *)
(* timeout is one of the bounded events.                                   *)
WouldTimeOut == TimedOut(advance_time(sched)) # {}
Tick ==
  /\ IF WouldTimeOut THEN Fault("timeout") ELSE UNCHANGED faults
  /\ \E S \in {advance_time(sched)} :
       dispatch_integrity_probe_batches(S, display, commands, Open)
  /\ answers' = Mark(answers, sched, sched')
  /\ UNCHANGED <<manager, metrics, reported, loaded, late_uploads, broken>>

on_metrics(d, m) ==
  [d EXCEPT !.data_available = m.available, !.is_complete = m.complete,
            !.active = m.active]

(* drain_latest_torrent_metrics, once per frame: the manager's view        *)
(* replaces what is shown.                                                 *)
DrainMetrics ==
  /\ \E t \in Shown : metrics[t] # {}
  /\ display' = [t \in Shown |->
       IF metrics[t] = {} THEN display[t]
       ELSE on_metrics(display[t], CHOOSE m \in metrics[t] : TRUE)]
  /\ metrics' = [t \in Torrents |-> {}]
  /\ UNCHANGED <<sched, manager, commands, probes, events, late_uploads, broken,
                 faults>>

-----------------------------------------------------------------------------
(* The managers.                                                           *)

(* The run loop takes a command: spawn_file_probe_batch, or                *)
(* Action::SetDataAvailability.  Whether the manifest is there is looked   *)
(* up now, the files are looked at by the task.                            *)
TakeCommand(t) ==
  /\ manager[t].running /\ commands[t] # <<>>
  /\ LET c == Head(commands[t])
     IN IF c.probe
          THEN /\ probes' = probes \cup
                    {[t |-> t, epoch |-> c.epoch, start |-> c.start,
                      metadata |-> manager[t].metadata, stale |-> c.stale]}
               /\ UNCHANGED manager
          ELSE /\ manager' = [manager EXCEPT ![t].data_available = c.available]
               /\ UNCHANGED probes
  /\ commands' = [commands EXCEPT ![t] = Tail(@)]
  /\ UNCHANGED <<app, metrics, events, late_uploads, broken, faults>>

(* prepare_file_probe_batch and collect_prepared_file_probe_batch          *)
ProbeAnswer_PastTheEnd(q) ==
  LET end == q.start > LastBatch[q.t]
  IN [t |-> q.t, epoch |-> q.epoch, start |-> q.start, pending |-> ~q.metadata,
      end |-> q.metadata /\ end,
      next |-> IF ~q.metadata \/ end THEN 0 ELSE q.start + 1,
      problems |-> IF q.metadata THEN broken[q.t] \cap {q.start} ELSE {},
      stale |-> q.stale]
ProbeAnswer(q) ==
  LET t == q.t
      past == q.start > LastBatch[t]
      end == past \/ q.start = LastBatch[t]
  IN [t |-> t, epoch |-> q.epoch, start |-> q.start,
      pending |-> ~q.metadata,
      end |-> q.metadata /\ end,
      next |-> IF ~q.metadata \/ end THEN 0 ELSE q.start + 1,
      problems |-> IF ~q.metadata \/ past THEN {} ELSE broken[t] \cap {q.start},
      stale |-> q.stale]

ProbeBatch(q) ==
  /\ q \in probes
  /\ probes' = probes \ {q}
  /\ answers' = answers \cup {ProbeAnswer(q)}
  /\ UNCHANGED <<app, manager, channels, reported, loaded, late_uploads, broken,
                 faults>>

should_emit(m, last_sent) == m \notin last_sent

(* Tick of the manager: metrics are sent when they differ from the last.   *)
EmitMetrics(t) ==
  /\ manager[t].running
  /\ \E a \in ActiveValues :
       LET m == [available |-> manager[t].data_available,
                 complete |-> manager[t].complete, active |-> a]
       IN /\ should_emit(m, manager[t].last_sent)
          /\ metrics' = [metrics EXCEPT ![t] = {m}]
          /\ manager' = [manager EXCEPT ![t].last_sent = {m}]
  /\ UNCHANGED <<app, commands, probes, events, late_uploads, broken, faults>>

(* The manifest arrives, and the download ends.                            *)
ReceiveMetadata(t) ==
  /\ manager[t].running /\ ~manager[t].metadata
  /\ manager' = [manager EXCEPT ![t].metadata = TRUE]
  /\ loaded' = loaded \cup {t}
  /\ UNCHANGED <<app, channels, probes, answers, reported, late_uploads, broken,
                 faults>>
Complete(t) ==
  /\ manager[t].running /\ manager[t].metadata /\ ~manager[t].complete
  /\ manager' = [manager EXCEPT ![t].complete = TRUE]
  /\ UNCHANGED <<app, channels, probes, events, late_uploads, broken, faults>>

(* An upload reads a piece whose file is gone: the task reports a fault to *)
(* the application, unless the event channel is full, and then the manager *)
(* is told.  Uploads stop while the data is unavailable.                   *)
ReadFails(t) ==
  /\ manager[t].running /\ manager[t].metadata /\ manager[t].data_available
  /\ broken[t] # {} /\ t \notin late_uploads
  /\ late_uploads' = late_uploads \cup {t}
  /\ \/ reported' = reported \cup {t} /\ Fault("read")
     \/ UNCHANGED reported /\ Fault("read_lost")
  /\ UNCHANGED <<app, manager, channels, probes, answers, loaded, broken>>
UploadReports(t) ==
  /\ t \in late_uploads
  /\ late_uploads' = late_uploads \ {t}
  /\ manager' = IF manager[t].running
                  THEN [manager EXCEPT ![t].data_available = FALSE]
                  ELSE manager
  /\ UNCHANGED <<app, channels, probes, events, broken, faults>>

(* Files disappear and come back.                                          *)
Break(t, b) ==
  /\ b \notin broken[t]
  /\ broken' = [broken EXCEPT ![t] = @ \cup {b}]
  /\ UNCHANGED <<app, manager, channels, probes, events, late_uploads, faults>>
Restore(t) ==
  /\ broken[t] # {}
  /\ broken' = [broken EXCEPT ![t] = {}]
  /\ UNCHANGED <<app, manager, channels, probes, events, late_uploads, faults>>

-----------------------------------------------------------------------------
AppStep(t) ==
  \/ DataAvailabilityFault(t)
  \/ MetadataLoaded(t)
  \/ \E r \in answers : r.t = t /\ FileProbeBatchResult(r)
ManagerStep(t) ==
  \/ TakeCommand(t)
  \/ EmitMetrics(t)
  \/ UploadReports(t)
  \/ \E q \in probes : q.t = t /\ ProbeBatch(q)
UserStep(t) ==
  \/ AddTorrent(t)
  \/ RemoveTorrent(t)
  \/ ReceiveMetadata(t)
  \/ Complete(t)
  \/ ReadFails(t)
  \/ Restore(t)
  \/ \E b \in BatchesOf(t) \cap Breakable[t] : Break(t, b)

Next ==
  \/ Tick
  \/ DrainMetrics
  \/ \E t \in Torrents : AppStep(t) \/ ManagerStep(t) \/ UserStep(t)

Spec == Init /\ [][Next]_vars

(* Fairness: the event loops of the application and of the managers take   *)
(* what is queued, timers fire, spawned tasks end.  For the application it *)
(* is weak fairness written out, with the condition for its step.          *)
(* EmitMetrics is enabled while some metric differs from the last one      *)
(* sent, so that ActiveValues with both values stands for a torrent whose  *)
(* speeds keep changing.                                                   *)
CanTick == ~WouldTimeOut \/ ("timeout" \in FaultKinds /\ faults < MaxFaults)
HasEvent(t) == t \in reported \cup loaded \/ \E r \in answers : r.t = t

Fairness ==
  /\ []<>~CanTick \/ []<><<Tick>>_vars
  /\ WF_vars(DrainMetrics)
  /\ \A t \in Torrents :
       /\ []<>~HasEvent(t) \/ []<><<AppStep(t)>>_vars
       /\ WF_vars(TakeCommand(t))
       /\ WF_vars(EmitMetrics(t)) /\ WF_vars(UploadReports(t))
       /\ WF_vars(\E q \in probes : q.t = t /\ ProbeBatch(q))
LiveSpec == Spec /\ Fairness

-----------------------------------------------------------------------------
(* What is under way for t with the epoch the scheduler now has.           *)
Current(t) ==
  LET e == sched.torrents[t].probe_epoch
  IN [command |-> {i \in DOMAIN commands[t] :
                     commands[t][i].probe /\ commands[t][i].epoch = e},
      probe |-> {q \in probes : q.t = t /\ q.epoch = e},
      answer |-> {r \in answers : r.t = t /\ r.epoch = e}]

(* The scheduler's in-flight marks are exact: a torrent is marked in       *)
(* flight if and only if one request of its current epoch is queued, being *)
(* worked on or on its way back, the count agrees with the marks, and the  *)
(* limit is kept.  Faults, timeouts, failed dispatches and removals all    *)
(* clear marks (on_data_availability_fault, reclaim_timed_out_probe_batches,*)
(* on_dispatch_failed), with saturating subtractions that would hide a     *)
(* batch counted twice.                                                    *)
InFlightExact ==
  /\ sched.in_flight = Cardinality(InFlight(sched))
  /\ sched.in_flight <= MaxInFlight
  /\ \A t \in Known(sched) :
       LET c == Current(t)
       IN Cardinality(c.command) + Cardinality(c.probe) + Cardinality(c.answer)
            = IF sched.torrents[t].in_flight THEN 1 ELSE 0

(* An answer that on_probe_batch_result would accept is one of the sweep   *)
(* now under way: it was not asked before a fault or a timeout restarted   *)
(* the sweep, and it continues the manifest where the scheduler stands, so *)
(* that a finished sweep has looked at every batch since its start.        *)
AnswersContinueSweep ==
  \A r \in answers :
    Accepts(sched, r.t, r) =>
      /\ ~r.stale
      /\ r.pending \/ r.start = sched.torrents[r.t].next_batch

(* A torrent is reported recovered (FileProbeBatchResult asks the manager  *)
(* for SetDataAvailability(true)) only by a full sweep without problems.   *)
RecoveryNeedsCleanSweep ==
  \A r \in answers :
    (Accepts(sched, r.t, r) /\ r.t \in Shown
       /\ RequestsRecovery(display[r.t], r))
    => SweepProblems(sched, r.t, r) = {}

(* A torrent whose files are back, and stay, is in the end shown as        *)
(* available: no order of faults, late results, timeouts and metrics       *)
(* leaves it marked unavailable for good.                                  *)
RestoredIsShown ==
  \A t \in Torrents :
    <>[](t \in Shown /\ broken[t] = {})
      => <>[](t \in Shown /\ display[t].data_available)

(* The files of a completed torrent that stay missing are in the end       *)
(* noticed by the background checks.                                       *)
LossIsNoticed ==
  \A t \in Torrents :
    <>[](t \in Shown /\ broken[t] # {} /\ manager[t].complete)
      => <>(t \in Shown /\ ~display[t].data_available)
=============================================================================
