------------------------------- MODULE Cluster -------------------------------
(***************************************************************************)
(* Shared mode: several superseedr processes on one configuration root.    *)
(* The process that holds superseedr.lock leads: it takes control requests *)
(* from the shared inbox, applies them to its settings and persists them.  *)
(* The others follow: they reload what the leader wrote, relay request     *)
(* files dropped on their own host, and try to take over when the lock is  *)
(* free.  A command-line client queues a request when somebody leads and   *)
(* otherwise changes the catalog itself.                                   *)
(*                                                                         *)
(* Settings are abstracted to the catalog, the control state of each       *)
(* torrent.  seen, durable, lost, failed and behind are history: which     *)
(* requests a settings value reflects, which have ever been on disk, which *)
(* went down with a process, whose last write failed, and who may lead     *)
(* without knowing what is on disk.                                        *)
(***************************************************************************)
EXTENDS Naturals, Sequences, FiniteSets, Functions

CONSTANTS Nodes, Torrents, Requests,
          Op,           \* Requests -> Ops, what a request asks
          Target,       \* Requests -> Torrents, of which torrent
          Via,          \* Requests -> SUBSET Ways, how it may be made
          Present,      \* torrents in the catalog at the start, running
          Validated,    \* torrents whose data is complete: followers seed them
          MaxFaults,    \* bound on the faults of a behaviour
          FaultKinds    \* the kinds of fault that may happen

Ops == {"add", "pause", "resume", "remove", "purge"}
Ways == {"file", "interface", "cli"}
Kinds == {"crash", "stop", "hostedit", "io", "load", "slow", "archive", "relay"}
Spots == {"unfiled", "cli", "inbox", "archived", "dropped", "answered"}

ASSUME ClusterAssumption ==
  /\ IsFiniteSet(Nodes) /\ IsFiniteSet(Requests)
  /\ Op \in [Requests -> Ops]
  /\ Target \in [Requests -> Torrents]
  /\ Via \in [Requests -> SUBSET Ways]
  /\ Present \subseteq Torrents /\ Validated \subseteq Torrents
  /\ MaxFaults \in Nat
  /\ FaultKinds \subseteq Kinds
  /\ Nodes \cap Spots = {}

VARIABLES
  disk,      \* the shared catalog file, with the requests it reflects
  lock,      \* who holds superseedr.lock: {} or one process
  place,     \* where the file of each request is; a node is its watch folder
  proc,      \* what each process is doing
  cfg,       \* App.client_configs: the catalog as last loaded or saved
  rt,        \* App.app_state.torrents: the torrents it shows
  live,      \* torrent_manager_command_txs: those that have a manager
  closing,   \* managers that were told to stop and have not reported yet
  seen,      \* history: the requests cfg and rt reflect
  queue,     \* app_command channel followed by pending_watch_commands
  recent,    \* recently_processed_files: files not enqueued again yet
  handling,  \* the applied request whose file is not archived yet
  payload,   \* the persistence watch channel: {} or the value not yet taken
  writer,    \* what the blocking save in progress writes
  cli,       \* a command-line client: {} or what it loaded
  behind, durable, lost, failed,
  faults

torrents == <<rt, live, closing>>
files == <<queue, recent, handling>>
node == <<cfg, torrents, seen, files>>
save == <<payload, writer>>
history == <<behind, durable, lost, failed>>
vars == <<disk, lock, place, proc, node, save, cli, history, faults>>

Control == {"none", "running", "paused", "deleting"}
Catalog == [Torrents -> Control]
Saved == [cat : Catalog, seen : SUBSET Requests]
Opt(S) == {{}} \cup {{x} : x \in S}
Entry == Requests \X (Nodes \cup {"inbox"})

Up(n) == proc[n] \in {"leader", "follower"}
Idle(n) == Up(n) /\ handling[n] = {}

Fault(kind) == kind \in FaultKinds /\ faults < MaxFaults /\ faults' = faults + 1

(* read_dir returns the entries of a directory in any order. *)
Orders(S) == {s \in [1 .. Cardinality(S) -> S] : \A e \in S : \E i \in DOMAIN s : s[i] = e}

------------------------------------------------------------------------------
(* What a request does to a catalog.                                        *)

After(op) ==
  CASE op = "pause" -> "paused"
    [] op = "remove" -> "none"
    [] op = "purge" -> "deleting"
    [] OTHER -> "running"

(* A request for a torrent that is not in the catalog is refused. *)
plan_control_request(c, r) ==
  IF c[Target[r]] = "none" THEN c ELSE [c EXCEPT ![Target[r]] = After(Op[r])]

(* A follower only shows a torrent whose data is not complete. *)
should_suppress_follower_runtime(role, t) == role = "follower" /\ t \notin Validated

(* A torrent left in Deleting is not loaded. *)
should_load_persisted_torrent(state) == state \in {"running", "paused"}

(* What the settings change from old to new makes of the torrents a node    *)
(* shows.  A leader does not load a torrent that was in the catalog before; *)
(* a follower shows it.                                                     *)
synced_rt_KeepsShown(run, has, role, old, new) ==
  [t \in Torrents |->
    IF new[t] # "none"
    THEN IF run[t] # "none" \/ role = "follower" THEN new[t]
         ELSE IF old[t] = "none" /\ should_load_persisted_torrent(new[t]) THEN new[t]
         ELSE "none"
    ELSE IF old[t] # "none" /\ t \in has THEN "deleting" ELSE run[t]]

synced_rt(run, has, role, old, new) ==
  [t \in Torrents |->
    IF new[t] # "none"
    THEN IF run[t] # "none" \/ role = "follower" THEN new[t]
         ELSE IF old[t] = "none" /\ should_load_persisted_torrent(new[t]) THEN new[t]
         ELSE "none"
    ELSE IF old[t] = "none" THEN run[t]
         ELSE IF t \in has THEN "deleting" ELSE "none"]

(* The managers it starts, and those it tells to stop. *)
synced_live(has, role, old, new) ==
  has \cup {t \in Torrents : /\ old[t] = "none" /\ should_load_persisted_torrent(new[t])
                            /\ ~should_suppress_follower_runtime(role, t)}

synced_closing(has, role, old, new) ==
  {t \in has :
     \/ new[t] # "none" /\ should_suppress_follower_runtime(role, t)
     \/ new[t] = "none" /\ old[t] # "none"
     \/ new[t] = "deleting" /\ old[t] \in {"running", "paused"}}

(* The settings of node n, in its role, become new; known is what they      *)
(* reflect.  cfg is set by the caller, who may save at once.                *)
sync_runtime_torrents_from_settings(n, role, new, known) ==
  /\ rt' = [rt EXCEPT ![n] = synced_rt(@, live[n], role, cfg[n], new)]
  /\ live' = [live EXCEPT ![n] = synced_live(@, role, cfg[n], new)]
  /\ closing' = [closing EXCEPT ![n] = @ \cup synced_closing(live[n], role, cfg[n], new)]
  /\ seen' = [seen EXCEPT ![n] = known]

(* A leader's request: an add starts a torrent that has no manager, all     *)
(* else goes through the settings.                                          *)
apply_control_request(n, r) ==
  IF Op[r] = "add"
  THEN /\ rt' = [rt EXCEPT ![n] = IF Target[r] \in live[n] THEN @
                                   ELSE [@ EXCEPT ![Target[r]] = "running"]]
       /\ live' = [live EXCEPT ![n] = @ \cup {Target[r]}]
       /\ seen' = [seen EXCEPT ![n] = @ \cup {r}]
       /\ UNCHANGED closing
  ELSE sync_runtime_torrents_from_settings(n, "leader", plan_control_request(cfg[n], r),
                                           seen[n] \cup {r})

(* The same without a runtime: a purge takes the torrent out at once. *)
apply_offline_control_request(c, r) ==
  CASE Op[r] = "add" -> [c EXCEPT ![Target[r]] = IF @ = "none" THEN "running" ELSE @]
    [] Op[r] = "purge" -> [c EXCEPT ![Target[r]] = "none"]
    [] OTHER -> plan_control_request(c, r)

------------------------------------------------------------------------------
(* Persistence.                                                             *)

(* The catalog file is replaced if it differs from what is to be saved. *)
save_settings(w) ==
  /\ disk' = IF w.cat = disk.cat THEN [disk EXCEPT !.seen = @ \cup w.seen] ELSE w
  /\ durable' = durable \cup w.seen

(* The catalog is rebuilt from the runtime; the channel keeps the latest    *)
(* payload only.  Followers do not save.                                    *)
save_state_to_disk(n, role, run, known) ==
  IF role = "leader"
  THEN /\ cfg' = [cfg EXCEPT ![n] = run]
       /\ payload' = [payload EXCEPT ![n] = {[cat |-> run, seen |-> known]}]
  ELSE UNCHANGED <<cfg, payload>>

persist_begin(n) ==
  /\ payload[n] # {} /\ writer[n] = {}
  /\ writer' = [writer EXCEPT ![n] = payload[n]]
  /\ payload' = [payload EXCEPT ![n] = {}]
  /\ UNCHANGED <<disk, lock, place, proc, node, cli, history, faults>>

(* A failed write is logged and not repeated. *)
persist_end(n) ==
  \E w \in writer[n] :
    /\ writer' = [writer EXCEPT ![n] = {}]
    /\ \/ save_settings(w) /\ failed' = failed \ {n} /\ UNCHANGED faults
       \/ Fault("io") /\ failed' = failed \cup {n} /\ UNCHANGED <<disk, durable>>
    /\ UNCHANGED <<lock, place, proc, node, payload, cli, behind, lost>>

(* The 15-minute save, where it would write anything. *)
network_history_persist_tick(n) ==
  /\ Idle(n) /\ proc[n] = "leader"
  /\ payload[n] = {} /\ writer[n] = {} /\ disk.cat # rt[n]
  /\ save_state_to_disk(n, "leader", rt[n], seen[n])
  /\ UNCHANGED <<disk, lock, place, proc, torrents, seen, files, writer, cli, history, faults>>

------------------------------------------------------------------------------
(* Watch folders.                                                           *)

(* The files a node sees: its own watch folder, and the inbox if it leads. *)
runtime_watch_paths_HostOnly(n, role) == {n}

runtime_watch_paths(n, role) == {n} \cup (IF role = "leader" THEN {"inbox"} ELSE {})

Waiting(n, role) ==
  {e \in Entry : place[e[1]] = e[2] /\ e[2] \in runtime_watch_paths(n, role)}

(* Enqueue the files that were not enqueued lately.  A control request      *)
(* that was not pending is journalled and the state saved.                  *)
process_pending_commands(n, role, run, known, order) ==
  /\ queue' = [queue EXCEPT ![n] = @ \o order]
  /\ recent' = [recent EXCEPT ![n] = @ \cup Range(order)]
  /\ IF Range(order) \subseteq Range(queue[n])
     THEN UNCHANGED <<cfg, payload>>
     ELSE save_state_to_disk(n, role, run, known)

Fresh(n, role) == Waiting(n, role) \ recent[n]

(* The five-second rescan, or a file event for some of the files. *)
rescan(n) ==
  /\ Idle(n) /\ Fresh(n, proc[n]) # {}
  /\ \E order \in Orders(Fresh(n, proc[n])) :
       process_pending_commands(n, proc[n], rt[n], seen[n], order)
  /\ UNCHANGED <<disk, lock, place, proc, torrents, seen, handling, writer, cli,
                 history, faults>>

(* Five seconds after a file was enqueued it may be enqueued again if it is *)
(* still there; that a request waits that long in the queue is a fault.     *)
spacing_over(n) ==
  \E e \in recent[n] \cap Waiting(n, proc[n]) :
    /\ Idle(n)
    /\ recent' = [recent EXCEPT ![n] = @ \ {e}]
    /\ IF e \in Range(queue[n]) THEN Fault("slow") ELSE UNCHANGED faults
    /\ UNCHANGED <<disk, lock, place, proc, cfg, torrents, seen, queue, handling, save,
                   cli, history>>

(* A follower forwards a file of its own watch folder to the inbox; when    *)
(* that fails the file is archived all the same.                            *)
relay_local_watch_file(n) ==
  /\ Idle(n) /\ proc[n] = "follower" /\ queue[n] # <<>>
  /\ \E e \in {Head(queue[n])} :
       /\ e[2] = n
       /\ \/ place' = [place EXCEPT ![e[1]] = IF @ = n THEN "inbox" ELSE @] /\ UNCHANGED faults
          \/ Fault("relay") /\ place[e[1]] = n /\ place' = [place EXCEPT ![e[1]] = "dropped"]
  /\ queue' = [queue EXCEPT ![n] = Tail(@)]
  /\ UNCHANGED <<disk, lock, proc, cfg, torrents, seen, recent, handling, save, cli, history>>

(* AppCommand::ControlRequest: apply and queue a save ... *)
ControlRequest(n) ==
  /\ Idle(n) /\ queue[n] # <<>>
  /\ \E e \in {Head(queue[n])} :
       /\ ~(proc[n] = "follower" /\ e[2] = n)
       /\ apply_control_request(n, e[1])
       /\ handling' = [handling EXCEPT ![n] = {e}]
       /\ save_state_to_disk(n, proc[n], rt'[n], seen'[n])
  /\ queue' = [queue EXCEPT ![n] = Tail(@)]
  /\ UNCHANGED <<disk, lock, place, proc, recent, writer, cli, history, faults>>

(* ... then archive the file, whether or not the save is done. *)
archive_watch_file(n) ==
  \E e \in handling[n] :
    /\ \/ place' = [place EXCEPT ![e[1]] = IF @ = e[2] THEN "archived" ELSE @] /\ UNCHANGED faults
       \/ Fault("archive") /\ place[e[1]] = e[2] /\ UNCHANGED place
    /\ handling' = [handling EXCEPT ![n] = {}]
    /\ UNCHANGED <<disk, lock, proc, cfg, torrents, seen, queue, recent, save, cli, history>>

------------------------------------------------------------------------------
(* Requests from users.                                                     *)

(* A request file is dropped into the watch folder of a host. *)
DropFile(r, n) ==
  /\ "file" \in Via[r] /\ place[r] = "unfiled"
  /\ place' = [place EXCEPT ![r] = n]
  /\ UNCHANGED <<disk, lock, proc, node, save, cli, history, faults>>

(* A request made in the interface: a follower queues it for the leader,    *)
(* the leader applies it.                                                   *)
SubmitControlRequest(r, n) ==
  /\ "interface" \in Via[r] /\ place[r] = "unfiled" /\ Idle(n)
  /\ IF proc[n] = "follower"
     THEN place' = [place EXCEPT ![r] = "inbox"] /\ UNCHANGED <<cfg, torrents, seen, payload>>
     ELSE /\ place' = [place EXCEPT ![r] = "answered"]
          /\ apply_control_request(n, r)
          /\ save_state_to_disk(n, proc[n], rt'[n], seen'[n])
  /\ UNCHANGED <<disk, lock, proc, files, writer, cli, history, faults>>

(* The command line loads the settings before it tries the lock. *)
load_settings_for_cli(r) ==
  /\ "cli" \in Via[r] /\ place[r] = "unfiled" /\ cli = {}
  /\ cli' = {[req |-> r, cat |-> disk.cat, seen |-> disk.seen]}
  /\ place' = [place EXCEPT ![r] = "cli"]
  /\ UNCHANGED <<disk, lock, proc, node, save, history, faults>>

(* Somebody leads: queue. *)
queue_control_request_command ==
  /\ lock \notin {{}, {"cli"}}
  /\ \E c \in cli : place' = [place EXCEPT ![c.req] = "inbox"]
  /\ cli' = {}
  /\ UNCHANGED <<disk, lock, proc, node, save, history, faults>>

(* Nobody leads: the client now holds the lock itself. *)
try_acquire_app_lock_cli ==
  /\ lock = {}
  /\ \E c \in cli : behind' = IF disk.seen \subseteq c.seen THEN behind ELSE behind \cup {"cli"}
  /\ lock' = {"cli"}
  /\ UNCHANGED <<disk, place, proc, node, save, cli, durable, lost, failed, faults>>

(* It applies the request to what it loaded and saves if it was accepted. *)
apply_offline_control_request_mut ==
  /\ lock = {"cli"}
  /\ \E c \in cli :
       /\ place' = [place EXCEPT ![c.req] = "answered"]
       /\ \E next \in {apply_offline_control_request(c.cat, c.req)} :
            IF Op[c.req] # "add" /\ c.cat[Target[c.req]] = "none"
            THEN UNCHANGED <<disk, durable>>
            ELSE save_settings([cat |-> next, seen |-> c.seen \cup {c.req}])
  /\ lock' = {} /\ cli' = {} /\ behind' = behind \ {"cli"}
  /\ UNCHANGED <<proc, node, save, lost, failed, faults>>

------------------------------------------------------------------------------
(* Processes.                                                               *)

Empty == [t \in Torrents |-> "none"]

(* main loads the settings ... *)
load_settings(n) ==
  /\ proc[n] = "down"
  /\ proc' = [proc EXCEPT ![n] = "loaded"]
  /\ cfg' = [cfg EXCEPT ![n] = disk.cat]
  /\ seen' = [seen EXCEPT ![n] = disk.seen]
  /\ UNCHANGED <<disk, lock, place, torrents, files, save, cli, history, faults>>

(* ... then tries the lock and starts the app in the role this gives it;    *)
(* it restores the torrents, scans its folders, and a leader saves.  A      *)
(* follower shows even what it does not restore.                            *)
new_with_lock_AnyLock(n) ==
  /\ proc[n] = "loaded"
  /\ proc' = [proc EXCEPT ![n] = "leader"]
  /\ rt' = [rt EXCEPT ![n] = cfg[n]]
  /\ live' = [live EXCEPT ![n] = {t \in Torrents : should_load_persisted_torrent(cfg[n][t])}]
  /\ lock' = lock \cup {n}
  /\ save_state_to_disk(n, "leader", cfg[n], seen[n])
  /\ UNCHANGED <<disk, place, closing, seen, files, writer, cli, history, faults>>

new_with_lock(n) ==
  /\ proc[n] = "loaded"
  /\ LET role == IF lock = {} THEN "leader" ELSE "follower"
         loaded == {t \in Torrents : should_load_persisted_torrent(cfg[n][t])}
     IN
       /\ proc' = [proc EXCEPT ![n] = role]
       /\ rt' = [rt EXCEPT ![n] = [t \in Torrents |->
                    IF t \in loaded \/ role = "follower" THEN cfg[n][t] ELSE "none"]]
       /\ live' = [live EXCEPT ![n] =
                    {t \in loaded : ~should_suppress_follower_runtime(role, t)}]
       /\ lock' = IF role = "leader" THEN {n} ELSE lock
       /\ behind' = IF role = "leader" /\ ~(disk.seen \subseteq seen[n])
                    THEN behind \cup {n} ELSE behind
       /\ \E order \in Orders(Waiting(n, role)) :
            /\ queue' = [queue EXCEPT ![n] = order]
            /\ recent' = [recent EXCEPT ![n] = Range(order)]
       /\ save_state_to_disk(n, role, rt'[n], seen[n])
  /\ UNCHANGED <<disk, place, closing, seen, handling, writer, cli, durable, lost, failed,
                 faults>>

(* A follower that gets the lock reloads, starts what has no manager yet,   *)
(* and scans the inbox.  If the load fails it leads with what it has.       *)
start_missing_runtime_torrents(n, new) ==
  \E has \in {synced_live(live[n], "leader", cfg[n], new)},
     run \in {synced_rt(rt[n], live[n], "leader", cfg[n], new)} :
    \E started \in {{t \in Torrents \ has : should_load_persisted_torrent(new[t])}} :
      /\ live' = [live EXCEPT ![n] = has \cup started]
      /\ rt' = [rt EXCEPT ![n] = [t \in Torrents |-> IF t \in started THEN new[t] ELSE run[t]]]
      /\ closing' = [closing EXCEPT ![n] = @ \cup synced_closing(live[n], "leader", cfg[n], new)]
      /\ seen' = [seen EXCEPT ![n] = disk.seen]

maybe_promote_to_shared_leader_NoReload(n) ==
  /\ Idle(n) /\ proc[n] = "follower" /\ lock = {}
  /\ lock' = {n} /\ proc' = [proc EXCEPT ![n] = "leader"]
  /\ \E order \in Orders(Fresh(n, "leader")) :
       process_pending_commands(n, "leader", rt[n], seen[n], order)
  /\ UNCHANGED <<disk, place, torrents, seen, handling, writer, cli, history, faults>>

maybe_promote_to_shared_leader(n) ==
  /\ Idle(n) /\ proc[n] = "follower" /\ lock = {}
  /\ lock' = {n} /\ proc' = [proc EXCEPT ![n] = "leader"]
  /\ \E order \in Orders(Fresh(n, "leader")) :
       /\ queue' = [queue EXCEPT ![n] = @ \o order]
       /\ recent' = [recent EXCEPT ![n] = @ \cup Range(order)]
       /\ \/ /\ start_missing_runtime_torrents(n, disk.cat)
             /\ IF Range(order) \subseteq Range(queue[n])
                THEN cfg' = [cfg EXCEPT ![n] = disk.cat] /\ UNCHANGED payload
                ELSE save_state_to_disk(n, "leader", rt'[n], disk.seen)
             /\ UNCHANGED <<behind, faults>>
          \/ /\ Fault("load")
             /\ IF Range(order) \subseteq Range(queue[n])
                THEN UNCHANGED <<cfg, payload>>
                ELSE save_state_to_disk(n, "leader", rt[n], seen[n])
             /\ behind' = behind \cup {n}
             /\ UNCHANGED <<torrents, seen>>
  /\ UNCHANGED <<disk, place, handling, writer, cli, durable, lost, failed>>

(* The revision marker, by file event or rescan, makes a follower reload. *)
ReloadClusterState(n) ==
  /\ Idle(n) /\ proc[n] = "follower"
  /\ <<disk.cat, disk.seen>> # <<cfg[n], seen[n]>>
  /\ IF disk.cat = cfg[n] THEN seen' = [seen EXCEPT ![n] = disk.seen] /\ UNCHANGED torrents
     ELSE sync_runtime_torrents_from_settings(n, "follower", disk.cat, disk.seen)
  /\ cfg' = [cfg EXCEPT ![n] = disk.cat]
  /\ UNCHANGED <<disk, lock, place, proc, files, save, cli, history, faults>>

(* Every two seconds a follower shows what its settings have and it lacks. *)
refresh_follower_read_model(n) ==
  /\ Idle(n) /\ proc[n] = "follower"
  /\ \E t \in Torrents : rt[n][t] = "none" /\ cfg[n][t] # "none"
  /\ rt' = [rt EXCEPT ![n] = [t \in Torrents |-> IF @[t] = "none" THEN cfg[n][t] ELSE @[t]]]
  /\ UNCHANGED <<disk, lock, place, proc, cfg, live, closing, seen, files, save, cli,
                 history, faults>>

(* A manager has shut down or deleted its files. *)
DeletionComplete(n, t) ==
  /\ Idle(n) /\ t \in closing[n]
  /\ rt' = [rt EXCEPT ![n] = [@ EXCEPT ![t] = "none"]]
  /\ live' = [live EXCEPT ![n] = @ \ {t}]
  /\ closing' = [closing EXCEPT ![n] = @ \ {t}]
  /\ save_state_to_disk(n, proc[n], rt'[n], seen[n])
  /\ UNCHANGED <<disk, lock, place, proc, seen, files, writer, cli, history, faults>>

(* A follower's user edits a host-local setting: the whole of its settings  *)
(* is saved, its catalog included if that differs from the file.            *)
UpdateConfig(n) ==
  /\ Fault("hostedit") /\ Idle(n) /\ proc[n] = "follower" /\ cfg[n] # disk.cat
  /\ save_settings([cat |-> cfg[n], seen |-> seen[n]])
  /\ behind' = behind \cup lock
  /\ UNCHANGED <<lock, place, proc, node, save, cli, lost, failed>>

(* The process ends: its memory and its lock go. *)
Gone(n) ==
  /\ proc' = [proc EXCEPT ![n] = "down"]
  /\ cfg' = [cfg EXCEPT ![n] = Empty]
  /\ rt' = [rt EXCEPT ![n] = Empty]
  /\ live' = [live EXCEPT ![n] = {}]
  /\ closing' = [closing EXCEPT ![n] = {}]
  /\ seen' = [seen EXCEPT ![n] = {}]
  /\ queue' = [queue EXCEPT ![n] = <<>>]
  /\ recent' = [recent EXCEPT ![n] = {}]
  /\ handling' = [handling EXCEPT ![n] = {}]
  /\ payload' = [payload EXCEPT ![n] = {}]
  /\ writer' = [writer EXCEPT ![n] = {}]
  /\ lock' = lock \ {n}
  /\ behind' = behind \ {n}
  /\ failed' = failed \ {n}

(* The main loop is left: a last save is queued. *)
Quit(n) ==
  /\ Fault("stop") /\ Idle(n)
  /\ proc' = [proc EXCEPT ![n] = "stopping"]
  /\ save_state_to_disk(n, proc[n], rt[n], seen[n])
  /\ UNCHANGED <<disk, lock, place, torrents, seen, files, writer, cli, history>>

(* The process exits when the writer has written everything. *)
flush_persistence_writer_NoWait(n) ==
  /\ proc[n] = "stopping"
  /\ Gone(n)
  /\ UNCHANGED <<disk, place, cli, durable, lost, faults>>

flush_persistence_writer(n) ==
  /\ proc[n] = "stopping" /\ payload[n] = {} /\ writer[n] = {}
  /\ Gone(n)
  /\ lost' = IF n \in failed THEN lost \cup (seen[n] \ durable) ELSE lost
  /\ UNCHANGED <<disk, place, cli, durable, faults>>

Crash(n) ==
  /\ Fault("crash") /\ proc[n] # "down"
  /\ Gone(n)
  /\ lost' = lost \cup (seen[n] \ durable)
  /\ UNCHANGED <<disk, place, cli, durable>>

------------------------------------------------------------------------------
Init ==
  /\ disk = [cat |-> [t \in Torrents |-> IF t \in Present THEN "running" ELSE "none"],
             seen |-> {}]
  /\ lock = {} /\ cli = {}
  /\ place = [r \in Requests |-> "unfiled"]
  /\ proc = [n \in Nodes |-> "down"]
  /\ cfg = [n \in Nodes |-> Empty] /\ rt = [n \in Nodes |-> Empty]
  /\ live = [n \in Nodes |-> {}] /\ closing = [n \in Nodes |-> {}]
  /\ seen = [n \in Nodes |-> {}]
  /\ queue = [n \in Nodes |-> <<>>] /\ recent = [n \in Nodes |-> {}]
  /\ handling = [n \in Nodes |-> {}]
  /\ payload = [n \in Nodes |-> {}] /\ writer = [n \in Nodes |-> {}]
  /\ behind = {} /\ durable = {} /\ lost = {} /\ failed = {}
  /\ faults = 0

NodeStep(n) ==
  \/ load_settings(n) \/ new_with_lock(n) \/ maybe_promote_to_shared_leader(n)
  \/ rescan(n) \/ spacing_over(n) \/ relay_local_watch_file(n)
  \/ ControlRequest(n) \/ archive_watch_file(n)
  \/ persist_begin(n) \/ persist_end(n) \/ network_history_persist_tick(n)
  \/ ReloadClusterState(n) \/ refresh_follower_read_model(n) \/ UpdateConfig(n)
  \/ \E t \in Torrents : DeletionComplete(n, t)
  \/ Quit(n) \/ flush_persistence_writer(n) \/ Crash(n)

CliStep ==
  \/ queue_control_request_command
  \/ try_acquire_app_lock_cli
  \/ apply_offline_control_request_mut

Next ==
  \/ \E n \in Nodes : NodeStep(n)
  \/ CliStep
  \/ \E r \in Requests : load_settings_for_cli(r)
  \/ \E r \in Requests, n \in Nodes : DropFile(r, n) \/ SubmitControlRequest(r, n)

Spec == Init /\ [][Next]_vars

(* What a running process is bound to do: start up, finish a command, take  *)
(* the free lock at the next two-second tick, enqueue and handle files at   *)
(* the next rescan, write, reload, hear from its managers, exit.  Starting  *)
(* a process again and making requests are up to the user.                  *)
CanProgress ==
  \/ cli # {}
  \/ \E n \in Nodes :
       \/ proc[n] \in {"loaded", "stopping"}
       \/ payload[n] # {} \/ writer[n] # {} \/ handling[n] # {}
       \/ Up(n) /\ (queue[n] # <<>> \/ Waiting(n, proc[n]) # {})
       \/ Up(n) /\ closing[n] # {}
       \/ /\ proc[n] = "follower"
          /\ \/ lock = {} \/ disk.cat # cfg[n]
             \/ \E t \in Torrents : rt[n][t] = "none" /\ cfg[n][t] # "none"

(* Every behaviour makes finitely many steps that change anything, so that  *)
(* it is enough that the system does not rest while a process can go on.    *)
LiveSpec == Spec /\ ([]<>~CanProgress \/ []<><<TRUE>>_vars)

------------------------------------------------------------------------------
(* Types; the lock has one holder at most. *)
TypeOK ==
  /\ disk \in Saved
  /\ lock \in Opt(Nodes \cup {"cli"})
  /\ cli \in Opt([req : Requests, cat : Catalog, seen : SUBSET Requests])
  /\ place \in [Requests -> Spots \cup Nodes]
  /\ proc \in [Nodes -> {"down", "loaded", "leader", "follower", "stopping"}]
  /\ cfg \in [Nodes -> Catalog] /\ rt \in [Nodes -> Catalog]
  /\ live \in [Nodes -> SUBSET Torrents] /\ closing \in [Nodes -> SUBSET Torrents]
  /\ seen \in [Nodes -> SUBSET Requests]
  /\ queue \in [Nodes -> Seq(Entry)] /\ recent \in [Nodes -> SUBSET Entry]
  /\ handling \in [Nodes -> Opt(Entry)]
  /\ payload \in [Nodes -> Opt(Saved)] /\ writer \in [Nodes -> Opt(Saved)]
  /\ behind \subseteq Nodes \cup {"cli"}
  /\ durable \subseteq Requests /\ lost \subseteq Requests /\ failed \subseteq Nodes
  /\ faults \in 0 .. MaxFaults

(* A request that is on disk is taken off it only by a process that may     *)
(* lead without knowing what is there: one that loaded its settings before  *)
(* it took the lock, or whose reload at promotion failed, or that was       *)
(* overwritten by a follower; or by such a follower's host-local edit.      *)
(* This is what the reload after promotion and the order of the writer's    *)
(* payloads are for.                                                        *)
NoLostUpdate ==
  [][ \/ disk.seen \subseteq disk'.seen
      \/ lock \cap behind # {}
      \/ \E n \in Nodes : UpdateConfig(n) ]_vars

(* A request whose file was archived is on disk, or with the process that   *)
(* leads, unless a process crashed, or exited after a failed write, while   *)
(* it alone knew of it.  The file is archived before the save is done; what *)
(* makes this hold is the flush at exit and that only a leader archives.    *)
ArchivedIsKept ==
  \A r \in Requests :
    place[r] = "archived" =>
      r \in durable \cup lost \cup
            UNION {seen[n] : n \in {m \in Nodes : lock = {m}}}

(* No request file waits for ever in the inbox, or in the watch folder of a *)
(* node, while that node runs: the node takes over if nobody leads, and     *)
(* files left behind by a failed archiving, a crash, or a leader that quit  *)
(* are taken up again.                                                      *)
RequestsHandled ==
  \A r \in Requests, m \in Nodes :
    []<>~(Up(m) /\ place[r] \in {m, "inbox"})

(* Infinitely often every follower shows exactly the catalog that is on     *)
(* disk, whichever markers and intermediate catalogs it missed and whatever *)
(* its own managers were doing when the catalog changed.                    *)
FollowersConverge ==
  []<>(\A n \in Nodes : proc[n] = "follower" => rt[n] = disk.cat)

(* docs/shared-config.md: the leader is the only node that writes the       *)
(* catalog; with nobody leading the command line may.  UpdateConfig on a    *)
(* follower breaks it.                                                      *)
LeaderWritesOnly ==
  [][ disk'.cat # disk.cat => \/ lock = {"cli"}
                             \/ \E n \in Nodes : lock = {n} /\ writer[n] # {} ]_vars

(* docs/shared-config.md: a purge removes the torrent.  A follower that     *)
(* only shows the torrent and is promoted while it is Deleting has no       *)
(* manager that would report, keeps it, and saves it again.                 *)
PurgeRemoves ==
  \A n \in Nodes, t \in Torrents : []<>~(proc[n] = "leader" /\ rt[n][t] = "deleting")
=============================================================================
