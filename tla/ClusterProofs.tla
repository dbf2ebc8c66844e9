---------------------------- MODULE ClusterProofs ----------------------------
(***************************************************************************)
(* Safety of the shared cluster for any number of nodes, requests and      *)
(* faults: types, NoLostUpdate and ArchivedIsKept.                         *)
(***************************************************************************)
EXTENDS Cluster, FiniteSetTheorems, SequenceTheorems, TLAPS

------------------------------------------------------------------------------
(* Catalog operators. *)

LEMMA PlanType ==
  ASSUME NEW c \in Catalog, NEW r \in Requests
  PROVE  /\ plan_control_request(c, r) \in Catalog
         /\ apply_offline_control_request(c, r) \in Catalog
  BY ClusterAssumption DEF plan_control_request, apply_offline_control_request, After,
     Catalog, Control, Ops

LEMMA SyncedType ==
  ASSUME NEW run \in Catalog, NEW old \in Catalog, NEW new \in Catalog,
         NEW has \in SUBSET Torrents, NEW role
  PROVE  /\ synced_rt(run, has, role, old, new) \in Catalog
         /\ synced_live(has, role, old, new) \in SUBSET Torrents
         /\ synced_closing(has, role, old, new) \in SUBSET Torrents
  BY DEF synced_rt, synced_live, synced_closing, Catalog, Control

LEMMA OrderType ==
  ASSUME NEW S \in SUBSET Entry, NEW s \in Orders(S)
  PROVE  s \in Seq(Entry) /\ Range(s) \subseteq S
<1>1. IsFiniteSet(Entry)
  BY ClusterAssumption, FS_Product, FS_AddElement, Zenon DEF Entry
<1>2. Cardinality(S) \in Nat
  BY <1>1, FS_Subset, FS_CardinalityType
<1>3. s \in [1 .. Cardinality(S) -> S]
  BY DEF Orders
<1>4. s \in Seq(Entry)
  BY <1>2, <1>3, SeqDef
<1> QED
  BY <1>3, <1>4 DEF Range

LEMMA WaitingType ==
  ASSUME NEW n \in Nodes, NEW role
  PROVE  Waiting(n, role) \in SUBSET Entry /\ Fresh(n, role) \in SUBSET Entry
  BY DEF Waiting, Fresh

LEMMA OptElement ==
  ASSUME NEW S, NEW o \in Opt(S)
  PROVE  \A x \in o : x \in S /\ o = {x}
  BY Zenon DEF Opt

LEMMA OptType ==
  ASSUME NEW S
  PROVE  {} \in Opt(S) /\ \A x \in S : {x} \in Opt(S)
  BY Zenon DEF Opt

LEMMA RangeType ==
  ASSUME NEW s \in Seq(Entry)
  PROVE  Range(s) \subseteq Entry
  BY DEF Range

------------------------------------------------------------------------------
(* Types. *)

(* A save and a fault keep the types of what they touch. *)
LEMMA HeadRequest ==
  ASSUME TypeOK, NEW n \in Nodes, queue[n] # <<>>
  PROVE  Head(queue[n])[1] \in Requests
<1>1. queue[n] \in Seq(Entry)
  BY DEF TypeOK
<1>2. Head(queue[n]) \in Entry
  BY <1>1
<1> QED
  BY <1>2 DEF Entry

LEMMA SaveType ==
  ASSUME TypeOK, NEW n \in Nodes, NEW role, NEW run \in Catalog,
         NEW known \in SUBSET Requests,
         save_state_to_disk(n, role, run, known)
  PROVE  cfg' \in [Nodes -> Catalog] /\ payload' \in [Nodes -> Opt(Saved)]
<1>1. {[cat |-> run, seen |-> known]} \in Opt(Saved)
  BY DEF Opt, Saved
<1>2. CASE role = "leader"
  <2>1. /\ cfg' = [cfg EXCEPT ![n] = run]
        /\ payload' = [payload EXCEPT ![n] = {[cat |-> run, seen |-> known]}]
    BY <1>2 DEF save_state_to_disk
  <2> QED
    BY <1>1, <2>1 DEF TypeOK
<1>3. CASE role # "leader"
  BY <1>3 DEF TypeOK, save_state_to_disk
<1> QED
  BY <1>2, <1>3

LEMMA WriteType ==
  ASSUME TypeOK, NEW w \in Saved, save_settings(w)
  PROVE  disk' \in Saved /\ durable' \subseteq Requests
  BY Zenon DEF TypeOK, save_settings, Saved

LEMMA FaultType ==
  ASSUME TypeOK, NEW kind, Fault(kind)
  PROVE  faults' \in 0 .. MaxFaults
  BY ClusterAssumption DEF TypeOK, Fault

LEMMA SyncType ==
  ASSUME TypeOK, NEW n \in Nodes, NEW role, NEW new \in Catalog,
         NEW known \in SUBSET Requests,
         sync_runtime_torrents_from_settings(n, role, new, known)
  PROVE  /\ rt' \in [Nodes -> Catalog]
         /\ live' \in [Nodes -> SUBSET Torrents] /\ closing' \in [Nodes -> SUBSET Torrents]
         /\ seen' \in [Nodes -> SUBSET Requests]
<1>1. /\ synced_rt(rt[n], live[n], role, cfg[n], new) \in Catalog
      /\ synced_live(live[n], role, cfg[n], new) \in SUBSET Torrents
      /\ synced_closing(live[n], role, cfg[n], new) \in SUBSET Torrents
  BY SyncedType, Zenon DEF TypeOK
<1> DEFINE run == synced_rt(rt[n], live[n], role, cfg[n], new)
           has == synced_live(live[n], role, cfg[n], new)
           stop == synced_closing(live[n], role, cfg[n], new)
<1>2. /\ rt' = [rt EXCEPT ![n] = run] /\ live' = [live EXCEPT ![n] = has]
      /\ closing' = [closing EXCEPT ![n] = @ \cup stop] /\ seen' = [seen EXCEPT ![n] = known]
  BY DEF sync_runtime_torrents_from_settings
<1>3. run \in Catalog /\ has \in SUBSET Torrents /\ stop \in SUBSET Torrents
  BY <1>1
<1> HIDE DEF run, has, stop
<1> QED
  BY <1>2, <1>3 DEF TypeOK

LEMMA ApplyType ==
  ASSUME TypeOK, NEW n \in Nodes, NEW r \in Requests, apply_control_request(n, r)
  PROVE  /\ rt' \in [Nodes -> Catalog]
         /\ live' \in [Nodes -> SUBSET Torrents] /\ closing' \in [Nodes -> SUBSET Torrents]
         /\ seen' = [seen EXCEPT ![n] = @ \cup {r}]
         /\ seen' \in [Nodes -> SUBSET Requests]
<1>1. CASE Op[r] = "add"
  <2>1. Target[r] \in Torrents
    BY ClusterAssumption
  <2>2. /\ rt[n] \in Catalog
        /\ [rt[n] EXCEPT ![Target[r]] = "running"] \in Catalog
    BY <2>1 DEF TypeOK, Catalog, Control
  <2>3. /\ rt' = [rt EXCEPT ![n] = IF Target[r] \in live[n] THEN rt[n]
                                    ELSE [rt[n] EXCEPT ![Target[r]] = "running"]]
        /\ live' = [live EXCEPT ![n] = live[n] \cup {Target[r]}]
        /\ seen' = [seen EXCEPT ![n] = seen[n] \cup {r}]
        /\ closing' = closing
    BY <1>1 DEF apply_control_request, TypeOK
  <2> QED
    BY <2>1, <2>2, <2>3 DEF TypeOK
<1>2. CASE Op[r] # "add"
  <2>1. sync_runtime_torrents_from_settings(n, "leader", plan_control_request(cfg[n], r),
                                            seen[n] \cup {r})
    BY <1>2 DEF apply_control_request
  <2>2. plan_control_request(cfg[n], r) \in Catalog /\ seen[n] \cup {r} \in SUBSET Requests
    BY PlanType DEF TypeOK
  <2>3. seen' = [seen EXCEPT ![n] = @ \cup {r}]
    BY <2>1 DEF sync_runtime_torrents_from_settings, TypeOK
  <2> QED
    BY <2>1, <2>2, <2>3, SyncType, Zenon
<1> QED
  BY <1>1, <1>2

LEMMA StartType ==
  ASSUME TypeOK, NEW n \in Nodes, start_missing_runtime_torrents(n, disk.cat)
  PROVE  /\ rt' \in [Nodes -> Catalog]
         /\ live' \in [Nodes -> SUBSET Torrents] /\ closing' \in [Nodes -> SUBSET Torrents]
         /\ seen' = [seen EXCEPT ![n] = disk.seen]
         /\ seen' \in [Nodes -> SUBSET Requests]
<1> DEFINE has == synced_live(live[n], "leader", cfg[n], disk.cat)
           run == synced_rt(rt[n], live[n], "leader", cfg[n], disk.cat)
           stop == synced_closing(live[n], "leader", cfg[n], disk.cat)
<1>1. disk.cat \in Catalog /\ disk.seen \in SUBSET Requests
  BY DEF TypeOK, Saved
<1>2. run \in Catalog /\ has \in SUBSET Torrents /\ stop \in SUBSET Torrents
  BY <1>1, SyncedType, Zenon DEF TypeOK
<1> DEFINE started == {t \in Torrents \ has : should_load_persisted_torrent(disk.cat[t])}
           all == [t \in Torrents |-> IF t \in started THEN disk.cat[t] ELSE run[t]]
<1>3. /\ live' = [live EXCEPT ![n] = has \cup started]
      /\ rt' = [rt EXCEPT ![n] = all]
      /\ closing' = [closing EXCEPT ![n] = closing[n] \cup stop]
      /\ seen' = [seen EXCEPT ![n] = disk.seen]
  BY Zenon DEF start_missing_runtime_torrents
<1>4. started \in SUBSET Torrents
  OBVIOUS
<1> HIDE DEF has, run, stop, started
<1>5. all \in Catalog
  BY <1>1, <1>2 DEF Catalog
<1> HIDE DEF all
<1> QED
  BY <1>1, <1>2, <1>3, <1>4, <1>5 DEF TypeOK

LEMMA GoneType ==
  ASSUME TypeOK, NEW n \in Nodes, Gone(n)
  PROVE  /\ lock' \in Opt(Nodes \cup {"cli"})
         /\ proc' \in [Nodes -> {"down", "loaded", "leader", "follower", "stopping"}]
         /\ cfg' \in [Nodes -> Catalog] /\ rt' \in [Nodes -> Catalog]
         /\ live' \in [Nodes -> SUBSET Torrents] /\ closing' \in [Nodes -> SUBSET Torrents]
         /\ seen' \in [Nodes -> SUBSET Requests]
         /\ queue' \in [Nodes -> Seq(Entry)] /\ recent' \in [Nodes -> SUBSET Entry]
         /\ handling' \in [Nodes -> Opt(Entry)]
         /\ payload' \in [Nodes -> Opt(Saved)] /\ writer' \in [Nodes -> Opt(Saved)]
         /\ behind' \subseteq Nodes \cup {"cli"} /\ failed' \subseteq Nodes
<1>1. Empty \in Catalog
  BY DEF Empty, Catalog, Control
<1>2. {} \in Opt(Entry) /\ {} \in Opt(Saved) /\ <<>> \in Seq(Entry)
  BY DEF Opt
<1>3. lock' \in Opt(Nodes \cup {"cli"})
  <2>1. lock' = lock \ {n}
    BY DEF Gone
  <2>2. lock' = {} \/ lock' = lock
    BY <2>1 DEF TypeOK, Opt
  <2> QED
    BY <2>2 DEF TypeOK, Opt
<1>4. /\ cfg' \in [Nodes -> Catalog] /\ rt' \in [Nodes -> Catalog]
      /\ live' \in [Nodes -> SUBSET Torrents] /\ closing' \in [Nodes -> SUBSET Torrents]
      /\ seen' \in [Nodes -> SUBSET Requests]
  BY <1>1 DEF TypeOK, Gone
<1>5. /\ queue' \in [Nodes -> Seq(Entry)] /\ recent' \in [Nodes -> SUBSET Entry]
      /\ handling' \in [Nodes -> Opt(Entry)]
      /\ payload' \in [Nodes -> Opt(Saved)] /\ writer' \in [Nodes -> Opt(Saved)]
  BY <1>2 DEF TypeOK, Gone
<1>6. /\ proc' \in [Nodes -> {"down", "loaded", "leader", "follower", "stopping"}]
      /\ behind' \subseteq Nodes \cup {"cli"} /\ failed' \subseteq Nodes
  BY DEF TypeOK, Gone
<1> QED
  BY <1>3, <1>4, <1>5, <1>6

LEMMA TypeInductive == TypeOK /\ [Next]_vars => TypeOK'
<1> SUFFICES ASSUME TypeOK, [Next]_vars PROVE TypeOK'
  OBVIOUS
<1>1. ASSUME NEW n \in Nodes, load_settings(n) PROVE TypeOK'
  BY <1>1, Zenon DEF load_settings, TypeOK, vars, node, torrents, files, save, history, Saved
<1>2. ASSUME NEW n \in Nodes, new_with_lock(n) PROVE TypeOK'
  <2> DEFINE role == IF lock = {} THEN "leader" ELSE "follower"
             loaded == {t \in Torrents : should_load_persisted_torrent(cfg[n][t])}
             run == [t \in Torrents |->
                      IF t \in loaded \/ role = "follower" THEN cfg[n][t] ELSE "none"]
             has == {t \in loaded : ~should_suppress_follower_runtime(role, t)}
  <2>1. /\ proc' = [proc EXCEPT ![n] = role]
        /\ rt' = [rt EXCEPT ![n] = run]
        /\ live' = [live EXCEPT ![n] = has]
        /\ lock' = IF role = "leader" THEN {n} ELSE lock
        /\ behind' = IF role = "leader" /\ ~(disk.seen \subseteq seen[n])
                     THEN behind \cup {n} ELSE behind
        /\ \E order \in Orders(Waiting(n, role)) :
             /\ queue' = [queue EXCEPT ![n] = order]
             /\ recent' = [recent EXCEPT ![n] = Range(order)]
        /\ save_state_to_disk(n, role, rt'[n], seen[n])
        /\ UNCHANGED <<disk, place, closing, seen, handling, writer, cli, durable, lost,
                       failed, faults>>
    BY <1>2, Zenon DEF new_with_lock
  <2>9. PICK order \in Orders(Waiting(n, role)) :
             /\ queue' = [queue EXCEPT ![n] = order]
             /\ recent' = [recent EXCEPT ![n] = Range(order)]
    BY <2>1, Zenon
  <2>2. role \in {"leader", "follower"}
    OBVIOUS
  <2>3. run \in Catalog /\ has \in SUBSET Torrents
    BY DEF Catalog, Control, TypeOK
  <2>4. order \in Seq(Entry) /\ Range(order) \in SUBSET Entry
    BY <2>9, WaitingType, OrderType
  <2> HIDE DEF run, has, role, loaded
  <2>5. rt'[n] = run /\ rt' \in [Nodes -> Catalog]
    BY <2>1, <2>3 DEF TypeOK
  <2>6. cfg' \in [Nodes -> Catalog] /\ payload' \in [Nodes -> Opt(Saved)]
    <3>1. rt'[n] \in Catalog /\ seen[n] \in SUBSET Requests
      BY <2>3, <2>5, Zenon DEF TypeOK
    <3>2. save_state_to_disk(n, role, rt'[n], seen[n])
      BY <2>1
    <3> QED
      BY <3>1, <3>2, SaveType, Zenon
  <2>7. lock' \in Opt(Nodes \cup {"cli"})
    BY <2>1, OptType, Zenon DEF TypeOK
  <2>8. behind' \subseteq Nodes \cup {"cli"}
    BY <2>1 DEF TypeOK
  <2> QED
    BY <2>1, <2>2, <2>3, <2>4, <2>5, <2>6, <2>7, <2>8, <2>9, Zenon DEF TypeOK
<1>3. ASSUME NEW n \in Nodes, maybe_promote_to_shared_leader(n) PROVE TypeOK'
  <2>1. PICK order \in Orders(Fresh(n, "leader")) :
          /\ queue' = [queue EXCEPT ![n] = @ \o order]
          /\ recent' = [recent EXCEPT ![n] = @ \cup Range(order)]
          /\ \/ /\ start_missing_runtime_torrents(n, disk.cat)
                /\ IF Range(order) \subseteq Range(queue[n])
                   THEN cfg' = [cfg EXCEPT ![n] = disk.cat] /\ UNCHANGED payload
                   ELSE save_state_to_disk(n, "leader", rt'[n], disk.seen)
                /\ UNCHANGED <<behind, faults>>
             \/ /\ Fault("load")
                /\ IF Range(order) \subseteq Range(queue[n])
                   THEN UNCHANGED <<cfg, payload>>
                   ELSE save_state_to_disk(n, "leader", rt[n], seen[n])
                /\ behind' = behind \cup {n}
                /\ UNCHANGED <<torrents, seen>>
    BY <1>3, Zenon DEF maybe_promote_to_shared_leader
  <2>2. order \in Seq(Entry) /\ Range(order) \in SUBSET Entry
    BY <2>1, WaitingType, OrderType
  <2>3. queue' \in [Nodes -> Seq(Entry)] /\ recent' \in [Nodes -> SUBSET Entry]
    BY <2>1, <2>2 DEF TypeOK
  <2>4. /\ lock' \in Opt(Nodes \cup {"cli"})
        /\ proc' \in [Nodes -> {"down", "loaded", "leader", "follower", "stopping"}]
    BY <1>3 DEF maybe_promote_to_shared_leader, TypeOK, Opt
  <2>5. UNCHANGED <<disk, place, handling, writer, cli, durable, lost, failed>>
    BY <1>3 DEF maybe_promote_to_shared_leader
  <2>6. disk.cat \in Catalog /\ disk.seen \in SUBSET Requests
    BY Zenon DEF TypeOK, Saved
  <2>7. CASE /\ start_missing_runtime_torrents(n, disk.cat)
             /\ IF Range(order) \subseteq Range(queue[n])
                THEN cfg' = [cfg EXCEPT ![n] = disk.cat] /\ UNCHANGED payload
                ELSE save_state_to_disk(n, "leader", rt'[n], disk.seen)
             /\ UNCHANGED <<behind, faults>>
    <3>1. /\ rt' \in [Nodes -> Catalog]
          /\ live' \in [Nodes -> SUBSET Torrents] /\ closing' \in [Nodes -> SUBSET Torrents]
          /\ seen' \in [Nodes -> SUBSET Requests]
      BY <2>7, StartType
    <3>2. rt'[n] \in Catalog
      BY <3>1
    <3>3. cfg' \in [Nodes -> Catalog] /\ payload' \in [Nodes -> Opt(Saved)]
      BY <2>6, <2>7, <3>2, SaveType, Zenon DEF TypeOK
    <3> QED
      BY <2>3, <2>4, <2>5, <2>7, <3>1, <3>3, Zenon DEF TypeOK
  <2>8. CASE /\ Fault("load")
             /\ IF Range(order) \subseteq Range(queue[n])
                THEN UNCHANGED <<cfg, payload>>
                ELSE save_state_to_disk(n, "leader", rt[n], seen[n])
             /\ behind' = behind \cup {n}
             /\ UNCHANGED <<torrents, seen>>
    <3>1. cfg' \in [Nodes -> Catalog] /\ payload' \in [Nodes -> Opt(Saved)]
      BY <2>8, SaveType, Zenon DEF TypeOK
    <3>2. faults' \in 0 .. MaxFaults
      BY <2>8, FaultType, Zenon
    <3> QED
      BY <2>3, <2>4, <2>5, <2>8, <3>1, <3>2, Zenon DEF TypeOK, torrents
  <2> QED
    BY <2>1, <2>7, <2>8
<1>4. ASSUME NEW n \in Nodes, rescan(n) PROVE TypeOK'
  <2>1. PICK order \in Orders(Fresh(n, proc[n])) :
          process_pending_commands(n, proc[n], rt[n], seen[n], order)
    BY <1>4 DEF rescan
  <2>2. order \in Seq(Entry) /\ Range(order) \in SUBSET Entry
    BY <2>1, WaitingType, OrderType
  <2>3. queue' \in [Nodes -> Seq(Entry)] /\ recent' \in [Nodes -> SUBSET Entry]
    BY <2>1, <2>2 DEF TypeOK, process_pending_commands
  <2>4. cfg' \in [Nodes -> Catalog] /\ payload' \in [Nodes -> Opt(Saved)]
    BY <2>1, SaveType, Zenon DEF TypeOK, process_pending_commands
  <2> QED
    BY <1>4, <2>3, <2>4, Zenon DEF rescan, TypeOK, vars, node, torrents, files, save, history
<1>5. ASSUME NEW n \in Nodes, spacing_over(n) PROVE TypeOK'
  <2>1. faults' \in 0 .. MaxFaults
    BY <1>5, FaultType, Zenon DEF spacing_over, TypeOK
  <2> QED
    BY <1>5, <2>1 DEF spacing_over, TypeOK, vars, node, torrents, files, save, history
<1>6. ASSUME NEW n \in Nodes, relay_local_watch_file(n) PROVE TypeOK'
  <2>1. faults' \in 0 .. MaxFaults
    BY <1>6, FaultType, Zenon DEF relay_local_watch_file, TypeOK
  <2>2. queue' \in [Nodes -> Seq(Entry)] /\ Head(queue[n]) \in Entry
    BY <1>6 DEF relay_local_watch_file, TypeOK
  <2>3. Head(queue[n])[1] \in Requests
    BY <2>2, Zenon DEF Entry
  <2>4. place' \in [Requests -> Spots \cup Nodes]
    BY <1>6, <2>3, Zenon DEF relay_local_watch_file, TypeOK, Spots
  <2> QED
    BY <1>6, <2>1, <2>2, <2>4, Zenon DEF relay_local_watch_file, TypeOK, vars, node, torrents, files, save, history
<1>7. ASSUME NEW n \in Nodes, ControlRequest(n) PROVE TypeOK'
  <2> DEFINE e == Head(queue[n])
  <2>1. e \in Entry /\ e[1] \in Requests /\ queue' \in [Nodes -> Seq(Entry)]
    BY <1>7 DEF ControlRequest, TypeOK, Entry
  <2>2. /\ apply_control_request(n, e[1])
        /\ handling' = [handling EXCEPT ![n] = {e}]
        /\ save_state_to_disk(n, proc[n], rt'[n], seen'[n])
        /\ UNCHANGED <<disk, lock, place, proc, recent, writer, cli, history, faults>>
    BY <1>7, Zenon DEF ControlRequest
  <2> HIDE DEF e
  <2>3. handling' \in [Nodes -> Opt(Entry)]
    BY <2>1, <2>2, Zenon DEF TypeOK, Opt
  <2>4. /\ rt' \in [Nodes -> Catalog]
        /\ live' \in [Nodes -> SUBSET Torrents] /\ closing' \in [Nodes -> SUBSET Torrents]
        /\ seen' \in [Nodes -> SUBSET Requests]
    BY <2>1, <2>2, ApplyType
  <2>5. rt'[n] \in Catalog /\ seen'[n] \in SUBSET Requests
    BY <2>4
  <2>6. cfg' \in [Nodes -> Catalog] /\ payload' \in [Nodes -> Opt(Saved)]
    BY <2>2, <2>5, SaveType, Zenon
  <2> QED
    BY <2>1, <2>2, <2>3, <2>4, <2>6, Zenon DEF TypeOK, history
<1>8. ASSUME NEW n \in Nodes, archive_watch_file(n) PROVE TypeOK'
  <2>1. PICK e \in handling[n] :
          /\ \/ /\ place' = [place EXCEPT ![e[1]] = IF @ = e[2] THEN "archived" ELSE @]
                /\ UNCHANGED faults
             \/ Fault("archive") /\ place[e[1]] = e[2] /\ UNCHANGED place
          /\ handling' = [handling EXCEPT ![n] = {}]
          /\ UNCHANGED <<disk, lock, proc, cfg, torrents, seen, queue, recent, save, cli, history>>
    BY <1>8, Zenon DEF archive_watch_file
  <2>2. e[1] \in Requests
    <3>1. e \in Entry
      BY OptElement DEF TypeOK
    <3> QED
      BY <3>1, Zenon DEF Entry
  <2>3. faults' \in 0 .. MaxFaults
    BY <2>1, FaultType DEF TypeOK
  <2>4. place' \in [Requests -> Spots \cup Nodes]
    BY <2>1, <2>2, Zenon DEF TypeOK, Spots
  <2>5. handling' \in [Nodes -> Opt(Entry)]
    BY <2>1, Zenon DEF TypeOK, Opt
  <2> QED
    BY <2>1, <2>3, <2>4, <2>5 DEF TypeOK, vars, node, torrents, files, save, history
<1>9. ASSUME NEW n \in Nodes, persist_begin(n) PROVE TypeOK'
  <2>1. writer' \in [Nodes -> Opt(Saved)] /\ payload' \in [Nodes -> Opt(Saved)]
    BY <1>9, Zenon DEF persist_begin, TypeOK, Opt
  <2> QED
    BY <1>9, <2>1 DEF persist_begin, TypeOK, vars, node, torrents, files, save, history
<1>10. ASSUME NEW n \in Nodes, persist_end(n) PROVE TypeOK'
  <2>1. PICK w \in writer[n] :
          /\ writer' = [writer EXCEPT ![n] = {}]
          /\ \/ save_settings(w) /\ failed' = failed \ {n} /\ UNCHANGED faults
             \/ Fault("io") /\ failed' = failed \cup {n} /\ UNCHANGED <<disk, durable>>
          /\ UNCHANGED <<lock, place, proc, node, payload, cli, behind, lost>>
    BY <1>10, Zenon DEF persist_end
  <2>2. w \in Saved
    BY OptElement DEF TypeOK
  <2>3. writer' \in [Nodes -> Opt(Saved)]
    BY <2>1, Zenon DEF TypeOK, Opt
  <2>4. /\ disk' \in Saved /\ durable' \subseteq Requests
        /\ failed' \subseteq Nodes /\ faults' \in 0 .. MaxFaults
    BY <2>1, <2>2, WriteType, FaultType, Zenon DEF TypeOK
  <2> QED
    BY <2>1, <2>3, <2>4 DEF TypeOK, vars, node, torrents, files, save, history
<1>11. ASSUME NEW n \in Nodes, network_history_persist_tick(n) PROVE TypeOK'
  <2>1. cfg' \in [Nodes -> Catalog] /\ payload' \in [Nodes -> Opt(Saved)]
    BY <1>11, SaveType, Zenon DEF network_history_persist_tick, TypeOK
  <2> QED
    BY <1>11, <2>1 DEF network_history_persist_tick, TypeOK, vars, node, torrents, files, save, history
<1>12. ASSUME NEW n \in Nodes, ReloadClusterState(n) PROVE TypeOK'
  <2>1. disk.cat \in Catalog /\ disk.seen \in SUBSET Requests
    BY DEF TypeOK, Saved
  <2>2. CASE disk.cat = cfg[n]
    BY <1>12, <2>1, <2>2, Zenon DEF ReloadClusterState, TypeOK, vars, node, torrents, files, save, history
  <2>3. CASE disk.cat # cfg[n]
    <3>1. sync_runtime_torrents_from_settings(n, "follower", disk.cat, disk.seen)
      BY <1>12, <2>3, Zenon DEF ReloadClusterState
    <3>2. /\ rt' \in [Nodes -> Catalog]
          /\ live' \in [Nodes -> SUBSET Torrents] /\ closing' \in [Nodes -> SUBSET Torrents]
          /\ seen' \in [Nodes -> SUBSET Requests]
      BY <2>1, <3>1, SyncType, Zenon
    <3> QED
      BY <1>12, <2>1, <3>2, Zenon DEF ReloadClusterState, TypeOK, vars, node, torrents, files, save, history
  <2> QED
    BY <2>2, <2>3, Zenon
<1>13. ASSUME NEW n \in Nodes, refresh_follower_read_model(n) PROVE TypeOK'
  <2> DEFINE run == [t \in Torrents |-> IF rt[n][t] = "none" THEN cfg[n][t] ELSE rt[n][t]]
  <2>1. rt' = [rt EXCEPT ![n] = run]
    BY <1>13, Zenon DEF refresh_follower_read_model, TypeOK
  <2>2. run \in Catalog
    BY DEF TypeOK, Catalog
  <2> HIDE DEF run
  <2>3. rt' \in [Nodes -> Catalog]
    BY <2>1, <2>2, Zenon DEF TypeOK
  <2> QED
    BY <1>13, <2>3, Zenon DEF refresh_follower_read_model, TypeOK, vars, node, torrents, files, save, history
<1>14. ASSUME NEW n \in Nodes, UpdateConfig(n) PROVE TypeOK'
  <2>1. disk' \in Saved /\ durable' \subseteq Requests
    <3>1. [cat |-> cfg[n], seen |-> seen[n]] \in Saved
      BY DEF TypeOK, Saved
    <3> QED
      BY <1>14, <3>1, WriteType, Zenon DEF UpdateConfig
  <2>2. faults' \in 0 .. MaxFaults
    BY <1>14, FaultType, Zenon DEF UpdateConfig
  <2>3. behind' \subseteq Nodes \cup {"cli"}
    BY <1>14 DEF UpdateConfig, TypeOK, Opt
  <2> QED
    BY <1>14, <2>1, <2>2, <2>3, Zenon DEF UpdateConfig, TypeOK, vars, node, torrents, files, save, history
<1>15. ASSUME NEW n \in Nodes, NEW t \in Torrents, DeletionComplete(n, t) PROVE TypeOK'
  <2>1. [rt[n] EXCEPT ![t] = "none"] \in Catalog
    BY Zenon DEF TypeOK, Catalog, Control
  <2>2. rt' \in [Nodes -> Catalog] /\ rt'[n] \in Catalog
    BY <1>15, <2>1 DEF DeletionComplete, TypeOK
  <2>3. cfg' \in [Nodes -> Catalog] /\ payload' \in [Nodes -> Opt(Saved)]
    BY <1>15, <2>2, SaveType, Zenon DEF DeletionComplete, TypeOK
  <2> QED
    BY <1>15, <2>2, <2>3, Zenon DEF DeletionComplete, TypeOK, vars, node, torrents, files, save, history
<1>16. ASSUME NEW n \in Nodes, Quit(n) PROVE TypeOK'
  <2>1. cfg' \in [Nodes -> Catalog] /\ payload' \in [Nodes -> Opt(Saved)]
    BY <1>16, SaveType, Zenon DEF Quit, TypeOK
  <2>2. faults' \in 0 .. MaxFaults
    BY <1>16, FaultType DEF Quit
  <2> QED
    BY <1>16, <2>1, <2>2, Zenon DEF Quit, TypeOK, vars, node, torrents, files, save, history
<1>17. ASSUME NEW n \in Nodes, flush_persistence_writer(n) PROVE TypeOK'
  <2>1. lost' \subseteq Requests
    BY <1>17 DEF flush_persistence_writer, TypeOK
  <2> QED
    BY <1>17, <2>1, GoneType, Zenon DEF flush_persistence_writer, TypeOK
<1>18. ASSUME NEW n \in Nodes, Crash(n) PROVE TypeOK'
  <2>1. lost' \subseteq Requests
    BY <1>18 DEF Crash, TypeOK
  <2>2. faults' \in 0 .. MaxFaults
    BY <1>18, FaultType, Zenon DEF Crash
  <2> QED
    BY <1>18, <2>1, <2>2, GoneType, Zenon DEF Crash, TypeOK
<1>19. CASE queue_control_request_command
  <2>1. place' \in [Requests -> Spots \cup Nodes]
    BY <1>19 DEF queue_control_request_command, TypeOK, Opt, Spots
  <2>2. cli' \in Opt([req : Requests, cat : Catalog, seen : SUBSET Requests])
    BY <1>19, Zenon DEF queue_control_request_command, Opt
  <2> QED
    BY <1>19, <2>1, <2>2, Zenon DEF queue_control_request_command, TypeOK, vars, node, torrents, files, save, history
<1>20. CASE try_acquire_app_lock_cli
  <2>1. lock' \in Opt(Nodes \cup {"cli"}) /\ behind' \subseteq Nodes \cup {"cli"}
    BY <1>20, Zenon DEF try_acquire_app_lock_cli, TypeOK, Opt
  <2> QED
    BY <1>20, <2>1 DEF try_acquire_app_lock_cli, TypeOK, vars, node, torrents, files, save, history
<1>21. CASE apply_offline_control_request_mut
  <2>1. PICK c \in cli :
          /\ place' = [place EXCEPT ![c.req] = "answered"]
          /\ IF Op[c.req] # "add" /\ c.cat[Target[c.req]] = "none"
             THEN UNCHANGED <<disk, durable>>
             ELSE save_settings([cat |-> apply_offline_control_request(c.cat, c.req),
                                 seen |-> c.seen \cup {c.req}])
    BY <1>21, Zenon DEF apply_offline_control_request_mut
  <2>2. c.req \in Requests /\ c.cat \in Catalog /\ c.seen \in SUBSET Requests
    BY DEF TypeOK, Opt
  <2>3. place' \in [Requests -> Spots \cup Nodes]
    BY <2>1, <2>2, Zenon DEF TypeOK, Spots
  <2>4. [cat |-> apply_offline_control_request(c.cat, c.req), seen |-> c.seen \cup {c.req}]
          \in Saved
    BY <2>2, PlanType, Zenon DEF Saved
  <2>5. disk' \in Saved /\ durable' \subseteq Requests
    BY <2>1, <2>4, WriteType, Zenon DEF TypeOK
  <2>6. /\ lock' \in Opt(Nodes \cup {"cli"}) /\ behind' \subseteq Nodes \cup {"cli"}
        /\ cli' \in Opt([req : Requests, cat : Catalog, seen : SUBSET Requests])
    BY <1>21, Zenon DEF apply_offline_control_request_mut, TypeOK, Opt
  <2> QED
    BY <1>21, <2>3, <2>5, <2>6, Zenon DEF apply_offline_control_request_mut, TypeOK, vars, node, torrents, files, save, history
<1>22. ASSUME NEW r \in Requests, load_settings_for_cli(r) PROVE TypeOK'
  <2>1. cli' \in Opt([req : Requests, cat : Catalog, seen : SUBSET Requests])
    BY <1>22, ZenonT(30) DEF load_settings_for_cli, TypeOK, Opt, Saved
  <2>2. place' \in [Requests -> Spots \cup Nodes]
    BY <1>22, Zenon DEF load_settings_for_cli, TypeOK, Spots
  <2> QED
    BY <1>22, <2>1, <2>2, Zenon DEF load_settings_for_cli, TypeOK, vars, node, torrents, files, save, history
<1>23. ASSUME NEW r \in Requests, NEW n \in Nodes, DropFile(r, n) PROVE TypeOK'
  BY <1>23 DEF DropFile, TypeOK, vars, node, torrents, files, save, history
<1>24. ASSUME NEW r \in Requests, NEW n \in Nodes, SubmitControlRequest(r, n) PROVE TypeOK'
  <2>1. place' \in [Requests -> Spots \cup Nodes]
    BY <1>24, ZenonT(30) DEF SubmitControlRequest, TypeOK, Spots
  <2>2. CASE proc[n] = "follower"
    BY <1>24, <2>1, <2>2, Zenon DEF SubmitControlRequest, TypeOK, vars, node, torrents, files, save, history
  <2>3. CASE proc[n] # "follower"
    <3>1. apply_control_request(n, r) /\ save_state_to_disk(n, proc[n], rt'[n], seen'[n])
      BY <1>24, <2>3, Zenon DEF SubmitControlRequest
    <3>2. /\ rt' \in [Nodes -> Catalog]
          /\ live' \in [Nodes -> SUBSET Torrents] /\ closing' \in [Nodes -> SUBSET Torrents]
          /\ seen' \in [Nodes -> SUBSET Requests]
      BY <3>1, ApplyType
    <3>3. rt'[n] \in Catalog /\ seen'[n] \in SUBSET Requests
      BY <3>2, Zenon
    <3>4. cfg' \in [Nodes -> Catalog] /\ payload' \in [Nodes -> Opt(Saved)]
      BY <3>1, <3>3, SaveType, Zenon
    <3> QED
      BY <1>24, <2>1, <3>2, <3>4, Zenon DEF SubmitControlRequest, TypeOK, vars, node, torrents, files, save, history
  <2> QED
    BY <2>2, <2>3
<1>25. CASE UNCHANGED vars
  BY <1>25 DEF TypeOK, vars, node, torrents, files, save, history
<1> QED
  BY <1>1, <1>2, <1>3, <1>4, <1>5, <1>6, <1>7, <1>8, <1>9, <1>10, <1>11, <1>12, <1>13,
     <1>14, <1>15, <1>16, <1>17, <1>18, <1>19, <1>20, <1>21, <1>22, <1>23, <1>24, <1>25, Zenon
  DEF Next, NodeStep, CliStep

(* Every reachable state is well typed; in particular superseedr.lock has   *)
(* one holder at most, whichever of starting, promotion and command line    *)
(* takes it.                                                                *)
THEOREM TypeCorrect == Spec => []TypeOK
<1>1. Init => TypeOK
  <2>1. {} \in Opt(Entry) /\ {} \in Opt(Saved) /\ {} \in Opt(Nodes \cup {"cli"})
        /\ {} \in Opt([req : Requests, cat : Catalog, seen : SUBSET Requests])
    BY DEF Opt
  <2>2. <<>> \in Seq(Entry) /\ 0 \in 0 .. MaxFaults /\ Empty \in Catalog
    BY ClusterAssumption DEF Empty, Catalog, Control
  <2>3. [cat |-> [t \in Torrents |-> IF t \in Present THEN "running" ELSE "none"],
         seen |-> {}] \in Saved
    BY Zenon DEF Saved, Catalog, Control
  <2> QED
    BY <2>1, <2>2, <2>3 DEF Init, TypeOK, Spots
<1> QED
  BY <1>1, TypeInductive, PTL DEF Spec

------------------------------------------------------------------------------
(* The inductive invariants.                                                *)

(* Only the holder of the lock leads, has anything to write, or has applied *)
(* a request that is not archived; a follower has only files of its own     *)
(* host in its queue.                                                       *)
LeadInv ==
  \A n \in Nodes :
    /\ proc[n] = "leader" => lock = {n}
    /\ lock = {n} => proc[n] \in {"leader", "stopping"}
    /\ payload[n] # {} \/ writer[n] # {} => lock = {n}
    /\ handling[n] # {} => proc[n] = "leader"
    /\ proc[n] = "follower" => \A e \in Range(queue[n]) : e[2] = n

(* Unless it is behind, the holder of the lock knows all that is on disk,   *)
(* and the values it is writing and has yet to write do so in their order.  *)
KnowInv ==
  /\ \A n \in Nodes : \A p \in payload[n] \cup writer[n] : p.seen \subseteq seen[n]
  /\ \A n \in Nodes :
       lock = {n} /\ n \notin behind =>
         /\ disk.seen \subseteq seen[n]
         /\ \A p \in payload[n] \cup writer[n] : disk.seen \subseteq p.seen
         /\ \A w \in writer[n], p \in payload[n] : w.seen \subseteq p.seen
  /\ lock = {"cli"} /\ "cli" \notin behind => \A c \in cli : disk.seen \subseteq c.seen

(* A request to be archived is in the settings, and once the main loop is   *)
(* left the last value to be written reflects all that the process knows.   *)
FlushInv ==
  \A n \in Nodes :
    /\ \A e \in handling[n] : e[1] \in seen[n]
    /\ proc[n] = "stopping" /\ lock = {n} =>
         /\ \A p \in payload[n] : p.seen = seen[n]
         /\ payload[n] = {} => \A w \in writer[n] : w.seen = seen[n]
         /\ payload[n] = {} /\ writer[n] = {} /\ n \notin failed => seen[n] \subseteq durable

------------------------------------------------------------------------------
(* Effects that several actions share. *)

LEMMA SaveEffect ==
  ASSUME TypeOK, NEW n \in Nodes, NEW role, NEW run, NEW known,
         save_state_to_disk(n, role, run, known)
  PROVE  /\ \A m \in Nodes \ {n} : payload'[m] = payload[m]
         /\ role = "leader" => payload'[n] # {} /\ \A p \in payload'[n] : p.seen = known
         /\ role # "leader" => payload'[n] = payload[n]
<1> DEFINE v == [cat |-> run, seen |-> known]
<1>1. v.seen = known
  OBVIOUS
<1> HIDE DEF v
<1>2. CASE role = "leader"
  <2>1. payload' = [payload EXCEPT ![n] = {v}]
    BY <1>2, Zenon DEF save_state_to_disk, v
  <2> QED
    BY <1>1, <1>2, <2>1 DEF TypeOK
<1>3. CASE role # "leader"
  BY <1>3, Zenon DEF TypeOK, save_state_to_disk
<1> QED
  BY <1>2, <1>3

SavedAs(n, role, known) ==
  /\ \A m \in Nodes \ {n} : payload'[m] = payload[m]
  /\ role = "leader" => payload'[n] # {} /\ \A p \in payload'[n] : p.seen = known
  /\ role # "leader" => payload'[n] = payload[n]

LEMMA SaveIs ==
  ASSUME TypeOK, NEW n \in Nodes, NEW role, NEW run, NEW known,
         save_state_to_disk(n, role, run, known)
  PROVE  SavedAs(n, role, known)
  BY SaveEffect DEF SavedAs

LEMMA WriteEffect ==
  ASSUME TypeOK, NEW w \in Saved, save_settings(w)
  PROVE  /\ disk'.seen = w.seen \/ disk'.seen = disk.seen \cup w.seen
         /\ durable' = durable \cup w.seen
  BY Zenon DEF TypeOK, save_settings, Saved

LEMMA GoneEffect ==
  ASSUME TypeOK, NEW n \in Nodes, Gone(n)
  PROVE  /\ lock' = lock \ {n} /\ behind' = behind \ {n} /\ failed' = failed \ {n}
         /\ proc'[n] = "down" /\ payload'[n] = {} /\ writer'[n] = {}
         /\ handling'[n] = {} /\ queue'[n] = <<>>
         /\ \A m \in Nodes \ {n} :
              /\ proc'[m] = proc[m] /\ payload'[m] = payload[m] /\ writer'[m] = writer[m]
              /\ handling'[m] = handling[m] /\ queue'[m] = queue[m] /\ seen'[m] = seen[m]
  BY Zenon DEF TypeOK, Gone

LEMMA LockHolder ==
  ASSUME TypeOK, NEW x \in lock
  PROVE  lock = {x} /\ x \in Nodes \cup {"cli"}
  BY OptElement DEF TypeOK

LEMMA CliType ==
  ASSUME TypeOK, NEW c \in cli
  PROVE  c.req \in Requests /\ c.cat \in Catalog /\ c.seen \in SUBSET Requests
<1> DEFINE C == [req : Requests, cat : Catalog, seen : SUBSET Requests]
<1>1. cli \in Opt(C)
  BY DEF TypeOK
<1>2. c \in C
  <2> HIDE DEF C
  <2> QED
    BY <1>1, OptElement
<1> QED
  BY <1>2, Zenon

LEMMA CliNoNode == "cli" \notin Nodes /\ "inbox" \notin Nodes
  BY ClusterAssumption DEF Spots

LEMMA QueueRange ==
  ASSUME NEW s \in Seq(Entry)
  PROVE  /\ \A t \in Seq(Entry) : Range(s \o t) \subseteq Range(s) \cup Range(t)
         /\ s # <<>> => Head(s) \in Range(s) /\ Range(Tail(s)) \subseteq Range(s)
<1>1. ASSUME NEW t \in Seq(Entry) PROVE Range(s \o t) \subseteq Range(s) \cup Range(t)
  BY DEF Range
<1>2. ASSUME s # <<>> PROVE Head(s) \in Range(s) /\ Range(Tail(s)) \subseteq Range(s)
  <2>1. 1 \in DOMAIN s /\ Head(s) = s[1]
    BY <1>2
  <2>2. \A i \in DOMAIN Tail(s) : i + 1 \in DOMAIN s /\ Tail(s)[i] = s[i + 1]
    BY <1>2
  <2> QED
    BY <2>1, <2>2 DEF Range
<1> QED
  BY <1>1, <1>2

LEMMA FollowerFiles ==
  ASSUME NEW n \in Nodes, NEW e \in Waiting(n, "follower")
  PROVE  e[2] = n
  BY DEF Waiting, runtime_watch_paths

LEMMA OrderRange ==
  ASSUME NEW S \in SUBSET Entry, NEW s \in Orders(S)
  PROVE  s \in Seq(Entry) /\ \A e \in Range(s) : e \in S
  BY OrderType

------------------------------------------------------------------------------
(* LeadInv. *)

LEMMA LeadInductive == TypeOK /\ LeadInv /\ [Next]_vars => LeadInv'
<1> SUFFICES ASSUME TypeOK, LeadInv, [Next]_vars PROVE LeadInv'
  OBVIOUS
<1> USE CliNoNode
<1>0. ASSUME UNCHANGED <<lock, proc, payload, writer, handling, queue>> PROVE LeadInv'
  BY <1>0 DEF LeadInv
<1>1. ASSUME NEW n \in Nodes, load_settings(n) PROVE LeadInv'
  BY <1>1, Zenon DEF load_settings, LeadInv, TypeOK, vars, node, torrents, files, save, history
<1>2. ASSUME NEW n \in Nodes, new_with_lock(n) PROVE LeadInv'
  <2> DEFINE role == IF lock = {} THEN "leader" ELSE "follower"
  <2>1. /\ proc[n] = "loaded" /\ proc' = [proc EXCEPT ![n] = role]
        /\ lock' = IF role = "leader" THEN {n} ELSE lock
        /\ \E order \in Orders(Waiting(n, role)) : queue' = [queue EXCEPT ![n] = order]
        /\ save_state_to_disk(n, role, rt'[n], seen[n])
        /\ handling' = handling /\ writer' = writer
    BY <1>2, Zenon DEF new_with_lock
  <2>2. PICK order \in Orders(Waiting(n, role)) : queue' = [queue EXCEPT ![n] = order]
    BY <2>1, Zenon
  <2>3. role = "follower" => \A e \in Range(order) : e[2] = n
    BY WaitingType, OrderRange, FollowerFiles
  <2>4. role = "leader" <=> lock = {}
    OBVIOUS
  <2>5. role \in {"leader", "follower"}
    OBVIOUS
  <2> HIDE DEF role
  <2>6. /\ \A m \in Nodes \ {n} : payload'[m] = payload[m]
        /\ role # "leader" => payload'[n] = payload[n]
    BY <2>1, SaveIs, ZenonT(30) DEF SavedAs
  <2>7. /\ proc'[n] = role /\ queue'[n] = order
        /\ \A m \in Nodes \ {n} : proc'[m] = proc[m] /\ queue'[m] = queue[m]
    BY <2>1, <2>2, Zenon DEF TypeOK
  <2>8. ASSUME NEW m \in Nodes \ {n}
        PROVE  /\ proc'[m] = "leader" => lock' = {m}
               /\ lock' = {m} => proc'[m] \in {"leader", "stopping"}
               /\ payload'[m] # {} \/ writer'[m] # {} => lock' = {m}
               /\ handling'[m] # {} => proc'[m] = "leader"
               /\ proc'[m] = "follower" => \A e \in Range(queue'[m]) : e[2] = m
    BY <2>1, <2>4, <2>6, <2>7, Zenon DEF LeadInv
  <2>9. /\ proc'[n] = "leader" => lock' = {n}
        /\ lock' = {n} => proc'[n] \in {"leader", "stopping"}
        /\ payload'[n] # {} \/ writer'[n] # {} => lock' = {n}
        /\ handling'[n] # {} => proc'[n] = "leader"
        /\ proc'[n] = "follower" => \A e \in Range(queue'[n]) : e[2] = n
    BY <2>1, <2>3, <2>4, <2>5, <2>6, <2>7, Zenon DEF LeadInv
  <2> QED
    BY <2>8, <2>9, Zenon DEF LeadInv
<1>3. ASSUME NEW n \in Nodes, maybe_promote_to_shared_leader(n) PROVE LeadInv'
  <2>1. /\ proc[n] = "follower" /\ lock = {} /\ lock' = {n}
        /\ proc' = [proc EXCEPT ![n] = "leader"]
        /\ UNCHANGED <<handling, writer>>
    BY <1>3, Zenon DEF maybe_promote_to_shared_leader
  <2>2. PICK order \in Orders(Fresh(n, "leader")) :
          /\ queue' = [queue EXCEPT ![n] = @ \o order]
          /\ \/ UNCHANGED payload
             \/ save_state_to_disk(n, "leader", rt'[n], disk.seen)
             \/ save_state_to_disk(n, "leader", rt[n], seen[n])
    BY <1>3, Zenon DEF maybe_promote_to_shared_leader
  <2>3. \A m \in Nodes \ {n} : payload'[m] = payload[m]
    BY <2>2, SaveIs, Zenon DEF SavedAs
  <2>4. \A m \in Nodes \ {n} : proc'[m] = proc[m] /\ queue'[m] = queue[m]
    BY <2>1, <2>2, Zenon DEF TypeOK
  <2>5. proc'[n] = "leader"
    BY <2>1, Zenon DEF TypeOK
  <2> QED
    BY <2>1, <2>3, <2>4, <2>5, Zenon DEF LeadInv
<1>4. ASSUME NEW n \in Nodes, rescan(n) PROVE LeadInv'
  <2>1. PICK order \in Orders(Fresh(n, proc[n])) :
          process_pending_commands(n, proc[n], rt[n], seen[n], order)
    BY <1>4 DEF rescan
  <2>2. /\ UNCHANGED <<lock, proc, writer, handling>> /\ Up(n)
        /\ queue' = [queue EXCEPT ![n] = @ \o order]
        /\ \A m \in Nodes \ {n} : queue'[m] = queue[m]
        /\ queue'[n] = queue[n] \o order
    BY <1>4, <2>1, ZenonT(30) DEF rescan, process_pending_commands, TypeOK, Idle
  <2>3. /\ \A m \in Nodes \ {n} : payload'[m] = payload[m]
        /\ proc[n] # "leader" => payload'[n] = payload[n]
    BY <2>1, SaveIs, Zenon DEF SavedAs, process_pending_commands
  <2>4. order \in Seq(Entry) /\ \A e \in Range(order) : e \in Waiting(n, proc[n])
    BY <2>1, WaitingType, OrderRange DEF Fresh
  <2>5. proc[n] = "follower" => \A e \in Range(queue'[n]) : e[2] = n
    <3>1. Range(queue[n] \o order) \subseteq Range(queue[n]) \cup Range(order)
      BY <2>4, QueueRange, Zenon DEF TypeOK
    <3> QED
      BY <2>2, <2>4, <3>1, FollowerFiles, Zenon DEF LeadInv
  <2> QED
    BY <2>2, <2>3, <2>5, Zenon DEF LeadInv
<1>5. ASSUME NEW n \in Nodes, spacing_over(n) PROVE LeadInv'
  BY <1>0, <1>5 DEF spacing_over, save
<1>6. ASSUME NEW n \in Nodes, relay_local_watch_file(n) PROVE LeadInv'
  <2>1. /\ UNCHANGED <<lock, proc, payload, writer, handling>> /\ queue[n] # <<>>
        /\ queue' = [queue EXCEPT ![n] = Tail(@)]
    BY <1>6 DEF relay_local_watch_file, save
  <2>2. Range(Tail(queue[n])) \subseteq Range(queue[n])
    BY <2>1, QueueRange, Zenon DEF TypeOK
  <2>3. queue'[n] = Tail(queue[n]) /\ \A m \in Nodes \ {n} : queue'[m] = queue[m]
    BY <2>1, Zenon DEF TypeOK
  <2> QED
    BY <2>1, <2>2, <2>3, ZenonT(30) DEF LeadInv
<1>7. ASSUME NEW n \in Nodes, ControlRequest(n) PROVE LeadInv'
  <2> DEFINE e == Head(queue[n])
  <2>1. /\ UNCHANGED <<lock, proc, writer>> /\ queue[n] # <<>> /\ Up(n)
        /\ ~(proc[n] = "follower" /\ e[2] = n)
        /\ queue' = [queue EXCEPT ![n] = Tail(@)]
        /\ handling' = [handling EXCEPT ![n] = {e}]
        /\ save_state_to_disk(n, proc[n], rt'[n], seen'[n])
    BY <1>7, ZenonT(30) DEF ControlRequest, Idle
  <2>2. Range(Tail(queue[n])) \subseteq Range(queue[n]) /\ e \in Range(queue[n])
    BY <2>1, QueueRange, Zenon DEF TypeOK
  <2>3. proc[n] = "leader"
    BY <2>1, <2>2, ZenonT(30) DEF LeadInv, Up
  <2> HIDE DEF e
  <2>4. /\ queue'[n] = Tail(queue[n])
        /\ \A m \in Nodes \ {n} : queue'[m] = queue[m] /\ handling'[m] = handling[m]
    BY <2>1, Zenon DEF TypeOK
  <2>5. \A m \in Nodes \ {n} : payload'[m] = payload[m]
    BY <2>1, SaveIs, ZenonT(30) DEF SavedAs
  <2> QED
    BY <2>1, <2>3, <2>4, <2>5, Zenon DEF LeadInv
<1>8. ASSUME NEW n \in Nodes, archive_watch_file(n) PROVE LeadInv'
  <2>1. /\ UNCHANGED <<lock, proc, payload, writer, queue>>
        /\ handling' = [handling EXCEPT ![n] = {}]
    BY <1>8, Zenon DEF archive_watch_file, save
  <2>2. handling'[n] = {} /\ \A m \in Nodes \ {n} : handling'[m] = handling[m]
    BY <2>1, Zenon DEF TypeOK
  <2> QED
    BY <2>1, <2>2, Zenon DEF LeadInv
<1>9. ASSUME NEW n \in Nodes, persist_begin(n) PROVE LeadInv'
  <2>1. UNCHANGED <<lock, proc, queue, handling>> /\ payload[n] # {}
    BY <1>9, Zenon DEF persist_begin, node, files
  <2>2. \A m \in Nodes \ {n} : writer'[m] = writer[m] /\ payload'[m] = payload[m]
    BY <1>9, Zenon DEF persist_begin, TypeOK
  <2> QED
    BY <2>1, <2>2 DEF LeadInv
<1>10. ASSUME NEW n \in Nodes, persist_end(n) PROVE LeadInv'
  <2>1. /\ UNCHANGED <<lock, proc, payload, queue, handling>>
        /\ writer' = [writer EXCEPT ![n] = {}]
    BY <1>10, Zenon DEF persist_end, node, files
  <2>2. writer'[n] = {} /\ \A m \in Nodes \ {n} : writer'[m] = writer[m]
    BY <2>1, Zenon DEF TypeOK
  <2> QED
    BY <2>1, <2>2, Zenon DEF LeadInv
<1>11. ASSUME NEW n \in Nodes, network_history_persist_tick(n) PROVE LeadInv'
  <2>1. /\ UNCHANGED <<lock, proc, writer, queue, handling>> /\ proc[n] = "leader"
        /\ \A m \in Nodes \ {n} : payload'[m] = payload[m]
    BY <1>11, SaveIs, ZenonT(30) DEF SavedAs, network_history_persist_tick, files
  <2> QED
    BY <2>1, Zenon DEF LeadInv
<1>12. ASSUME NEW n \in Nodes, ReloadClusterState(n) PROVE LeadInv'
  BY <1>0, <1>12, Zenon DEF ReloadClusterState, save, files
<1>13. ASSUME NEW n \in Nodes, refresh_follower_read_model(n) PROVE LeadInv'
  BY <1>0, <1>13, Zenon DEF refresh_follower_read_model, save, files
<1>14. ASSUME NEW n \in Nodes, UpdateConfig(n) PROVE LeadInv'
  BY <1>0, <1>14, Zenon DEF UpdateConfig, save, node, files
<1>15. ASSUME NEW n \in Nodes, NEW t \in Torrents, DeletionComplete(n, t) PROVE LeadInv'
  <2>1. /\ UNCHANGED <<lock, proc, writer, queue, handling>>
        /\ save_state_to_disk(n, proc[n], rt'[n], seen[n])
    BY <1>15, Zenon DEF DeletionComplete, files
  <2>2. /\ \A m \in Nodes \ {n} : payload'[m] = payload[m]
        /\ proc[n] # "leader" => payload'[n] = payload[n]
    BY <2>1, SaveIs, ZenonT(30) DEF SavedAs
  <2> QED
    BY <2>1, <2>2, Zenon DEF LeadInv
<1>16. ASSUME NEW n \in Nodes, Quit(n) PROVE LeadInv'
  <2>1. /\ UNCHANGED <<lock, writer, queue, handling>> /\ handling[n] = {} /\ Up(n)
        /\ save_state_to_disk(n, proc[n], rt[n], seen[n])
        /\ proc' = [proc EXCEPT ![n] = "stopping"]
    BY <1>16, ZenonT(30) DEF Quit, files, Idle
  <2>2. /\ \A m \in Nodes \ {n} : payload'[m] = payload[m]
        /\ proc[n] # "leader" => payload'[n] = payload[n]
    BY <2>1, SaveIs, Zenon DEF SavedAs
  <2>3. proc'[n] = "stopping" /\ \A m \in Nodes \ {n} : proc'[m] = proc[m]
    BY <2>1 DEF TypeOK
  <2> QED
    BY <2>1, <2>2, <2>3 DEF LeadInv
<1>17. ASSUME NEW n \in Nodes, Gone(n) PROVE LeadInv'
  <2>1. ASSUME NEW m \in Nodes \ {n} PROVE lock' = {m} <=> lock = {m}
    BY <1>17, GoneEffect, LockHolder
  <2>2. lock' # {n}
    BY <1>17, GoneEffect
  <2> QED
    BY <1>17, <2>1, <2>2, GoneEffect, Zenon DEF LeadInv
<1>19. CASE queue_control_request_command
  BY <1>0, <1>19, Zenon DEF queue_control_request_command, save, node, files
<1>20. CASE try_acquire_app_lock_cli
  <2>1. /\ lock = {} /\ lock' = {"cli"}
        /\ UNCHANGED <<proc, payload, writer, queue, handling>>
    BY <1>20 DEF try_acquire_app_lock_cli, save, node, files
  <2>2. \A m \in Nodes : lock' # {m}
    BY <2>1, Zenon
  <2> QED
    BY <2>1, <2>2, Zenon DEF LeadInv
<1>21. CASE apply_offline_control_request_mut
  <2>1. /\ lock = {"cli"} /\ lock' = {}
        /\ UNCHANGED <<proc, payload, writer, queue, handling>>
    BY <1>21 DEF apply_offline_control_request_mut, save, node, files
  <2>2. \A m \in Nodes : lock # {m} /\ lock' # {m}
    BY <2>1, Zenon
  <2> QED
    BY <2>1, <2>2, Zenon DEF LeadInv
<1>22. ASSUME NEW r \in Requests, load_settings_for_cli(r) PROVE LeadInv'
  BY <1>0, <1>22, Zenon DEF load_settings_for_cli, save, node, files
<1>23. ASSUME NEW r \in Requests, NEW n \in Nodes, DropFile(r, n) PROVE LeadInv'
  BY <1>0, <1>23, Zenon DEF DropFile, save, node, files
<1>24. ASSUME NEW r \in Requests, NEW n \in Nodes, SubmitControlRequest(r, n) PROVE LeadInv'
  <2>1. /\ UNCHANGED <<lock, proc, writer, queue, handling>> /\ Up(n)
        /\ \/ proc[n] = "follower" /\ UNCHANGED payload
           \/ proc[n] # "follower" /\ save_state_to_disk(n, proc[n], rt'[n], seen'[n])
    BY <1>24, ZenonT(30) DEF SubmitControlRequest, files, Idle
  <2>2. /\ \A m \in Nodes \ {n} : payload'[m] = payload[m]
        /\ proc[n] # "leader" => payload'[n] = payload[n]
    BY <2>1, SaveIs, ZenonT(30) DEF SavedAs
  <2> QED
    BY <2>1, <2>2 DEF LeadInv
<1>25. CASE UNCHANGED vars
  BY <1>0, <1>25, Zenon DEF vars, node, torrents, files, save, history
<1> QED
  BY <1>1, <1>2, <1>3, <1>4, <1>5, <1>6, <1>7, <1>8, <1>9, <1>10, <1>11, <1>12, <1>13,
     <1>14, <1>15, <1>16, <1>17, <1>19, <1>20, <1>21, <1>22, <1>23, <1>24, <1>25, Zenon
  DEF Next, NodeStep, CliStep, flush_persistence_writer, Crash

------------------------------------------------------------------------------
(* KnowInv. *)

(* A step of a process that writes nothing: only the holder of the lock may *)
(* queue a value, and then one that reflects all it knows.                  *)
LEMMA KnowLocal ==
  ASSUME TypeOK, LeadInv, KnowInv, NEW n \in Nodes,
         UNCHANGED <<disk, lock, behind, writer, cli>>,
         \A m \in Nodes \ {n} : payload'[m] = payload[m] /\ seen'[m] = seen[m],
         lock = {n} => seen[n] \subseteq seen'[n],
         \/ payload'[n] = payload[n]
         \/ lock = {n} /\ \A p \in payload'[n] : p.seen = seen'[n]
  PROVE  KnowInv'
<1>1. ASSUME NEW m \in Nodes \ {n}
      PROVE  /\ \A p \in payload'[m] \cup writer'[m] : p.seen \subseteq seen'[m]
             /\ lock' = {m} /\ m \notin behind' =>
                  /\ disk'.seen \subseteq seen'[m]
                  /\ \A p \in payload'[m] \cup writer'[m] : disk'.seen \subseteq p.seen
                  /\ \A w \in writer'[m], p \in payload'[m] : w.seen \subseteq p.seen
  BY Zenon DEF KnowInv
<1>2. CASE lock # {n}
  <2>1. payload[n] = {} /\ writer[n] = {}
    BY <1>2 DEF LeadInv
  <2> QED
    BY <1>1, <1>2, <2>1, Zenon DEF KnowInv
<1>3. CASE lock = {n}
  <2>1. /\ \A p \in writer[n] : p.seen \subseteq seen'[n]
        /\ n \notin behind => disk.seen \subseteq seen'[n]
                            /\ \A p \in writer[n] : disk.seen \subseteq p.seen
    BY <1>3, Zenon DEF KnowInv
  <2>2. CASE payload'[n] = payload[n]
    <3>1. \A p \in payload'[n] : p.seen \subseteq seen'[n]
      BY <1>3, <2>2, Zenon DEF KnowInv
    <3> QED
      BY <1>1, <1>3, <2>1, <2>2, <3>1, Zenon DEF KnowInv
  <2>3. CASE \A p \in payload'[n] : p.seen = seen'[n]
    BY <1>1, <1>3, <2>1, <2>3 DEF KnowInv
  <2> QED
    BY <1>3, <2>2, <2>3, Zenon
<1> QED
  BY <1>2, <1>3, Zenon

LEMMA KnowInductive == TypeOK /\ LeadInv /\ KnowInv /\ [Next]_vars => KnowInv'
<1> SUFFICES ASSUME TypeOK, LeadInv, KnowInv, [Next]_vars PROVE KnowInv'
  OBVIOUS
<1> USE CliNoNode
<1>0. ASSUME UNCHANGED <<disk, lock, behind, writer, cli, payload, seen>> PROVE KnowInv'
  BY <1>0, ZenonT(30) DEF KnowInv
<1>1. ASSUME NEW n \in Nodes, load_settings(n) PROVE KnowInv'
  <2>1. UNCHANGED <<disk, lock, behind, writer, cli, payload>> /\ lock # {n}
    BY <1>1, Zenon DEF load_settings, save, history, LeadInv
  <2>2. \A m \in Nodes \ {n} : seen'[m] = seen[m]
    BY <1>1 DEF load_settings, TypeOK
  <2> QED
    BY <2>1, <2>2, KnowLocal, Zenon
<1>2. ASSUME NEW n \in Nodes, new_with_lock(n) PROVE KnowInv'
  <2> DEFINE role == IF lock = {} THEN "leader" ELSE "follower"
  <2>1. /\ lock' = IF role = "leader" THEN {n} ELSE lock
        /\ behind' = IF role = "leader" /\ ~(disk.seen \subseteq seen[n])
                     THEN behind \cup {n} ELSE behind
        /\ save_state_to_disk(n, role, rt'[n], seen[n])
        /\ UNCHANGED <<disk, seen, writer, cli>>
    BY <1>2, Zenon DEF new_with_lock
  <2>2. proc[n] = "loaded"
    BY <1>2, Zenon DEF new_with_lock
  <2>3. lock # {n} /\ payload[n] = {} /\ writer[n] = {}
    BY <2>2, Zenon DEF LeadInv
  <2>4. \A m \in Nodes \ {n} : payload'[m] = payload[m]
    BY <2>1, SaveIs, ZenonT(30) DEF SavedAs
  <2>5. CASE lock = {}
    <3>1. role = "leader"
      BY <2>5, Zenon
    <3>2. \A p \in payload'[n] : p.seen = seen[n]
      BY <2>1, <3>1, SaveIs, ZenonT(30) DEF SavedAs
    <3>3. lock' = {n} /\ (n \notin behind' => disk.seen \subseteq seen[n])
      BY <2>1, <3>1
    <3>4. \A m \in Nodes \ {n} : lock' # {m}
      BY <3>3
    <3>5. lock' # {"cli"}
      BY <3>3
    <3> HIDE DEF role
    <3> QED
      BY <2>1, <2>3, <2>4, <3>2, <3>3, <3>4, <3>5, Zenon DEF KnowInv
  <2>6. CASE lock # {}
    <3>1. role = "follower"
      BY <2>6, Zenon
    <3>2. payload'[n] = payload[n]
      BY <2>1, <3>1, SaveIs, ZenonT(30) DEF SavedAs
    <3>3. lock' = lock /\ behind' = behind
      BY <2>1, <3>1, Zenon
    <3> QED
      BY <2>1, <2>3, <2>4, <3>2, <3>3, KnowLocal, Zenon
  <2> QED
    BY <2>5, <2>6
<1>3. ASSUME NEW n \in Nodes, maybe_promote_to_shared_leader(n) PROVE KnowInv'
  <2>1. /\ proc[n] = "follower" /\ lock = {} /\ lock' = {n}
        /\ UNCHANGED <<disk, writer, cli>>
    BY <1>3, Zenon DEF maybe_promote_to_shared_leader
  <2>2. payload[n] = {} /\ writer[n] = {}
    BY <2>1 DEF LeadInv
  <2>3. \/ /\ start_missing_runtime_torrents(n, disk.cat)
           /\ UNCHANGED payload \/ save_state_to_disk(n, "leader", rt'[n], disk.seen)
           /\ UNCHANGED behind
        \/ /\ UNCHANGED payload \/ save_state_to_disk(n, "leader", rt[n], seen[n])
           /\ behind' = behind \cup {n}
           /\ UNCHANGED seen
    BY <1>3, Zenon DEF maybe_promote_to_shared_leader
  <2>4. \A m \in Nodes \ {n} : payload'[m] = payload[m]
    BY <2>3, SaveIs, ZenonT(30) DEF SavedAs
  <2>5. \A m \in Nodes \ {n} : lock' # {m}
    BY <2>1, Zenon
  <2>6. CASE /\ start_missing_runtime_torrents(n, disk.cat)
             /\ UNCHANGED payload \/ save_state_to_disk(n, "leader", rt'[n], disk.seen)
    <3>1. seen' = [seen EXCEPT ![n] = disk.seen]
      BY <2>6, StartType, Zenon
    <3>2. seen'[n] = disk.seen /\ \A m \in Nodes \ {n} : seen'[m] = seen[m]
      BY <3>1, Zenon DEF TypeOK
    <3>3. \A p \in payload'[n] : p.seen = disk.seen
      BY <2>2, <2>6, SaveIs, ZenonT(30) DEF SavedAs
    <3> QED
      BY <2>1, <2>2, <2>4, <2>5, <3>2, <3>3, Zenon DEF KnowInv
  <2>7. CASE /\ UNCHANGED payload \/ save_state_to_disk(n, "leader", rt[n], seen[n])
             /\ behind' = behind \cup {n}
             /\ UNCHANGED seen
    <3>1. \A p \in payload'[n] : p.seen = seen[n]
      BY <2>2, <2>7, SaveIs, ZenonT(30) DEF SavedAs
    <3> QED
      BY <2>1, <2>2, <2>4, <2>5, <2>7, <3>1, Zenon DEF KnowInv
  <2> QED
    BY <2>3, <2>6, <2>7, Zenon
<1>4. ASSUME NEW n \in Nodes, rescan(n) PROVE KnowInv'
  <2>1. PICK order \in Orders(Fresh(n, proc[n])) :
          process_pending_commands(n, proc[n], rt[n], seen[n], order)
    BY <1>4 DEF rescan
  <2>2. UNCHANGED <<disk, lock, behind, writer, cli, seen>>
    BY <1>4 DEF rescan, history
  <2>3. UNCHANGED payload \/ save_state_to_disk(n, proc[n], rt[n], seen[n])
    BY <2>1, Zenon DEF process_pending_commands
  <2>4. /\ \A m \in Nodes \ {n} : payload'[m] = payload[m]
        /\ \/ payload'[n] = payload[n]
           \/ lock = {n} /\ \A p \in payload'[n] : p.seen = seen[n]
    <3>1. UNCHANGED payload \/ SavedAs(n, proc[n], seen[n])
      BY <2>3, SaveIs, Zenon
    <3> QED
      BY <3>1, Zenon DEF SavedAs, LeadInv
  <2> QED
    BY <2>2, <2>4, KnowLocal, Zenon
<1>5. ASSUME NEW n \in Nodes, spacing_over(n) PROVE KnowInv'
  BY <1>0, <1>5, Zenon DEF spacing_over, save, history
<1>6. ASSUME NEW n \in Nodes, relay_local_watch_file(n) PROVE KnowInv'
  BY <1>0, <1>6 DEF relay_local_watch_file, save, history
<1>7. ASSUME NEW n \in Nodes, ControlRequest(n) PROVE KnowInv'
  <2>1. /\ UNCHANGED <<disk, lock, behind, writer, cli>> /\ queue[n] # <<>>
        /\ apply_control_request(n, Head(queue[n])[1])
        /\ save_state_to_disk(n, proc[n], rt'[n], seen'[n])
    BY <1>7 DEF ControlRequest, history
  <2>2. Head(queue[n])[1] \in Requests
    BY <2>1, HeadRequest, ZenonT(30)
  <2>3. seen' = [seen EXCEPT ![n] = @ \cup {Head(queue[n])[1]}]
    BY <2>1, <2>2, ApplyType, ZenonT(30)
  <2>4. seen[n] \subseteq seen'[n] /\ \A m \in Nodes \ {n} : seen'[m] = seen[m]
    BY <2>3, Zenon DEF TypeOK
  <2>5. /\ \A m \in Nodes \ {n} : payload'[m] = payload[m]
        /\ \/ payload'[n] = payload[n]
           \/ lock = {n} /\ \A p \in payload'[n] : p.seen = seen'[n]
    <3>1. /\ \A m \in Nodes \ {n} : payload'[m] = payload[m]
          /\ proc[n] = "leader" => \A p \in payload'[n] : p.seen = seen'[n]
          /\ proc[n] # "leader" => payload'[n] = payload[n]
      <4>1. SavedAs(n, proc[n], seen'[n])
        BY <2>1, SaveIs, Zenon
      <4> QED BY <4>1, Zenon DEF SavedAs
    <3>2. proc[n] = "leader" => lock = {n}
      BY Zenon DEF LeadInv
    <3> QED BY <3>1, <3>2, Zenon
  <2> QED
    BY <2>1, <2>4, <2>5, KnowLocal, Zenon
<1>8. ASSUME NEW n \in Nodes, archive_watch_file(n) PROVE KnowInv'
  BY <1>0, <1>8 DEF archive_watch_file, save, history
<1>9. ASSUME NEW n \in Nodes, persist_begin(n) PROVE KnowInv'
  <2>1. /\ UNCHANGED <<disk, lock, behind, cli, seen>> /\ writer[n] = {}
        /\ writer'[n] = payload[n] /\ payload'[n] = {}
        /\ \A m \in Nodes \ {n} : writer'[m] = writer[m] /\ payload'[m] = payload[m]
    BY <1>9, Zenon DEF persist_begin, node, history, TypeOK
  <2> QED
    BY <2>1, ZenonT(30) DEF KnowInv
<1>10. ASSUME NEW n \in Nodes, persist_end(n) PROVE KnowInv'
  <2>1. PICK w \in writer[n] :
          /\ writer' = [writer EXCEPT ![n] = {}]
          /\ save_settings(w) \/ UNCHANGED disk
    BY <1>10, Zenon DEF persist_end
  <2>2. /\ UNCHANGED <<lock, payload, cli, behind, seen>>
        /\ writer'[n] = {} /\ \A m \in Nodes \ {n} : writer'[m] = writer[m]
    BY <1>10, Zenon DEF persist_end, node, TypeOK
  <2>3. w \in Saved
    <3>1. writer[n] \in Opt(Saved)
      BY Zenon DEF TypeOK
    <3> QED BY <3>1, OptElement, Zenon
  <2>4. disk'.seen = w.seen \/ disk'.seen = disk.seen \cup w.seen \/ disk'.seen = disk.seen
    BY <2>1, <2>3, WriteEffect
  <2>5. lock = {n}
    BY Zenon DEF LeadInv
  <2>6. \A m \in Nodes \ {n} : lock # {m}
    BY <2>5
  <2>7. n \notin behind => /\ disk'.seen \subseteq seen[n]
                           /\ \A p \in payload[n] : disk'.seen \subseteq p.seen
    BY <2>4, <2>5, Zenon DEF KnowInv
  <2> QED
    BY <2>2, <2>5, <2>6, <2>7, Zenon DEF KnowInv
<1>11. ASSUME NEW n \in Nodes, network_history_persist_tick(n) PROVE KnowInv'
  <2>1. /\ UNCHANGED <<disk, lock, behind, writer, cli, seen>> /\ proc[n] = "leader"
        /\ save_state_to_disk(n, "leader", rt[n], seen[n])
    BY <1>11, Zenon DEF network_history_persist_tick, history
  <2>2. /\ \A m \in Nodes \ {n} : payload'[m] = payload[m]
        /\ lock = {n} /\ \A p \in payload'[n] : p.seen = seen[n]
    <3>1. SavedAs(n, "leader", seen[n])
      BY <2>1, SaveIs, Zenon
    <3> QED
      BY <2>1, <3>1, Zenon DEF SavedAs, LeadInv
  <2> QED
    BY <2>1, <2>2, KnowLocal, Zenon
<1>12. ASSUME NEW n \in Nodes, ReloadClusterState(n) PROVE KnowInv'
  <2>1. /\ UNCHANGED <<disk, lock, behind, writer, cli, payload>> /\ proc[n] = "follower"
        /\ seen' = [seen EXCEPT ![n] = disk.seen]
    BY <1>12 DEF ReloadClusterState, save, history, sync_runtime_torrents_from_settings
  <2>2. lock # {n}
    BY <2>1 DEF LeadInv
  <2>3. \A m \in Nodes \ {n} : seen'[m] = seen[m]
    BY <2>1, Zenon DEF TypeOK
  <2> QED
    BY <2>1, <2>2, <2>3, KnowLocal, Zenon
<1>13. ASSUME NEW n \in Nodes, refresh_follower_read_model(n) PROVE KnowInv'
  BY <1>0, <1>13, Zenon DEF refresh_follower_read_model, save, history
<1>14. ASSUME NEW n \in Nodes, UpdateConfig(n) PROVE KnowInv'
  <2>1. UNCHANGED <<lock, cli, seen, payload, writer>> /\ behind' = behind \cup lock
    BY <1>14, Zenon DEF UpdateConfig, node, save
  <2> QED
    BY <2>1, Zenon DEF KnowInv
<1>15. ASSUME NEW n \in Nodes, NEW t \in Torrents, DeletionComplete(n, t) PROVE KnowInv'
  <2>1. /\ UNCHANGED <<disk, lock, behind, writer, cli, seen>>
        /\ save_state_to_disk(n, proc[n], rt'[n], seen[n])
    BY <1>15, Zenon DEF DeletionComplete, history
  <2>2. /\ \A m \in Nodes \ {n} : payload'[m] = payload[m]
        /\ \/ payload'[n] = payload[n]
           \/ lock = {n} /\ \A p \in payload'[n] : p.seen = seen[n]
    <3>1. SavedAs(n, proc[n], seen[n])
      BY <2>1, SaveIs, Zenon
    <3> QED
      BY <3>1, Zenon DEF SavedAs, LeadInv
  <2> QED
    BY <2>1, <2>2, KnowLocal, Zenon
<1>16. ASSUME NEW n \in Nodes, Quit(n) PROVE KnowInv'
  <2>1. /\ UNCHANGED <<disk, lock, behind, writer, cli, seen>>
        /\ save_state_to_disk(n, proc[n], rt[n], seen[n])
    BY <1>16, Zenon DEF Quit, history
  <2>2. /\ \A m \in Nodes \ {n} : payload'[m] = payload[m]
        /\ \/ payload'[n] = payload[n]
           \/ lock = {n} /\ \A p \in payload'[n] : p.seen = seen[n]
    <3>1. SavedAs(n, proc[n], seen[n])
      BY <2>1, SaveIs, Zenon
    <3> QED
      BY <3>1, Zenon DEF SavedAs, LeadInv
  <2> QED
    BY <2>1, <2>2, KnowLocal, Zenon
<1>17. ASSUME NEW n \in Nodes, Gone(n), UNCHANGED <<disk, cli>> PROVE KnowInv'
  <2>1. ASSUME NEW m, m # n PROVE (lock' = {m} => lock = {m}) /\ (m \in behind => m \in behind')
    BY <1>17, <2>1, GoneEffect, LockHolder
  <2>2. lock' # {n} /\ "cli" # n
    BY <1>17, GoneEffect, Zenon
  <2>3. (lock' = {"cli"} => lock = {"cli"}) /\ ("cli" \in behind => "cli" \in behind')
    BY <2>1, <2>2, Zenon
  <2>4. /\ \A m \in Nodes : \A p \in payload'[m] \cup writer'[m] : p.seen \subseteq seen'[m]
    BY <1>17, GoneEffect, ZenonT(30) DEF KnowInv
  <2> QED
    BY <1>17, <2>1, <2>2, <2>3, <2>4, GoneEffect, ZenonT(30) DEF KnowInv
<1>19. CASE queue_control_request_command
  BY <1>19, Zenon DEF queue_control_request_command, save, node, history, KnowInv
<1>20. CASE try_acquire_app_lock_cli
  <2>1. PICK c \in cli : behind' = IF disk.seen \subseteq c.seen THEN behind ELSE behind \cup {"cli"}
    BY <1>20, Zenon DEF try_acquire_app_lock_cli
  <2>2. cli = {c}
    BY OptElement DEF TypeOK
  <2>3. lock' = {"cli"} /\ UNCHANGED <<disk, seen, payload, writer, cli>>
    BY <1>20, Zenon DEF try_acquire_app_lock_cli, save, node
  <2>4. \A m \in Nodes : lock' # {m}
    BY <2>3
  <2> QED
    BY <2>1, <2>2, <2>3, <2>4, Zenon DEF KnowInv
<1>21. CASE apply_offline_control_request_mut
  <2>1. lock' = {} /\ UNCHANGED <<seen, payload, writer>>
    BY <1>21, ZenonT(30) DEF apply_offline_control_request_mut, save, node
  <2> QED
    BY <2>1, ZenonT(30) DEF KnowInv
<1>22. ASSUME NEW r \in Requests, load_settings_for_cli(r) PROVE KnowInv'
  <2>1. /\ UNCHANGED <<disk, lock, behind, seen, payload, writer>>
        /\ cli' = {[req |-> r, cat |-> disk.cat, seen |-> disk.seen]}
    BY <1>22, Zenon DEF load_settings_for_cli, save, node, history
  <2>2. \A c \in cli' : disk'.seen \subseteq c.seen
    BY <2>1
  <2> QED
    BY <2>1, <2>2, Zenon DEF KnowInv
<1>23. ASSUME NEW r \in Requests, NEW n \in Nodes, DropFile(r, n) PROVE KnowInv'
  BY <1>0, <1>23, Zenon DEF DropFile, save, node, history
<1>24. ASSUME NEW r \in Requests, NEW n \in Nodes, SubmitControlRequest(r, n) PROVE KnowInv'
  <2>1. UNCHANGED <<disk, lock, behind, writer, cli>>
    BY <1>24, Zenon DEF SubmitControlRequest, history
  <2>2. CASE proc[n] = "follower"
    BY <1>0, <1>24, <2>1, <2>2, Zenon DEF SubmitControlRequest
  <2>3. CASE proc[n] # "follower"
    <3>1. /\ apply_control_request(n, r)
          /\ save_state_to_disk(n, proc[n], rt'[n], seen'[n])
      BY <1>24, <2>3, Zenon DEF SubmitControlRequest
    <3>2. seen' = [seen EXCEPT ![n] = @ \cup {r}]
      BY <3>1, ApplyType, Zenon
    <3>3. seen[n] \subseteq seen'[n] /\ \A m \in Nodes \ {n} : seen'[m] = seen[m]
      BY <3>2, Zenon DEF TypeOK
    <3>4. /\ \A m \in Nodes \ {n} : payload'[m] = payload[m]
          /\ \/ payload'[n] = payload[n]
             \/ lock = {n} /\ \A p \in payload'[n] : p.seen = seen'[n]
      <4>1. SavedAs(n, proc[n], seen'[n])
        BY <3>1, SaveIs, Zenon
      <4> QED
        BY <4>1, Zenon DEF SavedAs, LeadInv
    <3> QED
      BY <2>1, <3>3, <3>4, KnowLocal, Zenon
  <2> QED
    BY <2>2, <2>3
<1>25. CASE UNCHANGED vars
  BY <1>0, <1>25 DEF vars, node, torrents, files, save, history
<1> QED
  BY <1>1, <1>2, <1>3, <1>4, <1>5, <1>6, <1>7, <1>8, <1>9, <1>10, <1>11, <1>12, <1>13,
     <1>14, <1>15, <1>16, <1>17, <1>19, <1>20, <1>21, <1>22, <1>23, <1>24, <1>25, Zenon
  DEF Next, NodeStep, CliStep, flush_persistence_writer, Crash

(* No update of the shared catalog is lost, except by or through a process  *)
(* known to be behind or a follower's host-local edit: the settings that a  *)
(* leader, or the command line, writes reflect every request that the file  *)
(* reflects.                                                                *)
THEOREM NoLostUpdateAlways == Spec => NoLostUpdate
<1>1. Init => LeadInv /\ KnowInv
  BY Zenon DEF Init, LeadInv, KnowInv
<1>2. ASSUME TypeOK, LeadInv, KnowInv, [Next]_vars
      PROVE  [ \/ disk.seen \subseteq disk'.seen
               \/ lock \cap behind # {}
               \/ \E n \in Nodes : UpdateConfig(n) ]_vars
  <2> USE <1>2
  <2>1. ASSUME UNCHANGED disk PROVE disk.seen \subseteq disk'.seen
    BY <2>1, Zenon
  <2>2. ASSUME NEW n \in Nodes, persist_end(n)
        PROVE  disk.seen \subseteq disk'.seen \/ lock \cap behind # {}
    <3>1. PICK w \in writer[n] : save_settings(w) \/ UNCHANGED disk
      BY <2>2, Zenon DEF persist_end
    <3>2. w \in Saved
      BY OptElement DEF TypeOK
    <3>3. lock = {n}
      BY Zenon DEF LeadInv
    <3>4. disk'.seen = w.seen \/ disk'.seen = disk.seen \cup w.seen \/ disk'.seen = disk.seen
      BY <3>1, <3>2, WriteEffect, Zenon
    <3>5. n \notin behind => disk.seen \subseteq w.seen
      BY <3>3, Zenon DEF KnowInv
    <3> QED
      BY <3>3, <3>4, <3>5
  <2>3. CASE apply_offline_control_request_mut
    <3>1. lock = {"cli"}
      BY <2>3 DEF apply_offline_control_request_mut
    <3>2. PICK c \in cli :
            \/ UNCHANGED disk
            \/ save_settings([cat |-> apply_offline_control_request(c.cat, c.req),
                              seen |-> c.seen \cup {c.req}])
      BY <2>3, Zenon DEF apply_offline_control_request_mut
    <3>3. c.req \in Requests /\ c.cat \in Catalog /\ c.seen \in SUBSET Requests
      BY CliType, Zenon
    <3> DEFINE w == [cat |-> apply_offline_control_request(c.cat, c.req),
                     seen |-> c.seen \cup {c.req}]
    <3>4. w \in Saved /\ w.seen = c.seen \cup {c.req}
      BY <3>3, PlanType, Zenon DEF Saved
    <3>5. UNCHANGED disk \/ save_settings(w)
      BY <3>2, Zenon
    <3> HIDE DEF w
    <3>6. disk'.seen = w.seen \/ disk'.seen = disk.seen \cup w.seen \/ disk'.seen = disk.seen
      BY <3>4, <3>5, WriteEffect, Zenon
    <3>7. "cli" \notin behind => disk.seen \subseteq c.seen
      BY <3>1, <3>2 DEF KnowInv
    <3> QED
      BY <3>1, <3>4, <3>6, <3>7, Zenon
  <2>4. \/ UNCHANGED disk
        \/ \E n \in Nodes : persist_end(n) \/ UpdateConfig(n)
        \/ apply_offline_control_request_mut
    BY ZenonT(30) DEF Next, NodeStep, CliStep, load_settings, new_with_lock,
       maybe_promote_to_shared_leader, rescan, spacing_over, relay_local_watch_file,
       ControlRequest, archive_watch_file, persist_begin, network_history_persist_tick,
       ReloadClusterState, refresh_follower_read_model, DeletionComplete, Quit,
       flush_persistence_writer, Crash, queue_control_request_command,
       try_acquire_app_lock_cli, load_settings_for_cli, DropFile, SubmitControlRequest, vars
  <2> QED
    BY <2>1, <2>2, <2>3, <2>4, Zenon
<1>3. TypeOK /\ LeadInv /\ KnowInv /\ [Next]_vars
        => [ \/ disk.seen \subseteq disk'.seen
             \/ lock \cap behind # {}
             \/ \E n \in Nodes : UpdateConfig(n) ]_vars
  BY <1>2
<1> QED
  BY <1>1, <1>3, TypeCorrect, LeadInductive, KnowInductive, PTL DEF Spec, NoLostUpdate

------------------------------------------------------------------------------
(* FlushInv. *)

(* A step of a process that does not concern one that is stopping. *)
LEMMA FlushLocal ==
  ASSUME TypeOK, FlushInv, NEW n \in Nodes,
         UNCHANGED <<lock, writer, failed>>, durable \subseteq durable',
         \A m \in Nodes \ {n} : /\ proc'[m] = proc[m] /\ payload'[m] = payload[m]
                                /\ seen'[m] = seen[m] /\ handling'[m] = handling[m],
         \A e \in handling'[n] : e[1] \in seen'[n],
         proc'[n] # "stopping"
  PROVE  FlushInv'
<1>1. ASSUME NEW m \in Nodes \ {n}
      PROVE  /\ \A e \in handling'[m] : e[1] \in seen'[m]
             /\ proc'[m] = "stopping" /\ lock' = {m} =>
                  /\ \A p \in payload'[m] : p.seen = seen'[m]
                  /\ payload'[m] = {} => \A w \in writer'[m] : w.seen = seen'[m]
                  /\ payload'[m] = {} /\ writer'[m] = {} /\ m \notin failed'
                       => seen'[m] \subseteq durable'
  BY DEF FlushInv
<1> QED
  BY <1>1, Zenon DEF FlushInv

LEMMA FlushInductive == TypeOK /\ LeadInv /\ FlushInv /\ [Next]_vars => FlushInv'
<1> SUFFICES ASSUME TypeOK, LeadInv, FlushInv, [Next]_vars PROVE FlushInv'
  OBVIOUS
<1> USE CliNoNode
<1>0. ASSUME UNCHANGED <<lock, proc, writer, failed, payload, seen, handling>>,
             durable \subseteq durable'
      PROVE  FlushInv'
  BY <1>0 DEF FlushInv
<1>1. ASSUME NEW n \in Nodes, load_settings(n) PROVE FlushInv'
  <2>1. /\ UNCHANGED <<lock, writer, failed, durable, payload, handling>>
        /\ proc[n] = "down" /\ proc'[n] # "stopping"
        /\ \A m \in Nodes \ {n} : seen'[m] = seen[m] /\ proc'[m] = proc[m]
    BY <1>1, ZenonT(30) DEF load_settings, save, history, files, TypeOK
  <2>2. handling'[n] = {}
    BY <2>1, ZenonT(30) DEF LeadInv
  <2> QED
    BY <2>1, <2>2, FlushLocal, ZenonT(30)
<1>2. ASSUME NEW n \in Nodes, new_with_lock(n) PROVE FlushInv'
  <2> DEFINE role == IF lock = {} THEN "leader" ELSE "follower"
  <2>1. /\ proc[n] = "loaded" /\ proc' = [proc EXCEPT ![n] = role]
        /\ lock' = IF role = "leader" THEN {n} ELSE lock
        /\ save_state_to_disk(n, role, rt'[n], seen[n])
        /\ UNCHANGED <<seen, writer, handling, durable, failed>>
    BY <1>2, Zenon DEF new_with_lock
  <2>2. role \in {"leader", "follower"} /\ (role = "leader" => lock = {})
    OBVIOUS
  <2> HIDE DEF role
  <2>3. /\ proc'[n] # "stopping" /\ handling'[n] = {}
        /\ \A m \in Nodes \ {n} : proc'[m] = proc[m] /\ (lock' = {m} => lock = {m})
    BY <2>1, <2>2, ZenonT(30) DEF LeadInv, TypeOK
  <2>4. \A m \in Nodes \ {n} : payload'[m] = payload[m]
    BY <2>1, SaveIs, Zenon DEF SavedAs
  <2> QED
    BY <2>1, <2>3, <2>4 DEF FlushInv
<1>3. ASSUME NEW n \in Nodes, maybe_promote_to_shared_leader(n) PROVE FlushInv'
  <2>1. /\ lock' = {n} /\ proc' = [proc EXCEPT ![n] = "leader"] /\ handling[n] = {}
        /\ UNCHANGED <<handling, writer, durable, failed>>
    BY <1>3, Zenon DEF maybe_promote_to_shared_leader, Idle
  <2>2. /\ \/ start_missing_runtime_torrents(n, disk.cat)
           \/ UNCHANGED seen
        /\ \/ UNCHANGED payload
           \/ save_state_to_disk(n, "leader", rt'[n], disk.seen)
           \/ save_state_to_disk(n, "leader", rt[n], seen[n])
    BY <1>3, Zenon DEF maybe_promote_to_shared_leader
  <2>3. \A m \in Nodes \ {n} : payload'[m] = payload[m] /\ seen'[m] = seen[m]
    <3>1. \A m \in Nodes \ {n} : payload'[m] = payload[m]
      BY <2>2, SaveIs, ZenonT(30) DEF SavedAs
    <3>2. seen \in [Nodes -> SUBSET Requests]
      BY Zenon DEF TypeOK
    <3>3. \/ seen' = [seen EXCEPT ![n] = disk.seen]
          \/ UNCHANGED seen
      BY <2>2, StartType, ZenonT(30)
    <3>4. \A m \in Nodes \ {n} : seen'[m] = seen[m]
      BY <3>2, <3>3, Zenon
    <3> QED
      BY <3>1, <3>4, Zenon
  <2>4. proc'[n] = "leader" /\ \A m \in Nodes \ {n} : lock' # {m}
    BY <2>1, Zenon DEF TypeOK
  <2> QED
    BY <2>1, <2>3, <2>4, ZenonT(30) DEF FlushInv
<1>4. ASSUME NEW n \in Nodes, rescan(n) PROVE FlushInv'
  <2>1. PICK order \in Orders(Fresh(n, proc[n])) :
          process_pending_commands(n, proc[n], rt[n], seen[n], order)
    BY <1>4 DEF rescan
  <2>2. /\ UNCHANGED <<lock, proc, writer, seen, handling, durable, failed>>
        /\ handling[n] = {} /\ proc[n] # "stopping"
    BY <1>4, Zenon DEF rescan, history, Idle, Up
  <2>3. \A m \in Nodes \ {n} : payload'[m] = payload[m]
    BY <2>1, SaveIs, ZenonT(30) DEF SavedAs, process_pending_commands
  <2> QED
    BY <2>2, <2>3, FlushLocal, Zenon
<1>5. ASSUME NEW n \in Nodes, spacing_over(n) PROVE FlushInv'
  BY <1>0, <1>5, Zenon DEF spacing_over, save, history
<1>6. ASSUME NEW n \in Nodes, relay_local_watch_file(n) PROVE FlushInv'
  BY <1>0, <1>6, Zenon DEF relay_local_watch_file, save, history
<1>7. ASSUME NEW n \in Nodes, ControlRequest(n) PROVE FlushInv'
  <2> DEFINE e == Head(queue[n])
  <2>1. /\ UNCHANGED <<lock, proc, writer, durable, failed>> /\ queue[n] # <<>>
        /\ apply_control_request(n, e[1]) /\ proc[n] # "stopping"
        /\ handling' = [handling EXCEPT ![n] = {e}]
        /\ save_state_to_disk(n, proc[n], rt'[n], seen'[n])
    BY <1>7, ZenonT(30) DEF ControlRequest, history, Idle, Up
  <2>2. e[1] \in Requests
    BY <2>1 DEF TypeOK, Entry
  <2> HIDE DEF e
  <2>3. seen' = [seen EXCEPT ![n] = @ \cup {e[1]}]
    BY <2>1, <2>2, ApplyType
  <2>4. /\ e[1] \in seen'[n] /\ handling'[n] = {e}
        /\ \A m \in Nodes \ {n} : seen'[m] = seen[m] /\ handling'[m] = handling[m]
    BY <2>1, <2>3, ZenonT(30) DEF TypeOK
  <2>5. \A m \in Nodes \ {n} : payload'[m] = payload[m]
    BY <2>1, SaveIs, Zenon DEF SavedAs
  <2> QED
    BY <2>1, <2>4, <2>5, FlushLocal, ZenonT(30)
<1>8. ASSUME NEW n \in Nodes, archive_watch_file(n) PROVE FlushInv'
  <2>1. /\ UNCHANGED <<lock, proc, writer, failed, payload, seen, durable>>
        /\ handling' = [handling EXCEPT ![n] = {}]
    BY <1>8, Zenon DEF archive_watch_file, save, history
  <2>2. handling'[n] = {} /\ \A m \in Nodes \ {n} : handling'[m] = handling[m]
    BY <2>1, Zenon DEF TypeOK
  <2> QED
    BY <2>1, <2>2, Zenon DEF FlushInv
<1>9. ASSUME NEW n \in Nodes, persist_begin(n) PROVE FlushInv'
  <2>1. /\ UNCHANGED <<lock, proc, failed, seen, durable, handling>>
        /\ payload[n] # {} /\ writer'[n] = payload[n] /\ payload'[n] = {}
        /\ \A m \in Nodes \ {n} : writer'[m] = writer[m] /\ payload'[m] = payload[m]
    BY <1>9, ZenonT(30) DEF persist_begin, node, files, history, TypeOK
  <2> QED
    BY <2>1, ZenonT(30) DEF FlushInv
<1>10. ASSUME NEW n \in Nodes, persist_end(n) PROVE FlushInv'
  <2>1. PICK w \in writer[n] :
          \/ save_settings(w) /\ failed' = failed \ {n}
          \/ failed' = failed \cup {n} /\ UNCHANGED durable
    BY <1>10, Zenon DEF persist_end
  <2>2. /\ UNCHANGED <<lock, proc, payload, seen, handling>>
        /\ writer'[n] = {} /\ \A m \in Nodes \ {n} : writer'[m] = writer[m]
    BY <1>10, Zenon DEF persist_end, node, files, TypeOK
  <2>3. lock = {n}
    BY DEF LeadInv
  <2>4. \A m \in Nodes \ {n} : lock # {m}
    BY <2>3
  <2>5. n \notin failed' => w.seen \subseteq durable'
    BY <2>1 DEF save_settings
  <2> QED
    BY <2>2, <2>3, <2>4, <2>5, Zenon DEF FlushInv
<1>11. ASSUME NEW n \in Nodes, network_history_persist_tick(n) PROVE FlushInv'
  <2>1. /\ UNCHANGED <<lock, proc, writer, seen, handling, durable, failed>>
        /\ handling[n] = {} /\ proc[n] # "stopping"
        /\ save_state_to_disk(n, "leader", rt[n], seen[n])
    BY <1>11, Zenon DEF network_history_persist_tick, files, history, Idle
  <2>2. \A m \in Nodes \ {n} : payload'[m] = payload[m]
    BY <2>1, SaveIs, ZenonT(30) DEF SavedAs
  <2> QED
    BY <2>1, <2>2, FlushLocal, ZenonT(30)
<1>12. ASSUME NEW n \in Nodes, ReloadClusterState(n) PROVE FlushInv'
  <2>1. /\ UNCHANGED <<lock, proc, writer, payload, handling, durable, failed>>
        /\ handling[n] = {} /\ proc[n] # "stopping"
        /\ seen' = [seen EXCEPT ![n] = disk.seen]
    BY <1>12, Zenon DEF ReloadClusterState, save, files, history, Idle,
       sync_runtime_torrents_from_settings
  <2>2. \A m \in Nodes \ {n} : seen'[m] = seen[m]
    BY <2>1, Zenon DEF TypeOK
  <2> QED
    BY <2>1, <2>2, FlushLocal, Zenon
<1>13. ASSUME NEW n \in Nodes, refresh_follower_read_model(n) PROVE FlushInv'
  BY <1>0, <1>13, Zenon DEF refresh_follower_read_model, save, files, history
<1>14. ASSUME NEW n \in Nodes, UpdateConfig(n) PROVE FlushInv'
  <2>1. durable \subseteq durable'
    BY <1>14, Zenon DEF UpdateConfig, save_settings
  <2> QED
    BY <1>0, <1>14, <2>1, Zenon DEF UpdateConfig, node, files, save
<1>15. ASSUME NEW n \in Nodes, NEW t \in Torrents, DeletionComplete(n, t) PROVE FlushInv'
  <2>1. /\ UNCHANGED <<lock, proc, writer, seen, handling, durable, failed>>
        /\ handling[n] = {} /\ proc[n] # "stopping"
        /\ save_state_to_disk(n, proc[n], rt'[n], seen[n])
    BY <1>15 DEF DeletionComplete, files, history, Idle, Up
  <2>2. \A m \in Nodes \ {n} : payload'[m] = payload[m]
    BY <2>1, SaveIs, ZenonT(30) DEF SavedAs
  <2> QED
    BY <2>1, <2>2, FlushLocal, Zenon
<1>16. ASSUME NEW n \in Nodes, Quit(n) PROVE FlushInv'
  <2>1. /\ UNCHANGED <<lock, writer, seen, handling, durable, failed>>
        /\ handling[n] = {} /\ Up(n)
        /\ proc' = [proc EXCEPT ![n] = "stopping"]
        /\ save_state_to_disk(n, proc[n], rt[n], seen[n])
    BY <1>16, Zenon DEF Quit, files, history, Idle
  <2>2. /\ \A m \in Nodes \ {n} : payload'[m] = payload[m]
        /\ proc[n] = "leader" => payload'[n] # {} /\ \A p \in payload'[n] : p.seen = seen[n]
    <3>1. SavedAs(n, proc[n], seen[n])
      BY <2>1, SaveIs, Zenon
    <3> QED BY <3>1, Zenon DEF SavedAs
  <2>3. lock = {n} => proc[n] = "leader"
    BY <2>1, Zenon DEF LeadInv, Up
  <2>4. \A m \in Nodes \ {n} : proc'[m] = proc[m]
    BY <2>1, ZenonT(30) DEF TypeOK
  <2> QED
    BY <2>1, <2>2, <2>3, <2>4, Zenon DEF FlushInv
<1>17. ASSUME NEW n \in Nodes, Gone(n), durable' = durable PROVE FlushInv'
  <2>1. ASSUME NEW m \in Nodes \ {n}
        PROVE  (lock' = {m} => lock = {m}) /\ (m \in failed => m \in failed')
    BY <1>17, GoneEffect, LockHolder, Zenon
  <2>2. proc'[n] = "down" /\ handling'[n] = {}
    BY <1>17, GoneEffect, Zenon
  <2>3. \A m \in Nodes \ {n} :
          /\ proc'[m] = proc[m] /\ payload'[m] = payload[m] /\ writer'[m] = writer[m]
          /\ handling'[m] = handling[m] /\ seen'[m] = seen[m]
    BY <1>17, GoneEffect, Zenon
  <2> QED
    BY <1>17, <2>1, <2>2, <2>3, Zenon DEF FlushInv
<1>19. CASE queue_control_request_command
  BY <1>0, <1>19 DEF queue_control_request_command, save, node, files, history
<1>20. CASE try_acquire_app_lock_cli
  <2>1. lock' = {"cli"} /\ UNCHANGED <<proc, payload, writer, handling, seen, durable, failed>>
    BY <1>20, Zenon DEF try_acquire_app_lock_cli, save, node, files
  <2>2. \A m \in Nodes : lock' # {m}
    BY <2>1, Zenon
  <2> QED
    BY <2>1, <2>2, Zenon DEF FlushInv
<1>21. CASE apply_offline_control_request_mut
  <2>1. lock' = {} /\ UNCHANGED <<proc, payload, writer, handling, seen, failed>>
    BY <1>21, Zenon DEF apply_offline_control_request_mut, save, node, files
  <2> QED
    BY <2>1, Zenon DEF FlushInv
<1>22. ASSUME NEW r \in Requests, load_settings_for_cli(r) PROVE FlushInv'
  BY <1>0, <1>22, Zenon DEF load_settings_for_cli, save, node, files, history
<1>23. ASSUME NEW r \in Requests, NEW n \in Nodes, DropFile(r, n) PROVE FlushInv'
  BY <1>0, <1>23, Zenon DEF DropFile, save, node, files, history
<1>24. ASSUME NEW r \in Requests, NEW n \in Nodes, SubmitControlRequest(r, n) PROVE FlushInv'
  <2>1. /\ UNCHANGED <<lock, proc, writer, handling, durable, failed>>
        /\ handling[n] = {} /\ proc[n] # "stopping"
    BY <1>24, Zenon DEF SubmitControlRequest, files, history, Idle, Up
  <2>2. CASE proc[n] = "follower"
    BY <1>0, <1>24, <2>1, <2>2, Zenon DEF SubmitControlRequest
  <2>3. CASE proc[n] # "follower"
    <3>1. /\ apply_control_request(n, r)
          /\ save_state_to_disk(n, proc[n], rt'[n], seen'[n])
      BY <1>24, <2>3 DEF SubmitControlRequest
    <3>2. \A m \in Nodes \ {n} : payload'[m] = payload[m]
      BY <3>1, SaveIs, ZenonT(30) DEF SavedAs
    <3>3. seen' = [seen EXCEPT ![n] = @ \cup {r}]
      BY <3>1, ApplyType
    <3>4. \A m \in Nodes \ {n} : seen'[m] = seen[m]
      BY <3>3, Zenon DEF TypeOK
    <3> QED
      BY <2>1, <3>2, <3>4, FlushLocal, Zenon
  <2> QED
    BY <2>2, <2>3
<1>25. CASE UNCHANGED vars
  BY <1>0, <1>25, Zenon DEF vars, node, torrents, files, save, history
<1> QED
  BY <1>1, <1>2, <1>3, <1>4, <1>5, <1>6, <1>7, <1>8, <1>9, <1>10, <1>11, <1>12, <1>13,
     <1>14, <1>15, <1>16, <1>17, <1>19, <1>20, <1>21, <1>22, <1>23, <1>24, <1>25, Zenon
  DEF Next, NodeStep, CliStep, flush_persistence_writer, Crash

------------------------------------------------------------------------------
(* ArchivedIsKept. *)

(* A step that archives nothing, and after which the holder of the lock     *)
(* still holds it and has forgotten nothing.                                *)
LEMMA KeptLocal ==
  ASSUME ArchivedIsKept,
         \A r \in Requests : place'[r] = "archived" => place[r] = "archived",
         durable \subseteq durable', lost \subseteq lost',
         \A m \in Nodes : lock = {m} => lock' = {m} /\ seen[m] \subseteq seen'[m]
  PROVE  ArchivedIsKept'
<1> SUFFICES ASSUME NEW r \in Requests, place'[r] = "archived"
             PROVE  r \in (durable \cup lost
                           \cup UNION {seen[n] : n \in {m \in Nodes : lock = {m}}})'
  BY Zenon DEF ArchivedIsKept
<1>1. \/ r \in durable \/ r \in lost
      \/ \E m \in Nodes : lock = {m} /\ r \in seen[m]
  BY DEF ArchivedIsKept
<1>2. \/ r \in durable' \/ r \in lost'
      \/ \E m \in Nodes : lock' = {m} /\ r \in seen'[m]
  BY <1>1, Zenon
<1> QED
  BY <1>2, ZenonT(30)

(* The process that ends: what it alone knew is lost. *)
LEMMA KeptGone ==
  ASSUME TypeOK, ArchivedIsKept, NEW n \in Nodes, Gone(n), UNCHANGED <<place, durable>>,
         lost \subseteq lost',
         lock = {n} => seen[n] \subseteq durable \cup lost'
  PROVE  ArchivedIsKept'
<1> SUFFICES ASSUME NEW r \in Requests, place'[r] = "archived"
             PROVE  r \in (durable \cup lost
                           \cup UNION {seen[k] : k \in {m \in Nodes : lock = {m}}})'
  BY Zenon DEF ArchivedIsKept
<1>1. \/ r \in durable \/ r \in lost
      \/ \E m \in Nodes : lock = {m} /\ r \in seen[m]
  BY Zenon DEF ArchivedIsKept
<1>2. lock' = lock \ {n} /\ \A m \in Nodes \ {n} : seen'[m] = seen[m]
  BY GoneEffect, Zenon
<1>3. \/ r \in durable' \/ r \in lost'
      \/ \E m \in Nodes : lock' = {m} /\ r \in seen'[m]
  BY <1>1, <1>2, Zenon
<1> QED
  BY <1>3, Zenon

LEMMA KeptInductive ==
  TypeOK /\ LeadInv /\ FlushInv /\ ArchivedIsKept /\ [Next]_vars => ArchivedIsKept'
<1> SUFFICES ASSUME TypeOK, LeadInv, FlushInv, ArchivedIsKept, [Next]_vars
             PROVE  ArchivedIsKept'
  OBVIOUS
<1> USE CliNoNode
<1>0. ASSUME UNCHANGED <<lock, seen, durable, lost>>,
             \A r \in Requests : place'[r] = "archived" => place[r] = "archived"
      PROVE  ArchivedIsKept'
  BY <1>0, KeptLocal, Zenon
<1>1. ASSUME NEW n \in Nodes, load_settings(n) PROVE ArchivedIsKept'
  <2>1. UNCHANGED <<place, lock, durable, lost>> /\ lock # {n}
    BY <1>1, ZenonT(30) DEF load_settings, history, LeadInv
  <2>2. \A m \in Nodes \ {n} : seen'[m] = seen[m]
    BY <1>1, Zenon DEF load_settings, TypeOK
  <2> QED
    BY <2>1, <2>2, KeptLocal
<1>2. ASSUME NEW n \in Nodes, new_with_lock(n) PROVE ArchivedIsKept'
  <2>1. UNCHANGED <<place, seen, durable, lost>> /\ (lock # {} => lock' = lock)
    BY <1>2, Zenon DEF new_with_lock
  <2> QED
    BY <2>1, KeptLocal, Zenon
<1>3. ASSUME NEW n \in Nodes, maybe_promote_to_shared_leader(n) PROVE ArchivedIsKept'
  <2>1. UNCHANGED <<place, durable, lost>> /\ lock = {}
    BY <1>3, Zenon DEF maybe_promote_to_shared_leader
  <2> QED
    BY <2>1, KeptLocal
<1>4. ASSUME NEW n \in Nodes, rescan(n) PROVE ArchivedIsKept'
  BY <1>0, <1>4, Zenon DEF rescan, history
<1>5. ASSUME NEW n \in Nodes, spacing_over(n) PROVE ArchivedIsKept'
  BY <1>0, <1>5, Zenon DEF spacing_over, history
<1>6. ASSUME NEW n \in Nodes, relay_local_watch_file(n) PROVE ArchivedIsKept'
  <2>1. UNCHANGED <<lock, seen, durable, lost>> /\ queue[n] # <<>>
    BY <1>6 DEF relay_local_watch_file, history
  <2>2. Head(queue[n])[1] \in Requests
    BY <2>1, HeadRequest
  <2>3. \A r \in Requests : place'[r] = "archived" => place[r] = "archived"
    BY <1>6, <2>2, ZenonT(30) DEF relay_local_watch_file, TypeOK
  <2> QED
    BY <1>0, <2>1, <2>3, Zenon
<1>7. ASSUME NEW n \in Nodes, ControlRequest(n) PROVE ArchivedIsKept'
  <2>1. /\ UNCHANGED <<place, lock, durable, lost>> /\ queue[n] # <<>>
        /\ apply_control_request(n, Head(queue[n])[1])
    BY <1>7 DEF ControlRequest, history
  <2>2. Head(queue[n])[1] \in Requests
    BY <2>1, HeadRequest, ZenonT(30)
  <2>3. seen' = [seen EXCEPT ![n] = @ \cup {Head(queue[n])[1]}]
    BY <2>1, <2>2, ApplyType, ZenonT(30)
  <2>4. \A m \in Nodes : seen[m] \subseteq seen'[m]
    BY <2>3, Zenon DEF TypeOK
  <2> QED
    BY <2>1, <2>4, KeptLocal, Zenon
<1>8. ASSUME NEW n \in Nodes, archive_watch_file(n) PROVE ArchivedIsKept'
  <2>1. PICK e \in handling[n] :
          \/ place' = [place EXCEPT ![e[1]] = IF @ = e[2] THEN "archived" ELSE @]
          \/ UNCHANGED place
    BY <1>8, Zenon DEF archive_watch_file
  <2>2. UNCHANGED <<lock, seen, durable, lost>>
    BY <1>8, Zenon DEF archive_watch_file, history
  <2>3. lock = {n} /\ e[1] \in seen[n]
    BY DEF LeadInv, FlushInv
  <2>4. e[1] \in Requests
    <3>1. e \in Entry
      BY OptElement DEF TypeOK
    <3> QED
      BY <3>1, Zenon DEF Entry
  <2>5. \A r \in Requests : r # e[1] => place'[r] = place[r]
    BY <2>1, <2>4, Zenon DEF TypeOK
  <2>6. ASSUME NEW r \in Requests, place'[r] = "archived"
        PROVE  r \in (durable \cup lost
                      \cup UNION {seen[k] : k \in {m \in Nodes : lock = {m}}})'
    <3>1. CASE r = e[1]
      BY <2>2, <2>3, <3>1, Zenon
    <3>2. CASE r # e[1]
      <4>1. r \in durable \cup lost \cup UNION {seen[k] : k \in {m \in Nodes : lock = {m}}}
        BY <2>5, <2>6, <3>2, Zenon DEF ArchivedIsKept
      <4> QED
        BY <2>2, <4>1, Zenon
    <3> QED
      BY <3>1, <3>2, Zenon
  <2> QED
    BY <2>6 DEF ArchivedIsKept
<1>9. ASSUME NEW n \in Nodes, persist_begin(n) PROVE ArchivedIsKept'
  BY <1>0, <1>9, Zenon DEF persist_begin, node, history
<1>10. ASSUME NEW n \in Nodes, persist_end(n) PROVE ArchivedIsKept'
  <2>1. UNCHANGED <<place, lock, seen, lost>> /\ durable \subseteq durable'
    BY <1>10, Zenon DEF persist_end, node, save_settings
  <2> QED
    BY <2>1, KeptLocal
<1>11. ASSUME NEW n \in Nodes, network_history_persist_tick(n) PROVE ArchivedIsKept'
  BY <1>0, <1>11, Zenon DEF network_history_persist_tick, history
<1>12. ASSUME NEW n \in Nodes, ReloadClusterState(n) PROVE ArchivedIsKept'
  <2>1. /\ UNCHANGED <<place, lock, durable, lost>> /\ proc[n] = "follower"
        /\ seen' = [seen EXCEPT ![n] = disk.seen]
    BY <1>12, Zenon DEF ReloadClusterState, history, sync_runtime_torrents_from_settings
  <2>2. lock # {n}
    BY <2>1, Zenon DEF LeadInv
  <2>3. \A m \in Nodes \ {n} : seen'[m] = seen[m]
    BY <2>1, Zenon DEF TypeOK
  <2> QED
    BY <2>1, <2>2, <2>3, KeptLocal, Zenon
<1>13. ASSUME NEW n \in Nodes, refresh_follower_read_model(n) PROVE ArchivedIsKept'
  BY <1>0, <1>13, Zenon DEF refresh_follower_read_model, history
<1>14. ASSUME NEW n \in Nodes, UpdateConfig(n) PROVE ArchivedIsKept'
  <2>1. UNCHANGED <<place, lock, seen, lost>> /\ durable \subseteq durable'
    BY <1>14, Zenon DEF UpdateConfig, node, save_settings
  <2> QED
    BY <2>1, KeptLocal
<1>15. ASSUME NEW n \in Nodes, NEW t \in Torrents, DeletionComplete(n, t)
       PROVE  ArchivedIsKept'
  BY <1>0, <1>15, Zenon DEF DeletionComplete, history
<1>16. ASSUME NEW n \in Nodes, Quit(n) PROVE ArchivedIsKept'
  BY <1>0, <1>16, Zenon DEF Quit, history
<1>17. ASSUME NEW n \in Nodes, flush_persistence_writer(n) PROVE ArchivedIsKept'
  <2>1. /\ Gone(n) /\ UNCHANGED <<place, durable>>
        /\ proc[n] = "stopping" /\ payload[n] = {} /\ writer[n] = {}
        /\ n \in failed => lost' = lost \cup (seen[n] \ durable)
        /\ n \notin failed => lost' = lost
    BY <1>17, Zenon DEF flush_persistence_writer
  <2>2. lock = {n} /\ n \notin failed => seen[n] \subseteq durable
    BY <2>1, Zenon DEF FlushInv
  <2> QED
    BY <2>1, <2>2, KeptGone, Zenon
<1>18. ASSUME NEW n \in Nodes, Crash(n) PROVE ArchivedIsKept'
  <2>1. Gone(n) /\ UNCHANGED <<place, durable>> /\ lost' = lost \cup (seen[n] \ durable)
    BY <1>18, Zenon DEF Crash
  <2> QED
    BY <2>1, KeptGone, Zenon
<1>19. CASE queue_control_request_command
  <2>1. UNCHANGED <<lock, seen, durable, lost>>
    BY <1>19, Zenon DEF queue_control_request_command, node, history
  <2>2. \A r \in Requests : place'[r] = "archived" => place[r] = "archived"
    BY <1>19, CliType, Zenon DEF queue_control_request_command, TypeOK
  <2> QED
    BY <1>0, <2>1, <2>2, Zenon
<1>20. CASE try_acquire_app_lock_cli
  <2>1. UNCHANGED <<place, seen, durable, lost>> /\ lock = {}
    BY <1>20, Zenon DEF try_acquire_app_lock_cli, node
  <2> QED
    BY <2>1, KeptLocal
<1>21. CASE apply_offline_control_request_mut
  <2>1. UNCHANGED <<seen, lost>> /\ lock = {"cli"} /\ durable \subseteq durable'
    BY <1>21 DEF apply_offline_control_request_mut, node, save_settings
  <2>2. \A m \in Nodes : lock # {m}
    BY <2>1
  <2>3. PICK c \in cli : place' = [place EXCEPT ![c.req] = "answered"]
    BY <1>21, Zenon DEF apply_offline_control_request_mut
  <2>4. \A r \in Requests : place'[r] = "archived" => place[r] = "archived"
    BY <2>3, CliType, ZenonT(30) DEF TypeOK
  <2> QED
    BY <2>1, <2>2, <2>4, KeptLocal, Zenon
<1>22. ASSUME NEW r \in Requests, load_settings_for_cli(r) PROVE ArchivedIsKept'
  BY <1>0, <1>22, Zenon DEF load_settings_for_cli, node, history, TypeOK
<1>23. ASSUME NEW r \in Requests, NEW n \in Nodes, DropFile(r, n) PROVE ArchivedIsKept'
  <2>1. UNCHANGED <<lock, seen, durable, lost>> /\ n # "archived"
    BY <1>23, ClusterAssumption DEF DropFile, node, history, Spots
  <2>2. \A q \in Requests : place'[q] = "archived" => place[q] = "archived"
    BY <1>23, <2>1, ZenonT(30) DEF DropFile, TypeOK
  <2> QED
    BY <1>0, <2>1, <2>2, Zenon
<1>24. ASSUME NEW r \in Requests, NEW n \in Nodes, SubmitControlRequest(r, n)
       PROVE  ArchivedIsKept'
  <2>1. UNCHANGED <<lock, durable, lost>>
    BY <1>24, ZenonT(30) DEF SubmitControlRequest, history
  <2>2. \A q \in Requests : place'[q] = "archived" => place[q] = "archived"
    BY <1>24, ZenonT(30) DEF SubmitControlRequest, TypeOK
  <2>3. \A m \in Nodes : seen[m] \subseteq seen'[m]
    <3>1. UNCHANGED seen \/ apply_control_request(n, r)
      BY <1>24, ZenonT(30) DEF SubmitControlRequest
    <3>2. CASE apply_control_request(n, r)
      <4>1. seen' = [seen EXCEPT ![n] = @ \cup {r}]
        BY <3>2, ApplyType, Zenon
      <4> QED
        BY <4>1, Zenon DEF TypeOK
    <3> QED
      BY <3>1, <3>2
  <2> QED
    BY <2>1, <2>2, <2>3, KeptLocal, Zenon
<1>25. CASE UNCHANGED vars
  BY <1>0, <1>25 DEF vars, node, history
<1> QED
  BY <1>1, <1>2, <1>3, <1>4, <1>5, <1>6, <1>7, <1>8, <1>9, <1>10, <1>11, <1>12, <1>13,
     <1>14, <1>15, <1>16, <1>17, <1>18, <1>19, <1>20, <1>21, <1>22, <1>23, <1>24, <1>25, Zenon
  DEF Next, NodeStep, CliStep

(* A request whose file was archived is on disk, or known to the process    *)
(* that leads, or was lost in a crash or a failed last write: archiving     *)
(* before the asynchronous save is done loses nothing at an orderly exit.   *)
THEOREM ArchivedIsKeptAlways == Spec => []ArchivedIsKept
<1>1. Init => LeadInv /\ FlushInv /\ ArchivedIsKept
  BY DEF Init, LeadInv, FlushInv, ArchivedIsKept
<1> QED
  BY <1>1, TypeCorrect, LeadInductive, FlushInductive, KeptInductive, PTL DEF Spec
=============================================================================
