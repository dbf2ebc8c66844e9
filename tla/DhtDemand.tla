------------------------------ MODULE DhtDemand ------------------------------
(***************************************************************************)
(* The DHT service's demand planner (dht/service/): torrents subscribe     *)
(* with a demand, the planner starts lookups within slots, class caps and  *)
(* launch tokens, each lookup is a slice that a task of its own watches,   *)
(* and a slice that stops early is drained or parked.                      *)
(*                                                                         *)
(* One task runs the service and handles one command, tick or runtime      *)
(* event at a time.  Commands of torrents and of slice tasks reach it by   *)
(* one unbounded FIFO channel; a command speaks of the slice that sent it, *)
(* the planner only of the info hash.  A command with start_due_demands at *)
(* its end leaves todo = "plan"; starting a lookup awaits the network, so  *)
(* other tasks run between the starts.                                     *)
(*                                                                         *)
(* Abstracted: peers to "a batch", lookup quality and drain scores to the  *)
(* outcome they decide (admitted or not), timers to steps that may happen. *)
(* Left out: the crawl state that a cancelled lookup leaves to the next    *)
(* slice of its torrent (parked_crawls), which decides no state kept here. *)
(***************************************************************************)
EXTENDS DemandScheduler, Sequences, FiniteSetsExt

CONSTANTS
  Hashes,              \* info hashes
  Subscribers,         \* subscriptions a behaviour can have, numbered
  Slices,              \* bound: identities of slices that exist at once
  LookupIds,           \* numbers of lookups
  Families,            \* bound address families
  Classes,             \* the demands torrents have
  SlotCount,           \* DHT_DEMAND_LOOKUP_SLOT_COUNT
  FillPerTick,         \* DHT_DEMAND_LOOKUP_SLOT_FILL_PER_TICK
  DrainsPerSlot,       \* DHT_DRAIN_LOOKUPS_PER_VIRTUAL_SLOT
  ClassCap,            \* demand_lookup_class_slot_cap
  Burst,               \* launch tokens of a class
  FaultKinds,          \* which of the disturbing events below occur
  MaxFaults            \* bound: how many of them

ASSUME DemandAssumption ==
  /\ IsFiniteSet(Hashes) /\ Slices \subseteq Nat
  /\ Subscribers \subseteq Nat /\ LookupIds \subseteq Nat
  /\ Families \subseteq {"v4", "v6"} /\ Families # {}
  /\ Classes \subseteq Class
  /\ SlotCount \in Nat \ {0} /\ FillPerTick \in Nat \ {0}
  /\ DrainsPerSlot \in Nat \ {0}
  /\ ClassCap \in [Class -> Nat \ {0}] /\ Burst \in [Class -> Nat \ {0}]
  /\ MaxFaults \in Nat

VARIABLES
  planner,      \* DemandPlannerModel: entries, active, pending_starts, ...
  subscribers,  \* DemandSubscriberRegistry
  runtime,      \* up, and the lookups it runs
  slices,       \* slice tasks with the lookup_ids they share with planner
  queue,        \* command_rx
  todo,         \* where the service's loop is
  client,       \* per torrent: its lookup task, and dht_demand_state
  ending,       \* lookup tasks aborted and not yet dropped
  dead,         \* subscriptions whose receiver is gone
  faults

service == <<planner, subscribers, runtime, todo>>
torrents == <<client, ending, dead>>
vars == <<service, slices, queue, torrents, faults>>

Optional(S) == {{}} \cup {{x} : x \in S}          \* Option<S>
Id == [n : LookupIds, old : BOOLEAN]   \* old: of a runtime that is gone
Lookup == [mode : {"active", "draining", "dry"}, hash : Hashes,
           slice : Optional(Slices)]
Drain == [ids : SUBSET LookupIds, class : Class]
Slice == [hash : Hashes, class : Class, ids : SUBSET Id,
          running : BOOLEAN, hedge : {"none", "armed", "queued"}]
Client == [at : {"off", "spawned", "asking", "answered", "on"},
           sub : Optional(Subscribers), class : Class, initial : Class]
NoClient == [at |-> "off", sub |-> {}, class |-> "RoutineRefresh",
             initial |-> "RoutineRefresh"]
Ending == [hash : Hashes, sub : Subscribers, subscribed : BOOLEAN]
Command ==
  [kind : {"Register"}, hash : Hashes, class : Class, sub : Subscribers]
    \cup [kind : {"Unregister"}, hash : Hashes, sub : Subscribers]
    \cup [kind : {"Update"}, hash : Hashes, class : Class]
    \cup [kind : {"Family", "Park", "Finished"}, slice : Slices]
    \cup [kind : {"Reconfigure"}]

NewPlanner(E) ==
  [entries |-> E,
   active |-> [h \in Hashes |-> {}],
   pending_starts |-> [h \in Hashes |-> {}],
   draining |-> [h \in Hashes |-> {}],
   tokens |-> Burst]

Init ==
  /\ planner = NewPlanner([h \in {} |-> NewEntry("RoutineRefresh")])
  /\ subscribers = [h \in Hashes |-> {}]
  /\ runtime = [up |-> TRUE, lookups |-> [n \in {} |-> {}]]
  /\ slices = [s \in {} |-> {}]
  /\ queue = <<>> /\ todo = "loop"
  /\ client = [h \in Hashes |-> NoClient]
  /\ ending = {} /\ dead = {} /\ faults = 0

Fault(kind) ==
  /\ kind \in FaultKinds /\ faults < MaxFaults
  /\ faults' = faults + 1

Send(c) == queue' = Append(queue, c)
Receive(kind) ==
  /\ todo = "loop" /\ queue # <<>> /\ Head(queue).kind = kind
  /\ queue' = Tail(queue)

-----------------------------------------------------------------------------
(***************************************************************************)
(* Lookups of the runtime.  p is the planner, r the runtime; what both     *)
(* become is a record [p, r].                                              *)
(***************************************************************************)
Live(r, ids) == ids \cap DOMAIN r.lookups
Numbers(ids) == {i.n : i \in ids}

cancel_lookups(r, ids) ==
  [r EXCEPT !.lookups = [n \in DOMAIN r.lookups \ ids |-> r.lookups[n]]]

\* The end of the drains of H: their lookups are removed, those that are not
\* draining excepted.
finalize_drained(p, r, H) ==
  LET ids == UNION {d.ids : d \in UNION {p.draining[h] : h \in H}}
      done == {n \in Live(r, ids) : r.lookups[n].mode # "active"}
  IN  [p |-> [p EXCEPT !.draining = [h \in Hashes |->
                           IF h \in H THEN {} ELSE p.draining[h]],
                       !.entries = finish(p.entries, H)],
       r |-> cancel_lookups(r, done)]

\* A drain of another class than the demand's new one is ended at once.
settle_drain(p, r, h, class) ==
  IF \E d \in p.draining[h] : d.class # class
  THEN finalize_drained(p, r, {h})
  ELSE [p |-> p, r |-> r]

drained_lookups_ready(h) ==
  \A d \in planner.draining[h] : \A n \in Live(runtime, d.ids) :
    runtime.lookups[n].mode = "dry"

-----------------------------------------------------------------------------
(***************************************************************************)
(* Subscribers.  DemandSubscriberRemoved for the last one drops the demand *)
(* with its active and its draining lookups.                               *)
(***************************************************************************)
Forgotten_DrainGoesOn(h, gone) ==
  LET E == unregister(planner.entries, h, Cardinality(gone))
      out == planner.active[h]
      ids == UNION {Numbers(slices[s].ids) : s \in out}
  IN  IF h \in DOMAIN planner.entries /\ h \notin DOMAIN E
      THEN /\ planner' = [planner EXCEPT !.entries = E,
                            !.pending_starts[h] = {},
                            !.active[h] = {}, !.draining[h] = {}]
           /\ runtime' = cancel_lookups(runtime, ids)
           /\ slices' = [s \in DOMAIN slices |->
                IF s \in out THEN [slices[s] EXCEPT !.ids = {}]
                             ELSE slices[s]]
      ELSE /\ planner' = [planner EXCEPT !.entries = E]
           /\ UNCHANGED <<runtime, slices>>

Forgotten(h, gone) ==
  LET E == unregister(planner.entries, h, Cardinality(gone))
      out == planner.active[h]
      ids == UNION {Numbers(slices[s].ids) : s \in out}
      drained == UNION {d.ids : d \in planner.draining[h]}
  IN  IF h \in DOMAIN planner.entries /\ h \notin DOMAIN E
      THEN /\ planner' = [planner EXCEPT !.entries = E,
                            !.pending_starts[h] = {},
                            !.active[h] = {}, !.draining[h] = {}]
           /\ runtime' = cancel_lookups(runtime, ids \cup drained)
           /\ slices' = [s \in DOMAIN slices |->
                IF s \in out THEN [slices[s] EXCEPT !.ids = {}]
                             ELSE slices[s]]
      ELSE /\ planner' = [planner EXCEPT !.entries = E]
           /\ UNCHANGED <<runtime, slices>>

RemoveSubscribers(h, gone) ==
  /\ subscribers' = [subscribers EXCEPT ![h] = @ \ gone]
  /\ dead' = dead \ gone
  /\ IF gone = {} THEN UNCHANGED <<planner, runtime, slices>>
                  ELSE Forgotten(h, gone)

RegisterDemand ==
  /\ Receive("Register")
  /\ LET c == Head(queue)
         registered == [planner EXCEPT !.entries =
                          register(@, c.hash, c.class)]
         settled == settle_drain(registered, runtime, c.hash, c.class)
     IN  /\ subscribers' = [subscribers EXCEPT ![c.hash] = @ \cup {c.sub}]
         /\ planner' = settled.p /\ runtime' = settled.r
         /\ client' = IF client[c.hash].sub = {c.sub}
                      THEN [client EXCEPT ![c.hash].at = "answered"]
                      ELSE client
  /\ todo' = "plan"
  /\ UNCHANGED <<slices, ending, dead, faults>>

UpdateDemand ==
  /\ Receive("Update")
  /\ LET c == Head(queue)
         settled == settle_drain([planner EXCEPT !.entries =
                                    update(@, c.hash, c.class)],
                                 runtime, c.hash, c.class)
     IN  planner' = settled.p /\ runtime' = settled.r
  /\ todo' = "plan"
  /\ UNCHANGED <<subscribers, slices, torrents, faults>>

UnregisterDemand_Unchecked ==
  /\ Receive("Unregister")
  /\ LET c == Head(queue) IN RemoveSubscribers(c.hash, {c.sub})
  /\ UNCHANGED <<todo, client, ending, faults>>

UnregisterDemand ==
  /\ Receive("Unregister")
  /\ LET c == Head(queue)
     IN  RemoveSubscribers(c.hash, {c.sub} \cap subscribers[c.hash])
  /\ UNCHANGED <<todo, client, ending, faults>>

\* Delivery of a batch finds out which receivers are gone and prunes them.
\* A batch may wait anywhere in the queue while h has a slice or a lookup.
DemandPeers(h) ==
  /\ todo = "loop" /\ subscribers[h] \cap dead # {}
  /\ \/ \E s \in DOMAIN slices : slices[s].hash = h
     \/ \E n \in DOMAIN runtime.lookups : runtime.lookups[n].hash = h
  /\ RemoveSubscribers(h, subscribers[h] \cap dead)
  /\ UNCHANGED <<todo, queue, client, ending, faults>>

-----------------------------------------------------------------------------
(***************************************************************************)
(* Slices that end.  LookupFinished and LookupParkRequested untrack what   *)
(* is active for the hash, whichever slice that is.                        *)
(***************************************************************************)
\* The slice's receiver goes once its last command is handled.
Free(s) == [t \in DOMAIN slices \ {s} |-> slices[t]]
Orphan(r, s) ==
  [r EXCEPT !.lookups = [n \in DOMAIN r.lookups |->
     [r.lookups[n] EXCEPT !.slice = @ \ {s}]]]

DemandLookupFinished_StaysActive ==
  /\ Receive("Finished")
  /\ LET s == Head(queue).slice
     IN  /\ planner' = [planner EXCEPT !.entries = finish(@, {slices[s].hash})]
         /\ runtime' = Orphan(runtime, s)
         /\ UNCHANGED slices
  /\ todo' = "plan"
  /\ UNCHANGED <<subscribers, torrents, faults>>

DemandLookupFinished ==
  /\ Receive("Finished")
  /\ LET s == Head(queue).slice
         h == slices[s].hash
     IN  /\ planner' = [planner EXCEPT !.active[h] = {},
                                       !.entries = finish(@, {h})]
         /\ runtime' = Orphan(runtime, s)
         /\ slices' = Free(s)
  /\ todo' = "plan"
  /\ UNCHANGED <<subscribers, torrents, faults>>

\* drain_lookup_ids: what is still live is drained, or cancelled when
\* quality, score or the inflight cap do not admit it.
drain_lookup_ids(p, r, s, admitted) ==
  LET h == slices[s].hash
      ids == Numbers(slices[s].ids)
      previous == UNION {d.ids : d \in p.draining[h]}
      cleared == cancel_lookups(r, previous)
      undrained == [p EXCEPT !.draining[h] = {}]
      drainable == Live(cleared, ids)
  IN  CASE ids = {} \/ ~r.up -> [p |-> p, r |-> r]
        [] drainable = {} -> [p |-> undrained, r |-> cleared]
        [] OTHER ->
             IF admitted
             THEN [p |-> [undrained EXCEPT !.draining[h] =
                           {[ids |-> drainable, class |-> slices[s].class]}],
                   r |-> [cleared EXCEPT !.lookups =
                           [n \in DOMAIN cleared.lookups |->
                              IF n \in drainable
                              THEN [cleared.lookups[n]
                                      EXCEPT !.mode = "draining"]
                              ELSE cleared.lookups[n]]]]
             ELSE [p |-> undrained, r |-> cancel_lookups(cleared, drainable)]

park_resolved_FinishedByDrain(p, r, h, class) ==
  IF h \in DOMAIN p.entries /\ p.entries[h].class # class
  THEN finalize_drained(p, r, {h})
  ELSE [p |-> p, r |-> r]

\* LookupParkResolved.
park_resolved(p, r, h, class) ==
  IF p.draining[h] = {}
  THEN [p |-> [p EXCEPT !.entries = finish(@, {h})], r |-> r]
  ELSE IF h \in DOMAIN p.entries /\ p.entries[h].class # class
  THEN finalize_drained(p, r, {h})
  ELSE [p |-> p, r |-> r]

ParkDemandLookups_StaysActive ==
  /\ Receive("Park")
  /\ \E s \in {Head(queue).slice}, admitted \in BOOLEAN :
       LET h == slices[s].hash
           w == drain_lookup_ids(planner, Orphan(runtime, s), s, admitted)
           resolved == park_resolved(w.p, w.r, h, slices[s].class)
       IN  /\ planner' = resolved.p /\ runtime' = resolved.r
           /\ UNCHANGED slices
  /\ todo' = "plan"
  /\ UNCHANGED <<subscribers, torrents, faults>>

ParkDemandLookups ==
  /\ Receive("Park")
  /\ \E s \in {Head(queue).slice}, admitted \in BOOLEAN :
       LET h == slices[s].hash
           w == drain_lookup_ids([planner EXCEPT !.active[h] = {}],
                                 Orphan(runtime, s), s, admitted)
           resolved == park_resolved(w.p, w.r, h, slices[s].class)
       IN  /\ planner' = resolved.p /\ runtime' = resolved.r
           /\ slices' = Free(s)
  /\ todo' = "plan"
  /\ UNCHANGED <<subscribers, torrents, faults>>

\* Drains end when their lookups are dry or their time is over.
FinalizeDrains(F) ==
  /\ LET w == finalize_drained(planner, runtime, F)
     IN  planner' = w.p /\ runtime' = w.r
  /\ todo' = "plan"
  /\ UNCHANGED <<subscribers, slices, queue, torrents, faults>>

DrainTick ==
  LET draining == {h \in Hashes : planner.draining[h] # {}}
      ready == {h \in draining : drained_lookups_ready(h)}
  IN  /\ todo = "loop"
      /\ \E F \in SUBSET draining :
           F # {} /\ ready \subseteq F /\ FinalizeDrains(F)

\* The poll scheduled for one drain looks at that drain only.
FinalizeDrainedDemandLookups ==
  /\ todo = "loop"
  /\ \E h \in Hashes : planner.draining[h] # {} /\ FinalizeDrains({h})

\* A rebuilt runtime numbers its lookups from 1 again.
Reconfigure ==
  /\ Receive("Reconfigure")
  /\ \/ \E up \in BOOLEAN :
          /\ runtime' = [up |-> up, lookups |-> [n \in {} |-> {}]]
          /\ planner' = NewPlanner(reset_active(planner.entries))
          /\ slices' = [s \in DOMAIN slices |->
               [slices[s] EXCEPT !.ids = {[i EXCEPT !.old = TRUE] : i \in @}]]
          /\ todo' = "plan"
     \/ UNCHANGED <<runtime, planner, slices, todo>>   \* build failed
  /\ UNCHANGED <<subscribers, torrents, faults>>

-----------------------------------------------------------------------------
(***************************************************************************)
(* start_due_demands: PlanDue selects, then the lookups start one by one.  *)
(***************************************************************************)
drain_virtual_slot_count(n) == (n + DrainsPerSlot - 1) \div DrainsPerSlot

Tracked(field) == {h \in Hashes : field[h] # {}}
ActiveOf(p, c) ==
  {h \in Hashes : \E s \in p.active[h] : slices[s].class = c}

demand_lookup_launch_budget_DrainsOnly ==
  Min({FillPerTick, Max({0, SlotCount -
    drain_virtual_slot_count(Cardinality(Tracked(planner.draining)))})})

demand_lookup_launch_budget ==
  LET consumed == Cardinality(Tracked(planner.active))
        + drain_virtual_slot_count(Cardinality(Tracked(planner.draining)))
  IN  Min({FillPerTick, Max({0, SlotCount - consumed})})

Fits_NoTokens(L) ==
  /\ Cardinality(L) <= demand_lookup_launch_budget
  /\ \A c \in Class :
       Cardinality({h \in L : planner.entries[h].class = c}
                     \cup ActiveOf(planner, c)) <= ClassCap[c]

\* Class caps and launch tokens let all of L start.
Fits(L) ==
  /\ Cardinality(L) <= demand_lookup_launch_budget
  /\ \A c \in Class :
       LET n == Cardinality({h \in L : planner.entries[h].class = c})
       IN  n > 0 => /\ n + Cardinality(ActiveOf(planner, c)) <= ClassCap[c]
                    /\ n <= planner.tokens[c]

Greedy(L, candidates) ==
  Fits(L) /\ \A h \in candidates \ L : ~Fits(L \cup {h})

\* Due demands are taken greedily in the order of their scores, which
\* ranks waiting for metadata above all; launches before their time follow,
\* an idle-speed probe or spare research.
Selection ==
  LET idle == {h \in DOMAIN planner.entries :
                 ~planner.entries[h].in_progress /\ planner.draining[h] = {}}
      due == idle \cap due_candidates(planner.entries)
      metadata == {h \in due : planner.entries[h].class = "AwaitingMetadata"}
  IN  {L \in SUBSET idle :
         /\ Greedy(L \cap metadata, metadata)
         /\ Greedy(L \cap due, due)
         /\ Fits(L)}

\* At the end of a handler, or at a demand tick.
PlanDue ==
  /\ todo \in {"plan", "loop"}
  /\ IF ~runtime.up \/ demand_lookup_launch_budget = 0
     THEN /\ todo' = "loop" /\ UNCHANGED planner
     ELSE \E L \in Selection :
       /\ planner' = [planner EXCEPT
            !.entries = mark_in_progress(@, L),
            !.pending_starts = [h \in Hashes |->
               IF h \in L THEN {planner.entries[h].class} ELSE @[h]],
            !.tokens = [c \in Class |-> @[c] -
               Cardinality({h \in L : planner.entries[h].class = c})]]
       /\ todo' = IF L = {} THEN "loop" ELSE "start"
  /\ UNCHANGED <<subscribers, runtime, slices, queue, torrents, faults>>

\* Lookup numbers that count up, and meet those of a runtime that is gone.
FreshLookups ==
  LET held == UNION {slices[s].ids : s \in DOMAIN slices}
      current == DOMAIN runtime.lookups \cup Numbers({i \in held : ~i.old})
                   \cup (UNION {d.ids : d \in UNION {planner.draining[h] :
                                                     h \in Hashes}})
      old == Numbers({i \in held : i.old})
      unused == LookupIds \ (current \cup old)
  IN  (old \ current) \cup (IF unused = {} THEN {} ELSE {Min(unused)})

attach_lookup_family(h, s, n) ==
  [runtime EXCEPT !.lookups = With(@, n,
     [mode |-> "active", hash |-> h, slice |-> {s}])]

\* The IPv6 lookup joins later when an IPv4 one has started.
LookupStarted(h, s) ==
  \E n \in FreshLookups, class \in planner.pending_starts[h],
     hedge \in IF Families = {"v4", "v6"} THEN {"armed", "none"} ELSE {"none"} :
    /\ planner' = [planner EXCEPT !.pending_starts[h] = {}, !.active[h] = {s}]
    /\ runtime' = attach_lookup_family(h, s, n)
    /\ slices' = With(slices, s,
         [hash |-> h, class |-> class, running |-> TRUE,
          ids |-> {[n |-> n, old |-> FALSE]}, hedge |-> hedge])

LookupStartFailed(h) ==
  /\ \E c \in planner.pending_starts[h] :
       planner' = [planner EXCEPT !.pending_starts[h] = {},
                     !.tokens[c] = Min({Burst[c], @ + 1}),
                     !.entries = finish(@, {h})]
  /\ UNCHANGED <<runtime, slices>>

StartLookup(h) ==
  /\ todo = "start" /\ planner.pending_starts[h] # {}
  /\ LET free == Slices \ DOMAIN slices
     IN  \/ free # {} /\ LookupStarted(h, Min(free))
         \/ LookupStartFailed(h)
  /\ todo' = IF Tracked(planner'.pending_starts) = {} THEN "loop" ELSE todo
  /\ UNCHANGED <<subscribers, queue, torrents, faults>>

\* The IPv6 lookup that joins a slice late, unless the slice has stopped.
StartGetPeersFamily ==
  /\ Receive("Family")
  /\ \E s \in {Head(queue).slice} :
       \/ \E n \in FreshLookups :
            /\ slices[s].running /\ runtime.up
            /\ runtime' = attach_lookup_family(slices[s].hash, s, n)
            /\ slices' = [slices EXCEPT ![s].hedge = "none",
                           ![s].ids = @ \cup {[n |-> n, old |-> FALSE]}]
       \/ /\ slices' = [slices EXCEPT ![s].hedge = "none"]
          /\ UNCHANGED runtime       \* too late, or the lookup did not start
  /\ UNCHANGED <<planner, subscribers, todo, torrents, faults>>

-----------------------------------------------------------------------------
(***************************************************************************)
(* The task of a slice and the runtime's lookups.  Steps of other tasks do *)
(* not touch what PlanDue reads, so none is put between a handler and it.  *)
(***************************************************************************)
Elsewhere == todo # "plan" /\ UNCHANGED <<subscribers, todo>>

\* A timeout or a cap: no family may join any more.
StopSlice(s) ==
  /\ Elsewhere /\ slices[s].running
  /\ slices' = [slices EXCEPT ![s].running = FALSE,
                  ![s].hedge = IF @ = "armed" THEN "none" ELSE @]
  /\ Send([kind |-> "Park", slice |-> s])
  /\ UNCHANGED <<planner, runtime, torrents, faults>>

\* All senders of the slice's receiver are gone.
SliceFinishes(s) ==
  /\ Elsewhere /\ slices[s].running /\ slices[s].hedge = "none"
  /\ \A n \in DOMAIN runtime.lookups : runtime.lookups[n].slice # {s}
  /\ slices' = [slices EXCEPT ![s].running = FALSE]
  /\ Send([kind |-> "Finished", slice |-> s])
  /\ UNCHANGED <<planner, runtime, torrents, faults>>

HedgeDelayOver(s) ==
  /\ Elsewhere /\ slices[s].hedge = "armed"
  /\ slices' = [slices EXCEPT ![s].hedge = "queued"]
  /\ Send([kind |-> "Family", slice |-> s])
  /\ UNCHANGED <<planner, runtime, torrents, faults>>

\* A lookup completes; a draining one stays, without queries in flight.
LookupEnds(n) ==
  /\ Elsewhere /\ todo = "loop"
  /\ \/ /\ runtime.lookups[n].mode = "active"
        /\ runtime' = cancel_lookups(runtime, {n})
     \/ /\ runtime.lookups[n].mode = "draining"
        /\ runtime' = [runtime EXCEPT !.lookups[n].mode = "dry"]
  /\ UNCHANGED <<planner, slices, queue, torrents, faults>>

\* cleanup_closed_lookups.
LookupCloses(n) ==
  /\ Elsewhere /\ todo = "loop"
  /\ runtime.lookups[n].mode = "active" /\ runtime.lookups[n].slice = {}
  /\ runtime' = cancel_lookups(runtime, {n})
  /\ UNCHANGED <<planner, slices, queue, torrents, faults>>

\* next_eligible_at comes; launch tokens come back.
DueTimeComes(h) ==
  /\ Elsewhere /\ todo = "loop" /\ ~planner.entries[h].due
  /\ ~planner.entries[h].in_progress
  /\ planner' = [planner EXCEPT !.entries[h].due = TRUE]
  /\ UNCHANGED <<runtime, slices, queue, torrents, faults>>

TokensRefill(c) ==
  /\ Elsewhere /\ todo = "loop" /\ planner.tokens[c] < Burst[c]
  /\ planner' = [planner EXCEPT !.tokens[c] = @ + 1]
  /\ UNCHANGED <<runtime, slices, queue, torrents, faults>>

-----------------------------------------------------------------------------
(***************************************************************************)
(* Torrents: the lookup task of a manager, and the demand it reports.      *)
(***************************************************************************)
Referred ==
  (UNION {client[h].sub \cup subscribers[h] : h \in Hashes})
    \cup dead \cup {e.sub : e \in ending}
    \cup {queue[i].sub : i \in {j \in DOMAIN queue :
                              queue[j].kind \in {"Register", "Unregister"}}}

start_dht_lookup_task(h) ==
  /\ Elsewhere /\ client[h].at = "off"
  /\ \E c \in Classes :
       client' = [client EXCEPT ![h] =
         [at |-> "spawned", sub |-> {}, class |-> c, initial |-> c]]
  /\ UNCHANGED <<planner, runtime, slices, queue, ending, dead, faults>>

\* The task's first poll.
register_demand(h) ==
  /\ Elsewhere /\ client[h].at = "spawned" /\ Subscribers \ Referred # {}
  /\ LET sub == Min(Subscribers \ Referred)
     IN  /\ client' = [client EXCEPT ![h].at = "asking", ![h].sub = {sub},
                         ![h].initial = client[h].class]
         /\ Send([kind |-> "Register", hash |-> h, sub |-> sub,
                  class |-> client[h].initial])
  /\ UNCHANGED <<planner, runtime, slices, ending, dead, faults>>

\* The task's poll that finds the answer.
Subscribed(h) ==
  /\ Elsewhere /\ client[h].at = "answered"
  /\ client' = [client EXCEPT ![h].at = "on"]
  /\ UNCHANGED <<planner, runtime, slices, queue, ending, dead, faults>>

sync_dht_demand(h) ==
  /\ Elsewhere /\ client[h].at # "off"
  /\ Fault(IF client[h].at = "spawned" THEN "early" ELSE "demand")
  /\ \E c \in Classes \ {client[h].class} :
       /\ client' = [client EXCEPT ![h].class = c,
            ![h].initial = IF client[h].at = "spawned" THEN @ ELSE c]
       /\ Send([kind |-> "Update", hash |-> h, class |-> c])
  /\ UNCHANGED <<planner, runtime, slices, ending, dead>>

stop_dht_lookup_task(h) ==
  /\ Elsewhere /\ client[h].at # "off" /\ Fault("stop")
  /\ client' = [client EXCEPT ![h] = NoClient]
  /\ ending' = ending \cup
       {[hash |-> h, sub |-> sub, subscribed |-> client[h].at = "on"] :
          sub \in client[h].sub}
  /\ UNCHANGED <<planner, runtime, slices, queue, dead>>

\* The aborted task is dropped: only a subscription it holds says goodbye.
TaskDropped(e) ==
  /\ Elsewhere /\ ending' = ending \ {e} /\ dead' = dead \cup {e.sub}
  /\ IF e.subscribed
     THEN Send([kind |-> "Unregister", hash |-> e.hash, sub |-> e.sub])
     ELSE UNCHANGED queue
  /\ UNCHANGED <<planner, runtime, slices, client, faults>>

ConfigChanged ==
  /\ Elsewhere /\ Fault("reconfigure")
  /\ Send([kind |-> "Reconfigure"])
  /\ UNCHANGED <<planner, runtime, slices, torrents>>

-----------------------------------------------------------------------------
HandleCommand ==
  \/ RegisterDemand \/ UpdateDemand \/ UnregisterDemand
  \/ DemandLookupFinished \/ ParkDemandLookups \/ StartGetPeersFamily
  \/ Reconfigure
  \/ \E h \in Hashes : DemandPeers(h)

StartDueDemands == PlanDue \/ \E h \in Hashes : StartLookup(h)

Torrent ==
  \E h \in Hashes :
    \/ start_dht_lookup_task(h) \/ register_demand(h) \/ Subscribed(h)
    \/ sync_dht_demand(h) \/ stop_dht_lookup_task(h)

SliceTask ==
  \E s \in DOMAIN slices :
    StopSlice(s) \/ SliceFinishes(s) \/ HedgeDelayOver(s)

RuntimeStep ==
  \E n \in DOMAIN runtime.lookups :
    LookupEnds(n) \/ LookupCloses(n)

TimePasses ==
  \/ \E h \in DOMAIN planner.entries : DueTimeComes(h)
  \/ \E c \in Class : TokensRefill(c)

Next ==
  \/ HandleCommand \/ StartDueDemands
  \/ DrainTick \/ FinalizeDrainedDemandLookups
  \/ SliceTask \/ RuntimeStep \/ TimePasses
  \/ Torrent \/ ConfigChanged
  \/ \E e \in ending : TaskDropped(e)

Spec == Init /\ [][Next]_vars

-----------------------------------------------------------------------------
(***************************************************************************)
(* Types.  What is active is a slice that has not been let go, though      *)
(* slices are let go by commands that may be about another one, and launch *)
(* tokens, an unsigned number in the code, are not spent below zero.       *)
(***************************************************************************)
TypeOK ==
  /\ DOMAIN planner.entries \subseteq Hashes
  /\ \A h \in DOMAIN planner.entries : planner.entries[h] \in Entry
  /\ planner.active \in [Hashes -> Optional(DOMAIN slices)]
  /\ planner.pending_starts \in [Hashes -> Optional(Class)]
  /\ planner.draining \in [Hashes -> Optional(Drain)]
  /\ planner.tokens \in [Class -> Nat]
  /\ subscribers \in [Hashes -> SUBSET Subscribers]
  /\ runtime.up \in BOOLEAN /\ DOMAIN runtime.lookups \subseteq LookupIds
  /\ \A n \in DOMAIN runtime.lookups : runtime.lookups[n] \in Lookup
  /\ DOMAIN slices \subseteq Slices
  /\ \A s \in DOMAIN slices : slices[s] \in Slice
  /\ \A i \in DOMAIN queue : queue[i] \in Command
  /\ todo \in {"loop", "plan", "start"}
  /\ client \in [Hashes -> Client]
  /\ ending \subseteq Ending /\ dead \subseteq Subscribers
  /\ faults \in 0 .. MaxFaults

(***************************************************************************)
(* The planner's count of a demand's subscribers is that of the registry,  *)
(* and a demand exists as long as one of them does: registering, saying    *)
(* goodbye and pruning at delivery update the two in step, whatever the    *)
(* order in which a torrent's tasks come and go (demand_command.rs,        *)
(* subscribers.rs, scheduler.rs).                                          *)
(***************************************************************************)
SubscriberCountExact ==
  \A h \in Hashes :
    IF h \in DOMAIN planner.entries
    THEN planner.entries[h].subscriber_count = Cardinality(subscribers[h])
    ELSE subscribers[h] = {}

(***************************************************************************)
(* A demand marked in progress is behind a pending start, an active slice  *)
(* or a drain: nothing else would ever finish it, and the scheduler offers *)
(* it to nobody meanwhile (scheduler_in_progress_without_lookup,           *)
(* planner/invariants.rs).  Commands of slices that were replaced, and a   *)
(* rebuilt runtime, must not leave it behind.                              *)
(***************************************************************************)
InProgressTracked ==
  \A h \in DOMAIN planner.entries : planner.entries[h].in_progress =>
    \/ planner.pending_starts[h] # {}
    \/ planner.active[h] # {}
    \/ planner.draining[h] # {}

(***************************************************************************)
(* A demand is in one place: starting, active or draining (planner.rs;     *)
(* duplicate_active_or_draining_demand).                                   *)
(***************************************************************************)
StartedOnce ==
  \A h \in Hashes :
    /\ planner.pending_starts[h] = {} \/ planner.active[h] = {}
    /\ planner.pending_starts[h] \cup planner.active[h] = {}
         \/ planner.draining[h] = {}

(***************************************************************************)
(* Slices that are tracked keep to the slots and to the caps of their      *)
(* classes, pending starts included (selection.rs; the slot caps of        *)
(* planner/invariants.rs), though a demand changes class while its slice   *)
(* runs and drains give slots back at any time.                            *)
(***************************************************************************)
SlotsRespected ==
  LET starting(c) == {h \in Hashes : c \in planner.pending_starts[h]}
  IN  /\ Cardinality(Tracked(planner.active)
                       \cup Tracked(planner.pending_starts)) <= SlotCount
      /\ \A c \in Class :
           Cardinality(ActiveOf(planner, c) \cup starting(c)) <= ClassCap[c]

(***************************************************************************)
(* A torrent that has its answer is known to the planner, with the class   *)
(* the manager reported last, once its updates are through: goodbyes and   *)
(* updates of its earlier tasks do not undo its registration               *)
(* (sync_dht_demand, manager.rs; commands arrive in order).  Changes       *)
(* between spawning a task and its first poll ("early") are excluded: such *)
(* an update overtakes the registration and is lost.                       *)
(***************************************************************************)
ClassFollows ==
  \A h \in Hashes :
    (/\ client[h].at \in {"answered", "on"}
     /\ \A i \in DOMAIN queue :
          queue[i].kind = "Update" => queue[i].hash # h)
    => /\ h \in DOMAIN planner.entries
       /\ planner.entries[h].class = client[h].class

(***************************************************************************)
(* check_demand_planner_invariants (planner/invariants.rs), which the code *)
(* evaluates after every planner action when its checks are switched on:   *)
(* what is active, starting or draining has an entry in progress, an entry *)
(* in progress is one of them, no lookup is tracked twice, and the slots   *)
(* and caps hold with drains counted.                                      *)
(***************************************************************************)
check_demand_planner_invariants ==
  LET E == planner.entries
      busy(h) == \/ planner.active[h] # {} \/ planner.pending_starts[h] # {}
                 \/ planner.draining[h] # {}
      ids(h) == (UNION {Numbers(slices[s].ids) : s \in planner.active[h]})
                  \cup (UNION {d.ids : d \in planner.draining[h]})
  IN  /\ StartedOnce /\ SlotsRespected
      /\ \A h \in Hashes : busy(h) => h \in DOMAIN E /\ E[h].in_progress
      /\ \A h \in DOMAIN E : E[h].in_progress => busy(h)
      /\ \A h \in Hashes : \A s \in planner.active[h] : slices[s].ids # {}
      /\ \A h, k \in Hashes : h # k => ids(h) \cap ids(k) = {}
      /\ Cardinality(Tracked(planner.active))
           + Cardinality(Tracked(planner.pending_starts))
           + drain_virtual_slot_count(Cardinality(Tracked(planner.draining)))
         <= SlotCount

-----------------------------------------------------------------------------
(***************************************************************************)
(* Fairness: the service takes commands before ticks (the select is        *)
(* biased), so a queue that is never empty is served again and again;      *)
(* ticks, the timers of slices and drains, and time come.  Of lookups only *)
(* that a closed receiver is noticed; they need not complete.              *)
(***************************************************************************)
HandleQueue == HandleCommand /\ Len(queue') < Len(queue)
CanLaunch ==
  todo = "loop" /\ runtime.up /\ \E L \in Selection : L # {}
EndDrain(h) ==
  (DrainTick \/ FinalizeDrainedDemandLookups) /\ planner.draining[h] # {}
    /\ planner'.draining[h] = {}
Closed(n) ==
  /\ n \in DOMAIN runtime.lookups
  /\ runtime.lookups[n].mode = "active" /\ runtime.lookups[n].slice = {}

Fairness ==
  /\ []<>(queue = <<>>) \/ []<><<HandleQueue>>_vars
  /\ []<>(todo # "plan" /\ ~CanLaunch) \/ []<><<PlanDue>>_vars
  /\ []<>(todo # "start") \/ []<><<\E h \in Hashes : StartLookup(h)>>_vars
  /\ \A s \in Slices :
       \/ []<>(s \notin DOMAIN slices \/ ~slices[s].running)
       \/ []<><<s \in DOMAIN slices
                 /\ (StopSlice(s) \/ SliceFinishes(s))>>_vars
  /\ \A h \in Hashes :
       /\ []<>(planner.draining[h] = {}) \/ []<><<EndDrain(h)>>_vars
       /\ \/ []<>(h \notin DOMAIN planner.entries \/ planner.entries[h].due
                   \/ planner.entries[h].in_progress)
          \/ []<><<h \in DOMAIN planner.entries /\ DueTimeComes(h)>>_vars
  /\ \A n \in LookupIds :
       []<>~Closed(n) \/ []<><<Closed(n) /\ LookupCloses(n)>>_vars
  /\ \A c \in Classes :
       []<>(planner.tokens[c] = Burst[c]) \/ []<><<TokensRefill(c)>>_vars

LiveSpec == Spec /\ Fairness

(***************************************************************************)
(* No demand stays in progress for ever: its slice stops, its drain ends,  *)
(* and the command that says so is not lost on a replaced slice or a       *)
(* rebuilt runtime.                                                        *)
(***************************************************************************)
InProgressEnds ==
  \A h \in Hashes :
    []<>(h \notin DOMAIN planner.entries \/ ~planner.entries[h].in_progress)

(***************************************************************************)
(* No lookup runs for ever, even one the planner no longer tracks: it is   *)
(* drained, cancelled, or closed with its slice's receiver (drain.rs,      *)
(* cleanup_closed_lookups).                                                *)
(***************************************************************************)
LookupsEnd == \A n \in LookupIds : []<>(n \notin DOMAIN runtime.lookups)

(***************************************************************************)
(* With a slot for each demand, a demand that stays is looked up again and *)
(* again while the runtime is up: slots, tokens and the in-progress mark   *)
(* come back after every slice.                                            *)
(***************************************************************************)
DemandServed ==
  \A h \in Hashes :
    <>[](h \in DOMAIN planner.entries /\ runtime.up)
      => []<>(h \in DOMAIN planner.entries /\ planner.entries[h].in_progress)

=============================================================================
