-------------------------- MODULE ResourceManager --------------------------
(***************************************************************************)
(* The permit server of src/resource_manager.rs: an actor that owns, for   *)
(* every ResourceType, a limit, a use count and a bounded FIFO of waiters, *)
(* and that is driven by one bounded acquire channel per resource and one  *)
(* unbounded control channel.  Clients await a oneshot; a client's future  *)
(* may be dropped (timeout, abort, lost select!) at any time, and dropping *)
(* a PermitGuard posts a Release on the control channel.                   *)
(*                                                                         *)
(* A request is one call of acquire(): its oneshot receiver, and later the *)
(* guard that receiver yields.  Its identity is reused only once the actor *)
(* has dropped the matching sender.                                        *)
(***************************************************************************)
EXTENDS Naturals, Sequences, FiniteSets

CONSTANTS
  Resources,        \* ResourceType
  Acquirable,       \* the types with an acquire channel (all but Reserve)
  Requests,         \* identities of acquire() calls
  MaxLimit,         \* bound: largest limit and queue size ever configured
  AcquireCap,       \* capacity of an acquire channel (256 in the code)
  Batch,            \* PERMIT_GRANT_BATCH_SIZE
  MaxUpdates,       \* bound: UpdateLimits commands on the channel at once
  MaxControl,       \* bound: no new call while the channel is longer
  Preemptive        \* do client tasks run in parallel with a handler?

ASSUME ResourceAssumption ==
  /\ Acquirable \subseteq Resources
  /\ IsFiniteSet(Resources)
  /\ IsFiniteSet(Requests)
  /\ MaxLimit \in Nat
  /\ AcquireCap \in Nat \ {0}
  /\ Batch \in Nat \ {0}
  /\ MaxUpdates \in Nat
  /\ MaxControl \in Nat
  /\ Preemptive \in BOOLEAN

VARIABLES
  limit, in_use, max_queue_size, wait_queue,  \* ResourceState, per resource
  acquire_rx,       \* [Acquirable -> Seq(Requests)]: queued AcquireCommands
  control_rx,       \* Seq(Control)
  req,              \* [Requests -> [st, res]]: the client's side of a call
  actor             \* where the actor is: idle, inside process_queue, stopped

vars == <<limit, in_use, max_queue_size, wait_queue,
          acquire_rx, control_rx, req, actor>>
state == <<limit, in_use, max_queue_size, wait_queue>>

---------------------------------------------------------------------------
(* Commands and program points.                                            *)

Release(r)      == [cmd |-> "Release", res |-> r]
ProcessQueue(r) == [cmd |-> "ProcessQueue", res |-> r]
UpdateLimits(u) == [cmd |-> "UpdateLimits", limits |-> u]

Keep == MaxLimit + 1     \* ResourceLimitUpdate { max_queue_size: None }

ResourceLimitUpdate == [limit : 0..MaxLimit, queue : 0..Keep]
LimitMap == UNION {[D -> ResourceLimitUpdate] : D \in (SUBSET Resources) \ {{}}}

Control ==
  [cmd : {"Release", "ProcessQueue"}, res : Resources]
    \cup [cmd : {"UpdateLimits"}, limits : LimitMap]

Idle == [at |-> "idle"]
Stopped == [at |-> "stopped"]
Loop(r, n) == [at |-> "loop", res |-> r, left |-> n]
Sending(r, n, q) == [at |-> "send", res |-> r, left |-> n, to |-> q]

Actor ==
  {Idle, Stopped}
    \cup [at : {"loop"}, res : Resources, left : 0..Batch]
    \cup [at : {"send"}, res : Resources, left : 0..Batch, to : Requests]

(* "waiting": the receiver is awaited.  "cancelled": it was dropped and    *)
(* the actor still has the sender.  "delivered": the oneshot holds         *)
(* Ok(guard).  "queue_full", "shutdown": it holds, or will yield, an error.*)
Status == {"idle", "waiting", "cancelled", "delivered", "holding",
           "queue_full", "shutdown"}

Set(q, s) == [req EXCEPT ![q].st = s]

(* The requests holding a live PermitGuard of r. *)
Guards(r) == {q \in Requests : req[q].res = r /\
                               req[q].st \in {"delivered", "holding"}}

Init ==
  /\ limit \in [Resources -> 0..MaxLimit]
  /\ in_use = [r \in Resources |-> 0]
  /\ max_queue_size \in [Resources -> 0..MaxLimit]
  /\ wait_queue = [r \in Resources |-> <<>>]
  /\ acquire_rx = [r \in Acquirable |-> <<>>]
  /\ control_rx = <<>>
  /\ req \in [Requests -> [st : {"idle"}, res : Acquirable]]
  /\ actor = Idle

---------------------------------------------------------------------------
(* Client side.                                                            *)

ClientMayRun == Preemptive \/ actor \in {Idle, Stopped}

(* Sends on an unbounded channel fail only when the actor has stopped.     *)
Post(c) == control_rx' = IF actor = Stopped THEN control_rx
                                            ELSE Append(control_rx, c)

(* acquire(): post an AcquireCommand and await the answer.  With the actor *)
(* gone the send itself fails with ManagerShutdown.                        *)
Acquire(q, r) ==
  /\ ClientMayRun
  /\ req[q].st = "idle"
  /\ Len(control_rx) <= MaxControl
  /\ IF actor = Stopped
       THEN /\ req' = [req EXCEPT ![q] = [st |-> "shutdown", res |-> r]]
            /\ UNCHANGED acquire_rx
       ELSE /\ Len(acquire_rx[r]) < AcquireCap
            /\ acquire_rx' = [acquire_rx EXCEPT ![r] = Append(@, q)]
            /\ req' = [req EXCEPT ![q] = [st |-> "waiting", res |-> r]]
  /\ UNCHANGED <<state, control_rx, actor>>

(* The caller's future is dropped while it waits. *)
Cancel(q) ==
  /\ ClientMayRun
  /\ req[q].st = "waiting"
  /\ req' = Set(q, "cancelled")
  /\ UNCHANGED <<state, acquire_rx, control_rx, actor>>

(* The awaiting task is polled and takes the guard out of the oneshot. *)
Receive(q) ==
  /\ ClientMayRun
  /\ req[q].st = "delivered"
  /\ req' = Set(q, "holding")
  /\ UNCHANGED <<state, acquire_rx, control_rx, actor>>

(* The task observes the error. *)
ReceiveError(q) ==
  /\ ClientMayRun
  /\ req[q].st \in {"queue_full", "shutdown"}
  /\ req' = Set(q, "idle")
  /\ UNCHANGED <<state, acquire_rx, control_rx, actor>>

(* PermitGuard::drop, of a held guard or of one that was delivered to a    *)
(* future dropped before it was polled again.                              *)
DropGuard(q) ==
  /\ ClientMayRun
  /\ req[q].st \in {"delivered", "holding"}
  /\ req' = Set(q, "idle")
  /\ Post(Release(req[q].res))
  /\ UNCHANGED <<state, acquire_rx, actor>>

(* update_limits (queue size kept) and update_limits_and_queue_sizes. *)
SendUpdateLimits(u) ==
  /\ ClientMayRun
  /\ Cardinality({i \in DOMAIN control_rx :
                    control_rx[i].cmd = "UpdateLimits"}) < MaxUpdates
  /\ Post(UpdateLimits(u))
  /\ UNCHANGED <<state, acquire_rx, req, actor>>

Client ==
  \/ \E q \in Requests :
       \/ \E r \in Acquirable : Acquire(q, r)
       \/ Cancel(q) \/ Receive(q) \/ ReceiveError(q) \/ DropGuard(q)
  \/ \E u \in LimitMap : SendUpdateLimits(u)

---------------------------------------------------------------------------
(* Actor side.                                                             *)

HasRoom_OffByOne(r) == in_use[r] <= limit[r]
HasRoom(r) == in_use[r] < limit[r]

(* The sender of q is consumed: a dropped receiver sees nothing.           *)
Answer(q, s) == req' = Set(q, IF req[q].st = "cancelled" THEN "idle" ELSE s)

(* A guard sent to a dropped receiver comes back in the Err and is dropped *)
(* on the spot, which posts its Release.                                   *)
Bounced_Forgotten(q, r) == <<>>
Bounced(q, r) == IF req[q].st = "cancelled" THEN <<Release(r)>> ELSE <<>>

handle_acquire(r) ==
  /\ actor = Idle
  /\ acquire_rx[r] # <<>>
  /\ acquire_rx' = [acquire_rx EXCEPT ![r] = Tail(@)]
  /\ LET q == Head(acquire_rx[r]) IN
       \/ /\ HasRoom(r)
          /\ in_use' = [in_use EXCEPT ![r] = @ + 1]
          /\ Answer(q, "delivered")
          /\ control_rx' = control_rx \o Bounced(q, r)
          /\ UNCHANGED <<limit, max_queue_size, wait_queue>>
       \/ /\ ~HasRoom(r)
          /\ Len(wait_queue[r]) < max_queue_size[r]
          /\ wait_queue' = [wait_queue EXCEPT ![r] = Append(@, q)]
          /\ UNCHANGED <<limit, in_use, max_queue_size, control_rx, req>>
       \/ /\ ~HasRoom(r)
          /\ Len(wait_queue[r]) >= max_queue_size[r]
          /\ Answer(q, "queue_full")
          /\ UNCHANGED <<state, control_rx>>
  /\ UNCHANGED actor

Command(name) ==
  /\ actor = Idle
  /\ control_rx # <<>>
  /\ Head(control_rx).cmd = name

handle_release_NoWakeup ==
  /\ Command("Release")
  /\ LET r == Head(control_rx).res IN
       in_use' = [in_use EXCEPT ![r] = IF @ = 0 THEN 0 ELSE @ - 1]
  /\ control_rx' = Tail(control_rx)
  /\ UNCHANGED <<limit, max_queue_size, wait_queue, acquire_rx, req, actor>>

handle_release_Twice ==
  /\ Command("Release")
  /\ LET r == Head(control_rx).res IN
       /\ in_use' = [in_use EXCEPT ![r] = IF @ <= 1 THEN 0 ELSE @ - 2]
       /\ control_rx' = Append(Tail(control_rx), ProcessQueue(r))
  /\ UNCHANGED <<limit, max_queue_size, wait_queue, acquire_rx, req, actor>>

handle_release ==
  /\ Command("Release")
  /\ LET r == Head(control_rx).res IN
       /\ in_use' = [in_use EXCEPT ![r] = IF @ = 0 THEN 0 ELSE @ - 1]
       /\ control_rx' = Append(Tail(control_rx), ProcessQueue(r))
  /\ UNCHANGED <<limit, max_queue_size, wait_queue, acquire_rx, req, actor>>

(* How many waiters of r survive update u, and the ones trim_wait_queue    *)
(* answers with QueueFull.                                                 *)
Kept_Untrimmed(r, u) == Len(wait_queue[r])

Kept(r, u) ==
  IF /\ r \in DOMAIN u
     /\ u[r].queue # Keep
     /\ u[r].queue < Len(wait_queue[r])
  THEN u[r].queue
  ELSE Len(wait_queue[r])

Trimmed_Silently(u) == {}

Trimmed(u) ==
  UNION {{wait_queue[r][i] : i \in Kept(r, u) + 1 .. Len(wait_queue[r])} :
           r \in Resources}

NewQueueSize_NoneStored(r, u) ==
  IF r \in DOMAIN u THEN u[r].queue ELSE max_queue_size[r]

NewQueueSize(r, u) ==
  IF r \in DOMAIN u /\ u[r].queue # Keep
    THEN u[r].queue ELSE max_queue_size[r]

(* The map is iterated in no particular order. *)
Orders(S) ==
  {s \in [1..Cardinality(S) -> S] :
     \A x \in S : \E i \in 1..Cardinality(S) : s[i] = x}

handle_update_limits ==
  /\ Command("UpdateLimits")
  /\ LET u == Head(control_rx).limits IN
       /\ limit' = [r \in Resources |->
            IF r \in DOMAIN u THEN u[r].limit ELSE limit[r]]
       /\ max_queue_size' = [r \in Resources |-> NewQueueSize(r, u)]
       /\ wait_queue' = [r \in Resources |->
            SubSeq(wait_queue[r], 1, Kept(r, u))]
       /\ req' = [q \in Requests |->
            IF q \notin Trimmed(u) THEN req[q]
            ELSE [req[q] EXCEPT !.st = IF @ = "cancelled" THEN "idle"
                                                          ELSE "queue_full"]]
       /\ \E order \in Orders(DOMAIN u) :
            control_rx' = Tail(control_rx) \o
              [i \in 1..Cardinality(DOMAIN u) |-> ProcessQueue(order[i])]
  /\ UNCHANGED <<in_use, acquire_rx, actor>>

(* handle_process_queue, one loop iteration at a time: between is_closed() *)
(* and send() another thread may drop the receiver.                        *)
process_queue_begin ==
  /\ Command("ProcessQueue")
  /\ actor' = Loop(Head(control_rx).res, Batch)
  /\ control_rx' = Tail(control_rx)
  /\ UNCHANGED <<state, acquire_rx, req>>

process_queue_pop ==
  /\ actor.at = "loop"
  /\ actor.left > 0
  /\ LET r == actor.res
         q == Head(wait_queue[r])
     IN
       /\ HasRoom(r)
       /\ wait_queue[r] # <<>>
       /\ wait_queue' = [wait_queue EXCEPT ![r] = Tail(@)]
       /\ \/ /\ req[q].st = "cancelled"
             /\ req' = Set(q, "idle")
             /\ actor' = Loop(r, actor.left - 1)
             /\ UNCHANGED in_use
          \/ /\ req[q].st # "cancelled"
             /\ in_use' = [in_use EXCEPT ![r] = @ + 1]
             /\ actor' = Sending(r, actor.left - 1, q)
             /\ UNCHANGED req
  /\ UNCHANGED <<limit, max_queue_size, acquire_rx, control_rx>>

(* send(Ok(guard)): on failure the guard's own drop posts a Release, and   *)
(* the handler takes the permit back as well.                              *)
process_queue_send ==
  /\ actor.at = "send"
  /\ LET r == actor.res
         q == actor.to
         failed == req[q].st = "cancelled"
     IN
       /\ Answer(q, "delivered")
       /\ in_use' = IF failed THEN [in_use EXCEPT ![r] = @ - 1] ELSE in_use
       /\ control_rx' = control_rx \o Bounced(q, r)
       /\ actor' = Loop(r, actor.left)
  /\ UNCHANGED <<limit, max_queue_size, wait_queue, acquire_rx>>

process_queue_end_NoRequeue ==
  /\ actor.at = "loop"
  /\ actor.left = 0 \/ ~HasRoom(actor.res) \/ wait_queue[actor.res] = <<>>
  /\ actor' = Idle
  /\ UNCHANGED <<state, acquire_rx, req, control_rx>>

process_queue_end ==
  /\ actor.at = "loop"
  /\ LET r == actor.res
         more == HasRoom(r) /\ wait_queue[r] # <<>>
     IN
       /\ actor.left = 0 \/ ~more
       /\ control_rx' = IF more THEN Append(control_rx, ProcessQueue(r))
                                ELSE control_rx
  /\ actor' = Idle
  /\ UNCHANGED <<state, acquire_rx, req>>

(* The shutdown broadcast ends run(): the actor and every sender it owns   *)
(* are dropped, which wakes each waiting client with ManagerShutdown.      *)
Shutdown ==
  /\ actor = Idle
  /\ actor' = Stopped
  /\ req' = [q \in Requests |->
       CASE req[q].st = "waiting"   -> [req[q] EXCEPT !.st = "shutdown"]
         [] req[q].st = "cancelled" -> [req[q] EXCEPT !.st = "idle"]
         [] OTHER                   -> req[q]]
  /\ wait_queue' = [r \in Resources |-> <<>>]
  /\ acquire_rx' = [r \in Acquirable |-> <<>>]
  /\ control_rx' = <<>>
  /\ UNCHANGED <<limit, in_use, max_queue_size>>

Manager ==
  \/ \E r \in Acquirable : handle_acquire(r)
  \/ handle_release
  \/ handle_update_limits
  \/ process_queue_begin \/ process_queue_pop
  \/ process_queue_send \/ process_queue_end

Next == Client \/ Manager \/ Shutdown

Spec == Init /\ [][Next]_vars

(* Every ready branch of the select! in run() is eventually taken, a guard *)
(* is eventually dropped.  Nobody has to call, cancel or reconfigure.      *)
Fairness ==
  /\ \A r \in Acquirable : WF_vars(handle_acquire(r))
  /\ WF_vars(handle_release \/ handle_update_limits \/ process_queue_begin)
  /\ WF_vars(process_queue_pop \/ process_queue_send \/ process_queue_end)
  /\ \A q \in Requests : WF_vars(DropGuard(q))

FairSpec == Spec /\ Fairness

---------------------------------------------------------------------------
(* Properties.                                                             *)

TypeOK ==
  /\ limit \in [Resources -> 0..MaxLimit]
  /\ in_use \in [Resources -> Nat]
  /\ max_queue_size \in [Resources -> 0..MaxLimit]
  /\ wait_queue \in [Resources -> Seq(Requests)]
  /\ acquire_rx \in [Acquirable -> Seq(Requests)]
  /\ control_rx \in Seq(Control)
  /\ req \in [Requests -> [st : Status, res : Acquirable]]
  /\ actor \in Actor

(* No lost wakeup: whenever a resource has both a waiter and a free permit,*)
(* handle_process_queue is running for it or a ProcessQueue for it is on   *)
(* the control channel.  Covers releases, raised limits, the 64-permit     *)
(* batch cut-off and waiters that vanish while being served.               *)
Wakes(r) ==
  \/ actor.at \in {"loop", "send"} /\ actor.res = r
  \/ \E i \in DOMAIN control_rx : control_rx[i] = ProcessQueue(r)

NoLostWakeup ==
  \A r \in Resources :
    wait_queue[r] # <<>> /\ in_use[r] < limit[r] => Wakes(r)

(* Every client that awaits an answer is known to the actor: its sender is *)
(* in an acquire channel, in a wait queue or in the hand of                *)
(* handle_process_queue, exactly once and under the resource it asked for. *)
Pending(q, r) == req[q].res = r /\ req[q].st \in {"waiting", "cancelled"}
InChannel(q, r) == \E i \in DOMAIN acquire_rx[r] : acquire_rx[r][i] = q
InQueue(q, r) == \E i \in DOMAIN wait_queue[r] : wait_queue[r][i] = q
InActor(q, r) == actor.at = "send" /\ actor.res = r /\ actor.to = q
Injective(s) == \A i, j \in DOMAIN s : s[i] = s[j] => i = j

OneSender ==
  /\ \A r \in Acquirable :
       Injective(acquire_rx[r]) /\ Injective(wait_queue[r])
  /\ \A q \in Requests, r \in Acquirable :
       /\ Pending(q, r) <=> InChannel(q, r) \/ InQueue(q, r) \/ InActor(q, r)
       /\ ~(InChannel(q, r) /\ InQueue(q, r))
       /\ ~(InActor(q, r) /\ (InChannel(q, r) \/ InQueue(q, r)))

(* in_use never counts a permit nobody has: each unit is a live guard, a   *)
(* Release on its way, or the grant being sent.  A leak would shrink the   *)
(* capacity for good, since nothing else lowers in_use.                    *)
Releases(r) == {i \in DOMAIN control_rx : control_rx[i] = Release(r)}
InHand(r) == IF actor.at = "send" /\ actor.res = r THEN 1 ELSE 0
Outstanding(r) ==
  Cardinality(Guards(r)) + Cardinality(Releases(r)) + InHand(r)

NoPermitLeak ==
  actor # Stopped => \A r \in Resources : in_use[r] <= Outstanding(r)

(* Shrinking a queue takes effect at once: no more clients wait than the   *)
(* size in force allows, whatever was queued under an earlier one.         *)
QueueBound ==
  \A r \in Resources : Len(wait_queue[r]) <= max_queue_size[r]

(* With client tasks and the actor on one thread the use count is exact.   *)
ExactAccounting ==
  actor # Stopped /\ ~Preemptive =>
    \A r \in Resources : in_use[r] = Outstanding(r)

(* ... and the manager then implements the permit pool: a permit becomes   *)
(* live only while fewer than `limit` of its kind are.                     *)
Pool == INSTANCE PermitPool WITH
  holders <- [r \in Resources |-> Guards(r)], capacity <- limit

ImplementsPermitPool == Pool!Spec

(* The promise of the permit pool, as a property of a step, for any        *)
(* scheduling: no step leaves more live guards than the limit allows       *)
(* unless it only lowered the limit or returned a guard.                   *)
AdmissionWithinLimit ==
  [][\A r \in Resources :
       Cardinality(Guards(r)') > Cardinality(Guards(r))
         => Cardinality(Guards(r)') <= limit[r]]_vars

(* Once calls and reconfigurations stop, every waiting client is answered  *)
(* or cancels, unless its resource is configured to zero permits.          *)
Quiet ==
  \A q \in Requests :
    req[q].st = "idle" => req'[q].st # "waiting" /\ req'[q].st # "shutdown"
QuietControl ==
  \A u \in LimitMap : ~SendUpdateLimits(u)

WaitersServed ==
  <>[][Quiet /\ QuietControl]_vars =>
    \A q \in Requests :
      req[q].st = "waiting" ~>
        req[q].st # "waiting" \/ limit[req[q].res] = 0
===========================================================================
