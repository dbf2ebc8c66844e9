----------------------- MODULE ResourceManagerProofs -----------------------
(***************************************************************************)
(* Proofs about the permit server, for any resources, requests, limits,    *)
(* channel capacity and batch size, and for any scheduling.                *)
(***************************************************************************)
EXTENDS ResourceManager, FiniteSetTheorems, TLAPS

(* While a grant is being sent its permit is already counted, so taking it *)
(* back cannot underflow.                                                  *)
SendIsCounted == actor.at = "send" => in_use[actor.res] > 0

TInv == TypeOK /\ SendIsCounted

(* The commands as members of Control, and what their tag says of them.    *)
LEMMA ControlTypes ==
  /\ \A r \in Resources : Release(r) \in Control /\ ProcessQueue(r) \in Control
  /\ \A u \in LimitMap : UpdateLimits(u) \in Control
  /\ \A c \in Control : c.cmd \in {"Release", "ProcessQueue"} =>
       c.res \in Resources /\ c = [cmd |-> c.cmd, res |-> c.res]
  /\ \A c \in Control : c.cmd = "UpdateLimits" => c.limits \in LimitMap
  BY DEF Control, Release, ProcessQueue, UpdateLimits

LEMMA ActorTypes ==
  /\ Idle \in Actor /\ Stopped \in Actor
  /\ \A r \in Resources, n \in 0..Batch : Loop(r, n) \in Actor
  /\ \A r \in Resources, n \in 0..Batch, q \in Requests :
       Sending(r, n, q) \in Actor
  /\ \A a \in Actor : a.at = "loop" => a.res \in Resources /\ a.left \in 0..Batch
  /\ \A a \in Actor : a.at = "send" =>
       a.res \in Resources /\ a.left \in 0..Batch /\ a.to \in Requests
  BY ResourceAssumption DEF Actor, Idle, Stopped, Loop, Sending

(* Orders(D) are finite sequences over D.                                  *)
LEMMA OrderSequence ==
  ASSUME NEW D \in SUBSET Resources, NEW order \in Orders(D)
  PROVE  /\ Cardinality(D) \in Nat
         /\ order \in [1..Cardinality(D) -> D]
         /\ [i \in 1..Cardinality(D) |-> ProcessQueue(order[i])] \in Seq(Control)
<1>1. Cardinality(D) \in Nat
  BY ResourceAssumption, FS_Subset, FS_CardinalityType
<1>2. order \in [1..Cardinality(D) -> D]
  BY DEF Orders
<1>3. \A i \in 1..Cardinality(D) : ProcessQueue(order[i]) \in Control
  BY <1>2, ControlTypes
<1> QED
  BY <1>1, <1>2, <1>3

LEMMA TypeInit == Init => TInv
  BY ResourceAssumption, ActorTypes
  DEF Init, TInv, TypeOK, SendIsCounted, Idle, Status

LEMMA TypeNext == TInv /\ [Next]_vars => TInv'
<1> SUFFICES ASSUME TInv, [Next]_vars PROVE TInv'
  OBVIOUS
<1> USE ResourceAssumption DEF TInv
<1>1. ASSUME NEW q \in Requests, NEW r \in Acquirable, Acquire(q, r)
      PROVE  TInv'
  <2>1. req' \in [Requests -> [st : Status, res : Acquirable]]
    <3>1. \E v \in [st : Status, res : Acquirable] : req' = [req EXCEPT ![q] = v]
      BY <1>1, Zenon DEF Acquire, Status
    <3> QED BY <3>1 DEF TypeOK
  <2>2. acquire_rx' \in [Acquirable -> Seq(Requests)]
    <3>1. \/ acquire_rx' = acquire_rx
          \/ acquire_rx' = [acquire_rx EXCEPT ![r] = Append(@, q)]
      BY <1>1 DEF Acquire
    <3>2. Append(acquire_rx[r], q) \in Seq(Requests)
      BY DEF TypeOK
    <3> QED BY <3>1, <3>2, Zenon DEF TypeOK
  <2> QED
    BY <1>1, <2>1, <2>2, Zenon DEF Acquire, TypeOK, SendIsCounted, state
<1>2. ASSUME NEW q \in Requests, Cancel(q) PROVE TInv'
  BY <1>2, Zenon DEF Cancel, TypeOK, SendIsCounted, state, Status, Set
<1>3. ASSUME NEW q \in Requests, Receive(q) PROVE TInv'
  BY <1>3, Zenon DEF Receive, TypeOK, SendIsCounted, state, Status, Set
<1>4. ASSUME NEW q \in Requests, ReceiveError(q) PROVE TInv'
  BY <1>4, Zenon DEF ReceiveError, TypeOK, SendIsCounted, state, Status, Set
<1>5. ASSUME NEW q \in Requests, DropGuard(q) PROVE TInv'
  <2>1. Release(req[q].res) \in Control
    BY ControlTypes DEF TypeOK
  <2>2. req' \in [Requests -> [st : Status, res : Acquirable]]
    BY <1>5, Zenon DEF DropGuard, TypeOK, Status, Set
  <2>3. control_rx' \in Seq(Control)
    BY <1>5, <2>1 DEF DropGuard, TypeOK, Post
  <2> QED
    BY <1>5, <2>2, <2>3, Zenon DEF DropGuard, TypeOK, SendIsCounted, state
<1>6. ASSUME NEW u \in LimitMap, SendUpdateLimits(u) PROVE TInv'
  <2>1. UpdateLimits(u) \in Control
    BY ControlTypes
  <2> QED
    BY <1>6, <2>1 DEF SendUpdateLimits, TypeOK, SendIsCounted, state, Post
<1>7. ASSUME NEW r \in Acquirable, handle_acquire(r) PROVE TInv'
  <2> DEFINE q == Head(acquire_rx[r])
  <2>1. q \in Requests /\ Tail(acquire_rx[r]) \in Seq(Requests)
    BY <1>7 DEF handle_acquire, TypeOK
  <2>2. Bounced(q, r) \in Seq(Control)
    BY ControlTypes DEF Bounced
  <2> HIDE DEF q
  <2>3. req' \in [Requests -> [st : Status, res : Acquirable]]
    <3>1. \E s \in Status : req' = req \/ req' = [req EXCEPT ![q].st = s]
      BY <1>7 DEF handle_acquire, Answer, Set, Status, q
    <3> QED BY <2>1, <3>1, Zenon DEF TypeOK
  <2>4. acquire_rx' \in [Acquirable -> Seq(Requests)]
    <3>1. acquire_rx' = [acquire_rx EXCEPT ![r] = Tail(@)]
      BY <1>7 DEF handle_acquire
    <3> QED BY <2>1, <3>1 DEF TypeOK
  <2>5. control_rx' \in Seq(Control)
    <3>1. control_rx' = control_rx \/ control_rx' = control_rx \o Bounced(q, r)
      BY <1>7 DEF handle_acquire, q
    <3>2. control_rx \in Seq(Control)
      BY DEF TypeOK
    <3>3. control_rx \o Bounced(q, r) \in Seq(Control)
      BY <2>2, <3>2
    <3> QED BY <3>1, <3>2, <3>3, Zenon
  <2>6. wait_queue' \in [Resources -> Seq(Requests)]
    <3>1. \/ wait_queue' = wait_queue
          \/ wait_queue' = [wait_queue EXCEPT ![r] = Append(@, q)]
      BY <1>7 DEF handle_acquire, state, q
    <3>2. Append(wait_queue[r], q) \in Seq(Requests)
      BY <2>1 DEF TypeOK
    <3> QED BY <3>1, <3>2, Zenon DEF TypeOK
  <2>7. in_use' \in [Resources -> Nat]
    <3>1. in_use' = in_use \/ in_use' = [in_use EXCEPT ![r] = @ + 1]
      BY <1>7 DEF handle_acquire, state
    <3>2. in_use[r] + 1 \in Nat
      BY DEF TypeOK
    <3> QED BY <3>1, <3>2, Zenon DEF TypeOK
  <2>8. UNCHANGED <<limit, max_queue_size, actor>> /\ actor.at # "send"
    BY <1>7 DEF handle_acquire, state, Idle
  <2> QED
    BY <2>3, <2>4, <2>5, <2>6, <2>7, <2>8, Zenon DEF TypeOK, SendIsCounted
<1>8. ASSUME handle_release PROVE TInv'
  <2> DEFINE r == Head(control_rx).res
  <2>1. r \in Resources /\ Tail(control_rx) \in Seq(Control)
    BY <1>8, ControlTypes DEF handle_release, Command, TypeOK
  <2>2. ProcessQueue(r) \in Control
    BY <2>1, ControlTypes
  <2> HIDE DEF r
  <2> QED
    BY <1>8, <2>1, <2>2
    DEF handle_release, Command, TypeOK, SendIsCounted, Idle, r
<1>9. ASSUME handle_update_limits PROVE TInv'
  <2> DEFINE u == Head(control_rx).limits
  <2>1. u \in LimitMap /\ Tail(control_rx) \in Seq(Control)
    BY <1>9, ControlTypes DEF handle_update_limits, Command, TypeOK
  <2>2. /\ DOMAIN u \in SUBSET Resources
        /\ \A r \in DOMAIN u : u[r].limit \in 0..MaxLimit /\ u[r].queue \in 0..Keep
    BY <2>1 DEF LimitMap, ResourceLimitUpdate
  <2> HIDE DEF u
  <2>3. limit' \in [Resources -> 0..MaxLimit]
    BY <1>9, <2>2 DEF handle_update_limits, TypeOK, u
  <2>4. max_queue_size' \in [Resources -> 0..MaxLimit]
    BY <1>9, <2>2 DEF handle_update_limits, TypeOK, u, NewQueueSize, Keep
  <2>5. \A r \in Resources : Kept(r, u) \in 0..Len(wait_queue[r])
    BY <2>2 DEF Kept, TypeOK, Keep
  <2>6. wait_queue' \in [Resources -> Seq(Requests)]
    <3>1. \A r \in Resources : SubSeq(wait_queue[r], 1, Kept(r, u)) \in Seq(Requests)
      BY <2>5 DEF TypeOK
    <3> QED BY <1>9, <3>1 DEF handle_update_limits, u
  <2>7. req' \in [Requests -> [st : Status, res : Acquirable]]
    BY <1>9, Zenon DEF handle_update_limits, TypeOK, Status
  <2>8. control_rx' \in Seq(Control)
    <3>1. PICK order \in Orders(DOMAIN u) :
            control_rx' = Tail(control_rx) \o
              [i \in 1..Cardinality(DOMAIN u) |-> ProcessQueue(order[i])]
      BY <1>9, Zenon DEF handle_update_limits, u
    <3>2. [i \in 1..Cardinality(DOMAIN u) |-> ProcessQueue(order[i])]
            \in Seq(Control)
      BY <2>2, OrderSequence
    <3> QED BY <2>1, <3>1, <3>2
  <2> QED
    BY <1>9, <2>3, <2>4, <2>6, <2>7, <2>8
    DEF handle_update_limits, Command, TypeOK, SendIsCounted, Idle
<1>10. ASSUME process_queue_begin PROVE TInv'
  <2>1. /\ Head(control_rx).res \in Resources
        /\ Tail(control_rx) \in Seq(Control)
    BY <1>10, ControlTypes DEF process_queue_begin, Command, TypeOK
  <2>2. actor' \in Actor /\ actor'.at = "loop"
    BY <1>10, <2>1, ActorTypes DEF process_queue_begin, Loop
  <2> QED
    BY <1>10, <2>1, <2>2 DEF process_queue_begin, TypeOK, SendIsCounted, state
<1>11. ASSUME process_queue_pop PROVE TInv'
  <2> DEFINE r == actor.res
             q == Head(wait_queue[r])
  <2>1. r \in Resources /\ actor.left - 1 \in 0..Batch
    <3>1. actor.at = "loop" /\ actor.left > 0 /\ actor \in Actor
      BY <1>11 DEF process_queue_pop, TypeOK
    <3>2. r \in Resources /\ actor.left \in 0..Batch
      BY <3>1, ActorTypes
    <3> QED BY <3>1, <3>2
  <2>2. q \in Requests /\ Tail(wait_queue[r]) \in Seq(Requests)
    BY <1>11, <2>1 DEF process_queue_pop, TypeOK
  <2>3. Loop(r, actor.left - 1) \in Actor /\ Sending(r, actor.left - 1, q) \in Actor
    BY <2>1, <2>2, ActorTypes
  <2> HIDE DEF r, q
  <2>4. req' \in [Requests -> [st : Status, res : Acquirable]]
    BY <1>11, <2>2, Zenon DEF process_queue_pop, TypeOK, Set, Status, r, q
  <2>5. wait_queue' \in [Resources -> Seq(Requests)]
    BY <1>11, <2>2, Zenon DEF process_queue_pop, TypeOK, r
  <2>6. in_use' \in [Resources -> Nat]
    <3>1. in_use' = in_use \/ in_use' = [in_use EXCEPT ![r] = @ + 1]
      BY <1>11 DEF process_queue_pop, r
    <3>2. in_use[r] + 1 \in Nat
      BY <2>1 DEF TypeOK
    <3> QED BY <3>1, <3>2, Zenon DEF TypeOK
  <2>7. actor' \in Actor
    BY <1>11, <2>3 DEF process_queue_pop, r, q
  <2>8. SendIsCounted'
    <3>1. CASE req[q].st = "cancelled"
      BY <1>11, <3>1 DEF process_queue_pop, SendIsCounted, Loop, r, q
    <3>2. CASE req[q].st # "cancelled"
      <4>1. actor' = Sending(r, actor.left - 1, q)
        BY <1>11, <3>2 DEF process_queue_pop, r, q
      <4>2. in_use'[r] = in_use[r] + 1 /\ in_use[r] \in Nat
        BY <1>11, <3>2, <2>1, Zenon DEF process_queue_pop, TypeOK, r, q
      <4> QED BY <4>1, <4>2 DEF SendIsCounted, Sending
    <3> QED BY <3>1, <3>2
  <2> QED
    BY <1>11, <2>4, <2>5, <2>6, <2>7, <2>8, Zenon DEF process_queue_pop, TypeOK
<1>12. ASSUME process_queue_send PROVE TInv'
  <2> DEFINE r == actor.res
             q == actor.to
  <2>1. r \in Resources /\ q \in Requests /\ Loop(r, actor.left) \in Actor
    BY <1>12, ActorTypes DEF process_queue_send, TypeOK
  <2>2. Bounced(q, r) \in Seq(Control)
    BY <2>1, ControlTypes DEF Bounced
  <2>3. in_use[r] > 0
    BY <1>12 DEF process_queue_send, SendIsCounted
  <2> HIDE DEF r, q
  <2>4. req' \in [Requests -> [st : Status, res : Acquirable]]
    BY <1>12, <2>1, Zenon DEF process_queue_send, TypeOK, Answer, Set, Status, q
  <2>5. in_use' \in [Resources -> Nat]
    <3>1. in_use' = in_use \/ in_use' = [in_use EXCEPT ![r] = @ - 1]
      BY <1>12 DEF process_queue_send, r
    <3>2. in_use[r] - 1 \in Nat
      BY <2>1, <2>3 DEF TypeOK
    <3> QED BY <3>1, <3>2, Zenon DEF TypeOK
  <2>6. control_rx' \in Seq(Control)
    BY <1>12, <2>2 DEF process_queue_send, TypeOK, r, q
  <2>7. actor' \in Actor /\ actor'.at = "loop"
    BY <1>12, <2>1 DEF process_queue_send, Loop, r
  <2> QED
    BY <1>12, <2>4, <2>5, <2>6, <2>7
    DEF process_queue_send, TypeOK, SendIsCounted
<1>13. ASSUME process_queue_end PROVE TInv'
  <2>1. actor.res \in Resources
    BY <1>13, ActorTypes DEF process_queue_end, TypeOK
  <2>2. ProcessQueue(actor.res) \in Control
    BY <2>1, ControlTypes
  <2>3. control_rx' \in Seq(Control)
    BY <1>13, <2>2 DEF process_queue_end, TypeOK
  <2>4. actor' \in Actor /\ actor'.at = "idle"
    BY <1>13, ActorTypes DEF process_queue_end, Idle
  <2> QED
    BY <1>13, <2>3, <2>4 DEF process_queue_end, TypeOK, SendIsCounted, state
<1>14. ASSUME Shutdown PROVE TInv'
  <2>1. req' \in [Requests -> [st : Status, res : Acquirable]]
    BY <1>14, Zenon DEF Shutdown, TypeOK, Status
  <2>2. /\ wait_queue' \in [Resources -> Seq(Requests)]
        /\ acquire_rx' \in [Acquirable -> Seq(Requests)]
        /\ control_rx' \in Seq(Control)
    BY <1>14 DEF Shutdown
  <2>3. actor' \in Actor /\ actor'.at = "stopped"
    BY <1>14, ActorTypes DEF Shutdown, Stopped
  <2> QED
    BY <1>14, <2>1, <2>2, <2>3, Zenon DEF Shutdown, TypeOK, SendIsCounted
<1>15. ASSUME UNCHANGED vars PROVE TInv'
  BY <1>15 DEF vars, TypeOK, SendIsCounted
<1> QED
  BY <1>1, <1>2, <1>3, <1>4, <1>5, <1>6, <1>7, <1>8, <1>9, <1>10, <1>11, <1>12,
     <1>13, <1>14, <1>15 DEF Next, Client, Manager

(* Type correctness of the permit server, and with it that the use count   *)
(* of resource_manager.rs never underflows when a failed grant is undone.  *)
THEOREM TypeCorrect == Spec => []TypeOK
<1>1. Spec => []TInv
  BY TypeInit, TypeNext, PTL DEF Spec
<1> QED BY <1>1, PTL DEF TInv

---------------------------------------------------------------------------
(* No lost wakeup.                                                         *)

Holds(s, c) == \E i \in DOMAIN s : s[i] = c

(* A command stays on the channel when others are appended behind it, and  *)
(* when a different command is taken from the front.                       *)
LEMMA HoldsConcat ==
  ASSUME NEW s \in Seq(Control), NEW t \in Seq(Control), NEW c,
         Holds(s, c) \/ Holds(t, c)
  PROVE  Holds(s \o t, c)
<1>1. ASSUME NEW i \in DOMAIN s, s[i] = c PROVE Holds(s \o t, c)
  <2>1. i \in DOMAIN (s \o t) /\ (s \o t)[i] = c
    BY <1>1
  <2> QED BY <2>1 DEF Holds
<1>2. ASSUME NEW i \in DOMAIN t, t[i] = c PROVE Holds(s \o t, c)
  <2>1. Len(s) + i \in DOMAIN (s \o t) /\ (s \o t)[Len(s) + i] = c
    BY <1>2
  <2> QED BY <2>1 DEF Holds
<1> QED BY <1>1, <1>2 DEF Holds

LEMMA HoldsAppend ==
  ASSUME NEW s \in Seq(Control), NEW d \in Control, NEW c, Holds(s, c) \/ d = c
  PROVE  Holds(Append(s, d), c)
<1>1. ASSUME NEW i \in DOMAIN s, s[i] = c PROVE Holds(Append(s, d), c)
  <2>1. i \in DOMAIN Append(s, d) /\ Append(s, d)[i] = c
    BY <1>1
  <2> QED BY <2>1 DEF Holds
<1>2. ASSUME d = c PROVE Holds(Append(s, d), c)
  <2>1. Len(s) + 1 \in DOMAIN Append(s, d) /\ Append(s, d)[Len(s) + 1] = c
    BY <1>2
  <2> QED BY <2>1 DEF Holds
<1> QED BY <1>1, <1>2 DEF Holds

LEMMA HoldsTail ==
  ASSUME NEW s \in Seq(Control), NEW c, s # <<>>, Head(s) # c, Holds(s, c)
  PROVE  Holds(Tail(s), c)
<1>1. PICK i \in DOMAIN s : s[i] = c
  BY DEF Holds
<1>2. i # 1
  BY <1>1
<1>3. i - 1 \in DOMAIN Tail(s) /\ Tail(s)[i - 1] = c
  BY <1>1, <1>2
<1> QED BY <1>3 DEF Holds

LEMMA WakesIs ==
  \A r : Wakes(r) <=> \/ actor.at \in {"loop", "send"} /\ actor.res = r
                      \/ Holds(control_rx, ProcessQueue(r))
  BY DEF Wakes, Holds

LEMMA WakeupNext == TInv /\ NoLostWakeup /\ [Next]_vars => NoLostWakeup'
<1> SUFFICES ASSUME TInv, NoLostWakeup, [Next]_vars,
                    NEW r0 \in Resources,
                    wait_queue'[r0] # <<>>, in_use'[r0] < limit'[r0]
             PROVE  Wakes(r0)'
  BY DEF NoLostWakeup
<1> USE ResourceAssumption
<1>t. TypeOK
  BY DEF TInv
<1>c. control_rx \in Seq(Control)
  BY <1>t DEF TypeOK
<1>w. ASSUME wait_queue[r0] # <<>>, in_use[r0] < limit[r0]
      PROVE  \/ actor.at \in {"loop", "send"} /\ actor.res = r0
             \/ Holds(control_rx, ProcessQueue(r0))
  BY <1>w, WakesIs DEF NoLostWakeup
<1>s. (\/ actor'.at \in {"loop", "send"} /\ actor'.res = r0
       \/ Holds(control_rx', ProcessQueue(r0))) => Wakes(r0)'
  BY DEF Wakes, Holds
(* A step that leaves the resources and the actor alone and only adds to   *)
(* the channel keeps whatever wakes r0.                                    *)
<1>k. ASSUME UNCHANGED <<state, actor>>,
             \/ control_rx' = control_rx
             \/ \E c \in Control : control_rx' = Append(control_rx, c)
      PROVE  Wakes(r0)'
  <2>1. \/ actor.at \in {"loop", "send"} /\ actor.res = r0
        \/ Holds(control_rx, ProcessQueue(r0))
    BY <1>k, <1>w DEF state
  <2>2. Holds(control_rx, ProcessQueue(r0)) => Holds(control_rx', ProcessQueue(r0))
    BY <1>k, <1>c, HoldsAppend, Zenon
  <2> QED BY <1>k, <1>s, <2>1, <2>2
<1>1. ASSUME NEW q \in Requests, NEW r \in Acquirable, Acquire(q, r)
      PROVE  Wakes(r0)'
  BY <1>1, <1>k DEF Acquire
<1>2. ASSUME NEW q \in Requests, Cancel(q) PROVE Wakes(r0)'
  BY <1>2, <1>k DEF Cancel
<1>3. ASSUME NEW q \in Requests, Receive(q) PROVE Wakes(r0)'
  BY <1>3, <1>k DEF Receive
<1>4. ASSUME NEW q \in Requests, ReceiveError(q) PROVE Wakes(r0)'
  BY <1>4, <1>k DEF ReceiveError
<1>5. ASSUME NEW q \in Requests, DropGuard(q) PROVE Wakes(r0)'
  <2>1. Release(req[q].res) \in Control
    BY <1>t, ControlTypes DEF TypeOK
  <2> QED BY <1>5, <1>k, <2>1 DEF DropGuard, Post
<1>6. ASSUME NEW u \in LimitMap, SendUpdateLimits(u) PROVE Wakes(r0)'
  <2>1. UpdateLimits(u) \in Control
    BY ControlTypes
  <2> QED BY <1>6, <1>k, <2>1 DEF SendUpdateLimits, Post
<1>7. ASSUME NEW r \in Acquirable, handle_acquire(r) PROVE Wakes(r0)'
  <2> DEFINE q == Head(acquire_rx[r])
  <2>1. actor' = actor /\ actor.at = "idle" /\ limit' = limit
    BY <1>7 DEF handle_acquire, state, Idle
  <2>2. CASE HasRoom(r)
    <3>1. /\ in_use' = [in_use EXCEPT ![r] = @ + 1]
          /\ wait_queue' = wait_queue
          /\ control_rx' = control_rx \o Bounced(q, r)
      BY <1>7, <2>2 DEF handle_acquire
    <3>2. in_use[r0] < limit[r0]
      BY <1>t, <2>1, <3>1 DEF TypeOK
    <3>3. Holds(control_rx, ProcessQueue(r0))
      BY <1>w, <2>1, <3>1, <3>2
    <3>4. Bounced(q, r) \in Seq(Control)
      BY ControlTypes DEF Bounced
    <3>5. Holds(control_rx', ProcessQueue(r0))
      BY <1>c, <3>1, <3>3, <3>4, HoldsConcat
    <3> QED BY <1>s, <3>5
  <2>3. CASE ~HasRoom(r)
    <3>1. in_use' = in_use /\ control_rx' = control_rx
      BY <1>7, <2>3 DEF handle_acquire, state
    <3>2. \/ wait_queue' = wait_queue
          \/ wait_queue' = [wait_queue EXCEPT ![r] = Append(@, q)]
      BY <1>7, <2>3 DEF handle_acquire, state
    <3>3. r0 # r
      BY <2>1, <2>3, <3>1 DEF HasRoom
    <3>4. wait_queue[r0] # <<>>
      BY <1>t, <3>2, <3>3 DEF TypeOK
    <3>5. Holds(control_rx, ProcessQueue(r0))
      BY <1>w, <2>1, <3>1, <3>4
    <3> QED BY <1>s, <3>1, <3>5
  <2> QED BY <2>2, <2>3
(* Taking the front command of another kind or for another resource.       *)
<1>f. ASSUME actor = Idle, control_rx # <<>>,
             Head(control_rx) # ProcessQueue(r0),
             wait_queue[r0] # <<>>, in_use[r0] < limit[r0]
      PROVE  Holds(Tail(control_rx), ProcessQueue(r0))
  <2>1. Holds(control_rx, ProcessQueue(r0))
    BY <1>f, <1>w DEF Idle
  <2> QED BY <1>c, <1>f, <2>1, HoldsTail
<1>8. ASSUME handle_release PROVE Wakes(r0)'
  <2> DEFINE r == Head(control_rx).res
  <2>1. /\ actor = Idle /\ control_rx # <<>>
        /\ Head(control_rx).cmd = "Release"
        /\ wait_queue' = wait_queue /\ limit' = limit
        /\ in_use' = [in_use EXCEPT ![r] = IF @ = 0 THEN 0 ELSE @ - 1]
        /\ control_rx' = Append(Tail(control_rx), ProcessQueue(r))
    BY <1>8 DEF handle_release, Command
  <2>2. r \in Resources /\ Tail(control_rx) \in Seq(Control)
    BY <1>c, <2>1, ControlTypes
  <2>3. ProcessQueue(r) \in Control
    BY <2>2, ControlTypes
  <2> HIDE DEF r
  <2>4. CASE r0 = r
    BY <1>s, <2>1, <2>2, <2>3, <2>4, HoldsAppend, Zenon
  <2>5. CASE r0 # r
    <3>1. in_use[r0] < limit[r0]
      BY <1>t, <2>1, <2>5 DEF TypeOK
    <3>2. Holds(Tail(control_rx), ProcessQueue(r0))
      BY <1>f, <2>1, <3>1 DEF ProcessQueue
    <3> QED BY <1>s, <2>1, <2>2, <2>3, <3>2, HoldsAppend, Zenon
  <2> QED BY <2>4, <2>5
<1>9. ASSUME handle_update_limits PROVE Wakes(r0)'
  <2> DEFINE u == Head(control_rx).limits
  <2>1. /\ actor = Idle /\ control_rx # <<>>
        /\ Head(control_rx).cmd = "UpdateLimits" /\ in_use' = in_use
    BY <1>9 DEF handle_update_limits, Command
  <2>2. u \in LimitMap /\ Tail(control_rx) \in Seq(Control)
    BY <1>c, <2>1, ControlTypes
  <2>3. DOMAIN u \in SUBSET Resources
    BY <2>2 DEF LimitMap
  <2>4. PICK order \in Orders(DOMAIN u) :
          control_rx' = Tail(control_rx) \o
            [i \in 1..Cardinality(DOMAIN u) |-> ProcessQueue(order[i])]
    BY <1>9, Zenon DEF handle_update_limits
  <2> DEFINE news == [i \in 1..Cardinality(DOMAIN u) |-> ProcessQueue(order[i])]
  <2>5. news \in Seq(Control)
    BY <2>3, OrderSequence
  <2>6. CASE r0 \in DOMAIN u
    <3>1. PICK i \in 1..Cardinality(DOMAIN u) : order[i] = r0
      BY <2>6 DEF Orders
    <3>2. i \in DOMAIN news /\ news[i] = ProcessQueue(r0)
      BY <3>1
    <3>3. Holds(news, ProcessQueue(r0))
      BY <3>2 DEF Holds
    <3> HIDE DEF news
    <3> QED BY <1>s, <2>2, <2>4, <2>5, <3>3, HoldsConcat, Zenon DEF news
  <2>7. CASE r0 \notin DOMAIN u
    <3>1. limit'[r0] = limit[r0]
      BY <1>9, <2>7 DEF handle_update_limits
    <3>2. wait_queue'[r0] = SubSeq(wait_queue[r0], 1, Len(wait_queue[r0]))
      BY <1>9, <2>7 DEF handle_update_limits, Kept
    <3>3. wait_queue[r0] # <<>>
      BY <1>t, <3>2 DEF TypeOK
    <3>4. Holds(Tail(control_rx), ProcessQueue(r0))
      BY <1>f, <2>1, <3>1, <3>3 DEF ProcessQueue
    <3> HIDE DEF news
    <3> QED BY <1>s, <2>2, <2>4, <2>5, <3>4, HoldsConcat, Zenon DEF news
  <2> QED BY <2>6, <2>7
<1>10. ASSUME process_queue_begin PROVE Wakes(r0)'
  <2> DEFINE r == Head(control_rx).res
  <2>1. /\ actor = Idle /\ control_rx # <<>>
        /\ Head(control_rx).cmd = "ProcessQueue"
        /\ actor' = Loop(r, Batch) /\ control_rx' = Tail(control_rx)
        /\ UNCHANGED state
    BY <1>10 DEF process_queue_begin, Command
  <2>2. CASE r0 = r
    BY <1>s, <2>1, <2>2 DEF Loop
  <2>3. CASE r0 # r
    <3>1. Head(control_rx) # ProcessQueue(r0)
      BY <2>3 DEF ProcessQueue
    <3> QED BY <1>s, <1>f, <2>1, <3>1 DEF state
  <2> QED BY <2>2, <2>3
<1>11. ASSUME process_queue_pop PROVE Wakes(r0)'
  <2> DEFINE r == actor.res
  <2>1. /\ actor.at = "loop" /\ limit' = limit /\ control_rx' = control_rx
        /\ wait_queue' = [wait_queue EXCEPT ![r] = Tail(@)]
        /\ in_use' = in_use \/ in_use' = [in_use EXCEPT ![r] = @ + 1]
        /\ actor'.at \in {"loop", "send"} /\ actor'.res = r
    BY <1>11 DEF process_queue_pop, Loop, Sending
  <2> HIDE DEF r
  <2>2. CASE r0 = r
    BY <1>s, <2>1, <2>2
  <2>3. CASE r0 # r
    <3>1. in_use[r0] < limit[r0] /\ wait_queue[r0] # <<>>
      BY <1>t, <2>1, <2>3 DEF TypeOK
    <3> QED BY <1>s, <1>w, <2>1, <2>3, <3>1 DEF r
  <2> QED BY <2>2, <2>3
<1>12. ASSUME process_queue_send PROVE Wakes(r0)'
  <2> DEFINE r == actor.res
             q == actor.to
  <2>1. /\ actor.at = "send" /\ limit' = limit /\ wait_queue' = wait_queue
        /\ in_use' = in_use \/ in_use' = [in_use EXCEPT ![r] = @ - 1]
        /\ control_rx' = control_rx \o Bounced(q, r)
        /\ actor'.at = "loop" /\ actor'.res = r
    BY <1>12 DEF process_queue_send, Loop
  <2>2. r \in Resources
    BY <1>t, <2>1, ActorTypes DEF TypeOK
  <2>3. Bounced(q, r) \in Seq(Control)
    BY <2>2, ControlTypes DEF Bounced
  <2> HIDE DEF r, q
  <2>4. CASE r0 = r
    BY <1>s, <2>1, <2>4
  <2>5. CASE r0 # r
    <3>1. in_use[r0] < limit[r0] /\ wait_queue[r0] # <<>>
      BY <1>t, <2>1, <2>5 DEF TypeOK
    <3>2. Holds(control_rx, ProcessQueue(r0))
      BY <1>w, <2>1, <2>5, <3>1 DEF r
    <3> QED BY <1>s, <1>c, <2>1, <2>3, <3>2, HoldsConcat
  <2> QED BY <2>4, <2>5
<1>13. ASSUME process_queue_end PROVE Wakes(r0)'
  <2> DEFINE r == actor.res
             more == HasRoom(r) /\ wait_queue[r] # <<>>
  <2>1. /\ actor.at = "loop" /\ UNCHANGED state
        /\ control_rx' = IF more THEN Append(control_rx, ProcessQueue(r))
                                 ELSE control_rx
    BY <1>13 DEF process_queue_end
  <2>2. r \in Resources
    BY <1>t, <2>1, ActorTypes DEF TypeOK
  <2>3. ProcessQueue(r) \in Control
    BY <2>2, ControlTypes
  <2>4. CASE r0 = r
    <3>1. more
      BY <2>1, <2>4 DEF HasRoom, state
    <3> QED BY <1>s, <1>c, <2>1, <2>3, <2>4, <3>1, HoldsAppend
  <2>5. CASE r0 # r
    <3>1. Holds(control_rx, ProcessQueue(r0))
      BY <1>w, <2>1, <2>5 DEF state
    <3> QED BY <1>s, <1>c, <2>1, <2>3, <3>1, HoldsAppend
  <2> QED BY <2>4, <2>5
<1>14. ASSUME Shutdown PROVE Wakes(r0)'
  BY <1>14 DEF Shutdown
<1>15. ASSUME UNCHANGED vars PROVE Wakes(r0)'
  BY <1>15, <1>k DEF vars, state
<1> QED
  BY <1>1, <1>2, <1>3, <1>4, <1>5, <1>6, <1>7, <1>8, <1>9, <1>10, <1>11, <1>12,
     <1>13, <1>14, <1>15 DEF Next, Client, Manager

(* The wakeup protocol of handle_release, handle_update_limits and         *)
(* handle_process_queue is complete: a waiter never sits beside a free     *)
(* permit without a queue pass under way or requested.                     *)
THEOREM WakeupSafe == Spec => []NoLostWakeup
<1>1. Init => NoLostWakeup
  BY DEF Init, NoLostWakeup
<1>2. Spec => []TInv
  BY TypeInit, TypeNext, PTL DEF Spec
<1> QED BY <1>1, <1>2, WakeupNext, PTL DEF Spec

---------------------------------------------------------------------------
(* Who knows of a waiting client, and what the use counts count.  First    *)
(* the senders, then the permits, then the refinement of PermitPool when   *)
(* the client tasks and the actor share a thread.                          *)

(* Only acquirable resources have waiters.                                 *)
SenderInv ==
  /\ OneSender
  /\ \A r \in Resources \ Acquirable : wait_queue[r] = <<>>
  /\ actor.at = "send" => actor.res \in Acquirable

---------------------------------------------------------------------------
(* Facts about sequences without repetitions, and about one client's step. *)

LEMMA LineTail ==
  ASSUME NEW S, NEW s \in Seq(S), s # <<>>, Injective(s)
  PROVE  /\ Tail(s) \in Seq(S) /\ Head(s) \in S /\ Injective(Tail(s))
         /\ \A x : Holds(Tail(s), x) <=> Holds(s, x) /\ x # Head(s)
         /\ Holds(s, Head(s))
<1>1. /\ Len(s) \in Nat \ {0} /\ DOMAIN s = 1..Len(s) /\ DOMAIN Tail(s) = 1 .. Len(s) - 1
      /\ Head(s) = s[1] /\ \A i \in 1 .. Len(s) - 1 : Tail(s)[i] = s[i + 1]
      /\ Tail(s) \in Seq(S) /\ Head(s) \in S
  OBVIOUS
<1>2. Injective(Tail(s))
  BY <1>1 DEF Injective
<1>3. \A x : Holds(Tail(s), x) => Holds(s, x) /\ x # Head(s)
  BY <1>1 DEF Injective, Holds
<1>4. ASSUME NEW x, Holds(s, x), x # Head(s) PROVE Holds(Tail(s), x)
  <2>1. PICK i \in DOMAIN s : s[i] = x
    BY <1>4 DEF Holds
  <2>2. i - 1 \in DOMAIN Tail(s) /\ Tail(s)[i - 1] = x
    BY <1>1, <1>4, <2>1
  <2> QED BY <2>2 DEF Holds
<1>5. Holds(s, Head(s))
  BY <1>1 DEF Holds
<1> QED BY <1>1, <1>2, <1>3, <1>4, <1>5

LEMMA LineAppend ==
  ASSUME NEW S, NEW s \in Seq(S), NEW y \in S, Injective(s), ~Holds(s, y)
  PROVE  /\ Injective(Append(s, y))
         /\ \A x : Holds(Append(s, y), x) <=> Holds(s, x) \/ x = y
<1>1. /\ Len(s) \in Nat /\ DOMAIN s = 1..Len(s) /\ DOMAIN Append(s, y) = 1 .. Len(s) + 1
      /\ \A i \in 1..Len(s) : Append(s, y)[i] = s[i]
      /\ Append(s, y)[Len(s) + 1] = y
  OBVIOUS
<1>2. \A x : Holds(Append(s, y), x) <=> Holds(s, x) \/ x = y
  BY <1>1 DEF Holds
<1>3. Injective(Append(s, y))
  BY <1>1 DEF Holds, Injective
<1> QED BY <1>2, <1>3

LEMMA LinePrefix ==
  ASSUME NEW S, NEW s \in Seq(S), NEW k \in 0..Len(s), Injective(s)
  PROVE  /\ Injective(SubSeq(s, 1, k))
         /\ \A x : Holds(SubSeq(s, 1, k), x)
                     <=> Holds(s, x) /\ x \notin {s[i] : i \in k + 1 .. Len(s)}
<1>1. /\ Len(s) \in Nat /\ DOMAIN s = 1..Len(s) /\ k \in Nat /\ k <= Len(s)
      /\ DOMAIN SubSeq(s, 1, k) = 1..k
      /\ \A i \in 1..k : SubSeq(s, 1, k)[i] = s[i]
  OBVIOUS
<1>2. Injective(SubSeq(s, 1, k))
  BY <1>1 DEF Injective
<1>3. ASSUME NEW x, Holds(SubSeq(s, 1, k), x)
      PROVE  Holds(s, x) /\ x \notin {s[i] : i \in k + 1 .. Len(s)}
  <2>1. PICK i \in 1..k : s[i] = x
    BY <1>1, <1>3 DEF Holds
  <2> QED BY <1>1, <2>1 DEF Holds, Injective
<1>4. ASSUME NEW x, Holds(s, x), x \notin {s[i] : i \in k + 1 .. Len(s)}
      PROVE  Holds(SubSeq(s, 1, k), x)
  <2>1. PICK i \in 1..Len(s) : s[i] = x
    BY <1>1, <1>4 DEF Holds
  <2>2. i \in 1..k
    BY <1>1, <1>4, <2>1
  <2> QED BY <1>1, <2>1, <2>2, Zenon DEF Holds
<1> QED BY <1>2, <1>3, <1>4

LEMMA SetIs ==
  ASSUME TypeOK, NEW q \in Requests, NEW s, req' = Set(q, s)
  PROVE  /\ req'[q].st = s /\ req'[q].res = req[q].res
         /\ \A p \in Requests \ {q} : req'[p] = req[p]
  BY DEF TypeOK, Set

LEMMA SenderIs ==
  OneSender <=>
    /\ \A r \in Acquirable : Injective(acquire_rx[r]) /\ Injective(wait_queue[r])
    /\ \A q \in Requests, r \in Acquirable :
         /\ Pending(q, r) <=> Holds(acquire_rx[r], q) \/ Holds(wait_queue[r], q) \/ InActor(q, r)
         /\ ~(Holds(acquire_rx[r], q) /\ Holds(wait_queue[r], q))
         /\ ~(InActor(q, r) /\ (Holds(acquire_rx[r], q) \/ Holds(wait_queue[r], q)))
  BY DEF OneSender, InChannel, InQueue, Holds

LEMMA SenderIsNext ==
  (OneSender)' <=>
    /\ \A r \in Acquirable : Injective(acquire_rx'[r]) /\ Injective(wait_queue'[r])
    /\ \A q \in Requests, r \in Acquirable :
         /\ Pending(q, r)' <=> Holds(acquire_rx'[r], q) \/ Holds(wait_queue'[r], q) \/ InActor(q, r)'
         /\ ~(Holds(acquire_rx'[r], q) /\ Holds(wait_queue'[r], q))
         /\ ~(InActor(q, r)' /\ (Holds(acquire_rx'[r], q) \/ Holds(wait_queue'[r], q)))
  BY DEF OneSender, InChannel, InQueue, Holds, Injective

(* A step that moves no sender.                                            *)
LEMMA SenderKept ==
  ASSUME TypeOK, SenderInv, UNCHANGED <<acquire_rx, wait_queue>>,
         actor' = actor \/ (actor.at # "send" /\ actor'.at # "send"),
         \A q \in Requests, r \in Acquirable : Pending(q, r)' <=> Pending(q, r)
  PROVE  SenderInv'
<1>1. \A q \in Requests, r \in Acquirable : InActor(q, r)' <=> InActor(q, r)
  BY DEF InActor
<1>2. OneSender'
  BY <1>1, SenderIs, SenderIsNext DEF SenderInv
<1> QED BY <1>2 DEF SenderInv

LEMMA SenderInit == Init => SenderInv
<1> SUFFICES ASSUME Init PROVE SenderInv
  OBVIOUS
<1>1. actor.at = "idle" /\ \A q \in Requests : req[q].st = "idle"
  BY DEF Init, Idle
<1>2. /\ \A r \in Acquirable : acquire_rx[r] = <<>>
      /\ \A r \in Resources : wait_queue[r] = <<>>
  BY DEF Init
<1>3. Acquirable \subseteq Resources
  BY ResourceAssumption
<1> QED
  BY <1>1, <1>2, <1>3 DEF SenderInv, OneSender, Injective, Pending, InChannel, InQueue, InActor

LEMMA SenderNext == TInv /\ SenderInv /\ [Next]_vars => SenderInv'
<1> SUFFICES ASSUME TInv, SenderInv, [Next]_vars PROVE SenderInv'
  OBVIOUS
<1>0. TypeOK /\ Acquirable \subseteq Resources
  BY ResourceAssumption DEF TInv
<1>s. /\ \A r \in Acquirable : Injective(acquire_rx[r]) /\ Injective(wait_queue[r])
      /\ \A q \in Requests, r \in Acquirable :
         /\ Pending(q, r) <=> Holds(acquire_rx[r], q) \/ Holds(wait_queue[r], q) \/ InActor(q, r)
         /\ ~(Holds(acquire_rx[r], q) /\ Holds(wait_queue[r], q))
         /\ ~(InActor(q, r) /\ (Holds(acquire_rx[r], q) \/ Holds(wait_queue[r], q)))
  BY SenderIs DEF SenderInv
<1>q. /\ \A r \in Acquirable : acquire_rx[r] \in Seq(Requests) /\ wait_queue[r] \in Seq(Requests)
      /\ \A r \in Resources \ Acquirable : wait_queue[r] = <<>>
  BY <1>0 DEF TypeOK, SenderInv
<1>1. ASSUME NEW q \in Requests, NEW r \in Acquirable, Acquire(q, r) PROVE SenderInv'
  <2>1. req[q].st = "idle" /\ UNCHANGED <<wait_queue, actor>>
    BY <1>1 DEF Acquire, state
  <2>2. \A p \in Requests \ {q} : req'[p] = req[p]
    BY <1>0, <1>1 DEF Acquire, TypeOK
  <2>3. CASE actor = Stopped
    <3>1. req'[q].st = "shutdown" /\ UNCHANGED acquire_rx
      BY <1>0, <1>1, <2>3 DEF Acquire, TypeOK
    <3>2. \A p \in Requests, s \in Acquirable : Pending(p, s)' <=> Pending(p, s)
      BY <2>1, <2>2, <3>1 DEF Pending
    <3> QED BY <1>0, <2>1, <3>1, <3>2, SenderKept
  <2>4. CASE actor # Stopped
    <3>1. /\ req'[q].st = "waiting" /\ req'[q].res = r
          /\ acquire_rx' = [acquire_rx EXCEPT ![r] = Append(@, q)]
      BY <1>0, <1>1, <2>4 DEF Acquire, TypeOK
    <3>2. \A s \in Acquirable : ~Pending(q, s)
      BY <2>1 DEF Pending
    <3>3. /\ acquire_rx'[r] = Append(acquire_rx[r], q)
          /\ \A s \in Acquirable \ {r} : acquire_rx'[s] = acquire_rx[s]
      BY <1>0, <3>1 DEF TypeOK
    <3>4. /\ Injective(acquire_rx'[r])
          /\ \A x : Holds(acquire_rx'[r], x) <=> Holds(acquire_rx[r], x) \/ x = q
      BY <1>s, <1>q, <3>2, <3>3, LineAppend
    <3>5. \A p \in Requests, s \in Acquirable :
            Pending(p, s)' <=> Pending(p, s) \/ (p = q /\ s = r)
      BY <2>2, <3>1, <3>2 DEF Pending
    <3>6. \A p \in Requests, s \in Acquirable : InActor(p, s)' <=> InActor(p, s)
      BY <2>1 DEF InActor
    <3>7. OneSender'
      BY <1>s, <2>1, <3>2, <3>3, <3>4, <3>5, <3>6, SenderIsNext, Zenon
    <3> QED BY <2>1, <3>7 DEF SenderInv
  <2> QED BY <2>3, <2>4
<1>2. ASSUME NEW q \in Requests, Cancel(q) \/ Receive(q) \/ ReceiveError(q) \/ DropGuard(q)
      PROVE  SenderInv'
  <2>1. /\ UNCHANGED <<acquire_rx, wait_queue, actor>>
        /\ \/ req[q].st = "waiting" /\ req' = Set(q, "cancelled")
           \/ req[q].st = "delivered" /\ req' = Set(q, "holding")
           \/ /\ req[q].st \in {"queue_full", "shutdown", "delivered", "holding"}
              /\ req' = Set(q, "idle")
    BY <1>2 DEF Cancel, Receive, ReceiveError, DropGuard, state
  <2>2. \A p \in Requests, s \in Acquirable : Pending(p, s)' <=> Pending(p, s)
    BY <1>0, <2>1, SetIs DEF Pending
  <2> QED BY <1>0, <2>1, <2>2, SenderKept
<1>3. ASSUME NEW r \in Acquirable, handle_acquire(r) PROVE SenderInv'
  <2> DEFINE q == Head(acquire_rx[r])
  <2>1. /\ acquire_rx[r] # <<>> /\ actor = Idle /\ actor' = actor
        /\ acquire_rx' = [acquire_rx EXCEPT ![r] = Tail(@)]
    BY <1>3 DEF handle_acquire
  <2>2. /\ q \in Requests /\ Injective(Tail(acquire_rx[r])) /\ Holds(acquire_rx[r], q)
        /\ \A x : Holds(Tail(acquire_rx[r]), x) <=> Holds(acquire_rx[r], x) /\ x # q
    BY <1>s, <1>q, <2>1, LineTail
  <2>3. /\ acquire_rx'[r] = Tail(acquire_rx[r])
        /\ \A s \in Acquirable \ {r} : acquire_rx'[s] = acquire_rx[s]
    BY <1>0, <2>1 DEF TypeOK
  <2>4. \/ \E s \in {"idle", "delivered", "queue_full"} : req' = Set(q, s) /\ UNCHANGED wait_queue
        \/ wait_queue' = [wait_queue EXCEPT ![r] = Append(@, q)] /\ UNCHANGED req
    BY <1>3 DEF handle_acquire, Answer, state
  <2> HIDE DEF q
  <2>5. \A p \in Requests, s \in Acquirable : ~InActor(p, s) /\ ~InActor(p, s)'
    BY <2>1 DEF InActor, Idle
  <2>6. Pending(q, r) /\ \A s \in Acquirable \ {r} : ~Pending(q, s)
    BY <1>s, <2>2 DEF Pending
  <2>7. ASSUME NEW s \in {"idle", "delivered", "queue_full"}, req' = Set(q, s), UNCHANGED wait_queue
        PROVE  SenderInv'
    <3>1. \A p \in Requests, t \in Acquirable : Pending(p, t)' <=> Pending(p, t) /\ p # q
      BY <1>0, <2>2, <2>7, SetIs DEF Pending
    <3>2. OneSender'
      BY <1>s, <2>2, <2>3, <2>5, <2>6, <2>7, <3>1, SenderIsNext
    <3> QED BY <2>1, <2>7, <3>2 DEF SenderInv
  <2>8. CASE wait_queue' = [wait_queue EXCEPT ![r] = Append(@, q)] /\ UNCHANGED req
    <3>1. /\ wait_queue'[r] = Append(wait_queue[r], q)
          /\ \A s \in Resources \ {r} : wait_queue'[s] = wait_queue[s]
      BY <1>0, <2>8 DEF TypeOK
    <3>2. /\ Injective(wait_queue'[r])
          /\ \A x : Holds(wait_queue'[r], x) <=> Holds(wait_queue[r], x) \/ x = q
      BY <1>s, <1>q, <2>2, <3>1, LineAppend
    <3>3. \A p \in Requests, t \in Acquirable : Pending(p, t)' <=> Pending(p, t)
      BY <2>8 DEF Pending
    <3>4. OneSender'
      BY <1>0, <1>s, <2>2, <2>3, <2>5, <2>6, <3>1, <3>2, <3>3, SenderIsNext, Zenon
    <3> QED BY <1>q, <2>1, <3>1, <3>4 DEF SenderInv
  <2> QED BY <2>4, <2>7, <2>8
<1>4. CASE handle_release \/ process_queue_begin \/ process_queue_end
  <2>1. UNCHANGED <<acquire_rx, wait_queue, req>> /\ actor.at # "send" /\ actor'.at # "send"
    BY <1>4 DEF handle_release, process_queue_begin, process_queue_end, Command, Idle, Loop, state
  <2>2. \A p \in Requests, s \in Acquirable : Pending(p, s)' <=> Pending(p, s)
    BY <2>1 DEF Pending
  <2> QED BY <1>0, <2>1, <2>2, SenderKept
<1>5. CASE handle_update_limits
  <2> DEFINE u == Head(control_rx).limits
  <2>1. /\ UNCHANGED <<acquire_rx, actor>> /\ actor = Idle
        /\ wait_queue' = [r \in Resources |-> SubSeq(wait_queue[r], 1, Kept(r, u))]
        /\ req' = [q \in Requests |->
             IF q \notin Trimmed(u) THEN req[q]
             ELSE [req[q] EXCEPT !.st = IF @ = "cancelled" THEN "idle" ELSE "queue_full"]]
    BY <1>5 DEF handle_update_limits, Command
  <2>u. u \in LimitMap
    BY <1>0, <1>5, ControlTypes DEF handle_update_limits, Command, TypeOK
  <2>2. \A r \in Resources : Kept(r, u) \in 0..Len(wait_queue[r])
    <3> TAKE r \in Resources
    <3>1. Len(wait_queue[r]) \in Nat
      BY <1>0 DEF TypeOK
    <3>2. r \in DOMAIN u => u[r].queue \in Nat
      BY <2>u, ResourceAssumption DEF LimitMap, ResourceLimitUpdate, Keep
    <3> HIDE DEF u
    <3> QED BY <3>1, <3>2 DEF Kept
  <2> HIDE DEF u
  <2> DEFINE cut(r) == {wait_queue[r][i] : i \in Kept(r, u) + 1 .. Len(wait_queue[r])}
  <2>3. \A r \in Acquirable :
          /\ Injective(wait_queue'[r])
          /\ \A x : Holds(wait_queue'[r], x) <=> Holds(wait_queue[r], x) /\ x \notin cut(r)
    BY <1>0, <1>s, <1>q, <2>1, <2>2, LinePrefix, Zenon
  <2>4. \A r \in Resources \ Acquirable : wait_queue'[r] = <<>> /\ cut(r) = {}
    <3> TAKE r \in Resources \ Acquirable
    <3>1. wait_queue[r] = <<>> /\ Kept(r, u) = 0
      BY <1>q, <2>2
    <3> QED BY <2>1, <3>1
  <2>5. \A r \in Acquirable : \A x \in cut(r) : Holds(wait_queue[r], x)
    <3> TAKE r \in Acquirable
    <3> TAKE x \in cut(r)
    <3>1. PICK i \in Kept(r, u) + 1 .. Len(wait_queue[r]) : x = wait_queue[r][i]
      OBVIOUS
    <3>2. i \in DOMAIN wait_queue[r]
      BY <1>0, <1>q, <2>2
    <3> QED BY <3>1, <3>2 DEF Holds
  <2>6. \A x : x \in Trimmed(u) <=> \E r \in Acquirable : x \in cut(r)
    <3>1. \A x : x \in Trimmed(u) <=> \E r \in Resources : x \in cut(r)
      BY DEF Trimmed
    <3> QED BY <1>0, <2>4, <3>1
  <2> HIDE DEF cut
  <2>7. \A p \in Requests : IF p \in Trimmed(u)
                            THEN req'[p].st \notin {"waiting", "cancelled"}
                            ELSE req'[p] = req[p]
    BY <1>0, <2>1 DEF TypeOK
  <2>8. \A p \in Requests, r \in Acquirable : Pending(p, r)' <=> Pending(p, r) /\ p \notin Trimmed(u)
    BY <2>7 DEF Pending
  <2>9. \A p \in Requests, r \in Acquirable :
          Holds(wait_queue[r], p) => (p \in Trimmed(u) <=> p \in cut(r))
    <3> SUFFICES ASSUME NEW p \in Requests, NEW r \in Acquirable, Holds(wait_queue[r], p),
                        NEW s \in Acquirable, p \in cut(s)
                 PROVE  s = r
      BY <2>6
    <3>1. Pending(p, r) /\ Pending(p, s)
      BY <1>s, <2>5
    <3> QED BY <3>1 DEF Pending
  <2>10. \A p \in Requests, r \in Acquirable : Holds(acquire_rx[r], p) => p \notin Trimmed(u)
    <3> SUFFICES ASSUME NEW p \in Requests, NEW r \in Acquirable, Holds(acquire_rx[r], p),
                        NEW s \in Acquirable, p \in cut(s)
                 PROVE  FALSE
      BY <2>6
    <3>1. Pending(p, r) /\ Pending(p, s) /\ Holds(wait_queue[s], p)
      BY <1>s, <2>5
    <3>2. s = r
      BY <3>1 DEF Pending
    <3> QED BY <1>s, <3>1, <3>2
  <2>11. \A p \in Requests, r \in Acquirable : ~InActor(p, r) /\ ~InActor(p, r)'
    BY <2>1 DEF InActor, Idle
  <2>12. OneSender'
    BY <1>s, <2>1, <2>3, <2>8, <2>9, <2>10, <2>11, SenderIsNext, Zenon
  <2> QED BY <2>1, <2>4, <2>12 DEF SenderInv, Idle
<1>6. CASE process_queue_pop
  <2> DEFINE r == actor.res
             q == Head(wait_queue[r])
  <2>1. /\ actor.at = "loop" /\ wait_queue[r] # <<>> /\ UNCHANGED acquire_rx
        /\ wait_queue' = [wait_queue EXCEPT ![r] = Tail(@)]
        /\ \/ req' = Set(q, "idle") /\ actor'.at = "loop"
           \/ UNCHANGED req /\ actor'.at = "send" /\ actor'.res = r /\ actor'.to = q
    BY <1>6 DEF process_queue_pop, Loop, Sending
  <2>2. r \in Acquirable
    BY <1>0, <1>q, <2>1, ActorTypes DEF TypeOK
  <2> HIDE DEF r
  <2>3. /\ q \in Requests /\ Injective(Tail(wait_queue[r])) /\ Holds(wait_queue[r], q)
        /\ \A x : Holds(Tail(wait_queue[r]), x) <=> Holds(wait_queue[r], x) /\ x # q
    BY <1>s, <1>q, <2>1, <2>2, LineTail
  <2> HIDE DEF q
  <2>4. /\ wait_queue'[r] = Tail(wait_queue[r])
        /\ \A s \in Resources \ {r} : wait_queue'[s] = wait_queue[s]
    BY <1>0, <2>1, <2>2 DEF TypeOK
  <2>5. Pending(q, r) /\ \A s \in Acquirable \ {r} : ~Pending(q, s)
    BY <1>s, <2>2, <2>3 DEF Pending
  <2>6. \A p \in Requests, s \in Acquirable : ~InActor(p, s)
    BY <2>1 DEF InActor
  <2>7. \A s \in Resources \ Acquirable : wait_queue'[s] = <<>>
    BY <1>q, <2>2, <2>4
  <2>8. CASE req' = Set(q, "idle") /\ actor'.at = "loop"
    <3>1. \A p \in Requests, t \in Acquirable : Pending(p, t)' <=> Pending(p, t) /\ p # q
      BY <1>0, <2>3, <2>8, SetIs DEF Pending
    <3>2. \A p \in Requests, s \in Acquirable : ~InActor(p, s)'
      BY <2>8 DEF InActor
    <3>3. OneSender'
      BY <1>0, <1>s, <2>1, <2>2, <2>3, <2>4, <2>5, <2>6, <3>1, <3>2, SenderIsNext
    <3> QED BY <2>7, <2>8, <3>3 DEF SenderInv
  <2>9. CASE UNCHANGED req /\ actor'.at = "send" /\ actor'.res = r /\ actor'.to = q
    <3>1. \A p \in Requests, t \in Acquirable : Pending(p, t)' <=> Pending(p, t)
      BY <2>9 DEF Pending
    <3>2. \A p \in Requests, s \in Acquirable : InActor(p, s)' <=> p = q /\ s = r
      BY <2>9 DEF InActor
    <3>3. OneSender'
      BY <1>0, <1>s, <2>1, <2>2, <2>3, <2>4, <2>5, <2>6, <3>1, <3>2, SenderIsNext
    <3> QED BY <2>2, <2>7, <2>9, <3>3 DEF SenderInv
  <2> QED BY <2>1, <2>8, <2>9
<1>7. CASE process_queue_send
  <2> DEFINE r == actor.res
             q == actor.to
  <2>1. /\ actor.at = "send" /\ UNCHANGED <<acquire_rx, wait_queue>> /\ actor'.at = "loop"
        /\ \E s \in {"idle", "delivered"} : req' = Set(q, s)
    BY <1>7 DEF process_queue_send, Loop, Answer
  <2>2. r \in Acquirable /\ q \in Requests
    BY <1>0, <2>1, ActorTypes DEF SenderInv, TypeOK
  <2>3. \A p \in Requests, s \in Acquirable : (InActor(p, s) <=> p = q /\ s = r) /\ ~InActor(p, s)'
    BY <2>1 DEF InActor
  <2> HIDE DEF r, q
  <2>4. Pending(q, r) /\ \A s \in Acquirable \ {r} : ~Pending(q, s)
    BY <1>s, <2>2, <2>3 DEF Pending
  <2>5. \A p \in Requests, t \in Acquirable : Pending(p, t)' <=> Pending(p, t) /\ p # q
    BY <1>0, <2>1, <2>2, SetIs DEF Pending
  <2>6. OneSender'
    BY <1>s, <2>1, <2>2, <2>3, <2>4, <2>5, SenderIsNext
  <2> QED BY <2>1, <2>6 DEF SenderInv
<1>8. CASE Shutdown
  <2>1. /\ \A r \in Resources : wait_queue'[r] = <<>>
        /\ \A r \in Acquirable : acquire_rx'[r] = <<>>
        /\ actor'.at = "stopped"
    BY <1>8 DEF Shutdown, Stopped
  <2>2. \A q \in Requests : req'[q].st \notin {"waiting", "cancelled"}
    BY <1>0, <1>8 DEF Shutdown, TypeOK
  <2> QED
    BY <1>0, <2>1, <2>2 DEF SenderInv, OneSender, Injective, Pending, InChannel, InQueue, InActor
<1>9. ASSUME UNCHANGED <<acquire_rx, wait_queue, actor, req>> PROVE SenderInv'
  <2>1. \A p \in Requests, s \in Acquirable : Pending(p, s)' <=> Pending(p, s)
    BY <1>9 DEF Pending
  <2> QED BY <1>0, <1>9, <2>1, SenderKept
<1>10. CASE Client
  BY <1>1, <1>2, <1>9, <1>10, Zenon DEF Client, SendUpdateLimits, state
<1> QED
  BY <1>3, <1>4, <1>5, <1>6, <1>7, <1>8, <1>9, <1>10 DEF Next, Manager, vars

LEMMA SenderInvariant == Spec => [](TInv /\ SenderInv)
<1>1. Init => TInv /\ SenderInv
  BY TypeInit, SenderInit
<1>2. TInv /\ SenderInv /\ [Next]_vars => (TInv /\ SenderInv)'
  BY TypeNext, SenderNext
<1> QED BY <1>1, <1>2, PTL DEF Spec

(* Every client that awaits an answer is in an acquire channel, in a wait  *)
(* queue or in the hand of handle_process_queue, exactly once: no           *)
(* interleaving of calls, cancellations, trims and grants forgets a client  *)
(* or answers it twice.                                                    *)
THEOREM OneSenderAlways == Spec => []OneSender
<1>1. SenderInv => OneSender
  BY DEF SenderInv
<1> QED BY <1>1, SenderInvariant, PTL

---------------------------------------------------------------------------
(* The permits.  Counting the Releases on the control channel.             *)

Places(s, c) == {i \in DOMAIN s : s[i] = c}
Count(s, c) == Cardinality(Places(s, c))

LEMMA CountType ==
  ASSUME NEW S, NEW s \in Seq(S), NEW c
  PROVE  /\ IsFiniteSet(Places(s, c)) /\ Count(s, c) \in Nat
         /\ Holds(s, c) => Count(s, c) > 0
<1>1. DOMAIN s = 1..Len(s) /\ Len(s) \in Nat
  OBVIOUS
<1>2. IsFiniteSet(DOMAIN s)
  BY <1>1, FS_Interval
<1>3. Places(s, c) \in SUBSET (DOMAIN s)
  BY DEF Places
<1>4. IsFiniteSet(Places(s, c)) /\ Count(s, c) \in Nat
  BY <1>2, <1>3, FS_Subset, FS_CardinalityType DEF Count
<1>5. Holds(s, c) => Places(s, c) # {}
  BY DEF Holds, Places
<1> QED BY <1>4, <1>5, FS_EmptySet DEF Count

LEMMA CountAppend ==
  ASSUME NEW S, NEW s \in Seq(S), NEW d \in S, NEW c
  PROVE  Count(Append(s, d), c) = IF d = c THEN Count(s, c) + 1 ELSE Count(s, c)
<1>1. /\ Len(s) \in Nat /\ DOMAIN s = 1..Len(s) /\ DOMAIN Append(s, d) = 1 .. Len(s) + 1
      /\ \A i \in 1..Len(s) : Append(s, d)[i] = s[i]
      /\ Append(s, d)[Len(s) + 1] = d
  OBVIOUS
<1>2. CASE d = c
  <2>1. Places(Append(s, d), c) = Places(s, c) \cup {Len(s) + 1} /\ Len(s) + 1 \notin Places(s, c)
    BY <1>1, <1>2 DEF Places
  <2> QED BY <1>2, <2>1, CountType, FS_AddElement DEF Count
<1>3. CASE d # c
  <2>1. Places(Append(s, d), c) = Places(s, c)
    BY <1>1, <1>3 DEF Places
  <2> QED BY <1>3, <2>1 DEF Count
<1> QED BY <1>2, <1>3

LEMMA CountPost ==
  \A s \in Seq(Control), d \in Control : \A c :
    Count(Append(s, d), c) = IF d = c THEN Count(s, c) + 1 ELSE Count(s, c)
  BY CountAppend

LEMMA CountTail ==
  ASSUME NEW S, NEW s \in Seq(S), s # <<>>, NEW c
  PROVE  Count(s, c) = IF Head(s) = c THEN Count(Tail(s), c) + 1 ELSE Count(Tail(s), c)
<1>1. /\ Len(s) \in Nat \ {0} /\ DOMAIN s = 1..Len(s) /\ DOMAIN Tail(s) = 1 .. Len(s) - 1
      /\ Head(s) = s[1] /\ \A i \in 1 .. Len(s) - 1 : Tail(s)[i] = s[i + 1]
      /\ Tail(s) \in Seq(S)
  OBVIOUS
<1> DEFINE A == Places(Tail(s), c)
           B == Places(s, c) \ {1}
           f == [i \in A |-> i + 1]
<1>2. IsFiniteSet(A) /\ IsFiniteSet(Places(s, c)) /\ Cardinality(A) \in Nat
  BY <1>1, CountType, Zenon DEF Count
<1>3. f \in Bijection(A, B)
  <2>1. \A i \in A : i \in Nat /\ i + 1 \in B
    BY <1>1 DEF Places
  <2>2. \A i, j \in A : i + 1 = j + 1 => i = j
    BY <2>1
  <2>3. \A j \in B : j - 1 \in A /\ (j - 1) + 1 = j
    BY <1>1 DEF Places
  <2> HIDE DEF A, B
  <2>4. f \in [A -> B] /\ \A i \in A : f[i] = i + 1
    BY <2>1
  <2>5. \A i, j \in A : f[i] = f[j] => i = j
    BY <2>2, <2>4
  <2>6. \A j \in B : \E i \in A : f[i] = j
    BY <2>3, <2>4
  <2> QED BY <2>4, <2>5, <2>6 DEF Bijection, Injection, Surjection, IsInjective
<1>4. Cardinality(A) = Cardinality(B)
  <2>1. ExistsBijection(A, B)
    BY <1>3, Zenon DEF ExistsBijection
  <2> QED BY <1>2, <2>1, FS_Bijection
<1>5. Cardinality(B) = IF 1 \in Places(s, c) THEN Cardinality(Places(s, c)) - 1
                                              ELSE Cardinality(Places(s, c))
  BY <1>2, FS_RemoveElement, Zenon
<1>6. 1 \in Places(s, c) <=> Head(s) = c
  BY <1>1 DEF Places
<1>7. Cardinality(Places(s, c)) \in Nat
  BY CountType DEF Count
<1> HIDE DEF B
<1> QED BY <1>2, <1>4, <1>5, <1>6, <1>7 DEF Count

(* Commands of another kind behind s.                                      *)
LEMMA CountConcat ==
  ASSUME NEW S, NEW s \in Seq(S), NEW t \in Seq(S), NEW c, \A i \in DOMAIN t : t[i] # c
  PROVE  Count(s \o t, c) = Count(s, c)
<1>1. /\ Len(s) \in Nat /\ Len(t) \in Nat /\ DOMAIN s = 1..Len(s) /\ DOMAIN t = 1..Len(t)
      /\ DOMAIN (s \o t) = 1 .. Len(s) + Len(t)
      /\ \A i \in 1 .. Len(s) + Len(t) :
           (s \o t)[i] = IF i <= Len(s) THEN s[i] ELSE t[i - Len(s)]
  OBVIOUS
<1>2. \A i \in 1 .. Len(s) + Len(t) : i > Len(s) => i - Len(s) \in DOMAIN t
  BY <1>1
<1>3. Places(s \o t, c) = Places(s, c)
  BY <1>1, <1>2 DEF Places
<1> QED BY <1>3 DEF Count

LEMMA ReleasesCount == \A r : Cardinality(Releases(r)) = Count(control_rx, Release(r))
  BY DEF Releases, Count, Places

LEMMA ReleasesCountNext == \A r : Cardinality(Releases(r)') = Count(control_rx', Release(r))
  BY DEF Releases, Count, Places, Release

LEMMA ReleaseIs ==
  \A r, s : /\ Release(r) = Release(s) <=> r = s
            /\ ProcessQueue(r) # Release(s)
            /\ \A u : UpdateLimits(u) # Release(s)
  BY Zenon DEF Release, ProcessQueue, UpdateLimits

(* The guards of r when the state of one request changes.                  *)
LEMMA GuardsSet ==
  ASSUME TypeOK, NEW q \in Requests, NEW s, req' = Set(q, s), NEW r
  PROVE  /\ req[q].res # r => Guards(r)' = Guards(r)
         /\ req[q].res = r /\ s \in {"delivered", "holding"} => Guards(r)' = Guards(r) \cup {q}
         /\ req[q].res = r /\ s \notin {"delivered", "holding"} => Guards(r)' = Guards(r) \ {q}
  BY SetIs DEF Guards

LEMMA GuardsSame ==
  ASSUME TypeOK, NEW q \in Requests, req[q].st \notin {"delivered", "holding"},
         NEW s, s \notin {"delivered", "holding"}, req' = Set(q, s), NEW r
  PROVE  Guards(r)' = Guards(r)
  BY SetIs DEF Guards

LEMMA GuardsType == \A r : IsFiniteSet(Guards(r)) /\ Cardinality(Guards(r)) \in Nat
<1>1. \A r : Guards(r) \in SUBSET Requests
  BY DEF Guards
<1> QED BY <1>1, ResourceAssumption, FS_Subset, FS_CardinalityType

(* in_use never exceeds what is outstanding, and equals it when no client  *)
(* runs during a handler: then the receiver handle_process_queue has found *)
(* open is still open when it sends.  The limit does not change meanwhile. *)
Account(r) ==
  /\ in_use[r] <= Outstanding(r)
  /\ ~Preemptive => in_use[r] = Outstanding(r)

CountInv ==
  /\ actor # Stopped => \A r \in Resources : Account(r)
  /\ ~Preemptive /\ actor.at = "send" => req[actor.to].st # "cancelled"
  /\ actor.at = "send" => in_use[actor.res] <= limit[actor.res]

LEMMA OutstandingIs ==
  ASSUME TypeOK
  PROVE  \A r \in Resources :
           /\ Outstanding(r) = Cardinality(Guards(r)) + Count(control_rx, Release(r)) + InHand(r)
           /\ Cardinality(Guards(r)) \in Nat /\ Count(control_rx, Release(r)) \in Nat
           /\ InHand(r) \in Nat /\ in_use[r] \in Nat
<1> TAKE r \in Resources
<1>1. Count(control_rx, Release(r)) \in Nat
  BY CountType DEF TypeOK
<1> QED BY <1>1, ReleasesCount, GuardsType DEF Outstanding, InHand, TypeOK

LEMMA OutstandingIsNext ==
  ASSUME TypeOK'
  PROVE  \A r \in Resources :
           /\ Outstanding(r)' = Cardinality(Guards(r)') + Count(control_rx', Release(r)) + InHand(r)'
           /\ Cardinality(Guards(r)') \in Nat /\ Count(control_rx', Release(r)) \in Nat
           /\ InHand(r)' \in Nat /\ in_use'[r] \in Nat
<1> TAKE r \in Resources
<1>1. Count(control_rx', Release(r)) \in Nat
  BY CountType DEF TypeOK
<1>2. IsFiniteSet(Guards(r)') /\ Cardinality(Guards(r)') \in Nat
  <2>1. Guards(r)' \in SUBSET Requests
    BY DEF Guards
  <2> QED BY <2>1, ResourceAssumption, FS_Subset, FS_CardinalityType
<1> QED BY <1>1, <1>2, ReleasesCountNext DEF Outstanding, InHand, TypeOK

(* What a step adds on one side it adds on the other.                      *)
LEMMA AccountKept ==
  ASSUME TypeOK, TypeOK', NEW r \in Resources, Account(r),
         in_use'[r] + Outstanding(r) = in_use[r] + Outstanding(r)'
  PROVE  Account(r)'
<1>1. /\ in_use[r] \in Nat /\ in_use'[r] \in Nat
      /\ Outstanding(r) \in Nat /\ Outstanding(r)' \in Nat
  BY OutstandingIs, OutstandingIsNext
<1> QED BY <1>1 DEF Account

(* trim_wait_queue answers clients that wait, or have stopped waiting.     *)
LEMMA TrimmedPending ==
  ASSUME TypeOK, SenderInv, NEW u \in LimitMap
  PROVE  \A q \in Requests : q \in Trimmed(u) => req[q].st \in {"waiting", "cancelled"}
<1> SUFFICES ASSUME NEW q \in Requests, q \in Trimmed(u)
             PROVE  req[q].st \in {"waiting", "cancelled"}
  OBVIOUS
<1>1. PICK s \in Resources : \E i \in Kept(s, u) + 1 .. Len(wait_queue[s]) : q = wait_queue[s][i]
  BY DEF Trimmed
<1>2. wait_queue[s] \in Seq(Requests)
  BY DEF TypeOK
<1>3. Kept(s, u) \in Nat
  <2>1. s \in DOMAIN u => u[s].queue \in Nat
    BY ResourceAssumption DEF LimitMap, ResourceLimitUpdate, Keep
  <2> QED BY <1>2, <2>1 DEF Kept
<1>4. PICK i \in DOMAIN wait_queue[s] : q = wait_queue[s][i]
  BY <1>1, <1>2, <1>3
<1>5. wait_queue[s] # <<>>
  BY <1>4
<1>6. s \in Acquirable /\ Holds(wait_queue[s], q)
  BY <1>4, <1>5 DEF SenderInv, Holds
<1> QED BY <1>6, SenderIs DEF SenderInv, Pending

LEMMA AccountNext ==
  ASSUME TInv, TInv', SenderInv, CountInv, [Next]_vars, actor' # Stopped, NEW r \in Resources
  PROVE  Account(r)'
<1>0. TypeOK /\ TypeOK' /\ Acquirable \subseteq Resources /\ control_rx \in Seq(Control)
  BY ResourceAssumption, Zenon DEF TInv, TypeOK
<1> DEFINE G == Cardinality(Guards(r))
           C == Count(control_rx, Release(r))
           G1 == Cardinality(Guards(r)')
           C1 == Count(control_rx', Release(r))
<1>a. /\ Outstanding(r) = G + C + InHand(r) /\ G \in Nat /\ C \in Nat /\ InHand(r) \in Nat
      /\ Outstanding(r)' = G1 + C1 + InHand(r)' /\ G1 \in Nat /\ C1 \in Nat /\ InHand(r)' \in Nat
      /\ in_use[r] \in Nat /\ in_use'[r] \in Nat
  BY <1>0, OutstandingIs, OutstandingIsNext
<1>b. actor # Stopped
  <2> SUFFICES ASSUME actor = Stopped PROVE FALSE
    OBVIOUS
  <2>1. actor # Idle /\ actor.at \notin {"loop", "send"}
    BY DEF Idle, Stopped
  <2>2. ~Manager /\ ~Shutdown
    BY <2>1 DEF Manager, handle_acquire, handle_release, handle_update_limits, process_queue_begin,
       process_queue_pop, process_queue_send, process_queue_end, Shutdown, Command
  <2>3. Client => UNCHANGED actor
    BY Zenon DEF Client, Acquire, Cancel, Receive, ReceiveError, DropGuard, SendUpdateLimits
  <2> QED BY <2>2, <2>3 DEF Next, vars
<1>c. Account(r)
  BY <1>b DEF CountInv
<1>d. UNCHANGED req => Guards(r)' = Guards(r)
  BY DEF Guards
<1>e. UNCHANGED actor => InHand(r)' = InHand(r)
  BY DEF InHand
<1>f. in_use'[r] + (G + C + InHand(r)) = in_use[r] + (G1 + C1 + InHand(r)') => Account(r)'
  BY <1>0, <1>a, <1>c, AccountKept
<1> HIDE DEF G, C, G1, C1
<1>g. Guards(r)' = Guards(r) => G1 = G
  BY DEF G, G1
<1>h. UNCHANGED control_rx => C1 = C
  BY DEF C, C1
<1>k. UNCHANGED <<in_use, control_rx, actor>> /\ Guards(r)' = Guards(r) => Account(r)'
  BY <1>a, <1>e, <1>f, <1>g, <1>h
<1>1. ASSUME NEW q \in Requests, NEW s \in Acquirable, Acquire(q, s) PROVE Account(r)'
  <2>1. /\ req[q].st = "idle" /\ UNCHANGED <<in_use, control_rx, actor>>
        /\ req'[q].st \in {"waiting", "shutdown"}
        /\ \A p \in Requests \ {q} : req'[p] = req[p]
    BY <1>0, <1>1 DEF Acquire, state, TypeOK
  <2>2. Guards(r)' = Guards(r)
    BY <2>1 DEF Guards
  <2> QED BY <1>k, <2>1, <2>2
<1>2. ASSUME NEW q \in Requests, Cancel(q) \/ Receive(q) \/ ReceiveError(q) PROVE Account(r)'
  <2>1. /\ UNCHANGED <<in_use, control_rx, actor>>
        /\ \/ req[q].st = "waiting" /\ req' = Set(q, "cancelled")
           \/ req[q].st = "delivered" /\ req' = Set(q, "holding")
           \/ req[q].st \in {"queue_full", "shutdown"} /\ req' = Set(q, "idle")
    BY <1>2 DEF Cancel, Receive, ReceiveError, state
  <2>2. Guards(r)' = Guards(r)
    BY <1>0, <2>1, SetIs DEF Guards
  <2> QED BY <1>k, <2>1, <2>2
<1>3. ASSUME NEW q \in Requests, DropGuard(q) PROVE Account(r)'
  <2>1. /\ UNCHANGED <<in_use, actor>> /\ req[q].st \in {"delivered", "holding"}
        /\ req' = Set(q, "idle") /\ control_rx' = Append(control_rx, Release(req[q].res))
    BY <1>3, <1>b DEF DropGuard, state, Post
  <2>2. req[q].res \in Resources /\ Release(req[q].res) \in Control
    BY <1>0, ControlTypes, Zenon DEF TypeOK
  <2>3. C1 = IF req[q].res = r THEN C + 1 ELSE C
    BY <1>0, <2>1, <2>2, CountAppend, ReleaseIs DEF C, C1
  <2>4. G1 = IF req[q].res = r THEN G - 1 ELSE G
    <3>1. CASE req[q].res = r
      <4>1. "idle" \notin {"delivered", "holding"}
        OBVIOUS
      <4>2. Guards(r)' = Guards(r) \ {q}
        BY <1>0, <2>1, <3>1, <4>1, GuardsSet, Zenon
      <4>3. q \in Guards(r)
        BY <2>1, <3>1, Zenon DEF Guards
      <4>4. PICK B : B = Guards(r)
        BY Zenon
      <4>5. IsFiniteSet(B) /\ q \in B
        BY <4>3, <4>4, GuardsType, Zenon
      <4>6. Cardinality(B \ {q}) = Cardinality(B) - 1
        BY <4>5, FS_RemoveElement, Zenon
      <4> QED BY <3>1, <4>2, <4>4, <4>6, Zenon DEF G, G1
    <3>2. CASE req[q].res # r
      BY <1>0, <1>g, <2>1, <3>2, GuardsSet
    <3> QED BY <3>1, <3>2
  <2> QED BY <1>a, <1>e, <1>f, <2>1, <2>3, <2>4
<1>4. ASSUME NEW u \in LimitMap, SendUpdateLimits(u) PROVE Account(r)'
  <2>1. /\ UNCHANGED <<in_use, actor, req>> /\ control_rx' = Append(control_rx, UpdateLimits(u))
    BY <1>4, <1>b DEF SendUpdateLimits, state, Post
  <2>2. UpdateLimits(u) \in Control /\ UpdateLimits(u) # Release(r)
    BY ControlTypes, ReleaseIs
  <2>3. C1 = C
    BY <1>0, <2>1, <2>2, CountAppend DEF C, C1
  <2> QED BY <1>a, <1>d, <1>e, <1>f, <1>g, <2>1, <2>3
<1>5. ASSUME NEW s \in Acquirable, handle_acquire(s) PROVE Account(r)'
  <2> DEFINE q == Head(acquire_rx[s])
  <2>1. /\ acquire_rx[s] # <<>> /\ UNCHANGED actor
        /\ \/ /\ in_use' = [in_use EXCEPT ![s] = @ + 1]
              /\ Answer(q, "delivered") /\ control_rx' = control_rx \o Bounced(q, s)
           \/ UNCHANGED <<in_use, control_rx, req>>
           \/ UNCHANGED <<in_use, control_rx>> /\ Answer(q, "queue_full")
    BY <1>5 DEF handle_acquire, state
  <2>2. q \in Requests /\ Pending(q, s)
    <3>1. acquire_rx[s] \in Seq(Requests) /\ Injective(acquire_rx[s])
      BY <1>0 DEF TypeOK, SenderInv, OneSender
    <3>2. q \in Requests /\ Holds(acquire_rx[s], q)
      BY <2>1, <3>1, LineTail
    <3> QED BY <3>2, SenderIs DEF SenderInv
  <2> HIDE DEF q
  <2>3. req[q].res = s /\ req[q].st \in {"waiting", "cancelled"} /\ q \notin Guards(s)
    BY <2>2 DEF Pending, Guards
  <2>4. CASE UNCHANGED <<in_use, control_rx, req>>
    BY <1>d, <1>k, <2>1, <2>4
  <2>5. CASE UNCHANGED <<in_use, control_rx>> /\ Answer(q, "queue_full")
    <3>1. \E x \in {"idle", "queue_full"} : req' = Set(q, x)
      BY <2>5 DEF Answer
    <3>2. Guards(r)' = Guards(r)
      BY <1>0, <2>2, <2>3, <3>1, GuardsSame
    <3> QED BY <1>k, <2>1, <2>5, <3>2
  <2>6. CASE /\ in_use' = [in_use EXCEPT ![s] = @ + 1]
             /\ Answer(q, "delivered") /\ control_rx' = control_rx \o Bounced(q, s)
    <3>1. in_use'[r] = IF r = s THEN in_use[r] + 1 ELSE in_use[r]
      BY <1>0, <2>6 DEF TypeOK
    <3>2. CASE req[q].st = "cancelled"
      <4>1. req' = Set(q, "idle") /\ control_rx' = control_rx \o <<Release(s)>>
        BY <2>6, <3>2 DEF Answer, Bounced
      <4>2. Release(s) \in Control
        BY <1>0, ControlTypes
      <4>3. control_rx' = Append(control_rx, Release(s))
        BY <1>0, <4>1, <4>2
      <4>4. C1 = IF s = r THEN C + 1 ELSE C
        BY <1>0, <4>2, <4>3, CountAppend, ReleaseIs DEF C, C1
      <4>5. Guards(r)' = Guards(r)
        BY <1>0, <2>2, <2>3, <4>1, GuardsSame
      <4> QED BY <1>a, <1>e, <1>f, <1>g, <2>1, <3>1, <4>4, <4>5, SMTT(30)
    <3>3. CASE req[q].st # "cancelled"
      <4>1. req' = Set(q, "delivered") /\ control_rx' = control_rx \o <<>>
        BY <2>6, <3>3 DEF Answer, Bounced
      <4>2. control_rx' = control_rx
        BY <1>0, <4>1
      <4>3. G1 = IF s = r THEN G + 1 ELSE G
        <5>1. CASE s = r
          <6>1. Guards(r)' = Guards(r) \cup {q}
            BY <1>0, <2>2, <2>3, <4>1, <5>1, GuardsSet
          <6> QED BY <2>3, <5>1, <6>1, GuardsType, FS_AddElement, Zenon DEF G, G1
        <5>2. CASE s # r
          BY <1>0, <1>g, <2>2, <2>3, <4>1, <5>2, GuardsSet
        <5> QED BY <5>1, <5>2
      <4> QED BY <1>a, <1>e, <1>f, <1>h, <2>1, <3>1, <4>2, <4>3
    <3> QED BY <3>2, <3>3
  <2> QED BY <2>1, <2>4, <2>5, <2>6
<1>6. CASE handle_release
  <2> DEFINE s == Head(control_rx).res
  <2>1. /\ control_rx # <<>> /\ Head(control_rx).cmd = "Release" /\ UNCHANGED <<actor, req>>
        /\ in_use' = [in_use EXCEPT ![s] = IF @ = 0 THEN 0 ELSE @ - 1]
        /\ control_rx' = Append(Tail(control_rx), ProcessQueue(s))
    BY <1>6 DEF handle_release, Command
  <2>2. Head(control_rx) \in Control /\ Tail(control_rx) \in Seq(Control)
    BY <1>0, <2>1
  <2>3. s \in Resources /\ Head(control_rx) = Release(s) /\ ProcessQueue(s) \in Control
    BY <2>1, <2>2, ControlTypes DEF Release
  <2> HIDE DEF s
  <2>4. C1 = Count(Tail(control_rx), Release(r))
    <3>1. ProcessQueue(s) # Release(r)
      BY ReleaseIs
    <3>2. Count(Append(Tail(control_rx), ProcessQueue(s)), Release(r)) = Count(Tail(control_rx), Release(r))
      BY <2>2, <2>3, <3>1, CountPost, Zenon
    <3> QED BY <2>1, <3>2 DEF C1
  <2>5. C = IF s = r THEN C1 + 1 ELSE C1
    BY <1>0, <2>1, <2>3, <2>4, CountTail, ReleaseIs DEF C
  <2>6. in_use'[r] = IF s = r THEN (IF in_use[r] = 0 THEN 0 ELSE in_use[r] - 1) ELSE in_use[r]
    BY <1>0, <2>1, <2>3, Zenon DEF TypeOK
  <2>7. G1 = G /\ InHand(r)' = InHand(r)
    BY <1>d, <1>e, <1>g, <2>1
  <2>8. CASE s = r /\ in_use[r] = 0
    <3>1. Outstanding(r) > 0 /\ Outstanding(r)' >= 0 /\ in_use'[r] = 0
      BY <1>a, <2>5, <2>6, <2>8
    <3> QED BY <1>a, <1>c, <2>8, <3>1 DEF Account
  <2>9. CASE ~(s = r /\ in_use[r] = 0)
    BY <1>a, <1>f, <2>5, <2>6, <2>7, <2>9
  <2> QED BY <2>8, <2>9
<1>7. CASE handle_update_limits
  <2> DEFINE u == Head(control_rx).limits
  <2>1. /\ control_rx # <<>> /\ Head(control_rx).cmd = "UpdateLimits" /\ UNCHANGED <<in_use, actor>>
        /\ req' = [q \in Requests |->
             IF q \notin Trimmed(u) THEN req[q]
             ELSE [req[q] EXCEPT !.st = IF @ = "cancelled" THEN "idle" ELSE "queue_full"]]
    BY <1>7 DEF handle_update_limits, Command
  <2>2. Head(control_rx) \in Control /\ Tail(control_rx) \in Seq(Control)
    BY <1>0, <2>1
  <2>3. u \in LimitMap /\ Head(control_rx) # Release(r)
    BY <2>1, <2>2, ControlTypes DEF Release
  <2>4. PICK order \in Orders(DOMAIN u) :
          control_rx' = Tail(control_rx) \o [i \in 1..Cardinality(DOMAIN u) |-> ProcessQueue(order[i])]
    BY <1>7, Zenon DEF handle_update_limits
  <2> HIDE DEF u
  <2>5. DOMAIN u \in SUBSET Resources
    BY <2>3 DEF LimitMap
  <2> DEFINE news == [i \in 1..Cardinality(DOMAIN u) |-> ProcessQueue(order[i])]
  <2>6. news \in Seq(Control) /\ \A i \in DOMAIN news : news[i] # Release(r)
    <3>1. news \in Seq(Control)
      BY <2>5, OrderSequence
    <3>2. \A i \in DOMAIN news : news[i] = ProcessQueue(order[i])
      OBVIOUS
    <3> QED BY <3>1, <3>2, ReleaseIs
  <2> HIDE DEF news
  <2>7. C1 = C
    <3>1. C1 = Count(Tail(control_rx), Release(r))
      BY <2>2, <2>4, <2>6, CountConcat, Zenon DEF C1, news
    <3> QED BY <1>0, <2>1, <2>3, <3>1, CountTail DEF C
  <2>9. \A q \in Requests : q \in Trimmed(u) => req[q].st \in {"waiting", "cancelled"}
    BY <1>0, <2>3, TrimmedPending
  <2>10. \A q \in Requests : \/ req'[q] = req[q]
                             \/ /\ req[q].st \in {"waiting", "cancelled"}
                                /\ req'[q].st \in {"idle", "queue_full"}
    BY <1>0, <2>1, <2>9 DEF TypeOK
  <2>11. Guards(r)' = Guards(r)
    BY <2>10 DEF Guards
  <2> QED BY <1>a, <1>e, <1>f, <1>g, <2>1, <2>7, <2>11
<1>8. CASE process_queue_begin
  <2>1. /\ control_rx # <<>> /\ Head(control_rx).cmd = "ProcessQueue" /\ UNCHANGED <<in_use, req>>
        /\ control_rx' = Tail(control_rx) /\ actor.at = "idle" /\ actor'.at = "loop"
    BY <1>8 DEF process_queue_begin, Command, Idle, Loop, state
  <2>2. Head(control_rx) # Release(r)
    BY <2>1 DEF Release
  <2>3. C1 = C
    BY <1>0, <2>1, <2>2, CountTail DEF C, C1
  <2>4. InHand(r) = 0 /\ InHand(r)' = 0
    BY <2>1 DEF InHand
  <2> QED BY <1>a, <1>d, <1>f, <1>g, <2>1, <2>3, <2>4
<1>9. CASE process_queue_pop
  <2> DEFINE s == actor.res
             q == Head(wait_queue[s])
  <2>1. /\ actor.at = "loop" /\ wait_queue[s] # <<>> /\ UNCHANGED control_rx
        /\ \/ /\ req[q].st = "cancelled" /\ req' = Set(q, "idle") /\ actor'.at = "loop"
              /\ UNCHANGED in_use
           \/ /\ UNCHANGED req /\ actor'.at = "send" /\ actor'.res = s
              /\ in_use' = [in_use EXCEPT ![s] = @ + 1]
    BY <1>9 DEF process_queue_pop, Loop, Sending
  <2>2. q \in Requests /\ s \in Resources
    <3>1. s \in Resources
      BY <1>0, <2>1, ActorTypes DEF TypeOK
    <3>2. wait_queue[s] \in Seq(Requests)
      BY <1>0, <3>1 DEF TypeOK
    <3> QED BY <2>1, <3>1, <3>2
  <2> HIDE DEF s, q
  <2>3. InHand(r) = 0
    BY <2>1 DEF InHand
  <2>4. CASE /\ req[q].st = "cancelled" /\ req' = Set(q, "idle") /\ actor'.at = "loop"
             /\ UNCHANGED in_use
    <3>1. Guards(r)' = Guards(r)
      BY <1>0, <2>2, <2>4, SetIs DEF Guards
    <3>2. InHand(r)' = 0
      BY <2>4 DEF InHand
    <3> QED BY <1>a, <1>f, <1>g, <1>h, <2>1, <2>3, <2>4, <3>1, <3>2
  <2>5. CASE /\ UNCHANGED req /\ actor'.at = "send" /\ actor'.res = s
             /\ in_use' = [in_use EXCEPT ![s] = @ + 1]
    <3>1. in_use'[r] = IF s = r THEN in_use[r] + 1 ELSE in_use[r]
      BY <1>0, <2>2, <2>5, Zenon DEF TypeOK
    <3>2. InHand(r)' = IF s = r THEN 1 ELSE 0
      BY <2>5 DEF InHand
    <3> QED BY <1>a, <1>d, <1>f, <1>g, <1>h, <2>1, <2>3, <2>5, <3>1, <3>2
  <2> QED BY <2>1, <2>4, <2>5
<1>10. CASE process_queue_send
  <2> DEFINE s == actor.res
             q == actor.to
  <2>1. /\ actor.at = "send" /\ actor'.at = "loop" /\ Answer(q, "delivered")
        /\ in_use' = IF req[q].st = "cancelled" THEN [in_use EXCEPT ![s] = @ - 1] ELSE in_use
        /\ control_rx' = control_rx \o Bounced(q, s)
    BY <1>10 DEF process_queue_send, Loop
  <2>2. s \in Acquirable /\ s \in Resources /\ q \in Requests
    BY <1>0, <2>1, ActorTypes, Zenon DEF SenderInv, TypeOK
  <2>3. Pending(q, s)
    <3>1. InActor(q, s)
      BY <2>1 DEF InActor
    <3> QED BY <2>2, <3>1, SenderIs DEF SenderInv
  <2>4. InHand(r) = (IF s = r THEN 1 ELSE 0) /\ InHand(r)' = 0
    BY <2>1 DEF InHand
  <2>p. ~Preemptive => req[q].st # "cancelled"
    BY <2>1 DEF CountInv
  <2>5. req[q].res = s /\ req[q].st \in {"waiting", "cancelled"} /\ q \notin Guards(s)
    BY <2>3 DEF Pending, Guards
  <2> HIDE DEF s, q
  <2>6. CASE req[q].st = "cancelled"
    <3>1. /\ req' = Set(q, "idle") /\ control_rx' = control_rx \o <<Release(s)>>
          /\ in_use' = [in_use EXCEPT ![s] = @ - 1]
      BY <2>1, <2>6 DEF Answer, Bounced
    <3>2. Release(s) \in Control
      BY <2>2, ControlTypes
    <3>3. control_rx' = Append(control_rx, Release(s))
      BY <1>0, <3>1, <3>2
    <3>4. C1 = IF s = r THEN C + 1 ELSE C
      <4>1. Release(s) = Release(r) <=> s = r
        BY ReleaseIs
      <4>2. Count(Append(control_rx, Release(s)), Release(r))
              = IF Release(s) = Release(r) THEN Count(control_rx, Release(r)) + 1
                                           ELSE Count(control_rx, Release(r))
        BY <1>0, <3>2, CountPost
      <4> QED BY <1>a, <3>3, <4>1, <4>2 DEF C, C1
    <3>5. Guards(r)' = Guards(r)
      BY <1>0, <2>2, <2>5, <3>1, GuardsSame, Zenon
    <3>6. in_use'[r] = IF s = r THEN in_use[r] - 1 ELSE in_use[r]
      BY <1>0, <2>2, <3>1, Zenon DEF TypeOK
    <3>7. Outstanding(r)' = Outstanding(r) /\ in_use'[r] <= in_use[r]
      BY <1>a, <1>g, <2>4, <3>4, <3>5, <3>6
    <3> QED BY <1>a, <1>c, <2>p, <2>6, <3>7 DEF Account
  <2>7. CASE req[q].st # "cancelled"
    <3>1. req' = Set(q, "delivered") /\ control_rx' = control_rx \o <<>> /\ in_use' = in_use
      BY <2>1, <2>7 DEF Answer, Bounced
    <3>2. control_rx' = control_rx
      BY <1>0, <3>1
    <3>3. G1 = IF s = r THEN G + 1 ELSE G
      <4>1. CASE s = r
        <5>1. Guards(r)' = Guards(r) \cup {q}
          BY <1>0, <2>2, <2>5, <3>1, <4>1, GuardsSet
        <5> QED BY <2>5, <4>1, <5>1, GuardsType, FS_AddElement DEF G, G1
      <4>2. CASE s # r
        BY <1>0, <1>g, <2>2, <2>5, <3>1, <4>2, GuardsSet
      <4> QED BY <4>1, <4>2
    <3> QED BY <1>a, <1>f, <1>h, <2>4, <3>1, <3>2, <3>3
  <2> QED BY <2>6, <2>7
<1>11. CASE process_queue_end
  <2>1. /\ actor.at = "loop" /\ actor'.at = "idle" /\ UNCHANGED <<in_use, req>>
        /\ \/ control_rx' = control_rx
           \/ control_rx' = Append(control_rx, ProcessQueue(actor.res))
    BY <1>11 DEF process_queue_end, Idle, state
  <2>2. ProcessQueue(actor.res) \in Control /\ ProcessQueue(actor.res) # Release(r)
    BY <1>0, <2>1, ActorTypes, ControlTypes, ReleaseIs DEF TypeOK
  <2>3. C1 = C
    <3>1. Count(Append(control_rx, ProcessQueue(actor.res)), Release(r)) = Count(control_rx, Release(r))
      BY <1>0, <2>2, CountAppend
    <3> QED BY <1>h, <2>1, <3>1, Zenon DEF C, C1
  <2>4. InHand(r) = 0 /\ InHand(r)' = 0
    BY <2>1 DEF InHand
  <2> QED BY <1>a, <1>d, <1>f, <1>g, <2>1, <2>3, <2>4
<1>12. CASE Shutdown
  BY <1>12 DEF Shutdown
<1>13. CASE UNCHANGED vars
  BY <1>d, <1>k, <1>13 DEF vars
<1> QED
  BY <1>1, <1>2, <1>3, <1>4, <1>5, <1>6, <1>7, <1>8, <1>9, <1>10, <1>11, <1>12, <1>13
  DEF Next, Client, Manager

LEMMA CountInit == Init => CountInv
<1> SUFFICES ASSUME Init PROVE CountInv
  OBVIOUS
<1>1. TypeOK
  BY TypeInit DEF TInv
<1>2. actor.at = "idle" /\ control_rx = <<>>
  BY DEF Init, Idle
<1>3. ASSUME NEW r \in Resources PROVE Account(r)
  <2>1. Guards(r) = {} /\ Places(control_rx, Release(r)) = {}
    BY <1>2 DEF Init, Guards, Places
  <2>2. Cardinality(Guards(r)) = 0 /\ Count(control_rx, Release(r)) = 0
    BY <2>1, FS_EmptySet DEF Count
  <2>3. InHand(r) = 0 /\ in_use[r] = 0
    BY <1>2 DEF InHand, Init
  <2> QED BY <1>1, <2>2, <2>3, OutstandingIs DEF Account
<1> QED BY <1>2, <1>3 DEF CountInv

LEMMA CountNext == TInv /\ SenderInv /\ CountInv /\ [Next]_vars => CountInv'
<1> SUFFICES ASSUME TInv, SenderInv, CountInv, [Next]_vars PROVE CountInv'
  OBVIOUS
<1>0. TInv' /\ TypeOK
  BY TypeNext DEF TInv
<1>1. (actor # Stopped => \A r \in Resources : Account(r))'
  BY <1>0, AccountNext
<1>2. CASE process_queue_pop
  <2> DEFINE s == actor.res
             q == Head(wait_queue[s])
  <2>1. s \in Resources
    BY <1>0, <1>2, ActorTypes DEF TypeOK, process_queue_pop
  <2>2. \/ actor'.at = "loop"
        \/ /\ req[q].st # "cancelled" /\ UNCHANGED <<req, limit>> /\ in_use[s] < limit[s]
           /\ in_use' = [in_use EXCEPT ![s] = @ + 1]
           /\ actor'.to = q /\ actor'.res = s
    BY <1>2 DEF process_queue_pop, Loop, Sending, HasRoom
  <2> HIDE DEF s, q
  <2>3. in_use[s] \in Nat /\ limit[s] \in Nat
    BY <1>0, <2>1, ResourceAssumption DEF TypeOK
  <2>4. actor'.at = "send" => /\ req'[actor'.to].st # "cancelled" /\ actor'.res = s
                              /\ in_use'[s] = in_use[s] + 1 /\ limit'[s] = limit[s]
                              /\ in_use[s] < limit[s]
    BY <1>0, <2>1, <2>2 DEF TypeOK
  <2>5. actor'.at = "send" => in_use'[actor'.res] <= limit'[actor'.res]
    BY <2>3, <2>4
  <2> QED BY <1>1, <2>4, <2>5 DEF CountInv
<1>3. CASE Client
  <2>1. UNCHANGED <<actor, in_use, limit>> /\ (Preemptive \/ actor \in {Idle, Stopped})
    BY <1>3, Zenon DEF Client, Acquire, Cancel, Receive, ReceiveError, DropGuard, SendUpdateLimits, state,
       ClientMayRun
  <2>2. Preemptive \/ actor'.at # "send"
    BY <2>1 DEF Idle, Stopped
  <2> QED BY <1>1, <2>1, <2>2 DEF CountInv
<1>4. CASE UNCHANGED vars
  BY <1>1, <1>4 DEF CountInv, vars
<1>5. CASE \/ \E r \in Acquirable : handle_acquire(r)
           \/ handle_release \/ handle_update_limits \/ process_queue_begin
           \/ process_queue_send \/ process_queue_end \/ Shutdown
  <2>1. actor'.at # "send"
    BY <1>5 DEF handle_acquire, handle_release, handle_update_limits, process_queue_begin,
       process_queue_send, process_queue_end, Shutdown, Command, Idle, Stopped, Loop
  <2> QED BY <1>1, <2>1 DEF CountInv
<1> QED BY <1>2, <1>3, <1>4, <1>5 DEF Next, Manager

LEMMA CountInvariant == Spec => [](TInv /\ SenderInv /\ CountInv)
<1>1. Init => TInv /\ SenderInv /\ CountInv
  BY TypeInit, SenderInit, CountInit
<1>2. TInv /\ SenderInv /\ CountInv /\ [Next]_vars => (TInv /\ SenderInv /\ CountInv)'
  BY TypeNext, SenderNext, CountNext
<1> QED BY <1>1, <1>2, PTL DEF Spec

(* in_use never counts a permit nobody has, under any scheduling: every    *)
(* unit of it is a live guard, a Release on the control channel or the     *)
(* grant handle_process_queue is sending, so the capacity never shrinks.   *)
THEOREM NoPermitLeakAlways == Spec => []NoPermitLeak
<1>1. CountInv => NoPermitLeak
  BY DEF CountInv, NoPermitLeak, Account
<1> QED BY <1>1, CountInvariant, PTL

(* With client tasks and the actor on one thread, in_use is exactly the    *)
(* number of guards alive and Releases under way: the double decrement of  *)
(* handle_process_queue needs a receiver dropped between its two looks.    *)
THEOREM ExactAccountingAlways == Spec => []ExactAccounting
<1>1. CountInv => ExactAccounting
  BY DEF CountInv, ExactAccounting, Account
<1> QED BY <1>1, CountInvariant, PTL

---------------------------------------------------------------------------
(* The permit pool.  A step leaves the guards alone, ends one of them, or  *)
(* hands one out: directly, or after handle_process_queue has counted it.  *)

Others(s) == \A r \in Resources \ {s} : Guards(r)' = Guards(r)

LEMMA GuardsStep ==
  ASSUME TInv, SenderInv, [Next]_vars
  PROVE  \/ \A r \in Resources : Guards(r)' = Guards(r)
         \/ \E s \in Acquirable, q \in Requests :
              /\ q \in Guards(s) /\ Guards(s)' = Guards(s) \ {q}
              /\ Others(s) /\ UNCHANGED limit
         \/ \E s \in Acquirable, q \in Requests :
              /\ q \notin Guards(s) /\ Guards(s)' = Guards(s) \cup {q}
              /\ Others(s) /\ UNCHANGED limit
              /\ \/ actor = Idle /\ in_use[s] < limit[s]
                 \/ /\ actor.at = "send" /\ actor.res = s
                    /\ req[actor.to].st # "cancelled"
<1>0. TypeOK /\ Acquirable \subseteq Resources
  BY ResourceAssumption DEF TInv
<1> DEFINE Same == \A r \in Resources : Guards(r)' = Guards(r)
           Ends == \E s \in Acquirable, q \in Requests :
              /\ q \in Guards(s) /\ Guards(s)' = Guards(s) \ {q}
              /\ Others(s) /\ UNCHANGED limit
           Given(s, q) ==
              /\ q \notin Guards(s) /\ Guards(s)' = Guards(s) \cup {q}
              /\ Others(s) /\ UNCHANGED limit
              /\ \/ actor = Idle /\ in_use[s] < limit[s]
                 \/ /\ actor.at = "send" /\ actor.res = s
                    /\ req[actor.to].st # "cancelled"
           Starts == \E s \in Acquirable, q \in Requests : Given(s, q)
<1> SUFFICES Same \/ Ends \/ Starts
  OBVIOUS
<1>1. UNCHANGED req => Same
  BY DEF Guards
<1>2. ASSUME NEW q \in Requests, NEW x, req' = Set(q, x),
             req[q].st \notin {"delivered", "holding"}, x \notin {"delivered", "holding"}
      PROVE  Same
  BY <1>0, <1>2, GuardsSame
<1>3. ASSUME NEW q \in Requests, NEW s \in Acquirable, Pending(q, s), req' = Set(q, "delivered")
      PROVE  q \notin Guards(s) /\ Guards(s)' = Guards(s) \cup {q} /\ Others(s)
  <2>1. req[q].res = s /\ q \notin Guards(s)
    BY <1>3 DEF Pending, Guards
  <2>2. Guards(s)' = Guards(s) \cup {q} /\ Others(s)
    BY <1>0, <1>3, <2>1, GuardsSet DEF Others
  <2> QED BY <2>1, <2>2
<1>4. ASSUME NEW q \in Requests, NEW s \in Acquirable, Acquire(q, s) PROVE Same
  <2>1. /\ req[q].st = "idle" /\ req'[q].st \in {"waiting", "shutdown"}
        /\ \A p \in Requests \ {q} : req'[p] = req[p]
    BY <1>0, <1>4 DEF Acquire, state, TypeOK
  <2> QED BY <2>1 DEF Guards
<1>5. ASSUME NEW q \in Requests, Cancel(q) \/ ReceiveError(q) PROVE Same
  <2>1. /\ req[q].st \notin {"delivered", "holding"}
        /\ req' = Set(q, "cancelled") \/ req' = Set(q, "idle")
    BY <1>5 DEF Cancel, ReceiveError
  <2> QED BY <1>2, <2>1
<1>6. ASSUME NEW q \in Requests, Receive(q) PROVE Same
  <2>1. req[q].st = "delivered" /\ req' = Set(q, "holding")
    BY <1>6 DEF Receive
  <2> QED BY <1>0, <2>1, SetIs DEF Guards
<1>7. ASSUME NEW q \in Requests, DropGuard(q) PROVE Ends
  <2>1. req[q].st \in {"delivered", "holding"} /\ req' = Set(q, "idle") /\ UNCHANGED limit
    BY <1>7 DEF DropGuard, state
  <2>2. PICK s \in Acquirable : s = req[q].res
    BY <1>0 DEF TypeOK
  <2>3. q \in Guards(s)
    BY <2>1, <2>2 DEF Guards
  <2>4. Guards(s)' = Guards(s) \ {q} /\ Others(s)
    BY <1>0, <2>1, <2>2, GuardsSet DEF Others
  <2> QED BY <2>1, <2>3, <2>4
<1>8. ASSUME NEW s \in Acquirable, handle_acquire(s) PROVE Same \/ Starts
  <2> DEFINE q == Head(acquire_rx[s])
  <2>1. /\ acquire_rx[s] # <<>> /\ actor = Idle /\ UNCHANGED limit
        /\ \/ in_use[s] < limit[s] /\ Answer(q, "delivered")
           \/ UNCHANGED req
           \/ Answer(q, "queue_full")
    BY <1>8 DEF handle_acquire, state, HasRoom
  <2>2. q \in Requests /\ Pending(q, s)
    <3>1. acquire_rx[s] \in Seq(Requests) /\ Injective(acquire_rx[s])
      BY <1>0 DEF TypeOK, SenderInv, OneSender
    <3>2. q \in Requests /\ Holds(acquire_rx[s], q)
      BY <2>1, <3>1, LineTail
    <3> QED BY <3>2, SenderIs DEF SenderInv
  <2> HIDE DEF q
  <2>3. req[q].st \notin {"delivered", "holding"}
    BY <2>2 DEF Pending
  <2>4. CASE UNCHANGED req
    BY <1>1, <2>4
  <2>5. CASE req[q].st = "cancelled" \/ Answer(q, "queue_full")
    <3>1. UNCHANGED req \/ \E x \in {"idle", "queue_full"} : req' = Set(q, x)
      BY <2>1, <2>5 DEF Answer
    <3> QED BY <1>1, <1>2, <2>2, <2>3, <3>1
  <2>6. CASE in_use[s] < limit[s] /\ Answer(q, "delivered") /\ req[q].st # "cancelled"
    <3>1. req' = Set(q, "delivered")
      BY <2>6 DEF Answer
    <3>2. Given(s, q)
      BY <1>3, <2>1, <2>2, <2>6, <3>1
    <3> QED BY <2>2, <3>2
  <2> QED BY <2>1, <2>4, <2>5, <2>6
<1>9. CASE handle_update_limits
  <2> DEFINE u == Head(control_rx).limits
  <2>1. /\ control_rx # <<>> /\ Head(control_rx).cmd = "UpdateLimits"
        /\ req' = [q \in Requests |->
             IF q \notin Trimmed(u) THEN req[q]
             ELSE [req[q] EXCEPT !.st = IF @ = "cancelled" THEN "idle" ELSE "queue_full"]]
    BY <1>9 DEF handle_update_limits, Command
  <2>2. Head(control_rx) \in Control
    BY <1>0, <2>1 DEF TypeOK
  <2>3. u \in LimitMap
    BY <2>1, <2>2, ControlTypes
  <2> HIDE DEF u
  <2>4. \A q \in Requests : q \in Trimmed(u) => req[q].st \in {"waiting", "cancelled"}
    BY <1>0, <2>3, TrimmedPending
  <2>5. \A q \in Requests : \/ req'[q] = req[q]
                            \/ /\ req[q].st \in {"waiting", "cancelled"}
                               /\ req'[q].st \in {"idle", "queue_full"}
    BY <1>0, <2>1, <2>4 DEF TypeOK
  <2> QED BY <2>5 DEF Guards
<1>10. CASE process_queue_pop
  <2>1. actor.at = "loop" /\ wait_queue[actor.res] # <<>>
    BY <1>10 DEF process_queue_pop
  <2>2. actor.res \in Resources
    BY <1>0, <2>1, ActorTypes DEF TypeOK
  <2>3. wait_queue[actor.res] \in Seq(Requests)
    BY <1>0, <2>2 DEF TypeOK
  <2> DEFINE q == Head(wait_queue[actor.res])
  <2>4. q \in Requests
    BY <2>1, <2>3
  <2>5. UNCHANGED req \/ (req[q].st = "cancelled" /\ req' = Set(q, "idle"))
    BY <1>10 DEF process_queue_pop
  <2> HIDE DEF q
  <2> QED BY <1>1, <1>2, <2>4, <2>5
<1>11. CASE process_queue_send
  <2>1. actor.at = "send" /\ UNCHANGED limit /\ Answer(actor.to, "delivered")
    BY <1>11 DEF process_queue_send
  <2>2. PICK s \in Acquirable, q \in Requests : s = actor.res /\ q = actor.to
    BY <1>0, <2>1, ActorTypes DEF SenderInv, TypeOK
  <2>3. Pending(q, s)
    <3>1. InActor(q, s)
      BY <2>1, <2>2 DEF InActor
    <3> QED BY <3>1, SenderIs DEF SenderInv
  <2>4. CASE req[q].st = "cancelled"
    <3>1. req' = Set(q, "idle")
      BY <2>1, <2>2, <2>4 DEF Answer
    <3> QED BY <1>2, <2>2, <2>4, <3>1
  <2>5. CASE req[q].st # "cancelled"
    <3>1. req' = Set(q, "delivered")
      BY <2>1, <2>2, <2>5 DEF Answer
    <3>2. q \notin Guards(s) /\ Guards(s)' = Guards(s) \cup {q} /\ Others(s)
      BY <1>3, <2>3, <3>1
    <3>3. Given(s, q)
      BY <2>1, <2>2, <2>5, <3>2
    <3> QED BY <3>3
  <2> QED BY <2>4, <2>5
<1>12. CASE Shutdown
  <2>1. \A q \in Requests : \/ req'[q] = req[q]
                            \/ /\ req[q].st \in {"waiting", "cancelled"}
                               /\ req'[q].st \in {"idle", "shutdown"}
    BY <1>0, <1>12 DEF Shutdown, TypeOK
  <2> QED BY <2>1 DEF Guards
<1>13. CASE \/ handle_release \/ process_queue_begin \/ process_queue_end
            \/ \E u \in LimitMap : SendUpdateLimits(u)
            \/ UNCHANGED vars
  <2>1. UNCHANGED req
    BY <1>13, Zenon DEF handle_release, process_queue_begin, process_queue_end, SendUpdateLimits, vars
  <2> QED BY <1>1, <2>1
<1> HIDE DEF Same, Ends, Starts
<1> QED
  BY <1>4, <1>5, <1>6, <1>7, <1>8, <1>9, <1>10, <1>11, <1>12, <1>13 DEF Next, Client, Manager

LEMMA PoolCardinality == \A S : Pool!Cardinality(S) = Cardinality(S)
  BY Zenon DEF Pool!Cardinality, Cardinality

(* A manager whose clients never run during one of its handlers implements *)
(* the permit pool: handle_acquire and handle_process_queue make a permit  *)
(* live only while fewer than `limit` of its kind are, a dropped guard     *)
(* returns one, and an update of the limits revokes none.                  *)
THEOREM ManagerImplementsPermitPool ==
  ASSUME ~Preemptive
  PROVE  Spec => ImplementsPermitPool
<1>1. Init => Pool!Init
  <2> SUFFICES ASSUME Init PROVE Pool!Init
    OBVIOUS
  <2>1. \A r \in Resources : Guards(r) = {}
    BY DEF Init, Guards
  <2>2. limit \in [Resources -> Nat]
    BY ResourceAssumption DEF Init
  <2> QED BY <2>1, <2>2 DEF Pool!Init
<1>2. TInv /\ TInv' /\ SenderInv /\ CountInv /\ [Next]_vars => [Pool!Next]_(Pool!poolVars)
  <2> SUFFICES ASSUME TInv, TInv', SenderInv, CountInv, [Next]_vars
               PROVE  Pool!Next \/ UNCHANGED Pool!poolVars
    OBVIOUS
  <2>0. /\ TypeOK /\ Acquirable \subseteq Resources
        /\ limit \in [Resources -> Nat] /\ limit' \in [Resources -> Nat]
    <3>1. 0..MaxLimit \subseteq Nat /\ Acquirable \subseteq Resources
      BY ResourceAssumption
    <3>2. limit \in [Resources -> 0..MaxLimit] /\ limit' \in [Resources -> 0..MaxLimit] /\ TypeOK
      BY DEF TInv, TypeOK
    <3> QED BY <3>1, <3>2
  <2>1. CASE \A r \in Resources : Guards(r)' = Guards(r)
    <3>1. [r \in Resources |-> Guards(r)]' = [r \in Resources |-> Guards(r)]
      BY <2>1
    <3>2. Pool!Resize
      BY <2>0, <3>1 DEF Pool!Resize
    <3> QED BY <3>2 DEF Pool!Next
  <2>2. ASSUME NEW s \in Acquirable, NEW q \in Requests,
               q \in Guards(s), Guards(s)' = Guards(s) \ {q}, Others(s), UNCHANGED limit
        PROVE  Pool!Next
    <3>1. [r \in Resources |-> Guards(r)]' = [[r \in Resources |-> Guards(r)] EXCEPT ![s] = @ \ {q}]
      BY <2>0, <2>2, Zenon DEF Others
    <3>2. Pool!Return(s, q)
      BY <2>0, <2>2, <3>1 DEF Pool!Return
    <3> QED BY <2>0, <3>2 DEF Pool!Next
  <2>3. ASSUME NEW s \in Acquirable, NEW q \in Requests,
               q \notin Guards(s), Guards(s)' = Guards(s) \cup {q}, Others(s), UNCHANGED limit,
               \/ actor = Idle /\ in_use[s] < limit[s]
               \/ actor.at = "send" /\ actor.res = s /\ req[actor.to].st # "cancelled"
        PROVE  Pool!Next
    <3>1. [r \in Resources |-> Guards(r)]' = [[r \in Resources |-> Guards(r)] EXCEPT ![s] = @ \cup {q}]
      BY <2>0, <2>3, Zenon DEF Others
    <3>2. Cardinality(Guards(s)) < limit[s]
      <4>1. /\ Outstanding(s) = Cardinality(Guards(s)) + Count(control_rx, Release(s)) + InHand(s)
            /\ Cardinality(Guards(s)) \in Nat /\ Count(control_rx, Release(s)) \in Nat
            /\ InHand(s) \in Nat /\ in_use[s] \in Nat
        BY <2>0, OutstandingIs
      <4>l. limit[s] \in Nat
        BY <2>0
      <4>2. actor # Stopped
        BY <2>3 DEF Idle, Stopped
      <4>3. in_use[s] = Outstanding(s)
        BY <2>0, <4>2 DEF CountInv, Account
      <4>4. CASE actor = Idle /\ in_use[s] < limit[s]
        BY <4>1, <4>l, <4>3, <4>4
      <4>5. CASE actor.at = "send" /\ actor.res = s
        <5>1. InHand(s) = 1 /\ in_use[s] <= limit[s]
          BY <4>5 DEF InHand, CountInv
        <5> QED BY <4>1, <4>l, <4>3, <5>1
      <4> QED BY <2>3, <4>4, <4>5
    <3>3. Pool!Grant(s, q)
      <4>1. s \in Resources /\ [r \in Resources |-> Guards(r)][s] = Guards(s)
        BY <2>0
      <4>2. /\ q \notin [r \in Resources |-> Guards(r)][s]
            /\ Cardinality([r \in Resources |-> Guards(r)][s]) < limit[s]
        BY <2>3, <3>2, <4>1
      <4>3. limit' = limit
        BY <2>3
      <4> QED BY <3>1, <4>2, <4>3, PoolCardinality, Zenon DEF Pool!Grant
    <3> QED BY <2>0, <3>3 DEF Pool!Next
  <2> QED BY <2>1, <2>2, <2>3, GuardsStep
<1> QED BY <1>1, <1>2, CountInvariant, PTL DEF Spec, ImplementsPermitPool, Pool!Spec

---------------------------------------------------------------------------
(* The bounded queue.                                                      *)

LEMMA BoundNext == TInv /\ QueueBound /\ [Next]_vars => QueueBound'
<1> SUFFICES ASSUME TInv, QueueBound, [Next]_vars, NEW r \in Resources
             PROVE  Len(wait_queue'[r]) <= max_queue_size'[r]
  BY DEF QueueBound
<1>0. TypeOK /\ TypeOK' /\ Acquirable \subseteq Resources
  BY TypeNext, ResourceAssumption DEF TInv
<1>1. /\ wait_queue[r] \in Seq(Requests) /\ Len(wait_queue[r]) \in Nat
      /\ max_queue_size[r] \in Nat /\ Len(wait_queue[r]) <= max_queue_size[r]
  BY <1>0, ResourceAssumption DEF TypeOK, QueueBound
<1>2. CASE UNCHANGED <<wait_queue, max_queue_size>>
  BY <1>1, <1>2
<1>3. ASSUME NEW s \in Acquirable, handle_acquire(s) PROVE Len(wait_queue'[r]) <= max_queue_size'[r]
  <2>1. CASE UNCHANGED <<wait_queue, max_queue_size>>
    BY <1>2, <2>1
  <2>2. CASE /\ Len(wait_queue[s]) < max_queue_size[s] /\ UNCHANGED max_queue_size
             /\ wait_queue' = [wait_queue EXCEPT ![s] = Append(@, Head(acquire_rx[s]))]
    <3>1. CASE r = s
      <4>1. wait_queue'[r] = Append(wait_queue[r], Head(acquire_rx[s]))
        BY <1>0, <2>2, <3>1 DEF TypeOK
      <4>2. Len(wait_queue'[r]) = Len(wait_queue[r]) + 1
        BY <1>1, <4>1
      <4> QED BY <1>1, <2>2, <3>1, <4>2
    <3>2. CASE r # s
      BY <1>0, <1>1, <2>2, <3>2 DEF TypeOK
    <3> QED BY <3>1, <3>2
  <2> QED BY <1>3, <2>1, <2>2 DEF handle_acquire, state
<1>4. CASE handle_update_limits
  <2> DEFINE u == Head(control_rx).limits
  <2>1. /\ control_rx # <<>> /\ Head(control_rx).cmd = "UpdateLimits"
        /\ max_queue_size'[r] = NewQueueSize(r, u)
        /\ wait_queue'[r] = SubSeq(wait_queue[r], 1, Kept(r, u))
    BY <1>4, Zenon DEF handle_update_limits, Command
  <2>2. Head(control_rx) \in Control
    BY <1>0, <2>1 DEF TypeOK
  <2>3. u \in LimitMap
    BY <2>1, <2>2, ControlTypes
  <2> HIDE DEF u
  <2>4. r \in DOMAIN u => u[r].queue \in Nat
    BY <2>3, ResourceAssumption DEF LimitMap, ResourceLimitUpdate, Keep
  <2>5. Kept(r, u) \in 0..Len(wait_queue[r]) /\ Kept(r, u) <= NewQueueSize(r, u)
    BY <1>1, <2>4 DEF Kept, NewQueueSize
  <2>6. Len(SubSeq(wait_queue[r], 1, Kept(r, u))) = Kept(r, u)
    BY <1>1, <2>5
  <2> QED BY <2>1, <2>5, <2>6
<1>5. CASE process_queue_pop
  <2>1. /\ actor.at = "loop" /\ wait_queue[actor.res] # <<>> /\ UNCHANGED max_queue_size
        /\ wait_queue' = [wait_queue EXCEPT ![actor.res] = Tail(@)]
    BY <1>5 DEF process_queue_pop
  <2>2. CASE r = actor.res
    <3>1. wait_queue'[r] = Tail(wait_queue[r])
      BY <1>0, <2>1, <2>2, Zenon DEF TypeOK
    <3>2. wait_queue[r] # <<>>
      BY <2>1, <2>2
    <3>3. Len(wait_queue'[r]) = Len(wait_queue[r]) - 1
      BY <1>1, <3>1, <3>2
    <3> QED BY <1>1, <2>1, <3>3
  <2>3. CASE r # actor.res
    BY <1>0, <1>1, <2>1, <2>3 DEF TypeOK
  <2> QED BY <2>2, <2>3
<1>6. CASE Shutdown
  <2>1. wait_queue'[r] = <<>> /\ UNCHANGED max_queue_size
    BY <1>6 DEF Shutdown
  <2> QED BY <1>1, <2>1
<1>7. Client \/ handle_release \/ process_queue_begin \/ process_queue_send \/ process_queue_end
        => UNCHANGED <<wait_queue, max_queue_size>>
  BY Zenon DEF Client, Acquire, Cancel, Receive, ReceiveError, DropGuard, SendUpdateLimits, state,
     handle_release, process_queue_begin, process_queue_send, process_queue_end
<1> QED BY <1>2, <1>3, <1>4, <1>5, <1>6, <1>7 DEF Next, Manager, vars

(* No more clients wait for a resource than the queue size in force        *)
(* allows, also right after update_limits_and_queue_sizes has lowered it.  *)
THEOREM QueueBoundAlways == Spec => []QueueBound
<1>1. Init => QueueBound
  <2> SUFFICES ASSUME Init, NEW r \in Resources PROVE Len(wait_queue[r]) <= max_queue_size[r]
    BY DEF QueueBound
  <2>1. wait_queue[r] = <<>> /\ max_queue_size[r] \in 0..MaxLimit
    BY DEF Init
  <2> QED BY <2>1, ResourceAssumption
<1>2. Init => TInv
  BY TypeInit
<1>3. TInv /\ [Next]_vars => TInv'
  BY TypeNext
<1> QED BY <1>1, <1>2, <1>3, BoundNext, PTL DEF Spec
===========================================================================
